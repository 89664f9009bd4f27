----------------------------- MODULE Luna_proofs -----------------------------
(***************************************************************************)
(* Proofs about one run of luna: what decides its exit code, what it asks  *)
(* of a server, when it starts one, and what it prints.                    *)
(***************************************************************************)
EXTENDS Luna, NumberFacts, FunctionTheorems, SequenceTheorems, TLAPS

-----------------------------------------------------------------------------
(* What luna makes of its command line                                     *)

\* FirstError finds an error if there is one, and it is one of the stages'.
LEMMA FirstErrorIs ==
  ASSUME NEW stages, DOMAIN stages \subseteq Nat
  PROVE  /\ FirstError(stages) = "none" => \A k \in DOMAIN stages : stages[k] = "none"
         /\ FirstError(stages) # "none" =>
              \E k \in DOMAIN stages : /\ FirstError(stages) = stages[k] /\ stages[k] # "none"
                                       /\ \A j \in DOMAIN stages : j < k => stages[j] = "none"
<1> DEFINE failed == {k \in DOMAIN stages : stages[k] # "none"}
<1>1. CASE failed = {}
  BY <1>1 DEF FirstError
<1>2. CASE failed # {}
  <2>1. PICK n \in failed : \A j \in failed : n <= j
    BY <1>2, LeastNumber
  <2> DEFINE first == CHOOSE k \in failed : \A j \in failed : k <= j
  <2>2. first \in failed /\ \A j \in failed : first <= j
    BY <2>1
  <2>3. FirstError(stages) = stages[first]
    BY <1>2 DEF FirstError
  <2>4. \A j \in DOMAIN stages : j < first => stages[j] = "none"
    <3> HIDE DEF first
    <3> QED
      BY <2>2
  <2> QED
    BY <2>2, <2>3, <2>4
<1> QED
  BY <1>1, <1>2

\* Of four stages, the first error is the first that is one.
LEMMA FirstOfFour ==
  ASSUME NEW a, NEW b, NEW c, NEW d
  PROVE  FirstError(<<a, b, c, d>>) =
           IF a # "none" THEN a ELSE IF b # "none" THEN b ELSE IF c # "none" THEN c ELSE d
<1> DEFINE stages == <<a, b, c, d>>
<1>1. DOMAIN stages = 1..4
  OBVIOUS
<1>2. stages[1] = a /\ stages[2] = b /\ stages[3] = c /\ stages[4] = d
  OBVIOUS
<1> HIDE DEF stages
<1>3. CASE FirstError(stages) = "none"
  <2>1. \A k \in 1..4 : stages[k] = "none"
    BY <1>1, <1>3, FirstErrorIs
  <2> QED
    BY <1>2, <1>3, <2>1 DEF stages
<1>4. CASE FirstError(stages) # "none"
  <2>1. PICK k \in 1..4 : /\ FirstError(stages) = stages[k] /\ stages[k] # "none"
                          /\ \A j \in 1..4 : j < k => stages[j] = "none"
    BY <1>1, <1>4, FirstErrorIs
  <2>2. k = 1 \/ k = 2 \/ k = 3 \/ k = 4
    OBVIOUS
  <2> QED
    BY <1>2, <2>1, <2>2 DEF stages
<1> QED
  BY <1>3, <1>4

\* What prepare fails with is of one of two categories, and when it succeeds the
\* configuration of the thread was built.
LEMMA PrepareErrorIs ==
  ASSUME NEW l, NEW e
  PROVE  /\ PrepareError(l, e) \in {"none", "usage", "configuration"}
         /\ PrepareError(l, e) = "none" => BuildThreadConfig(l).ok
<1> DEFINE a == IF Has(l, "cwd") \/ e.cwd THEN "none" ELSE "configuration"
           b == UsageUnless(BuildThreadConfig(l).ok)
           c == UsageUnless(Get(l, "sandbox-policy-json").is # "malformed")
           d == SchemaError(l)
           f == UsageUnless(IsObject(Get(l, "turn-extra-json")))
           g == UsageUnless(Get(l, "dynamic-tools-json").is \in {"absent", "tools"})
           h == AgentError(l, e.home)
           stages == <<a, b, c, d, f, g, h>>
           Errors == {"none", "usage", "configuration"}
<1>1. PrepareError(l, e) = FirstError(stages)
  BY DEF PrepareError
<1>2. a \in Errors /\ b \in Errors /\ c \in Errors /\ d \in Errors /\ f \in Errors
        /\ g \in Errors /\ h \in Errors
  BY DEF UsageUnless, SchemaError, AgentError
<1>3. b = "none" => BuildThreadConfig(l).ok
  BY DEF UsageUnless
<1> HIDE DEF a, b, c, d, f, g, h
<1>4. DOMAIN stages = 1..7 /\ stages[2] = b /\ \A k \in 1..7 : stages[k] \in Errors
  BY <1>2
<1> HIDE DEF stages
<1>5. FirstError(stages) \in Errors
  BY <1>4, FirstErrorIs
<1>6. FirstError(stages) = "none" => stages[2] = "none"
  BY <1>4, FirstErrorIs
<1> QED
  BY <1>1, <1>3, <1>4, <1>5, <1>6

\* What two sequences one after the other hold
LEMMA RangeOfBoth ==
  ASSUME NEW T, NEW a \in Seq(T), NEW b \in Seq(T)
  PROVE  Range(a \o b) = Range(a) \cup Range(b)
<1>1. Range(a \o b) \subseteq Range(a) \cup Range(b)
  BY DEF Range
<1>2. ASSUME NEW x \in Range(a) PROVE x \in Range(a \o b)
  BY DEF Range
<1>3. ASSUME NEW x \in Range(b) PROVE x \in Range(a \o b)
  <2>1. PICK k \in 1..Len(b) : x = b[k]
    BY DEF Range
  <2>2. Len(a) + k \in 1..Len(a \o b) /\ (a \o b)[Len(a) + k] = b[k]
    BY <2>1
  <2>3. DOMAIN (a \o b) = 1..Len(a \o b)
    OBVIOUS
  <2> QED
    BY <2>1, <2>2, <2>3 DEF Range
<1> QED
  BY <1>1, <1>2, <1>3

\* SetToSeq lists the members of a finite set.
LEMMA SetToSeqIs ==
  ASSUME NEW S, IsFiniteSet(S)
  PROVE  SetToSeq(S) \in Seq(S) /\ Range(SetToSeq(S)) = S
<1> DEFINE n == Cardinality(S)
           Lists == {f \in [1..n -> S] : IsInjective(f)}
<1>1. n \in Nat /\ ExistsBijection(1..n, S)
  BY FS_CardinalityType
<1>2. PICK g \in Bijection(1..n, S) : TRUE
  BY <1>1, Fun_ExistsBij
<1>3. g \in Lists
  BY <1>2 DEF Bijection, Injection, IsInjective
<1>4. SetToSeq(S) \in [1..n -> S] /\ IsInjective(SetToSeq(S))
  <2> HIDE DEF n
  <2> QED
    BY <1>3 DEF SetToSeq, n
<1>5. SetToSeq(S) \in Injection(1..n, S)
  BY <1>4 DEF Injection, IsInjective
<1>6. SetToSeq(S) \in Surjection(1..n, S)
  <2>1. IsFiniteSet(1..n) /\ Cardinality(1..n) = n
    BY <1>1, FS_Interval
  <2> HIDE DEF n
  <2> QED
    BY <1>5, <2>1, FS_Injection DEF n
<1> HIDE DEF n
<1>7. Range(SetToSeq(S)) = S
  BY <1>4, <1>6 DEF Range, Surjection
<1> QED
  BY <1>1, <1>4, <1>7

\* The options of their own make a finite set of entries.
LEMMA FromOptionsFinite ==
  ASSUME NEW l
  PROVE  IsFiniteSet(FromOptions(l))
<1> DEFINE E(o) == ConfigEntries(l, o)
           All == E("web-search-mode") \cup E("config-profile") \cup E("model-verbosity")
                    \cup E("sandbox-network-access-enabled")
                    \cup E("sandbox-network-access-disabled") \cup E("sandbox-writable-root")
<1>1. ASSUME NEW o PROVE IsFiniteSet(E(o))
  <2>1. PICK x : E(o) = {x}
    BY DEF ConfigEntries
  <2>2. IsFiniteSet({x})
    BY FS_Singleton
  <2> QED
    BY <2>1, <2>2
<1> HIDE DEF E
<1>2. IsFiniteSet(All)
  BY <1>1, FS_Union
<1>3. FromOptions(l) \subseteq All
  BY DEF FromOptions, ConfigKey, E
<1> HIDE DEF All
<1> QED
  BY <1>2, <1>3, FS_Subset

\* When the configuration is built, it has every entry of every source, and no
\* other with its key: insert_thread_config refuses a second value of a key.
LEMMA ConfigIsWhole ==
  ASSUME NEW l \in Lines, BuildThreadConfig(l).ok
  PROVE  \A e \in Get(l, "config-json").v \cup Get(l, "config").v \cup FromOptions(l) :
           {f \in BuildThreadConfig(l).value : f[1] = e[1]} = {e}
<1> DEFINE json == Get(l, "config-json")
           given == Get(l, "config")
           more == SetToSeq(given.v) \o SetToSeq(FromOptions(l))
           config == CHOOSE h : h = [k \in Nat |-> IF k = 0 THEN Done(json.v)
                                                   ELSE InsertThreadConfig(h[k - 1], more[k])]
           E == json.v \cup {more[k] : k \in Nat}
           V == {Failed("usage")} \cup {Done(x) : x \in SUBSET E}
           step == [k \in Nat |-> [v \in V |-> InsertThreadConfig(v, more[k + 1])]]
<1>1. BuildThreadConfig(l) = config[Len(more)]
  BY DEF BuildThreadConfig, Failed
<1>2. IsFiniteSet(given.v)
  <2>1. IsFiniteSet(Absent.v)
    BY FS_EmptySet DEF Absent, Raw
  <2> QED
    BY <2>1, LinesAssumption DEF Get
<1>3. more \in Seq(given.v \cup FromOptions(l)) /\ Range(more) = given.v \cup FromOptions(l)
  <2> DEFINE a == SetToSeq(given.v)
             b == SetToSeq(FromOptions(l))
  <2>1. a \in Seq(given.v) /\ Range(a) = given.v
    BY <1>2, SetToSeqIs
  <2>2. b \in Seq(FromOptions(l)) /\ Range(b) = FromOptions(l)
    BY FromOptionsFinite, SetToSeqIs
  <2> HIDE DEF a, b, given
  <2>3. a \in Seq(given.v \cup FromOptions(l)) /\ b \in Seq(given.v \cup FromOptions(l))
    BY <2>1, <2>2
  <2>4. a \o b \in Seq(given.v \cup FromOptions(l))
    BY <2>3
  <2>5. Range(a \o b) = Range(a) \cup Range(b)
    BY <2>3, RangeOfBoth
  <2>6. more = a \o b
    BY DEF a, b, given
  <2> HIDE DEF more
  <2> QED
    BY <2>1, <2>2, <2>4, <2>5, <2>6
<1>4. \A e, f \in json.v : e[1] = f[1] => e = f
  BY LinesAssumption
<1> HIDE DEF json, given, more
<1>5. step \in [Nat -> [V -> V]]
  <2>1. ASSUME NEW k \in Nat, NEW v \in V PROVE InsertThreadConfig(v, more[k + 1]) \in V
    <3>1. CASE v = Failed("usage")
      BY <3>1 DEF InsertThreadConfig, Failed
    <3>2. ASSUME NEW x \in SUBSET E, v = Done(x) PROVE InsertThreadConfig(v, more[k + 1]) \in V
      <4>1. more[k + 1] \in E
        OBVIOUS
      <4>2. Done(x \cup {more[k + 1]}) \in V
        BY <4>1
      <4> QED
        BY <3>2, <4>2 DEF InsertThreadConfig, Done
    <3> QED
      BY <3>1, <3>2
  <2> HIDE DEF V
  <2> QED
    BY <2>1
<1>6. PICK f \in [Nat -> V] : Repeats(f, Done(json.v), step)
  <2>1. Done(json.v) \in V
    OBVIOUS
  <2> HIDE DEF V, step
  <2> QED
    BY <1>5, <2>1, Repeated
<1>7. f = [k \in Nat |-> IF k = 0 THEN Done(json.v) ELSE InsertThreadConfig(f[k - 1], more[k])]
  <2>1. ASSUME NEW k \in Nat
        PROVE  f[k] = IF k = 0 THEN Done(json.v) ELSE InsertThreadConfig(f[k - 1], more[k])
    <3>1. CASE k = 0
      BY <1>6, <3>1 DEF Repeats
    <3>2. CASE k # 0
      <4>1. PICK j \in Nat : k = j + 1
        BY <3>2
      <4>2. f[j] \in V /\ f[k] = step[j][f[j]]
        <5> HIDE DEF step, V
        <5> QED
          BY <1>6, <4>1 DEF Repeats
      <4> HIDE DEF V
      <4> QED
        BY <4>1, <4>2
    <3> QED
      BY <3>1, <3>2
  <2> HIDE DEF V
  <2> QED
    BY <2>1
<1>8. config = [k \in Nat |-> IF k = 0 THEN Done(json.v)
                             ELSE InsertThreadConfig(config[k - 1], more[k])]
  BY <1>7
<1> HIDE DEF config
<1> DEFINE Unique(c) == \A e, g \in c : e[1] = g[1] => e = g
           S == {k \in Nat : config[k].ok /\ k <= Len(more) =>
                   /\ config[k] = Done(json.v \cup {more[j] : j \in 1..k})
                   /\ Unique(json.v \cup {more[j] : j \in 1..k})}
<1>9. 0 \in S
  <2>1. config[0] = Done(json.v)
    BY <1>8
  <2>2. json.v \cup {more[j] : j \in 1..0} = json.v
    OBVIOUS
  <2> QED
    BY <1>4, <2>1, <2>2
<1>10. ASSUME NEW k \in Nat, k \in S PROVE k + 1 \in S
  <2> SUFFICES ASSUME config[k + 1].ok, k + 1 <= Len(more)
               PROVE  /\ config[k + 1] = Done(json.v \cup {more[j] : j \in 1..(k + 1)})
                      /\ Unique(json.v \cup {more[j] : j \in 1..(k + 1)})
    OBVIOUS
  <2> DEFINE c == json.v \cup {more[j] : j \in 1..k}
             new == more[k + 1]
  <2>1. config[k + 1] = InsertThreadConfig(config[k], new)
    <3>1. k + 1 \in Nat /\ k + 1 # 0 /\ (k + 1) - 1 = k
      OBVIOUS
    <3> QED
      BY <1>8, <3>1
  <2>2. config[k].ok
    BY <2>1 DEF InsertThreadConfig
  <2>3. config[k] = Done(c) /\ Unique(c)
    <3>1. k <= Len(more)
      BY <1>3
    <3> QED
      BY <1>10, <2>2, <3>1
  <2>4. json.v \cup {more[j] : j \in 1..(k + 1)} = c \cup {new}
    <3>1. 1..(k + 1) = (1..k) \cup {k + 1}
      OBVIOUS
    <3> HIDE DEF c
    <3> QED
      BY <3>1 DEF c
  <2> HIDE DEF c, new
  <2>5. config[k].ok = TRUE /\ config[k].value = c
    BY <2>3 DEF Done
  <2>6. ~ \E e \in c : e[1] = new[1] /\ e # new
    BY <2>1, <2>5 DEF InsertThreadConfig, Failed
  <2>7. config[k + 1] = Done(c \cup {new})
    BY <2>1, <2>5, <2>6 DEF InsertThreadConfig
  <2>8. Unique(c \cup {new})
    BY <2>3, <2>6
  <2> QED
    BY <2>4, <2>7, <2>8
<1>11. Len(more) \in S
  <2>1. Len(more) \in Nat
    BY <1>3
  <2> HIDE DEF S
  <2> QED
    BY <1>9, <1>10, <2>1, EveryNumber
<1> DEFINE whole == json.v \cup {more[j] : j \in 1..Len(more)}
<1>12. config[Len(more)] = Done(whole) /\ Unique(whole)
  BY <1>1, <1>11
<1>13. whole = json.v \cup given.v \cup FromOptions(l)
  BY <1>3 DEF Range
<1> HIDE DEF whole
<1>14. BuildThreadConfig(l).value = whole
  BY <1>1, <1>12 DEF Done
<1> QED
  BY <1>12, <1>13, <1>14 DEF json, given

\* What a function says that keeps of each prefix of s its members of S
KeepsOf(kept, s, S) ==
  /\ kept[0] = <<>>
  /\ \A k \in 0..(Len(s) - 1) :
       kept[k + 1] = IF s[k + 1] \in S THEN Append(kept[k], s[k + 1]) ELSE kept[k]

\* Kept, element by element.
LEMMA KeptIs ==
  ASSUME NEW T, NEW s \in Seq(T), NEW S
  PROVE  \E kept \in [Nat -> Seq(T)] : Kept(s, S) = kept[Len(s)] /\ KeepsOf(kept, s, S)
<1> DEFINE E == {s[k] : k \in Nat}
           kept == CHOOSE h : h = [k \in Nat |-> IF k = 0 THEN <<>>
                                                 ELSE IF s[k] \in S THEN Append(h[k - 1], s[k])
                                                 ELSE h[k - 1]]
           step == [k \in Nat |-> [v \in Seq(E) |->
                      IF s[k + 1] \in S THEN Append(v, s[k + 1]) ELSE v]]
<1>1. Kept(s, S) = kept[Len(s)]
  BY DEF Kept
<1>2. step \in [Nat -> [Seq(E) -> Seq(E)]]
  OBVIOUS
<1>3. PICK f \in [Nat -> Seq(E)] : Repeats(f, <<>>, step)
  <2>1. <<>> \in Seq(E)
    OBVIOUS
  <2> HIDE DEF step, E
  <2> QED
    BY <1>2, <2>1, Repeated
<1>4. f = [k \in Nat |-> IF k = 0 THEN <<>>
                        ELSE IF s[k] \in S THEN Append(f[k - 1], s[k]) ELSE f[k - 1]]
  <2>1. ASSUME NEW k \in Nat
        PROVE  f[k] = IF k = 0 THEN <<>>
                      ELSE IF s[k] \in S THEN Append(f[k - 1], s[k]) ELSE f[k - 1]
    <3>1. CASE k = 0
      BY <1>3, <3>1 DEF Repeats
    <3>2. CASE k # 0
      <4>1. PICK j \in Nat : k = j + 1
        BY <3>2
      <4>2. f[j] \in Seq(E) /\ f[k] = step[j][f[j]]
        <5> HIDE DEF step, E
        <5> QED
          BY <1>3, <4>1 DEF Repeats
      <4> QED
        BY <4>1, <4>2
    <3> QED
      BY <3>1, <3>2
  <2> QED
    BY <2>1
<1>5. kept = [k \in Nat |-> IF k = 0 THEN <<>>
                           ELSE IF s[k] \in S THEN Append(kept[k - 1], s[k]) ELSE kept[k - 1]]
  BY <1>4
<1> HIDE DEF kept
<1>6. kept[0] = <<>> /\ \A k \in Nat :
        kept[k + 1] = IF s[k + 1] \in S THEN Append(kept[k], s[k + 1]) ELSE kept[k]
  <2>1. kept[0] = <<>>
    BY <1>5
  <2>2. ASSUME NEW k \in Nat
        PROVE  kept[k + 1] = IF s[k + 1] \in S THEN Append(kept[k], s[k + 1]) ELSE kept[k]
    <3>1. k + 1 \in Nat /\ k + 1 # 0 /\ (k + 1) - 1 = k
      OBVIOUS
    <3> QED
      BY <1>5, <3>1
  <2> QED
    BY <2>1, <2>2
<1> DEFINE N == {k \in Nat : k <= Len(s) => kept[k] \in Seq(T)}
<1>7. ASSUME NEW k \in Nat PROVE k \in N
  <2>1. 0 \in N
    <3>1. <<>> \in Seq(T)
      OBVIOUS
    <3> QED
      BY <1>6, <3>1
  <2>2. ASSUME NEW j \in Nat, j \in N PROVE j + 1 \in N
    <3> SUFFICES ASSUME j + 1 <= Len(s) PROVE kept[j + 1] \in Seq(T)
      OBVIOUS
    <3>1. s[j + 1] \in T /\ kept[j] \in Seq(T)
      BY <2>2
    <3>2. kept[j + 1] = IF s[j + 1] \in S THEN Append(kept[j], s[j + 1]) ELSE kept[j]
      BY <1>6
    <3>3. Append(kept[j], s[j + 1]) \in Seq(T)
      BY <3>1
    <3> QED
      BY <3>1, <3>2, <3>3
  <2> HIDE DEF N
  <2> QED
    BY <2>1, <2>2, EveryNumber
<1> DEFINE g == [k \in Nat |-> IF k <= Len(s) THEN kept[k] ELSE <<>>]
<1>8. g \in [Nat -> Seq(T)]
  BY <1>7
<1>9. Kept(s, S) = g[Len(s)] /\ g[0] = <<>>
  BY <1>1, <1>6
<1>10. ASSUME NEW k \in 0..(Len(s) - 1)
       PROVE  g[k + 1] = IF s[k + 1] \in S THEN Append(g[k], s[k + 1]) ELSE g[k]
  <2>1. k \in Nat /\ k + 1 \in Nat /\ k <= Len(s) /\ k + 1 <= Len(s)
    OBVIOUS
  <2>2. g[k] = kept[k] /\ g[k + 1] = kept[k + 1]
    BY <2>1
  <2>3. kept[k + 1] = IF s[k + 1] \in S THEN Append(kept[k], s[k + 1]) ELSE kept[k]
    BY <1>6, <2>1
  <2> HIDE DEF g
  <2> QED
    BY <2>2, <2>3
<1> HIDE DEF g
<1> QED
  BY <1>8, <1>9, <1>10 DEF KeepsOf

\* What is kept is a sequence of what there was, and of nothing it is nothing.
LEMMA KeptType ==
  ASSUME NEW T, NEW s \in Seq(T), NEW S
  PROVE  Kept(s, S) \in Seq(T) /\ (Len(s) = 0 => Kept(s, S) = <<>>)
<1>1. PICK kept \in [Nat -> Seq(T)] : Kept(s, S) = kept[Len(s)] /\ KeepsOf(kept, s, S)
  BY KeptIs
<1>2. Len(s) \in Nat
  OBVIOUS
<1> QED
  BY <1>1, <1>2 DEF KeepsOf

\* One more element is kept, or is not.
LEMMA KeptAppend ==
  ASSUME NEW T, NEW s \in Seq(T), NEW x \in T, NEW S
  PROVE  Kept(Append(s, x), S) = IF x \in S THEN Append(Kept(s, S), x) ELSE Kept(s, S)
<1> DEFINE more == Append(s, x)
           n == Len(s)
<1>1. /\ more \in Seq(T) /\ n \in Nat /\ Len(more) = n + 1 /\ more[n + 1] = x
      /\ \A k \in 1..n : more[k] = s[k]
  OBVIOUS
<1> HIDE DEF more
<1>2. PICK f \in [Nat -> Seq(T)] : Kept(s, S) = f[n] /\ KeepsOf(f, s, S)
  BY KeptIs
<1>3. PICK g \in [Nat -> Seq(T)] : Kept(more, S) = g[Len(more)] /\ KeepsOf(g, more, S)
  BY <1>1, KeptIs
<1> DEFINE N == {k \in Nat : k <= n => g[k] = f[k]}
<1>4. n \in N
  <2>1. 0 \in N
    BY <1>2, <1>3 DEF KeepsOf
  <2>2. ASSUME NEW j \in Nat, j \in N PROVE j + 1 \in N
    <3> SUFFICES ASSUME j + 1 <= n PROVE g[j + 1] = f[j + 1]
      OBVIOUS
    <3>1. j \in 0..(n - 1) /\ j \in 0..(Len(more) - 1) /\ j + 1 \in 1..n
      BY <1>1
    <3>2. f[j + 1] = IF s[j + 1] \in S THEN Append(f[j], s[j + 1]) ELSE f[j]
      BY <1>2, <3>1 DEF KeepsOf
    <3>3. g[j + 1] = IF more[j + 1] \in S THEN Append(g[j], more[j + 1]) ELSE g[j]
      BY <1>3, <3>1 DEF KeepsOf
    <3>4. more[j + 1] = s[j + 1]
      BY <1>1, <3>1
    <3>5. g[j] = f[j]
      BY <2>2, <3>1
    <3> QED
      BY <3>2, <3>3, <3>4, <3>5
  <2> HIDE DEF N
  <2> QED
    BY <1>1, <2>1, <2>2, EveryNumber
<1>5. g[n + 1] = IF x \in S THEN Append(g[n], x) ELSE g[n]
  <2>1. n \in 0..(Len(more) - 1)
    BY <1>1
  <2> QED
    BY <1>1, <1>3, <2>1 DEF KeepsOf
<1>6. g[n] = f[n]
  BY <1>1, <1>4
<1> QED
  BY <1>1, <1>2, <1>3, <1>5, <1>6 DEF more

\* The first k elements of a sequence
Prefix(s, k) == SubSeq(s, 1, k)

\* A sequence is the last of its prefixes, each of which has one element more.
LEMMA PrefixIs ==
  ASSUME NEW T, NEW s \in Seq(T)
  PROVE  /\ Prefix(s, 0) = <<>> /\ Prefix(s, Len(s)) = s
         /\ \A j \in 0..(Len(s) - 1) : /\ Prefix(s, j) \in Seq(T) /\ s[j + 1] \in T
                                       /\ Prefix(s, j + 1) = Append(Prefix(s, j), s[j + 1])
                                       /\ j + 1 \in 1..Len(s) /\ j \in 0..Len(s)
<1>1. SubSeq(s, 1, 0) = <<>> /\ SubSeq(s, 1, Len(s)) = s
  OBVIOUS
<1>2. ASSUME NEW j \in 0..(Len(s) - 1)
      PROVE  /\ SubSeq(s, 1, j) \in Seq(T) /\ s[j + 1] \in T
             /\ SubSeq(s, 1, j + 1) = Append(SubSeq(s, 1, j), s[j + 1])
             /\ j + 1 \in 1..Len(s) /\ j \in 0..Len(s)
  OBVIOUS
<1> QED
  BY <1>1, <1>2 DEF Prefix

\* What holds of the empty prefix, and of a prefix if of the one before, holds
\* of the sequence: N is the set of the lengths of which it holds.
LEMMA EveryPrefix ==
  ASSUME NEW N, NEW n \in Nat, 0 \in N, \A j \in 0..(n - 1) : j \in N => j + 1 \in N
  PROVE  n \in N
<1> DEFINE M == {k \in Nat : k <= n => k \in N}
<1>1. 0 \in M
  OBVIOUS
<1>2. ASSUME NEW j \in Nat, j \in M PROVE j + 1 \in M
  <2> SUFFICES ASSUME j + 1 <= n PROVE j + 1 \in N
    OBVIOUS
  <2>1. j \in N /\ j \in 0..(n - 1)
    BY <1>2
  <2> QED
    BY <2>1
<1>3. n \in M
  <2> HIDE DEF M
  <2> QED
    BY <1>1, <1>2, EveryNumber
<1> QED
  BY <1>3

\* Of two sequences, one after the other, what is kept of each is kept.
LEMMA KeptConcat ==
  ASSUME NEW T, NEW s \in Seq(T), NEW t \in Seq(T), NEW S
  PROVE  Kept(s \o t, S) = Kept(s, S) \o Kept(t, S)
<1> DEFINE Holds(v) == Kept(s \o v, S) = Kept(s, S) \o Kept(v, S)
           N == {k \in Nat : Holds(Prefix(t, k))}
<1>1. Kept(s, S) \in Seq(T) /\ Kept(<<>>, S) = <<>>
  <2>1. <<>> \in Seq(T) /\ Len(<<>>) = 0
    OBVIOUS
  <2> QED
    BY <2>1, KeptType
<1>2. 0 \in N
  <2>1. s \o <<>> = s /\ Kept(s, S) \o <<>> = Kept(s, S)
    BY <1>1
  <2>2. Holds(<<>>)
    BY <1>1, <2>1
  <2> HIDE DEF Holds
  <2> QED
    BY <2>2, PrefixIs
<1>3. ASSUME NEW j \in 0..(Len(t) - 1), j \in N PROVE j + 1 \in N
  <2>1. PICK u \in Seq(T), x \in T : u = Prefix(t, j) /\ x = t[j + 1]
    BY PrefixIs
  <2>2. Kept(s \o u, S) = Kept(s, S) \o Kept(u, S)
    BY <1>3, <2>1
  <2>3. PICK v \in Seq(T) : v = s \o u
    <3>1. s \o u \in Seq(T)
      OBVIOUS
    <3> QED
      BY <3>1
  <2>4. s \o Append(u, x) = Append(v, x)
    BY <2>3
  <2>5. PICK a \in Seq(T), b \in Seq(T) : a = Kept(s, S) /\ b = Kept(u, S)
    BY <1>1, KeptType
  <2>6. Kept(Append(u, x), S) = IF x \in S THEN Append(b, x) ELSE b
    BY <2>5, KeptAppend
  <2>7. Kept(Append(v, x), S) = IF x \in S THEN Append(Kept(v, S), x) ELSE Kept(v, S)
    BY KeptAppend
  <2>8. Kept(v, S) = a \o b
    BY <2>2, <2>3, <2>5
  <2>9. a \o Append(b, x) = Append(a \o b, x)
    OBVIOUS
  <2>10. Kept(s \o Append(u, x), S) = a \o Kept(Append(u, x), S)
    BY <2>4, <2>6, <2>7, <2>8, <2>9
  <2>11. Holds(Append(u, x))
    BY <2>5, <2>10
  <2>12. Prefix(t, j + 1) = Append(u, x)
    BY <2>1, PrefixIs
  <2>13. j + 1 \in Nat
    OBVIOUS
  <2> HIDE DEF Holds
  <2> QED
    BY <2>11, <2>12, <2>13
<1>4. Len(t) \in N
  <2>1. Len(t) \in Nat
    OBVIOUS
  <2> HIDE DEF N
  <2> QED
    BY <1>2, <1>3, <2>1, EveryPrefix
<1> QED
  BY <1>4, PrefixIs

\* Sets that have the same members in a sequence keep the same of it.
LEMMA KeptSame ==
  ASSUME NEW T, NEW s \in Seq(T), NEW S, NEW U, \A k \in 1..Len(s) : s[k] \in S <=> s[k] \in U
  PROVE  Kept(s, S) = Kept(s, U)
<1> DEFINE Holds(v) == Kept(v, S) = Kept(v, U)
           N == {k \in Nat : Holds(Prefix(s, k))}
<1>1. 0 \in N
  <2>1. <<>> \in Seq(T) /\ Len(<<>>) = 0
    OBVIOUS
  <2>2. Kept(<<>>, S) = <<>>
    BY <2>1, KeptType
  <2>3. Kept(<<>>, U) = <<>>
    BY <2>1, KeptType
  <2>4. Holds(<<>>)
    BY <2>2, <2>3
  <2> HIDE DEF Holds
  <2> QED
    BY <2>4, PrefixIs
<1>2. ASSUME NEW j \in 0..(Len(s) - 1), j \in N PROVE j + 1 \in N
  <2>1. PICK u \in Seq(T), x \in T : u = Prefix(s, j) /\ x = s[j + 1]
    BY PrefixIs
  <2>2. Kept(u, S) = Kept(u, U)
    BY <1>2, <2>1
  <2>3. x \in S <=> x \in U
    BY <2>1, PrefixIs
  <2>4. Kept(Append(u, x), S) = IF x \in S THEN Append(Kept(u, S), x) ELSE Kept(u, S)
    BY KeptAppend
  <2>5. Kept(Append(u, x), U) = IF x \in U THEN Append(Kept(u, U), x) ELSE Kept(u, U)
    BY KeptAppend
  <2>6. Holds(Append(u, x))
    BY <2>2, <2>3, <2>4, <2>5
  <2>7. Prefix(s, j + 1) = Append(u, x)
    BY <2>1, PrefixIs
  <2>8. j + 1 \in Nat
    OBVIOUS
  <2> HIDE DEF Holds
  <2> QED
    BY <2>6, <2>7, <2>8
<1>3. Len(s) \in N
  <2>1. Len(s) \in Nat
    OBVIOUS
  <2> HIDE DEF N
  <2> QED
    BY <1>1, <1>2, <2>1, EveryPrefix
<1> QED
  BY <1>3, PrefixIs

\* A set with none of a sequence keeps nothing of it, one with all of it all.
LEMMA KeptOfAll ==
  ASSUME NEW T, NEW s \in Seq(T), NEW S, NEW all \in BOOLEAN,
         \A k \in 1..Len(s) : s[k] \in S <=> all
  PROVE  Kept(s, S) = IF all THEN s ELSE <<>>
<1> DEFINE Holds(v) == Kept(v, S) = IF all THEN v ELSE <<>>
           N == {k \in Nat : Holds(Prefix(s, k))}
<1>1. 0 \in N
  <2>1. <<>> \in Seq(T) /\ Len(<<>>) = 0
    OBVIOUS
  <2>2. Holds(<<>>)
    BY <2>1, KeptType
  <2> HIDE DEF Holds
  <2> QED
    BY <2>2, PrefixIs
<1>2. ASSUME NEW j \in 0..(Len(s) - 1), j \in N PROVE j + 1 \in N
  <2>1. PICK u \in Seq(T), x \in T : u = Prefix(s, j) /\ x = s[j + 1]
    BY PrefixIs
  <2>2. Kept(u, S) = IF all THEN u ELSE <<>>
    BY <1>2, <2>1
  <2>3. x \in S <=> all
    BY <2>1, PrefixIs
  <2>4. Kept(Append(u, x), S) = IF x \in S THEN Append(Kept(u, S), x) ELSE Kept(u, S)
    BY KeptAppend
  <2>5. Holds(Append(u, x))
    BY <2>2, <2>3, <2>4
  <2>6. Prefix(s, j + 1) = Append(u, x)
    BY <2>1, PrefixIs
  <2>7. j + 1 \in Nat
    OBVIOUS
  <2> HIDE DEF Holds
  <2> QED
    BY <2>5, <2>6, <2>7
<1>3. Len(s) \in N
  <2>1. Len(s) \in Nat
    OBVIOUS
  <2> HIDE DEF N
  <2> QED
    BY <1>1, <1>2, <2>1, EveryPrefix
<1> QED
  BY <1>3, PrefixIs

\* What a function says that joins the sequences of each prefix of s
JoinsOf(flat, s) ==
  /\ flat[0] = <<>>
  /\ \A k \in 0..(Len(s) - 1) : flat[k + 1] = flat[k] \o s[k + 1]

\* FlattenSeq, sequence by sequence.
LEMMA FlattenIs ==
  ASSUME NEW T, NEW s \in Seq(Seq(T))
  PROVE  \E flat \in [Nat -> Seq(T)] : FlattenSeq(s) = flat[Len(s)] /\ JoinsOf(flat, s)
<1> DEFINE n == Len(s)
           flatten == CHOOSE h : h = [i \in 1..n |-> IF i = 1 THEN s[i] ELSE h[i - 1] \o s[i]]
           step == [k \in Nat |-> [v \in Seq(T) |-> IF k + 1 \in 1..n THEN v \o s[k + 1] ELSE v]]
<1>1. n \in Nat /\ (n = 0 => s = <<>>) /\ \A k \in 1..n : s[k] \in Seq(T)
  OBVIOUS
<1>2. FlattenSeq(s) = IF n = 0 THEN s ELSE flatten[n]
  BY DEF FlattenSeq
<1>3. PICK f \in [Nat -> Seq(T)] : Repeats(f, <<>>, step)
  <2>1. step \in [Nat -> [Seq(T) -> Seq(T)]]
    <3>1. ASSUME NEW k \in Nat, NEW v \in Seq(T)
          PROVE  (IF k + 1 \in 1..n THEN v \o s[k + 1] ELSE v) \in Seq(T)
      <4>1. CASE k + 1 \in 1..n
        <5>1. s[k + 1] \in Seq(T)
          BY <1>1, <4>1
        <5>2. v \o s[k + 1] \in Seq(T)
          BY <5>1
        <5> QED
          BY <4>1, <5>2
      <4>2. CASE k + 1 \notin 1..n
        BY <4>2
      <4> QED
        BY <4>1, <4>2
    <3> QED
      BY <3>1
  <2>2. <<>> \in Seq(T)
    OBVIOUS
  <2> HIDE DEF step
  <2> QED
    BY <2>1, <2>2, Repeated
<1>4. f[0] = <<>> /\ \A k \in 0..(n - 1) : f[k + 1] = f[k] \o s[k + 1]
  <2>1. f[0] = <<>>
    BY <1>3 DEF Repeats
  <2>2. ASSUME NEW k \in 0..(n - 1) PROVE f[k + 1] = f[k] \o s[k + 1]
    <3>1. k \in Nat /\ k + 1 \in 1..n
      BY <1>1
    <3>2. f[k + 1] = step[k][f[k]]
      <4> HIDE DEF step
      <4> QED
        BY <1>3, <3>1 DEF Repeats
    <3>3. f[k] \in Seq(T)
      BY <3>1
    <3> QED
      BY <3>1, <3>2, <3>3
  <2> QED
    BY <2>1, <2>2
<1>5. CASE n = 0
  <2>1. FlattenSeq(s) = f[Len(s)]
    BY <1>1, <1>2, <1>4, <1>5
  <2> QED
    BY <1>4, <2>1 DEF JoinsOf
<1>6. CASE n # 0
  <2> DEFINE g == [i \in 1..n |-> f[i]]
  <2>1. ASSUME NEW i \in 1..n PROVE f[i] = IF i = 1 THEN s[i] ELSE g[i - 1] \o s[i]
    <3>1. PICK k \in 0..(n - 1) : i = k + 1
      <4>1. i - 1 \in 0..(n - 1) /\ i = (i - 1) + 1
        BY <1>1
      <4> QED
        BY <4>1
    <3>2. f[i] = f[k] \o s[i]
      BY <1>4, <3>1
    <3>3. CASE k = 0
      <4>1. s[i] \in Seq(T)
        BY <1>1
      <4>2. <<>> \o s[i] = s[i]
        BY <4>1
      <4>3. i = 1 /\ f[k] = <<>>
        BY <1>4, <3>1, <3>3
      <4>4. f[i] = s[i]
        BY <3>2, <4>2, <4>3
      <4> QED
        BY <4>3, <4>4
    <3>4. CASE k # 0
      <4>1. i # 1 /\ i - 1 = k /\ k \in 1..n
        BY <1>1, <3>1, <3>4
      <4> QED
        BY <3>2, <4>1
    <3> QED
      BY <3>3, <3>4
  <2>2. g = [i \in 1..n |-> IF i = 1 THEN s[i] ELSE g[i - 1] \o s[i]]
    BY <2>1
  <2>3. flatten = [i \in 1..n |-> IF i = 1 THEN s[i] ELSE flatten[i - 1] \o s[i]]
    <3> HIDE DEF g
    <3> QED
      BY <2>2
  <2> HIDE DEF flatten
  <2> DEFINE N == {k \in Nat : k \in 1..n => flatten[k] = f[k]}
  <2>4. n \in N
    <3>1. 0 \in N
      OBVIOUS
    <3>2. ASSUME NEW j \in 0..(n - 1), j \in N PROVE j + 1 \in N
      <4>1. j + 1 \in 1..n /\ (j + 1) - 1 = j /\ j \in Nat /\ j + 1 \in Nat
        BY <1>1
      <4>2. flatten[j + 1] = IF j + 1 = 1 THEN s[j + 1] ELSE flatten[j] \o s[j + 1]
        BY <2>3, <4>1
      <4>3. f[j + 1] = f[j] \o s[j + 1]
        BY <1>4
      <4>4. CASE j = 0
        <5>1. s[j + 1] \in Seq(T)
          BY <1>1, <4>1
        <5>2. <<>> \o s[j + 1] = s[j + 1]
          BY <5>1
        <5>3. j + 1 = 1 /\ f[j] = <<>>
          BY <1>4, <4>4
        <5>4. flatten[j + 1] = f[j + 1]
          BY <4>2, <4>3, <5>2, <5>3
        <5> QED
          BY <4>1, <5>4
      <4>5. CASE j # 0
        <5>1. flatten[j] = f[j] /\ j + 1 # 1
          BY <1>1, <3>2, <4>5
        <5> QED
          BY <4>1, <4>2, <4>3, <5>1
      <4> QED
        BY <4>4, <4>5
    <3> HIDE DEF N, n
    <3> QED
      BY <1>1, <3>1, <3>2, EveryPrefix
  <2>5. FlattenSeq(s) = f[Len(s)]
    BY <1>1, <1>2, <1>6, <2>4
  <2> QED
    BY <1>4, <2>5 DEF JoinsOf
<1> QED
  BY <1>5, <1>6

\* It is a sequence of what is in the sequences.
LEMMA FlattenType ==
  ASSUME NEW T, NEW s \in Seq(Seq(T))
  PROVE  FlattenSeq(s) \in Seq(T) /\ (Len(s) = 0 => FlattenSeq(s) = <<>>)
<1>1. PICK f \in [Nat -> Seq(T)] : FlattenSeq(s) = f[Len(s)] /\ JoinsOf(f, s)
  BY FlattenIs
<1>2. Len(s) \in Nat
  OBVIOUS
<1> QED
  BY <1>1, <1>2 DEF JoinsOf

\* One more sequence is joined at the end.
LEMMA FlattenAppend ==
  ASSUME NEW T, NEW s \in Seq(Seq(T)), NEW x \in Seq(T)
  PROVE  FlattenSeq(Append(s, x)) = FlattenSeq(s) \o x
<1> DEFINE n == Len(s)
<1>1. PICK more \in Seq(Seq(T)) : more = Append(s, x)
  <2>1. Append(s, x) \in Seq(Seq(T))
    OBVIOUS
  <2> QED
    BY <2>1
<1>2. /\ n \in Nat /\ Len(more) = n + 1 /\ more[n + 1] = x
      /\ \A k \in 1..n : more[k] = s[k]
  BY <1>1
<1>3. PICK f \in [Nat -> Seq(T)] : FlattenSeq(s) = f[n] /\ JoinsOf(f, s)
  BY FlattenIs
<1>4. PICK g \in [Nat -> Seq(T)] : FlattenSeq(more) = g[Len(more)] /\ JoinsOf(g, more)
  BY FlattenIs
<1> DEFINE N == {k \in Nat : g[k] = f[k]}
<1>5. n \in N
  <2>1. 0 \in N
    BY <1>3, <1>4 DEF JoinsOf
  <2>2. ASSUME NEW j \in 0..(n - 1), j \in N PROVE j + 1 \in N
    <3>1. j \in 0..(Len(s) - 1) /\ j \in 0..(Len(more) - 1) /\ j + 1 \in 1..n /\ j + 1 \in Nat
      BY <1>2
    <3>2. f[j + 1] = f[j] \o s[j + 1]
      BY <1>3, <3>1 DEF JoinsOf
    <3>3. g[j + 1] = g[j] \o more[j + 1]
      BY <1>4, <3>1 DEF JoinsOf
    <3>4. more[j + 1] = s[j + 1] /\ g[j] = f[j]
      BY <1>2, <2>2, <3>1
    <3> QED
      BY <3>1, <3>2, <3>3, <3>4
  <2> HIDE DEF N, n
  <2> QED
    BY <1>2, <2>1, <2>2, EveryPrefix
<1>6. g[n + 1] = g[n] \o more[n + 1]
  <2>1. n \in 0..(Len(more) - 1)
    BY <1>2
  <2> QED
    BY <1>4, <2>1 DEF JoinsOf
<1> QED
  BY <1>1, <1>2, <1>3, <1>4, <1>5, <1>6

\* The first k + 1 of a list of sequences are joined from the first k and the next.
LEMMA FlattenPrefix ==
  ASSUME NEW T, NEW s \in Seq(Seq(T)), NEW k \in 0..(Len(s) - 1)
  PROVE  FlattenSeq(Prefix(s, k + 1)) = FlattenSeq(Prefix(s, k)) \o s[k + 1]
<1>1. PICK u \in Seq(Seq(T)), x \in Seq(T) : u = Prefix(s, k) /\ x = s[k + 1]
  BY PrefixIs
<1>2. Prefix(s, k + 1) = Append(u, x)
  BY <1>1, PrefixIs
<1> QED
  BY <1>1, <1>2, FlattenAppend

\* What is kept of a page of threads is a sequence of threads of the page.
LEMMA FilteredIs ==
  ASSUME NEW T, NEW p \in Seq(T)
  PROVE  Filtered(p) \in Seq(T)
<1> DEFINE M == {t \in Range(p) : Matches(t)}
<1>1. Kept(p, M) \in Seq(T)
  <2> HIDE DEF M
  <2> QED
    BY KeptType
<1> QED
  BY <1>1 DEF Filtered

\* A rearrangement of the first k of a list that puts none after one it goes before
Orders(p, s, k) ==
  /\ p \in Bijection(1..k, 1..k)
  /\ \A i, j \in 1..k : i < j => ~Before(s[p[j]], s[p[i]])

\* The order of the threads is one.
LEMMA BeforeIs ==
  ASSUME NEW r, NEW s, NEW t, \A u \in {r, s, t} : u.recency \in Int /\ u.id \in Nat
  PROVE  /\ ~Before(s, s)
         /\ Before(r, s) /\ Before(s, t) => Before(r, t)
<1> DEFINE a == r.recency
           b == s.recency
           c == t.recency
           d == r.id
           e == s.id
           f == t.id
<1>1. a \in Int /\ b \in Int /\ c \in Int /\ d \in Nat /\ e \in Nat /\ f \in Nat
  OBVIOUS
<1> SUFFICES /\ ~(b > b \/ (b = b /\ e < e))
             /\ (a > b \/ (a = b /\ d < e)) /\ (b > c \/ (b = c /\ e < f))
                => (a > c \/ (a = c /\ d < f))
  BY DEF Before
<1> HIDE DEF a, b, c, d, e, f
<1> QED
  BY <1>1

\* One more is put in before the first that it goes before.
LEMMA OrderOneMore ==
  ASSUME NEW n \in Nat, NEW s, \A i \in 1..n : s[i].recency \in Int /\ s[i].id \in Nat,
         NEW k \in 0..(n - 1), NEW p, Orders(p, s, k)
  PROVE  \E q : Orders(q, s, k + 1)
<1>0. PICK e \in 1..n : e = k + 1
  OBVIOUS
<1> DEFINE later == {m \in 1..k : Before(s[e], s[p[m]])} \cup {e}
<1>1. /\ k \in Nat /\ e \in 1..n /\ later \subseteq 1..e /\ later # {}
      /\ p \in [1..k -> 1..k] /\ \A i, j \in 1..k : p[i] = p[j] => i = j
      /\ \A t \in 1..k : \E i \in 1..k : p[i] = t
      /\ \A i, j \in 1..k : i < j => ~Before(s[p[j]], s[p[i]])
      /\ \A i \in 1..k : p[i] \in 1..k /\ p[i] \in 1..e /\ p[i] # e /\ p[i] \in 1..n
  <2>1. later \subseteq 1..e /\ later # {}
    BY <1>0
  <2>2. p \in [1..k -> 1..k] /\ \A i, j \in 1..k : p[i] = p[j] => i = j
    BY DEF Orders, Bijection, Injection, IsInjective
  <2>3. \A t \in 1..k : \E i \in 1..k : p[i] = t
    BY DEF Orders, Bijection, Surjection
  <2>4. \A i, j \in 1..k : i < j => ~Before(s[p[j]], s[p[i]])
    BY DEF Orders
  <2>5. \A i \in 1..k : p[i] \in 1..k /\ p[i] \in 1..e /\ p[i] # e /\ p[i] \in 1..n
    <3>1. ASSUME NEW i \in 1..k PROVE p[i] \in 1..k /\ p[i] \in 1..e /\ p[i] # e /\ p[i] \in 1..n
      <4>1. p[i] \in 1..k
        BY <2>2
      <4> QED
        BY <1>0, <4>1
    <3> QED
      BY <3>1
  <2>6. k \in Nat
    OBVIOUS
  <2> HIDE DEF later
  <2> QED
    BY <2>1, <2>2, <2>3, <2>4, <2>5, <2>6
<1>2. PICK c \in later : \A m \in later : c <= m
  <2>1. later \subseteq Nat
    BY <1>1
  <2> HIDE DEF later
  <2> QED
    BY <1>1, <2>1, LeastNumber
<1>3. c \in 1..e
  BY <1>1, <1>2
<1> DEFINE q == [m \in 1..e |-> IF m < c THEN p[m] ELSE IF m = c THEN e ELSE p[m - 1]]
<1>4. /\ \A m \in 1..e : m < c => m \in 1..k /\ q[m] = p[m]
      /\ q[c] = e
      /\ \A m \in 1..e : m > c => m - 1 \in 1..k /\ q[m] = p[m - 1]
  BY <1>0, <1>1, <1>3
<1>5. q \in [1..e -> 1..e]
  <2>1. ASSUME NEW m \in 1..e PROVE q[m] \in 1..e
    <3>1. CASE m < c
      BY <1>1, <1>4, <3>1
    <3>2. CASE m = c
      BY <1>0, <1>1, <1>4, <3>2
    <3>3. CASE m > c
      BY <1>1, <1>4, <3>3
    <3> QED
      BY <1>3, <3>1, <3>2, <3>3
  <2> QED
    BY <2>1
<1>6. ASSUME NEW i \in 1..e, NEW j \in 1..e, i < j
      PROVE  q[i] # q[j] /\ ~Before(s[q[j]], s[q[i]])
  <2>1. CASE j < c
    <3>1. i < c /\ i # j
      BY <1>3, <1>6, <2>1
    <3>2. i \in 1..k /\ q[i] = p[i] /\ j \in 1..k /\ q[j] = p[j]
      BY <1>4, <2>1, <3>1
    <3> HIDE DEF q
    <3> QED
      BY <1>1, <1>6, <3>1, <3>2
  <2>2. CASE j = c
    <3>1. i < c /\ i \in 1..k /\ q[i] = p[i] /\ q[j] = e
      BY <1>4, <1>6, <2>2
    <3>2. i \notin later
      BY <1>2, <1>3, <3>1
    <3>3. ~Before(s[e], s[p[i]])
      BY <3>1, <3>2
    <3>4. p[i] # e
      BY <1>1, <3>1
    <3> HIDE DEF q
    <3> QED
      BY <3>1, <3>3, <3>4
  <2>3. CASE j > c
    <3>1. j - 1 \in 1..k /\ q[j] = p[j - 1]
      BY <1>4, <2>3
    <3>2. CASE i < c
      <4>1. i \in 1..k /\ q[i] = p[i] /\ i < j - 1 /\ i # j - 1
        BY <1>3, <1>4, <2>3, <3>2
      <4> HIDE DEF q
      <4> QED
        BY <1>1, <3>1, <4>1
    <3>3. CASE i = c
      <4>1. c \in 1..k /\ q[i] = e /\ c <= j - 1
        BY <1>0, <1>1, <1>3, <1>4, <2>3, <3>3
      <4>2. Before(s[e], s[p[c]])
        BY <1>1, <1>2, <4>1
      <4>3. p[j - 1] \in 1..k /\ p[c] \in 1..k /\ p[j - 1] # e
        BY <1>1, <3>1, <4>1
      <4>4. c # j - 1 => ~Before(s[p[j - 1]], s[p[c]])
        BY <1>1, <3>1, <4>1
      <4>5. ~Before(s[p[c]], s[p[c]])
        <5>1. p[c] \in 1..n
          BY <1>1, <4>1
        <5> QED
          BY <5>1, BeforeIs
      <4>6. ~Before(s[p[j - 1]], s[p[c]])
        BY <4>4, <4>5
      <4>7. Before(s[p[j - 1]], s[e]) /\ Before(s[e], s[p[c]]) => Before(s[p[j - 1]], s[p[c]])
        <5>1. p[j - 1] \in 1..n /\ e \in 1..n /\ p[c] \in 1..n
          BY <1>1, <3>1, <4>1
        <5> QED
          BY <5>1, BeforeIs
      <4> HIDE DEF q
      <4> QED
        BY <3>1, <4>1, <4>2, <4>3, <4>6, <4>7
    <3>4. CASE i > c
      <4>1. i - 1 \in 1..k /\ q[i] = p[i - 1] /\ i - 1 < j - 1 /\ i - 1 # j - 1
        BY <1>4, <1>6, <3>1, <3>4
      <4> HIDE DEF q
      <4> QED
        BY <1>1, <3>1, <4>1
    <3> QED
      BY <1>3, <3>2, <3>3, <3>4
  <2> QED
    BY <1>3, <2>1, <2>2, <2>3
<1>7. ASSUME NEW t \in 1..e PROVE \E i \in 1..e : q[i] = t
  <2>1. CASE t = e
    BY <1>3, <1>4, <2>1
  <2>2. CASE t # e
    <3>1. PICK i \in 1..k : p[i] = t
      BY <1>0, <1>1, <2>2
    <3>2. CASE i < c
      <4>1. i \in 1..e /\ q[i] = t
        BY <1>0, <1>1, <3>1, <3>2
      <4> QED
        BY <4>1
    <3>3. CASE i >= c
      <4>1. i + 1 \in 1..e /\ i + 1 > c /\ (i + 1) - 1 = i
        BY <1>0, <1>1, <1>3, <3>3
      <4>2. q[i + 1] = t
        BY <1>4, <3>1, <4>1
      <4> QED
        BY <4>1, <4>2
    <3> QED
      BY <1>3, <3>2, <3>3
  <2> QED
    BY <2>1, <2>2
<1> HIDE DEF q
<1>8. \A i, j \in 1..e : q[i] = q[j] => i = j
  <2> SUFFICES ASSUME NEW i \in 1..e, NEW j \in 1..e, q[i] = q[j], i # j PROVE FALSE
    OBVIOUS
  <2>1. i < j \/ j < i
    OBVIOUS
  <2> QED
    BY <1>6, <2>1
<1>9. Orders(q, s, k + 1)
  BY <1>0, <1>5, <1>6, <1>7, <1>8 DEF Orders, Bijection, Injection, Surjection, IsInjective
<1> QED
  BY <1>9

\* Every list of threads has an order.
LEMMA OrderExists ==
  ASSUME NEW n \in Nat, NEW s, \A i \in 1..n : s[i].recency \in Int /\ s[i].id \in Nat
  PROVE  \E p : Orders(p, s, n)
<1> DEFINE N == {k \in Nat : \E p : Orders(p, s, k)}
<1>1. 0 \in N
  <2>1. Orders(<<>>, s, 0)
    <3>1. 1..0 = {}
      OBVIOUS
    <3>2. <<>> \in [{} -> {}]
      OBVIOUS
    <3> QED
      BY <3>1, <3>2 DEF Orders, Bijection, Injection, Surjection, IsInjective
  <2> QED
    BY <2>1
<1>2. ASSUME NEW k \in 0..(n - 1), k \in N PROVE k + 1 \in N
  <2>1. PICK p : Orders(p, s, k)
    BY <1>2
  <2>2. \E q : Orders(q, s, k + 1)
    BY <2>1, OrderOneMore
  <2>3. k + 1 \in Nat
    OBVIOUS
  <2> QED
    BY <2>2, <2>3
<1>3. n \in N
  <2> HIDE DEF N
  <2> QED
    BY <1>1, <1>2, EveryPrefix
<1> QED
  BY <1>3

\* The sorted list has the same threads, each newer one first.
LEMMA SortedIs ==
  ASSUME NEW T, entries \in Seq(T), \A t \in T : t.recency \in Int /\ t.id \in Nat
  PROVE  /\ DOMAIN Sorted = DOMAIN entries /\ Range(Sorted) = Range(entries)
         /\ \A k \in DOMAIN Sorted : Sorted[k] \in T
         /\ \A i, j \in DOMAIN Sorted : i < j => Sorted[i].recency >= Sorted[j].recency
<1>1. PICK n \in Nat : n = Len(entries) /\ DOMAIN entries = 1..n
  OBVIOUS
<1>2. \A i \in 1..n : entries[i] \in T
  BY <1>1
<1> DEFINE order == CHOOSE p \in Bijection(DOMAIN entries, DOMAIN entries) :
                      \A i, j \in DOMAIN entries : i < j => ~Before(entries[p[j]], entries[p[i]])
<1>3. Orders(order, entries, n)
  <2>1. \E p : Orders(p, entries, n)
    BY <1>2, OrderExists
  <2>2. \E p \in Bijection(1..n, 1..n) :
          \A i, j \in 1..n : i < j => ~Before(entries[p[j]], entries[p[i]])
    BY <2>1 DEF Orders
  <2> QED
    BY <1>1, <2>2 DEF Orders
<1>4. Sorted = [k \in DOMAIN entries |-> entries[order[k]]]
  BY DEF Sorted
<1> HIDE DEF order
<1>5. /\ order \in [1..n -> 1..n] /\ \A t \in 1..n : \E i \in 1..n : order[i] = t
      /\ \A i, j \in 1..n : i < j => ~Before(entries[order[j]], entries[order[i]])
  BY <1>3 DEF Orders, Bijection, Injection, Surjection
<1>6. DOMAIN Sorted = 1..n /\ \A k \in 1..n : Sorted[k] = entries[order[k]] /\ order[k] \in 1..n
  BY <1>1, <1>4, <1>5
<1>7. Range(Sorted) = Range(entries)
  <2>1. ASSUME NEW x \in Range(Sorted) PROVE x \in Range(entries)
    BY <1>1, <1>6 DEF Range
  <2>2. ASSUME NEW x \in Range(entries) PROVE x \in Range(Sorted)
    <3>1. PICK t \in 1..n : x = entries[t]
      BY <1>1 DEF Range
    <3>2. PICK i \in 1..n : order[i] = t
      BY <1>5
    <3> QED
      BY <1>6, <3>1, <3>2 DEF Range
  <2> QED
    BY <2>1, <2>2
<1>8. ASSUME NEW i \in 1..n, NEW j \in 1..n, i < j
      PROVE  Sorted[i].recency >= Sorted[j].recency
  <2>1. Sorted[i] \in T /\ Sorted[j] \in T
    BY <1>2, <1>6
  <2>2. ~Before(Sorted[j], Sorted[i])
    BY <1>5, <1>6, <1>8
  <2>3. PICK a \in Int, b \in Int : a = Sorted[i].recency /\ b = Sorted[j].recency
    BY <2>1
  <2>4. ~(b > a)
    BY <2>2, <2>3 DEF Before
  <2> QED
    BY <2>3, <2>4
<1> QED
  BY <1>1, <1>2, <1>6, <1>7, <1>8

\* A daemon is managed only at the default URL, when none was given.
LEMMA ManagedIs ==
  ASSUME NEW l \in Lines, NEW e, ManagesDaemon(l, e)
  PROVE  /\ ResolveUrl(l, e) = Done(DefaultUrl)
         /\ {"ws-url", "no-daemon", "stdio"} \cap DOMAIN l.given = {}
         /\ e.url = Absent /\ e.legacyUrl = Absent
<1> DEFINE sources == <<Get(l, "ws-url"), e.url, e.legacyUrl>>
           given == {k \in DOMAIN sources : sources[k] # Absent}
<1>1. Selected(l, e) = Absent /\ ~Has(l, "no-daemon") /\ ~Has(l, "stdio")
  BY DEF ManagesDaemon
<1>2. given = {}
  <2> SUFFICES ASSUME given # {} PROVE FALSE
    OBVIOUS
  <2>1. given \subseteq Nat
    OBVIOUS
  <2>2. PICK n \in given : \A j \in given : n <= j
    BY <2>1, LeastNumber
  <2> DEFINE first == CHOOSE k \in given : \A j \in given : k <= j
  <2>3. first \in given
    BY <2>2
  <2>4. Selected(l, e) = sources[first]
    BY <1>1 DEF Selected
  <2> HIDE DEF first
  <2> QED
    BY <1>1, <2>3, <2>4
<1>3. Get(l, "ws-url") = Absent /\ e.url = Absent /\ e.legacyUrl = Absent
  <2>1. 1 \in DOMAIN sources /\ 2 \in DOMAIN sources /\ 3 \in DOMAIN sources
    OBVIOUS
  <2>2. sources[1] = Absent /\ sources[2] = Absent /\ sources[3] = Absent
    <3> HIDE DEF sources
    <3> QED
      BY <1>2, <2>1
  <2> QED
    BY <2>2
<1>4. "ws-url" \notin DOMAIN l.given
  BY <1>3, LinesAssumption DEF Get
<1>5. ResolveUrl(l, e) = Done(DefaultUrl)
  BY <1>1 DEF ResolveUrl, Absent, Raw
<1> QED
  BY <1>1, <1>3, <1>4, <1>5 DEF Has

-----------------------------------------------------------------------------
(* The invariants                                                          *)

Places == {"parsing", "prompting", "resolving", "preparing", "joining", "authenticating",
           "logging in", "turning", "streaming", "listing", "previewing", "checking",
           "versioning", "upstream", "probing", "reporting", "exited"}

\* Before its connection is awaited, and before its first answer
Unconnected == {"parsing", "prompting", "resolving", "checking", "versioning", "upstream"}
Unasked == Unconnected \cup {"preparing", "joining", "authenticating", "probing"}
Asking == {"authenticating", "logging in", "turning", "streaming", "listing", "previewing",
           "probing"}

IsTurn == Command \in {"exec", "chat"}

\* Which command is where, whether it has an exit code, and its connection
Course ==
  /\ at \in Places
  /\ at \in {"prompting", "preparing", "authenticating", "logging in", "turning"} => IsTurn
  /\ at = "streaming" => Command = "exec"
  /\ at \in {"listing", "previewing"} => Command = "sessions"
  /\ at \in {"checking", "versioning", "upstream", "probing", "reporting"} => Command = "doctor"
  /\ code \in {Running, 0} \cup Range(ExitCode)
  /\ code = Running <=> at # "exited"
  /\ link \in {"none", "opening", "open", "aborted"} \cup Categories
  /\ at \in Unconnected => link = "none"
  /\ at \in {"preparing", "joining"} => link \notin {"none", "aborted"}
  /\ at \in Asking => link = "open"
  /\ link = "opening" => at \in {"preparing", "joining"}

PromptError == IF Command = "exec" /\ ~ResolvePrompt(line, vars.stdin).ok
               THEN ResolvePrompt(line, vars.stdin).error
               ELSE UsageUnless(Command = "chat" => vars.stdin = "terminal")

\* What is known of the input where the command is: an error that its place is
\* past is none, and one it has met has decided.
Judged ==
  /\ line \in Lines /\ vars \in Environments
  /\ at \notin {"parsing", "exited"} => ~UsageError(line) /\ ~OnlyPrints
  /\ at \notin {"parsing", "exited", "prompting"} => PromptError = "none"
  /\ at \notin {"parsing", "exited", "prompting", "resolving"} => ResolveUrl(line, vars).ok
  /\ at \notin {"parsing", "exited", "prompting", "resolving", "preparing"} => InputError = "none"
  /\ InputErrorsDecide

Methods == {"account/read", "login by tokens", "login by key", "resume latest", "thread/resume",
            "thread/start", "turn/start", "thread/list", "thread/read"}

\* The requests so far, and the account they were for
Requests ==
  /\ asked \in Seq(Methods)
  /\ at \in Unasked => asked = <<>> /\ printed = <<>>
  /\ at \notin {"turning", "streaming", "exited"} => account = vars.account
  /\ at = "logging in" => asked = <<"account/read">>
  /\ at = "turning" =>
       /\ account = "in" /\ asked # <<>> /\ Head(asked) = "account/read"
       /\ vars.account = "in" \/ \E r \in Range(asked) : r \in {"login by tokens", "login by key"}
  /\ "turn/start" \in Range(asked) => at \in {"streaming", "exited"} /\ Command = "exec"
  /\ account \in {"in", "out"}
  /\ AuthenticatedFirst

\* A server that was started
Servers == server \in {"absent", "serving", "started"} /\ StartsOnlyItsOwn

\* The events of the turn that were received
Received ==
  /\ at \notin {"streaming", "exited"} => feed = <<>>
  /\ feed \in Seq(Range(feed))
  /\ got \in 0..Len(feed)
  /\ at = "streaming" /\ got > 0 => ~Ends(feed[got])
  /\ ZeroIsCompleted

\* The pages of the list that were read
PageCount == Len(vars.pages)
Recorded == UNION {Range(vars.pages[k]) : k \in 1..PageCount}
Pages ==
  /\ page \in 0..(MaxPages + 1)
  /\ at \notin {"listing", "previewing", "exited"} => page = 0
  /\ at = "listing" => page <= MaxPages /\ page < PageCount
  /\ at = "previewing" => page <= PageCount /\ page <= MaxPages /\ queue \in Seq(Recorded)
  /\ entries \in Seq(Recorded)

\* What the doctor found
Found ==
  /\ \A c \in checks : c[2] \in {"ok", "warning", "fail", "skipped"}
  /\ Command = "doctor" =>
       /\ at = "upstream" => Has(line, "live")
       /\ at \in {"versioning", "upstream", "joining", "probing", "reporting"} =>
            {<<"luna.temp", Status(vars.logs)>>, <<"codex.binary", Status(vars.codex)>>} \subseteq checks
       /\ at = "reporting" /\ Has(line, "live") =>
            (\E c \in checks : c[2] = "fail") \/ (link = "open" /\ account = "in")
  /\ DoctorIsRight

IInv == Course /\ Judged /\ Requests /\ Servers /\ Received /\ Pages /\ Found

-----------------------------------------------------------------------------
(* What a step leaves alone                                                *)

\* No step changes what the run was started with.
LEMMA SameProcess ==
  ASSUME [Next]_allVars
  PROVE  UNCHANGED process
BY DEF Next, Connect, Exec, Sessions, Doctor, Parse, ResolveTransport, RefuseToken, NoBinary,
       StartServer, Opens, Closes, LinkBecomes, Join, ReadPrompt, Prepare, EnsureAuthenticated,
       Login, StartTurn, ChatEnds, Receive, StreamFails, ListPage, Preview, PageDone,
       CheckMachine, CheckVersion, CheckUpstream, ProbeAccount, Report, RequestFails, allVars

\* What is computed of it alone stays as it is.
LEMMA SameInput ==
  ASSUME UNCHANGED process
  PROVE  /\ line' = line /\ vars' = vars /\ Command' = Command /\ IsTurn' = IsTurn
         /\ OnlyPrints' = OnlyPrints /\ PromptError' = PromptError /\ InputError' = InputError
         /\ TheUrl' = TheUrl /\ PageCount' = PageCount /\ Recorded' = Recorded
<1>1. line' = line /\ vars' = vars
  BY DEF process
<1>2. Command' = Command
  BY <1>1 DEF Command
<1>3. IsTurn' = IsTurn /\ OnlyPrints' = OnlyPrints /\ PromptError' = PromptError
  BY <1>1, <1>2 DEF IsTurn, OnlyPrints, PromptError
<1>4. InputError' = InputError
  BY <1>1, <1>2, <1>3 DEF InputError
<1>5. TheUrl' = TheUrl /\ PageCount' = PageCount
  BY <1>1 DEF TheUrl, PageCount
<1>6. Recorded' = Recorded
  BY <1>1, <1>5 DEF Recorded
<1> QED
  BY <1>1, <1>2, <1>3, <1>4, <1>5, <1>6

\* The empty sequence has no place.
LEMMA NoIndex == \A n : n \notin DOMAIN <<>>
<1>1. <<>> \in Seq({}) /\ Len(<<>>) = 0
  OBVIOUS
<1>2. DOMAIN <<>> = 1..0
  BY <1>1, LenProperties
<1> QED
  BY <1>2

\* A sequence of one, and what it holds
LEMMA SeqOfOne == \A S : \A x \in S : <<x>> \in Seq(S)
OBVIOUS

\* A sequence of one has that one in its range, first.
LEMMA RangeOfOne == \A x : Range(<<x>>) = {x} /\ <<x>> # <<>> /\ Head(<<x>>) = x
<1> TAKE x
<1>1. <<x>> \in Seq({x}) /\ Len(<<x>>) = 1 /\ <<x>>[1] = x
  OBVIOUS
<1>2. DOMAIN <<x>> = {1}
  BY <1>1, LenProperties
<1> QED
  BY <1>1, <1>2 DEF Range

\* Every category has an exit code, which is neither that of success nor that of
\* a command that runs.
LEMMA ExitCodes ==
  /\ \A c \in Categories : ExitCode[c] \in Range(ExitCode)
  /\ \A x \in Range(ExitCode) : x \in 1..8
  /\ Running \notin Range(ExitCode) /\ 0 \notin Range(ExitCode) /\ Running # 0
  /\ Categories = {"io", "usage", "dependency", "configuration", "authentication", "transport",
                   "protocol", "turn"}
  /\ ExitCode.turn = ExitCode["turn"] /\ 1 \in Range(ExitCode)
<1>1. Categories = {"io", "usage", "dependency", "configuration", "authentication", "transport",
                   "protocol", "turn"}
  BY DEF Categories, ExitCode
<1>2. \A c \in Categories : ExitCode[c] \in Range(ExitCode)
  BY DEF Categories, Range
<1>3. \A c \in Categories : ExitCode[c] \in 1..8
  BY <1>1 DEF ExitCode
<1>4. \A x \in Range(ExitCode) : x \in 1..8
  BY <1>3 DEF Range, Categories
<1>5. ExitCode["io"] = 1
  BY DEF ExitCode
<1> QED
  BY <1>1, <1>2, <1>4, <1>5 DEF Running

\* The errors of a prompt are two.
LEMMA PromptErrorIs ==
  /\ PromptError \in {"none", "io", "usage"}
  /\ PromptError = "none" <=> /\ Command = "exec" => ResolvePrompt(line, vars.stdin).ok
                              /\ Command = "chat" => vars.stdin = "terminal"
BY DEF PromptError, ResolvePrompt, Failed, Done, UsageUnless

\* The input error of the command, stage by stage
LEMMA InputErrorIs ==
  InputError =
    IF UsageError(line) THEN "usage"
    ELSE IF OnlyPrints THEN "none"
    ELSE IF PromptError # "none" THEN PromptError
    ELSE IF ~ResolveUrl(line, vars).ok THEN "usage"
    ELSE IF IsTurn THEN PrepareError(line, vars) ELSE "none"
<1> DEFINE a == IF Command = "exec" /\ ~ResolvePrompt(line, vars.stdin).ok
                THEN ResolvePrompt(line, vars.stdin).error ELSE "none"
           b == UsageUnless(Command = "chat" => vars.stdin = "terminal")
           c == UsageUnless(ResolveUrl(line, vars).ok)
           d == IF Command \in {"exec", "chat"} THEN PrepareError(line, vars) ELSE "none"
<1>1. UsageError(line) => ~OnlyPrints
  BY DEF OnlyPrints
<1>2. InputError = IF UsageError(line) THEN "usage" ELSE IF OnlyPrints THEN "none"
                   ELSE FirstError(<<a, b, c, d>>)
  BY <1>1 DEF InputError
<1>3. PromptError = IF a # "none" THEN a ELSE b
  BY DEF PromptError, ResolvePrompt, Failed, Done, UsageUnless
<1>4. ResolveUrl(line, vars).ok <=> c = "none"
  BY DEF UsageUnless
<1>5. ~ResolveUrl(line, vars).ok => c = "usage"
  BY DEF UsageUnless
<1>6. IsTurn <=> Command \in {"exec", "chat"}
  BY DEF IsTurn
<1> HIDE DEF a, b, c
<1>7. FirstError(<<a, b, c, d>>) =
        IF a # "none" THEN a ELSE IF b # "none" THEN b ELSE IF c # "none" THEN c ELSE d
  <2> HIDE DEF d
  <2> QED
    BY FirstOfFour
<1> QED
  BY <1>2, <1>3, <1>4, <1>5, <1>6, <1>7

-----------------------------------------------------------------------------
(* Course                                                                  *)

\* A step keeps to the course of its command.
LEMMA CourseStep ==
  ASSUME IInv, [Next]_allVars
  PROVE  Course'
<1>. USE SameProcess, SameInput, ExitCodes
<1>. USE DEF IInv, Course, Places, Unconnected, Asking, IsTurn, Exit, Fail, Goto, connection
<1>1. CASE Parse
  BY <1>1 DEF Parse, LinkBecomes
<1>2. CASE ResolveTransport
  BY <1>2 DEF ResolveTransport, LinkBecomes
<1>3. CASE RefuseToken
  BY <1>3 DEF RefuseToken, LinkBecomes
<1>4. CASE NoBinary
  BY <1>4 DEF NoBinary, LinkBecomes
<1>5. CASE StartServer
  BY <1>5 DEF StartServer, LinkBecomes
<1>6. CASE Opens
  BY <1>6 DEF Opens, LinkBecomes
<1>7. CASE Closes
  BY <1>7 DEF Closes, LinkBecomes
<1>8. CASE Join
  <2>1. link # "open" => link \in Categories
    BY <1>8 DEF Join
  <2> QED
    BY <1>8, <2>1 DEF Join, Joined
<1>9. CASE ReadPrompt
  BY <1>9, PromptErrorIs DEF ReadPrompt, PromptError
<1>10. CASE Prepare
  <2>1. PrepareError(line, vars) \in {"none"} \cup Categories
    BY PrepareErrorIs
  <2> QED
    BY <1>10, <2>1 DEF Prepare
<1>11. CASE EnsureAuthenticated
  BY <1>11 DEF EnsureAuthenticated, LinkBecomes
<1>12. CASE Login
  BY <1>12 DEF Login, LinkBecomes
<1>13. CASE StartTurn
  BY <1>13 DEF StartTurn, LinkBecomes
<1>14. CASE ChatEnds
  BY <1>14 DEF ChatEnds, LinkBecomes
<1>15. CASE Receive
  <2>1. StreamCode(feed[got + 1]) \in {0} \cup Range(ExitCode)
    BY DEF StreamCode
  <2>2. at = "streaming" /\ link' = link
    BY <1>15 DEF Receive
  <2>3. \/ at' = "exited" /\ code' \in {0} \cup Range(ExitCode)
        \/ at' = "streaming" /\ code' = code
    BY <1>15, <2>1 DEF Receive
  <2> QED
    BY <2>2, <2>3
<1>16. CASE StreamFails
  <2>1. TurnCategory(ClientCategory("TransportClosed")) \in Categories /\ "io" \in Categories
    BY ExitCodes DEF TurnCategory, ClientCategory
  <2> QED
    BY <1>16, <2>1 DEF StreamFails
<1>17. CASE ListPage
  BY <1>17 DEF ListPage, LinkBecomes
<1>18. CASE Preview
  BY <1>18 DEF Preview, LinkBecomes
<1>19. CASE PageDone
  BY <1>19 DEF PageDone, LinkBecomes
<1>20. CASE CheckMachine
  BY <1>20 DEF CheckMachine, LinkBecomes
<1>21. CASE CheckVersion
  BY <1>21 DEF CheckVersion, LinkBecomes
<1>22. CASE CheckUpstream
  BY <1>22 DEF CheckUpstream, LinkBecomes
<1>23. CASE ProbeAccount
  BY <1>23 DEF ProbeAccount, LinkBecomes
<1>24. CASE Report
  BY <1>24 DEF Report, LinkBecomes
<1>25. CASE RequestFails
  <2>1. link' = link
    BY <1>25 DEF RequestFails
  <2>2. \A c \in {"transport", "protocol"} : c \in Categories /\ TurnCategory(c) \in Categories
    BY DEF TurnCategory
  <2>3. \A e : ClientCategory(e) \in {"transport", "protocol"}
    BY DEF ClientCategory
  <2>4. at' = "exited" /\ code' \in Range(ExitCode)
    BY <1>25, <2>2, <2>3 DEF RequestFails
  <2>5. link # "opening"
    <3>1. PICK n \in DOMAIN Pending : TRUE
      BY <1>25 DEF RequestFails
    <3> QED
      BY <3>1, NoIndex DEF Pending
  <2> QED
    BY <2>1, <2>4, <2>5
<1>26. CASE UNCHANGED allVars
  BY <1>26 DEF LinkBecomes, allVars, process, connection, turn, listing
<1> QED
  BY <1>1, <1>2, <1>3, <1>4, <1>5, <1>6, <1>7, <1>8, <1>9, <1>10, <1>11, <1>12, <1>13, <1>14, <1>15, <1>16, <1>17, <1>18, <1>19, <1>20, <1>21, <1>22, <1>23, <1>24, <1>25, <1>26 DEF Next, Connect, Exec, Sessions, Doctor

-----------------------------------------------------------------------------
(* The input decides                                                       *)

Judging == {"parsing", "prompting", "resolving", "preparing"}

\* What is known of the input does not change.
LEMMA SameJudgement ==
  ASSUME UNCHANGED process
  PROVE  /\ (line \in Lines)' <=> line \in Lines
         /\ (vars \in Environments)' <=> vars \in Environments
         /\ UsageError(line)' <=> UsageError(line)
         /\ OnlyPrints' <=> OnlyPrints
         /\ PromptError' = PromptError
         /\ ResolveUrl(line, vars).ok' = ResolveUrl(line, vars).ok
         /\ InputError' = InputError
BY SameInput

\* Past the stages of the input a step finds nothing more of it.
LEMMA PastJudgement ==
  ASSUME Judged, UNCHANGED process, at \in Places \ (Judging \cup {"exited"})
  PROVE  Judged'
<1> USE SameJudgement DEF Judging, Places
<1>1. ~UsageError(line) /\ ~OnlyPrints /\ PromptError = "none" /\ ResolveUrl(line, vars).ok
        /\ InputError = "none"
  BY DEF Judged
<1>2. InputErrorsDecide'
  BY <1>1 DEF InputErrorsDecide
<1> QED
  BY <1>1, <1>2 DEF Judged

\* Nor does a step that stays where it is and that asks and prints nothing.
LEMMA StandingJudgement ==
  ASSUME Judged, UNCHANGED <<process, at, asked, printed>>, at # "exited" \/ UNCHANGED <<code, link>>
  PROVE  Judged'
<1> USE SameJudgement
<1>1. InputErrorsDecide'
  BY DEF Judged, InputErrorsDecide
<1> QED
  BY <1>1 DEF Judged

\* A step knows what the steps before it found of the input, and the error that
\* it finds is the input's.
LEMMA JudgedStep ==
  ASSUME IInv, [Next]_allVars
  PROVE  Judged'
<1>. USE SameProcess, SameJudgement
<1>1. Judged /\ Course /\ at \in Places /\ (at \in Judging => asked = <<>> /\ printed = <<>>)
        /\ (at \in {"parsing", "prompting", "resolving"} => link = "none")
  BY DEF IInv, Course, Requests, Unasked, Unconnected, Judging
<1>2. InputError =
        IF UsageError(line) THEN "usage"
        ELSE IF OnlyPrints THEN "none"
        ELSE IF PromptError # "none" THEN PromptError
        ELSE IF ~ResolveUrl(line, vars).ok THEN "usage"
        ELSE IF IsTurn THEN PrepareError(line, vars) ELSE "none"
  BY InputErrorIs
<1>3. CASE Parse
  <2>1. at = "parsing" /\ asked' = <<>> /\ printed' = <<>> /\ link' = "none"
    BY <1>1, <1>3 DEF Parse, connection, Judging
  <2>2. CASE UsageError(line)
    <3>1. at' = "exited" /\ code' = ExitCode["usage"]
      BY <1>3, <2>2 DEF Parse, Fail, Exit, OnlyPrints
    <3> QED
      BY <1>1, <1>2, <2>1, <2>2, <3>1 DEF Judged, InputErrorsDecide
  <2>3. CASE OnlyPrints
    <3>1. at' = "exited"
      BY <1>3, <2>3 DEF Parse, Fail, Exit, OnlyPrints
    <3>2. InputError = "none"
      BY <1>2, <2>3 DEF OnlyPrints
    <3> QED
      BY <1>1, <2>1, <3>1, <3>2 DEF Judged, InputErrorsDecide
  <2>4. CASE ~UsageError(line) /\ ~OnlyPrints
    <3>1. at' = IF IsTurn THEN "prompting" ELSE "resolving"
      BY <1>3, <2>4 DEF Parse, Goto, IsTurn
    <3>2. ~IsTurn => PromptError = "none"
      BY PromptErrorIs DEF IsTurn
    <3> QED
      BY <1>1, <2>1, <2>4, <3>1, <3>2 DEF Judged, InputErrorsDecide
  <2> QED
    BY <2>2, <2>3, <2>4
<1>4. CASE ReadPrompt
  <2>1. /\ at = "prompting" /\ asked' = <<>> /\ printed' = <<>> /\ link' = "none"
        /\ ~UsageError(line) /\ ~OnlyPrints
    BY <1>1, <1>4 DEF ReadPrompt, connection, Judging, Judged
  <2>2. CASE PromptError = "none"
    <3>1. at' = "resolving"
      BY <1>4, <2>2, PromptErrorIs DEF ReadPrompt, Goto
    <3> QED
      BY <1>1, <2>1, <2>2, <3>1 DEF Judged, InputErrorsDecide
  <2>3. CASE PromptError # "none"
    <3>1. at' = "exited" /\ code' = ExitCode[PromptError]
      BY <1>4, <2>3, PromptErrorIs DEF ReadPrompt, Fail, Exit, PromptError, UsageUnless
    <3> QED
      BY <1>1, <1>2, <2>1, <2>3, <3>1 DEF Judged, InputErrorsDecide
  <2> QED
    BY <2>2, <2>3
<1>5. CASE ResolveTransport
  <2>1. /\ at = "resolving" /\ asked' = <<>> /\ printed' = <<>> /\ link = "none"
        /\ ~UsageError(line) /\ ~OnlyPrints /\ PromptError = "none"
    BY <1>1, <1>5 DEF ResolveTransport, Judging, Judged
  <2>2. CASE ~ResolveUrl(line, vars).ok
    <3>1. at' = "exited" /\ code' = ExitCode["usage"] /\ link' = link
      BY <1>5, <2>2 DEF ResolveTransport, Fail, Exit
    <3> QED
      BY <1>1, <1>2, <2>1, <2>2, <3>1 DEF Judged, InputErrorsDecide
  <2>3. CASE ResolveUrl(line, vars).ok /\ IsTurn
    <3>1. at' = "preparing"
      BY <1>5, <2>3 DEF ResolveTransport, Goto, IsTurn
    <3> QED
      BY <1>1, <2>1, <2>3, <3>1 DEF Judged, InputErrorsDecide
  <2>4. CASE ResolveUrl(line, vars).ok /\ ~IsTurn
    <3>1. InputError = "none"
      BY <1>2, <2>1, <2>4
    <3> QED
      BY <1>1, <2>1, <2>4, <3>1 DEF Judged, InputErrorsDecide
  <2> QED
    BY <2>2, <2>3, <2>4
<1>6. CASE Prepare
  <2>1. /\ at = "preparing" /\ asked' = <<>> /\ printed' = <<>>
        /\ ~UsageError(line) /\ ~OnlyPrints /\ PromptError = "none" /\ ResolveUrl(line, vars).ok
    BY <1>1, <1>6 DEF Prepare, Judging, Judged
  <2>2. InputError = PrepareError(line, vars)
    BY <1>1, <1>2, <2>1 DEF Course
  <2>3. CASE PrepareError(line, vars) = "none"
    BY <1>1, <2>1, <2>2, <2>3 DEF Judged, InputErrorsDecide
  <2>4. CASE PrepareError(line, vars) # "none"
    <3>1. at' = "exited" /\ code' = ExitCode[PrepareError(line, vars)] /\ link' = "aborted"
      BY <1>6, <2>4 DEF Prepare, Fail, Exit
    <3> QED
      BY <1>1, <2>1, <2>2, <3>1 DEF Judged, InputErrorsDecide
  <2> QED
    BY <2>3, <2>4
<1>7. CASE Connect \/ UNCHANGED allVars
  <2>1. UNCHANGED <<at, asked, printed>>
    BY <1>7 DEF Connect, RefuseToken, NoBinary, StartServer, Opens, Closes, LinkBecomes, allVars
  <2>2. at # "exited" \/ UNCHANGED <<code, link>>
    BY <1>1, <1>7 DEF Connect, RefuseToken, NoBinary, StartServer, Opens, Closes, LinkBecomes,
                      allVars, connection, Course
  <2> QED
    BY <1>1, <2>1, <2>2, StandingJudgement
<1>8. CASE \/ Join \/ EnsureAuthenticated \/ Login \/ StartTurn \/ ChatEnds \/ Receive
           \/ StreamFails \/ Sessions \/ Doctor \/ RequestFails
  <2>1. at \notin Judging \cup {"exited"}
    <3>1. CASE RequestFails
      <4>1. PICK n \in DOMAIN Pending : TRUE
        BY <3>1 DEF RequestFails
      <4> QED
        BY <4>1, NoIndex DEF Pending, Judging
    <3> QED
      BY <1>8, <3>1 DEF Join, EnsureAuthenticated, Login, StartTurn, ChatEnds, Receive, StreamFails,
         Sessions, ListPage, Preview, PageDone, Doctor, CheckMachine, CheckVersion, CheckUpstream,
         ProbeAccount, Report, Judging
  <2> QED
    BY <1>1, <2>1, PastJudgement
<1> QED
  BY <1>3, <1>4, <1>5, <1>6, <1>7, <1>8 DEF Next, Exec

-----------------------------------------------------------------------------
(* Requests and servers                                                    *)

\* What is asked next, place by place
LEMMA PendingIs ==
  /\ Pending \in Seq(Methods)
  /\ at \notin {"authenticating", "probing", "logging in", "turning", "listing", "previewing"} =>
       Pending = <<>>
  /\ at \in {"authenticating", "probing"} => Pending = <<"account/read">>
  /\ at = "logging in" => Pending = <<"login by tokens">> \/ Pending = <<"login by key">>
  /\ "turn/start" \in Range(Pending) => at = "turning" /\ Command = "exec"
<1>1. \/ Pending = <<>> \/ Pending = <<"account/read">> \/ Pending = <<"login by tokens">>
      \/ Pending = <<"login by key">> \/ Pending = <<"thread/list">> \/ Pending = <<"thread/read">>
      \/ Pending = <<ThreadRequest, "turn/start">> /\ at = "turning" /\ Command = "exec"
  BY DEF Pending
<1>2. ThreadRequest \in Methods
  BY DEF ThreadRequest, Methods
<1>3. \A x : x \notin Range(<<>>)
  BY NoIndex DEF Range
<1>4. \A x \in {"account/read", "login by tokens", "login by key", "thread/list", "thread/read"} :
        "turn/start" \notin Range(<<x>>)
  <2> TAKE x \in {"account/read", "login by tokens", "login by key", "thread/list", "thread/read"}
  <2>1. Range(<<x>>) = {x}
    BY RangeOfOne
  <2> QED
    BY <2>1
<1>5. Pending \in Seq(Methods)
  <2>1. <<>> \in Seq(Methods) /\ \A x, y \in Methods : <<x>> \in Seq(Methods) /\ <<x, y>> \in Seq(Methods)
    OBVIOUS
  <2>2. "turn/start" \in Methods /\ {"account/read", "login by tokens", "login by key",
                                    "thread/list", "thread/read"} \subseteq Methods
    BY DEF Methods
  <2>3. CASE Pending = <<ThreadRequest, "turn/start">>
    BY <1>2, <2>1, <2>2, <2>3
  <2> QED
    BY <1>1, <2>1, <2>2, <2>3
<1>6. /\ at \notin {"authenticating", "probing", "logging in", "turning", "listing", "previewing"} =>
           Pending = <<>>
      /\ at \in {"authenticating", "probing"} => Pending = <<"account/read">>
      /\ at = "logging in" => Pending = <<"login by tokens">> \/ Pending = <<"login by key">>
  BY DEF Pending
<1>7. "turn/start" \in Range(Pending) => at = "turning" /\ Command = "exec"
  BY <1>1, <1>3, <1>4
<1> QED
  BY <1>5, <1>6, <1>7

\* What was sent before an answer failed to come is asked too.
LEMMA AskedIs ==
  ASSUME asked \in Seq(Methods), asked' = asked \o Pending
           \/ \E n \in DOMAIN Pending : asked' = asked \o SubSeq(Pending, 1, n)
  PROVE  /\ asked' \in Seq(Methods)
         /\ \A r \in Range(asked') : r \in Range(asked) \/ r \in Range(Pending)
         /\ \A r \in Range(asked) : r \in Range(asked')
         /\ asked # <<>> => asked' # <<>> /\ Head(asked') = Head(asked)
<1>1. PICK p : p = Pending
  OBVIOUS
<1>2. PICK more \in Seq(Methods) : asked' = asked \o more /\ \A r \in Range(more) : r \in Range(p)
  <2>1. p \in Seq(Methods)
    BY <1>1, PendingIs
  <2>2. CASE asked' = asked \o Pending
    BY <1>1, <2>1, <2>2
  <2>3. ASSUME NEW n \in DOMAIN Pending, asked' = asked \o SubSeq(Pending, 1, n)
        PROVE  \E more \in Seq(Methods) :
                 asked' = asked \o more /\ \A r \in Range(more) : r \in Range(p)
    <3>1. n \in 1..Len(p)
      BY <1>1, <2>1
    <3>2. SubSeq(p, 1, n) \in Seq(Methods) /\ Len(SubSeq(p, 1, n)) = n
      BY <2>1, <3>1
    <3>3. \A k \in 1..n : SubSeq(p, 1, n)[k] = p[k]
      BY <2>1, <3>1
    <3>4. \A r \in Range(SubSeq(p, 1, n)) : r \in Range(p)
      BY <2>1, <3>1, <3>2, <3>3 DEF Range
    <3> QED
      BY <1>1, <2>3, <3>2, <3>4
  <2> QED
    BY <2>2, <2>3
<1>3. asked \o more \in Seq(Methods)
  OBVIOUS
<1>4. PICK a \in Seq(Methods) : a = asked
  OBVIOUS
<1>5. Range(a \o more) = Range(a) \cup Range(more)
  BY RangeOfBoth
<1>6. a # <<>> => a \o more # <<>> /\ Head(a \o more) = Head(a)
  OBVIOUS
<1> QED
  BY <1>1, <1>2, <1>3, <1>4, <1>5, <1>6

\* A step asks what its place has to ask, and for a turn only when there is an
\* account.
LEMMA RequestsStep ==
  ASSUME IInv, [Next]_allVars
  PROVE  Requests'
<1>. USE SameProcess, SameInput
<1>1. /\ at \in Places /\ asked \in Seq(Methods)
      /\ at \in Unasked => asked = <<>> /\ printed = <<>>
      /\ at \notin {"turning", "streaming", "exited"} => account = vars.account
      /\ "turn/start" \in Range(asked) => at \in {"streaming", "exited"} /\ Command = "exec"
      /\ account \in {"in", "out"}
  BY DEF IInv, Course, Requests
<1>2. CASE UNCHANGED <<asked, account>> /\ (at' \in Unasked => UNCHANGED printed)
             /\ at' \notin {"logging in", "turning"}
             /\ (at' \in Unasked => at \in Unasked)
             /\ (at' \notin {"streaming", "exited"} => at \notin {"turning", "streaming", "exited"})
             /\ (at \in {"streaming", "exited"} => at' \in {"streaming", "exited"})
  BY <1>1, <1>2 DEF IInv, Requests, AuthenticatedFirst, Unasked, Unconnected
<1>3. CASE UNCHANGED allVars
  BY <1>3 DEF IInv, Requests, AuthenticatedFirst, allVars, connection, turn
<1>4. CASE \/ Parse \/ ResolveTransport \/ Join \/ ReadPrompt \/ Prepare \/ ChatEnds \/ Receive
           \/ StreamFails \/ PageDone \/ CheckMachine \/ CheckVersion \/ CheckUpstream \/ Report
  <2>1. UNCHANGED <<asked, account>>
    BY <1>4 DEF Parse, ResolveTransport, Join, ReadPrompt, Prepare, ChatEnds, Receive, StreamFails,
                PageDone, CheckMachine, CheckVersion, CheckUpstream, Report
  <2>2. at' \in Unasked => UNCHANGED printed /\ at \in Unasked
    BY <1>4 DEF Parse, ResolveTransport, Join, ReadPrompt, Prepare, ChatEnds, Receive, StreamFails,
                PageDone, CheckMachine, CheckVersion, CheckUpstream, Report, Exit, Fail, Goto,
                Unasked, Unconnected
  <2>3. at' \notin {"logging in", "turning"}
    BY <1>4 DEF Parse, ResolveTransport, Join, ReadPrompt, Prepare, ChatEnds, Receive, StreamFails,
                PageDone, CheckMachine, CheckVersion, CheckUpstream, Report, Exit, Fail, Goto, Joined
  <2>4. /\ at' \notin {"streaming", "exited"} => at \notin {"turning", "streaming", "exited"}
        /\ at \in {"streaming", "exited"} => at' \in {"streaming", "exited"}
    BY <1>4 DEF Parse, ResolveTransport, Join, ReadPrompt, Prepare, ChatEnds, Receive, StreamFails,
                PageDone, CheckMachine, CheckVersion, CheckUpstream, Report, Exit, Fail, Goto, Joined
  <2> QED
    BY <1>2, <2>1, <2>2, <2>3, <2>4
<1>5. CASE Connect
  <2>1. UNCHANGED <<asked, account, printed, at>> /\ at \in {"preparing", "joining"}
    BY <1>5 DEF Connect, RefuseToken, NoBinary, StartServer, Opens, Closes, LinkBecomes, IInv, Course
  <2> QED
    BY <1>2, <2>1
<1>6. ASSUME \/ asked' = asked \o Pending
             \/ \E n \in DOMAIN Pending : asked' = asked \o SubSeq(Pending, 1, n)
      PROVE  /\ asked' \in Seq(Methods)
             /\ asked # <<>> => asked' # <<>> /\ Head(asked') = Head(asked)
             /\ "turn/start" \in Range(asked') =>
                  at \in {"turning", "streaming", "exited"} /\ Command = "exec"
             /\ \A r \in Range(asked) : r \in Range(asked')
  BY <1>1, <1>6, AskedIs, PendingIs
<1>7. CASE EnsureAuthenticated
  <2>1. at = "authenticating" /\ asked = <<>> /\ asked' = asked \o Pending /\ account' = account
    BY <1>1, <1>7 DEF EnsureAuthenticated, Answered, Unasked
  <2>2. asked' = <<"account/read">>
    <3>1. <<>> \o <<"account/read">> = <<"account/read">>
      OBVIOUS
    <3> QED
      BY <2>1, <3>1, PendingIs
  <2>3. "turn/start" \notin Range(asked') /\ asked' # <<>> /\ Head(asked') = "account/read"
    BY <1>6, <2>1, <2>2
  <2>4. \/ at' = "turning" /\ account' = "in"
        \/ at' \in {"exited", "logging in"}
    BY <1>7, <2>1 DEF EnsureAuthenticated, Goto, Fail, Exit
  <2> QED
    BY <1>1, <1>6, <2>1, <2>2, <2>3, <2>4
       DEF Requests, Unasked, Unconnected, AuthenticatedFirst
<1>8. CASE Login
  <2>1. /\ at = "logging in" /\ asked = <<"account/read">> /\ asked' = asked \o Pending
        /\ at' = "turning" /\ account' = "in"
    BY <1>8 DEF Login, Answered, Goto, IInv, Requests
  <2>2. \E r \in Range(asked') : r \in {"login by tokens", "login by key"}
    <3>1. PICK x \in {"login by tokens", "login by key"} : Pending = <<x>>
      BY <2>1, PendingIs
    <3>2. <<"account/read">> \in Seq(Methods) /\ <<x>> \in Seq(Methods)
      <4>1. "account/read" \in Methods /\ x \in Methods
        BY DEF Methods
      <4> QED
        BY <4>1, SeqOfOne
    <3>3. Range(<<"account/read">> \o <<x>>) = Range(<<"account/read">>) \cup Range(<<x>>)
      BY <3>2, RangeOfBoth
    <3>4. x \in Range(<<x>>)
      BY RangeOfOne
    <3> QED
      BY <2>1, <3>1, <3>3, <3>4
  <2>3. asked # <<>> /\ Head(asked) = "account/read"
    BY <2>1, RangeOfOne
  <2> QED
    BY <1>6, <2>1, <2>2, <2>3 DEF Requests, Unasked, Unconnected, AuthenticatedFirst
<1>9. CASE StartTurn \/ (RequestFails /\ at = "turning")
  <2>1. /\ at = "turning" /\ at' \in {"streaming", "exited"} /\ account' = account
        /\ \/ asked' = asked \o Pending
           \/ \E n \in DOMAIN Pending : asked' = asked \o SubSeq(Pending, 1, n)
    BY <1>9 DEF StartTurn, RequestFails, Answered, Goto, Fail, Exit
  <2>2. /\ account = "in" /\ asked # <<>> /\ Head(asked) = "account/read"
        /\ vars.account = "in" \/ \E r \in Range(asked) : r \in {"login by tokens", "login by key"}
    BY <2>1 DEF IInv, Requests
  <2> QED
    BY <1>6, <2>1, <2>2 DEF Requests, Unasked, Unconnected, AuthenticatedFirst
<1>10. CASE \/ ListPage \/ Preview \/ ProbeAccount \/ (RequestFails /\ at # "turning")
  <2>1. at \in {"listing", "previewing", "probing", "authenticating", "logging in"}
    <3>1. CASE RequestFails /\ at # "turning"
      <4>1. PICK n \in DOMAIN Pending : TRUE
        BY <3>1 DEF RequestFails
      <4> QED
        BY <3>1, <4>1, NoIndex, PendingIs
    <3> QED
      BY <1>10, <3>1 DEF ListPage, Preview, ProbeAccount
  <2>2. /\ at' \in {"listing", "previewing", "reporting", "exited"}
        /\ account' = account
    BY <1>10, <2>1 DEF ListPage, Preview, ProbeAccount, RequestFails, Goto, Fail, Exit
  <2>3. \/ asked' = asked \o Pending
        \/ \E n \in DOMAIN Pending : asked' = asked \o SubSeq(Pending, 1, n)
        \/ asked' = asked
    BY <1>10 DEF ListPage, Preview, ProbeAccount, RequestFails, Answered
  <2>4. asked' \in Seq(Methods) /\ "turn/start" \notin Range(asked')
    BY <1>1, <1>6, <2>1, <2>3
  <2> QED
    BY <1>1, <2>1, <2>2, <2>4 DEF Requests, Unasked, Unconnected, AuthenticatedFirst
<1> QED
  BY <1>3, <1>4, <1>5, <1>7, <1>8, <1>9, <1>10 DEF Next, Exec, Sessions, Doctor

\* A step starts a server only as the command line and the environment allow.
LEMMA ServersStep ==
  ASSUME IInv, [Next]_allVars
  PROVE  Servers'
<1>. USE SameProcess, SameInput
<1>1. server \in {"absent", "serving", "started"} /\ StartsOnlyItsOwn
  BY DEF IInv, Servers
<1>2. CASE server' = server
  BY <1>1, <1>2 DEF Servers, StartsOnlyItsOwn
<1>3. CASE StartServer
  <2>1. server' = "started" /\ Managed /\ link = "opening"
    BY <1>3 DEF StartServer, Startable
  <2>2. CASE Command = "start"
    BY <2>1, <2>2 DEF Servers, StartsOnlyItsOwn
  <2>3. CASE Command # "start"
    <3>1. ManagesDaemon(line, vars) /\ line \in Lines
      BY <2>1, <2>3 DEF Managed, IInv, Judged
    <3>2. /\ TheUrl = DefaultUrl /\ {"ws-url", "no-daemon", "stdio"} \cap DOMAIN line.given = {}
          /\ vars.url = Absent /\ vars.legacyUrl = Absent
      BY <3>1, ManagedIs DEF TheUrl, Done
    <3>3. InputError # "io"
      <4>1. at \in {"preparing", "joining"}
        BY <2>1 DEF IInv, Course
      <4>2. ~UsageError(line) /\ ~OnlyPrints /\ PromptError = "none"
        BY <4>1 DEF IInv, Judged
      <4> QED
        BY <4>2, InputErrorIs, PrepareErrorIs
    <3> QED
      BY <2>1, <3>2, <3>3 DEF Servers, StartsOnlyItsOwn
  <2> QED
    BY <2>2, <2>3
<1>4. StartServer \/ server' = server
  BY DEF Next, Connect, Exec, Sessions, Doctor, Parse, ResolveTransport, RefuseToken, NoBinary,
     Opens, Closes, LinkBecomes, Join, ReadPrompt, Prepare, EnsureAuthenticated,
     Login, StartTurn, ChatEnds, Receive, StreamFails, ListPage, Preview, PageDone,
     CheckMachine, CheckVersion, CheckUpstream, ProbeAccount, Report, RequestFails, allVars, connection
<1> QED
  BY <1>2, <1>3, <1>4

-----------------------------------------------------------------------------
(* The turn, the list of sessions and the doctor's report                  *)

\* Only a place that asks something can be failed by a request, and a command
\* that has ended takes no step.
LEMMA StepPlaces ==
  ASSUME IInv, [Next]_allVars
  PROVE  /\ RequestFails => at \in {"authenticating", "probing", "logging in", "turning",
                                    "listing", "previewing"}
         /\ Connect => at \in {"preparing", "joining"} /\ at' = at
         /\ at = "exited" => UNCHANGED allVars
<1>1. RequestFails => at \in {"authenticating", "probing", "logging in", "turning",
                              "listing", "previewing"}
  BY NoIndex, PendingIs DEF RequestFails
<1>2. Connect => at \in {"preparing", "joining"} /\ at' = at
  BY DEF Connect, RefuseToken, NoBinary, StartServer, Opens, Closes, LinkBecomes, IInv, Course
<1>3. at = "exited" => UNCHANGED allVars
  BY <1>1, <1>2 DEF Next, Exec, Sessions, Doctor, Parse, ResolveTransport, Join, ReadPrompt,
     Prepare, EnsureAuthenticated, Login, StartTurn, ChatEnds, Receive, StreamFails, ListPage,
     Preview, PageDone, CheckMachine, CheckVersion, CheckUpstream, ProbeAccount, Report
<1> QED
  BY <1>1, <1>2, <1>3

\* A step receives the events of the turn one by one, up to the one that ends it.
LEMMA ReceivedStep ==
  ASSUME IInv, [Next]_allVars
  PROVE  Received'
<1>1. /\ at \in Places
      /\ at \notin {"streaming", "exited"} => feed = <<>>
      /\ feed \in Seq(Range(feed)) /\ Len(feed) \in Nat /\ got \in 0..Len(feed)
      /\ at = "streaming" /\ got > 0 => ~Ends(feed[got])
      /\ ZeroIsCompleted
  <2>1. feed \in Seq(Range(feed))
    BY DEF IInv, Received
  <2>2. Len(feed) \in Nat
    BY <2>1
  <2> QED
    BY <2>1, <2>2 DEF IInv, Course, Received
<1>2. CASE UNCHANGED allVars
  <2>1. at' = at /\ feed' = feed /\ got' = got /\ code' = code
    BY <1>2 DEF allVars, turn
  <2> QED
    BY <2>1 DEF IInv, Received, ZeroIsCompleted, Ends
<1>3. CASE StartTurn
  <2>1. /\ at' = "streaming" /\ feed' \in Streams /\ got' = got /\ got = 0
    <3>1. at = "turning" /\ feed = <<>>
      BY <1>1, <1>3 DEF StartTurn
    <3>2. got = 0
      BY <1>1, <3>1
    <3> QED
      BY <1>3, <3>2 DEF StartTurn, Goto
  <2>2. feed' \in Seq(Range(feed')) /\ Len(feed') \in Nat
    BY <2>1, StreamsAssumption
  <2> QED
    BY <2>1, <2>2 DEF Received, ZeroIsCompleted
<1>4. CASE Receive
  <2> DEFINE e == feed[got + 1]
  <2>1. /\ at = "streaming" /\ got < Len(feed) /\ got' = got + 1 /\ feed' = feed
        /\ IF Ends(e) THEN at' = "exited" /\ code' = StreamCode(e) ELSE at' = "streaming"
    BY <1>4 DEF Receive, Exit, Goto
  <2>2. got' \in 0..Len(feed) /\ got' > 0 /\ feed'[got'] = e
    BY <1>1, <2>1
  <2>3. Ends(e) => (code' = 0 <=> e.kind = "turnCompleted")
    BY <2>1, ExitCodes DEF StreamCode, ExitCode
  <2>4. ZeroIsCompleted'
    <3>1. at' = "exited" => (code' = 0 <=> e.kind = "turnCompleted")
      BY <2>1, <2>3
    <3> HIDE DEF e
    <3> QED
      BY <2>2, <3>1 DEF ZeroIsCompleted
  <2>5. at' = "streaming" => ~Ends(feed'[got'])
    BY <2>1, <2>2
  <2> HIDE DEF e
  <2>6. feed' = feed /\ at' \in {"streaming", "exited"}
    BY <2>1
  <2> QED
    BY <1>1, <2>2, <2>4, <2>5, <2>6 DEF Received, Ends
<1>5. CASE StreamFails
  <2>1. PICK c \in {TurnCategory(ClientCategory("TransportClosed")), "io"} :
          /\ at = "streaming" /\ at' = "exited" /\ feed' = feed /\ got' = got
          /\ code' = ExitCode[c]
    BY <1>5 DEF StreamFails, Fail, Exit, turn
  <2>2. c \in Categories
    BY <2>1, ExitCodes DEF TurnCategory, ClientCategory
  <2>3. code' # 0
    BY <2>1, <2>2, ExitCodes
  <2>4. ~(got > 0 /\ feed[got].kind = "turnCompleted")
    BY <1>1, <2>1 DEF Ends
  <2> QED
    BY <1>1, <2>1, <2>3, <2>4 DEF Received, ZeroIsCompleted
<1>6. CASE ~StartTurn /\ at \notin {"streaming", "exited"} /\ UNCHANGED <<feed, got>>
  <2>1. feed' = <<>> /\ got' = got
    BY <1>1, <1>6
  <2>2. at' # "streaming"
    BY <1>6, StepPlaces
       DEF Next, Connect, Exec, Sessions, Doctor, Parse, ResolveTransport, Join, ReadPrompt, Prepare,
           EnsureAuthenticated, Login, ChatEnds, Receive, StreamFails, ListPage, Preview,
           PageDone, CheckMachine, CheckVersion, CheckUpstream, ProbeAccount, Report, RequestFails,
           Exit, Fail, Goto, Joined, allVars
  <2> QED
    BY <1>1, <1>6, <2>1, <2>2 DEF Received, ZeroIsCompleted
<1>7. \/ StartTurn \/ Receive \/ StreamFails \/ UNCHANGED allVars
      \/ ~StartTurn /\ at \notin {"streaming", "exited"} /\ UNCHANGED <<feed, got>>
  BY StepPlaces DEF Next, Connect, Exec, Sessions, Doctor, Parse, ResolveTransport, RefuseToken,
     NoBinary, StartServer, Opens, Closes, LinkBecomes, Join, ReadPrompt, Prepare,
     EnsureAuthenticated, Login, ChatEnds, ListPage, Preview, PageDone,
     CheckMachine, CheckVersion, CheckUpstream, ProbeAccount, Report, RequestFails, turn
<1> QED
  BY <1>2, <1>3, <1>4, <1>5, <1>6, <1>7

\* A step lists the pages one after the other, and only threads that are on them.
LEMMA PagesStep ==
  ASSUME IInv, [Next]_allVars
  PROVE  Pages'
<1>. USE SameProcess, SameInput
<1>1. /\ at \in Places /\ page \in 0..(MaxPages + 1)
      /\ at \notin {"listing", "previewing", "exited"} => page = 0
      /\ at = "listing" => page <= MaxPages /\ page < PageCount
      /\ at = "previewing" => page <= PageCount /\ page <= MaxPages /\ queue \in Seq(Recorded)
      /\ entries \in Seq(Recorded)
  BY DEF IInv, Course, Pages
<1>2. vars \in Environments
  BY DEF IInv, Judged
<1>3. PageCount \in Nat \ {0} /\ DOMAIN vars.pages = 1..PageCount
  <2>1. vars.pages \in Seq(Range(vars.pages)) /\ vars.pages # <<>>
    BY <1>2, EnvironmentsAssumption
  <2> QED
    BY <2>1, LenProperties, EmptySeq DEF PageCount
<1>4. MaxPages \in Nat
  BY MaxPagesAssumption
<1>5. CASE UNCHANGED <<page, queue, entries>> /\ at' \notin {"listing", "previewing"}
             /\ (at' # "exited" => at \notin {"listing", "previewing", "exited"})
  BY <1>1, <1>5 DEF Pages
<1>6. CASE UNCHANGED <<page, queue, entries, at>>
  BY <1>1, <1>6 DEF Pages
<1>7. CASE Join
  <2>1. at = "joining" /\ page = 0 /\ UNCHANGED <<page, queue, entries>> /\ at' # "previewing"
    BY <1>1, <1>7 DEF Join, Joined, Exit, Fail, Goto, listing
  <2> QED
    BY <1>1, <1>3, <1>4, <2>1 DEF Pages
<1>8. CASE ListPage
  <2>1. at = "listing" /\ page' = page + 1 /\ entries' = entries
    BY <1>8 DEF ListPage
  <2>2. CASE page + 1 > MaxPages
    <3>1. at' = "exited"
      BY <1>8, <2>1, <2>2 DEF ListPage, Fail, Exit
    <3>2. page' \in 0..(MaxPages + 1)
      BY <1>1, <1>4, <2>1
    <3> QED
      BY <1>1, <2>1, <3>1, <3>2 DEF Pages
  <2>3. CASE ~(page + 1 > MaxPages)
    <3>1. at' = "previewing" /\ queue' = Filtered(vars.pages[page + 1])
      BY <1>8, <2>1, <2>3 DEF ListPage, Goto
    <3>2. page + 1 \in 1..PageCount /\ page + 1 <= MaxPages
      BY <1>1, <1>3, <1>4, <2>1, <2>3
    <3>3. PICK p : p = vars.pages[page + 1]
      OBVIOUS
    <3>4. p \in Range(vars.pages)
      BY <1>3, <3>2, <3>3 DEF Range
    <3>5. p \in Seq(Range(p))
      BY <1>2, <3>4, EnvironmentsAssumption
    <3>6. Range(p) \subseteq Recorded
      BY <3>2, <3>3 DEF Recorded
    <3>7. Filtered(p) \in Seq(Range(p))
      BY <3>5, FilteredIs
    <3>8. queue' \in Seq(Recorded)
      BY <3>1, <3>3, <3>6, <3>7
    <3> QED
      BY <1>1, <1>3, <1>4, <2>1, <3>1, <3>2, <3>8 DEF Pages
  <2> QED
    BY <2>2, <2>3
<1>9. CASE Preview
  <2>1. /\ at = "previewing" /\ at' = at /\ queue # <<>> /\ page' = page
        /\ entries' = Append(entries, Head(queue)) /\ queue' = Tail(queue)
    BY <1>9 DEF Preview
  <2>2. PICK q \in Seq(Recorded) : q = queue
    BY <1>1, <2>1
  <2>3. PICK shown \in Seq(Recorded) : shown = entries
    BY <1>1
  <2>4. PICK R : R = Recorded
    OBVIOUS
  <2>5. Head(q) \in R /\ Tail(q) \in Seq(R)
    BY <2>1, <2>2, <2>4
  <2>6. Append(shown, Head(q)) \in Seq(R)
    BY <2>3, <2>4, <2>5
  <2>7. entries' \in Seq(Recorded) /\ queue' \in Seq(Recorded)
    BY <2>1, <2>2, <2>3, <2>4, <2>5, <2>6
  <2> QED
    BY <1>1, <2>1, <2>7 DEF Pages
<1>10. CASE PageDone
  <2>1. /\ at = "previewing" /\ UNCHANGED <<page, queue, entries>>
        /\ \/ at' = "listing" /\ page < Len(vars.pages)
           \/ at' = "exited"
    BY <1>10 DEF PageDone, Goto, Exit, listing
  <2> QED
    BY <1>1, <2>1 DEF Pages, PageCount
<1>11. \/ Join \/ ListPage \/ Preview \/ PageDone \/ UNCHANGED <<page, queue, entries, at>>
       \/ /\ UNCHANGED <<page, queue, entries>> /\ at' \notin {"listing", "previewing"}
          /\ at' # "exited" => at \notin {"listing", "previewing", "exited"}
  BY StepPlaces
     DEF Next, Connect, Exec, Sessions, Doctor, Parse, ResolveTransport, RefuseToken, NoBinary,
         StartServer, Opens, Closes, LinkBecomes, ReadPrompt, Prepare, EnsureAuthenticated, Login,
         StartTurn, ChatEnds, Receive, StreamFails, CheckMachine, CheckVersion, CheckUpstream,
         ProbeAccount, Report, RequestFails, Exit, Fail, Goto, allVars, listing
<1> QED
  BY <1>5, <1>6, <1>7, <1>8, <1>9, <1>10, <1>11

\* The checks of a report have a status each.
Statuses == {"ok", "warning", "fail", "skipped"}

\* Every step leaves each check of the report with a status.
LEMMA ChecksStep ==
  ASSUME \A c \in checks : c[2] \in Statuses, [Next]_allVars
  PROVE  (\A c \in checks : c[2] \in Statuses)'
<1>1. \A x, y : <<x, y>>[2] = y
  OBVIOUS
<1>2. \A p : Status(p) \in Statuses
  BY DEF Status, Statuses
<1>3. {"ok", "warning", "fail", "skipped"} = Statuses
  BY DEF Statuses
<1>4. CASE checks' = checks
  BY <1>4
<1>5. CASE \E new : /\ checks' = checks \cup new /\ \A c \in new : c[2] \in Statuses
  BY <1>5
<1>6. CASE Join
  <2>1. checks' = checks \/ checks' = checks \cup {<<"app_server.connection", "fail">>}
    BY <1>6 DEF Join
  <2>2. \A c \in {<<"app_server.connection", "fail">>} : c[2] \in Statuses
    BY <1>3
  <2> QED
    BY <1>4, <1>5, <2>1, <2>2
<1>7. CASE CheckMachine
  BY <1>1, <1>2, <1>3, <1>5, <1>7 DEF CheckMachine, Check
<1>8. CASE CheckVersion
  <2>1. PICK ok \in BOOLEAN :
          checks' = checks \cup
            ({<<"codex.version", Status(ok)>>,
              <<"codex.auth", IF vars.credentials # {} \/ vars.cached THEN "ok" ELSE "warning">>,
              <<"codex.doctor", IF Has(line, "live") THEN "due" ELSE "skipped">>}
             \ {<<"codex.doctor", "due">>})
    BY <1>8 DEF CheckVersion, Check
  <2>2. PICK auth \in Statuses :
          auth = IF vars.credentials # {} \/ vars.cached THEN "ok" ELSE "warning"
    BY <1>3
  <2>3. PICK doctor \in Statuses \cup {"due"} :
          doctor = IF Has(line, "live") THEN "due" ELSE "skipped"
    BY <1>3
  <2>4. PICK version \in Statuses : version = Status(ok)
    BY <1>2
  <2> DEFINE new == {<<"codex.version", version>>, <<"codex.auth", auth>>,
                     <<"codex.doctor", doctor>>} \ {<<"codex.doctor", "due">>}
  <2>5. \A c \in new : c[2] \in Statuses
    <3>1. doctor # "due" => doctor \in Statuses
      BY <2>3
    <3> QED
      BY <1>1, <3>1
  <2>6. checks' = checks \cup new
    BY <2>1, <2>2, <2>3, <2>4
  <2> HIDE DEF new
  <2> QED
    BY <1>5, <2>5, <2>6
<1>9. CASE CheckUpstream
  <2>1. PICK status \in {"ok", "warning", "fail"} : checks' = checks \cup {<<"codex.doctor", status>>}
    BY <1>9 DEF CheckUpstream, Check
  <2>2. status \in Statuses
    BY <1>3
  <2> QED
    BY <1>1, <1>5, <2>1, <2>2
<1>10. CASE ProbeAccount
  BY <1>1, <1>2, <1>3, <1>5, <1>10 DEF ProbeAccount, Check
<1> QED
  BY <1>4, <1>6, <1>7, <1>8, <1>9, <1>10
     DEF Next, Connect, Exec, Sessions, Doctor, Parse, ResolveTransport, RefuseToken, NoBinary,
         StartServer, Opens, Closes, LinkBecomes, ReadPrompt, Prepare, EnsureAuthenticated, Login,
         StartTurn, ChatEnds, Receive, StreamFails, ListPage, Preview, PageDone, Report, RequestFails,
         allVars

\* What of a report decides the doctor's exit code
Machine == {<<"luna.temp", Status(vars.logs)>>, <<"codex.binary", Status(vars.codex)>>}
HasFailed == \E c \in checks : c[2] = "fail"

\* A doctor's report has what it found of the machine and, if it is live, of the
\* server, and a doctor that is not keeps away from every server.
DoctorCourse ==
  /\ at \in {"parsing", "resolving", "checking", "versioning", "upstream", "joining", "probing",
             "reporting", "exited"}
  /\ at = "upstream" => Has(line, "live")
  /\ at \in {"versioning", "upstream", "joining", "probing", "reporting"} => Machine \subseteq checks
  /\ at = "reporting" /\ Has(line, "live") => HasFailed \/ (link = "open" /\ account = "in")
  /\ ~Has(line, "live") => link = "none" /\ server = vars.server /\ asked = <<>>
  /\ code = 0 => /\ vars.codex /\ vars.logs
                 /\ Has(line, "live") => link = "open" /\ account = "in"

\* What Found says of a report is what DoctorCourse says of a doctor's.
LEMMA DoctorCourseIs ==
  ASSUME Course
  PROVE  Found <=> /\ \A c \in checks : c[2] \in Statuses
                   /\ Command = "doctor" => DoctorCourse
BY ExitCodes DEF Course, Places, Found, DoctorCourse, DoctorIsRight, Statuses, Machine, HasFailed, IsTurn

\* A doctor's step keeps its course.
LEMMA DoctorStep ==
  ASSUME IInv, DoctorCourse, Command = "doctor", [Next]_allVars
  PROVE  DoctorCourse'
<1>. USE SameProcess, SameInput
<1> DEFINE live == Has(line, "live")
<1>1. /\ Course /\ ~IsTurn /\ code \in {Running, 0} \cup Range(ExitCode)
      /\ link = "opening" => at = "joining"
      /\ at = "joining" => link # "none" /\ link # "aborted"
      /\ at = "probing" => link = "open"
      /\ code = Running <=> at # "exited"
  BY DEF IInv, Course, IsTurn, Asking
<1>2. vars.codex \in BOOLEAN /\ vars.logs \in BOOLEAN
  BY EnvironmentsAssumption DEF IInv, Judged
<1>3. Machine' = Machine /\ live' = live
  BY DEF Machine
<1>4. CASE UNCHANGED allVars
  BY <1>3, <1>4 DEF DoctorCourse, HasFailed, allVars, connection
<1>5. CASE Connect
  <2>1. at = "joining" /\ link = "opening" /\ UNCHANGED <<at, checks, account, asked, code>>
    BY <1>1, <1>5 DEF Connect, RefuseToken, NoBinary, StartServer, Opens, Closes, LinkBecomes
  <2>2. live
    BY <2>1 DEF DoctorCourse
  <2> QED
    BY <1>1, <1>3, <2>1, <2>2 DEF DoctorCourse
<1>6. CASE Parse
  <2>1. CASE UsageError(line)
    <3>1. at' = "exited" /\ code' = ExitCode["usage"] /\ UNCHANGED <<link, server, asked>>
      BY <1>6, <2>1 DEF Parse, Fail, Exit, OnlyPrints, connection
    <3> QED
      BY <1>3, <3>1, ExitCodes DEF DoctorCourse
  <2>2. CASE ~UsageError(line)
    <3>1. ~OnlyPrints
      <4>1. ~InformationOnly(line)
        BY DEF Command
      <4> QED
        BY <4>1 DEF OnlyPrints
    <3>2. at' = "resolving" /\ code' = Running /\ UNCHANGED <<link, server, asked>>
      BY <1>1, <1>6, <2>2, <3>1 DEF Parse, Goto, connection, IsTurn
    <3> QED
      BY <1>3, <3>2, ExitCodes DEF DoctorCourse
  <2> QED
    BY <2>1, <2>2
<1>7. CASE ResolveTransport
  <2>1. /\ at = "resolving" /\ UNCHANGED <<link, server, asked>>
        /\ \/ at' = "exited" /\ code' = ExitCode["usage"]
           \/ at' = "checking" /\ code' = code
    BY <1>7 DEF ResolveTransport, Fail, Exit, Goto
  <2> QED
    BY <1>1, <1>3, <2>1, ExitCodes DEF DoctorCourse
<1>8. CASE Join
  <2>1. at = "joining" /\ live
    BY <1>1, <1>8 DEF Join, DoctorCourse
  <2>2. CASE link = "open"
    <3>1. at' = "probing" /\ code' = code /\ UNCHANGED <<checks, link, account>>
      BY <1>8, <2>2 DEF Join, Joined, Goto, connection
    <3> QED
      BY <1>1, <1>3, <2>1, <3>1, ExitCodes DEF DoctorCourse
  <2>3. CASE link # "open"
    <3>1. /\ at' = "reporting" /\ code' = code
          /\ checks' = checks \cup {<<"app_server.connection", "fail">>}
      BY <1>8, <2>3 DEF Join, Goto
    <3>2. HasFailed'
      <4>1. <<"app_server.connection", "fail">>[2] = "fail"
        OBVIOUS
      <4> QED
        BY <3>1, <4>1 DEF HasFailed
    <3> QED
      BY <1>1, <1>3, <2>1, <3>1, <3>2, ExitCodes DEF DoctorCourse
  <2> QED
    BY <2>2, <2>3
<1>9. CASE CheckMachine
  <2>1. /\ at = "checking" /\ at' \in {"versioning", "reporting"} /\ code' = code
        /\ (~vars.codex <=> at' = "reporting")
        /\ Machine \subseteq checks'
    BY <1>9 DEF CheckMachine, Check, Goto, connection, Machine
  <2>2. ~vars.codex => HasFailed'
    <3>1. <<"codex.binary", "fail">>[2] = "fail"
      OBVIOUS
    <3>2. ~vars.codex => <<"codex.binary", "fail">> \in checks'
      BY <2>1 DEF Machine, Status
    <3> QED
      BY <3>1, <3>2 DEF HasFailed
  <2>3. UNCHANGED <<link, server, asked>>
    BY <1>9 DEF CheckMachine, connection
  <2> QED
    BY <1>1, <1>3, <2>1, <2>2, <2>3, ExitCodes DEF DoctorCourse
<1>10. CASE CheckVersion
  <2>1. /\ at = "versioning" /\ at' = IF live THEN "upstream" ELSE "reporting"
        /\ code' = code /\ UNCHANGED <<link, server, asked>> /\ checks \subseteq checks'
    BY <1>10 DEF CheckVersion, Check, Goto, connection
  <2> QED
    BY <1>1, <1>3, <2>1, ExitCodes DEF DoctorCourse
<1>11. CASE CheckUpstream
  <2>1. /\ at = "upstream" /\ at' = "joining" /\ code' = code /\ checks \subseteq checks'
    BY <1>11 DEF CheckUpstream, Check, Goto
  <2> QED
    BY <1>1, <1>3, <2>1, ExitCodes DEF DoctorCourse
<1>12. CASE ProbeAccount
  <2>1. /\ at = "probing" /\ at' = "reporting" /\ code' = code /\ checks \subseteq checks'
        /\ UNCHANGED <<link, account>> /\ link = "open"
        /\ \/ <<"codex.auth.live", Status(account = "in")>> \in checks'
           \/ <<"app_server.handshake", "fail">> \in checks'
    BY <1>1, <1>12 DEF ProbeAccount, Check, Goto, connection
  <2>2. account = "in" \/ HasFailed'
    <3>1. \A x : <<x, "fail">>[2] = "fail"
      OBVIOUS
    <3> QED
      BY <2>1, <3>1 DEF HasFailed, Status
  <2>3. live
    BY <2>1 DEF DoctorCourse
  <2> QED
    BY <1>1, <1>3, <2>1, <2>2, <2>3, ExitCodes DEF DoctorCourse
<1>13. CASE Report
  <2>1. /\ at = "reporting" /\ at' = "exited" /\ UNCHANGED <<link, server, asked, account>>
        /\ code' = IF HasFailed THEN 1 ELSE 0
    BY <1>13 DEF Report, Exit, connection, HasFailed
  <2>2. code' = 0 => vars.codex /\ vars.logs
    <3>1. \A x : <<x, "fail">>[2] = "fail"
      OBVIOUS
    <3>2. Machine \subseteq checks
      BY <2>1 DEF DoctorCourse
    <3>3. ~(vars.codex /\ vars.logs) => HasFailed
      BY <1>2, <3>1, <3>2 DEF Machine, Status, HasFailed
    <3> QED
      BY <2>1, <3>3
  <2> QED
    BY <1>3, <2>1, <2>2 DEF DoctorCourse
<1>14. ~Exec /\ ~Sessions /\ ~RequestFails
  BY <1>1, StepPlaces DEF DoctorCourse, IInv, Course, IsTurn, RequestFails, Exec, ReadPrompt, Prepare,
     EnsureAuthenticated, Login, StartTurn, ChatEnds, Receive, StreamFails, Sessions, ListPage,
     Preview, PageDone
<1> QED
  BY <1>4, <1>5, <1>6, <1>7, <1>8, <1>9, <1>10, <1>11, <1>12, <1>13, <1>14 DEF Next, Doctor

\* A step keeps what the doctor has found.
LEMMA FoundStep ==
  ASSUME IInv, [Next]_allVars
  PROVE  Found'
<1>1. Course' /\ Command' = Command
  BY CourseStep, SameProcess, SameInput
<1>2. (\A c \in checks : c[2] \in Statuses) /\ (Command = "doctor" => DoctorCourse)
  BY DoctorCourseIs DEF IInv
<1>3. (\A c \in checks : c[2] \in Statuses)'
  BY <1>2, ChecksStep
<1>4. Command = "doctor" => DoctorCourse'
  BY <1>2, DoctorStep
<1> QED
  BY <1>1, <1>3, <1>4, ExitCodes
     DEF Course, Places, Found, DoctorCourse, DoctorIsRight, Statuses, Machine, HasFailed, IsTurn

-----------------------------------------------------------------------------
(* Theorems                                                                *)

\* The invariants hold of a run that starts.
LEMMA IInvInit ==
  ASSUME Init
  PROVE  IInv
<1>1. /\ line \in Lines /\ vars \in Environments /\ at = "parsing" /\ link = "none"
      /\ server = vars.server /\ account = vars.account /\ asked = <<>> /\ feed = <<>> /\ got = 0
      /\ printed = <<>> /\ page = 0 /\ entries = <<>> /\ checks = {} /\ code = Running
  BY DEF Init
<1>2. server \in {"absent", "serving"} /\ account \in {"in", "out"}
  BY <1>1, EnvironmentsAssumption
<1>3. \A x : x \notin Range(<<>>)
  BY NoIndex DEF Range
<1>4. Course
  BY <1>1 DEF Course, Places, Unconnected, Asking
<1>5. Judged
  BY <1>1 DEF Judged, InputErrorsDecide
<1>6. Requests
  <2>1. <<>> \in Seq(Methods)
    OBVIOUS
  <2> QED
    BY <1>1, <1>2, <1>3, <2>1 DEF Requests, AuthenticatedFirst
<1>7. Servers
  BY <1>1, <1>2 DEF Servers, StartsOnlyItsOwn
<1>8. Received
  <2>1. <<>> \in Seq(Range(<<>>)) /\ Len(<<>>) = 0
    OBVIOUS
  <2> QED
    BY <1>1, <2>1 DEF Received, ZeroIsCompleted
<1>9. Pages
  <2>1. <<>> \in Seq(Recorded)
    OBVIOUS
  <2> QED
    BY <1>1, <2>1, MaxPagesAssumption DEF Pages
<1>10. Found
  BY <1>1, ExitCodes DEF Found, DoctorIsRight
<1> QED
  BY <1>4, <1>5, <1>6, <1>7, <1>8, <1>9, <1>10 DEF IInv

\* The parts of the invariant hold together at every step.
LEMMA IInvHolds == Spec => []IInv
<1>1. IInv /\ [Next]_allVars => IInv'
  BY CourseStep, JudgedStep, RequestsStep, ServersStep, ReceivedStep, PagesStep, FoundStep DEF IInv
<1> QED
  BY IInvInit, <1>1, PTL DEF Spec

\* Every state of a run is one that the program can be in: of the threads it lists
\* each is on a page that was read, and it has an exit code when it has ended.
THEOREM TypeCorrect == Spec => []TypeOK
<1>1. IInv => TypeOK
  <2> SUFFICES ASSUME IInv PROVE TypeOK
    OBVIOUS
  <2>1. \A e \in Range(entries) : \E k \in DOMAIN vars.pages : e \in Range(vars.pages[k])
    <3> TAKE e \in Range(entries)
    <3>1. entries \in Seq(Recorded) /\ vars \in Environments
      BY DEF IInv, Pages, Judged
    <3>2. e \in Recorded
      BY <3>1 DEF Range
    <3>3. vars.pages \in Seq(Range(vars.pages))
      BY <3>1, EnvironmentsAssumption
    <3>4. DOMAIN vars.pages = 1..PageCount
      BY <3>3, LenProperties DEF PageCount
    <3> QED
      BY <3>2, <3>4 DEF Recorded
  <2> QED
    BY <2>1 DEF IInv, TypeOK, Course, Judged, Requests, Servers, Received, Pages, Found
<1> QED
  BY IInvHolds, <1>1, PTL

\* A turn is started only for an account the server has, its own or one that was
\* logged in with the credentials of the environment (ensure_authenticated).
THEOREM TurnsHaveAnAccount == Spec => []AuthenticatedFirst
<1>1. IInv => AuthenticatedFirst
  BY DEF IInv, Requests
<1> QED
  BY IInvHolds, <1>1, PTL

\* However the connect task fares beside it, the first error of the input decides
\* the exit code and nothing is asked; a server is started only where the command
\* line and the environment leave it to luna; and a turn runs with every entry
\* that every source of its configuration gave.
THEOREM ActsAsItIsTold == Spec => []ActsAsTold
<1>1. IInv => ConfigAgrees
  <2> SUFFICES ASSUME IInv, "turn/start" \in Range(asked) PROVE BuildThreadConfig(line).ok
    BY ConfigIsWhole DEF ConfigAgrees, IInv, Judged
  <2>1. at \in {"streaming", "exited"} /\ Command = "exec" /\ asked # <<>>
    <3>1. \A x : x \notin Range(<<>>)
      BY NoIndex DEF Range
    <3> QED
      BY <3>1 DEF IInv, Requests
  <2>2. InputError = "none"
    BY <2>1 DEF IInv, Judged, InputErrorsDecide
  <2>3. PrepareError(line, vars) = "none"
    <3>1. ~OnlyPrints
      BY <2>1 DEF OnlyPrints, Command
    <3> QED
      BY <2>1, <2>2, <3>1, InputErrorIs DEF IsTurn
  <2> QED
    BY <2>3, PrepareErrorIs
<1>2. IInv => ActsAsTold
  BY <1>1 DEF IInv, Judged, Servers, ActsAsTold
<1> QED
  BY IInvHolds, <1>2, PTL

\* Exit code 0 of exec tells that its turn completed, and of the doctor that it
\* found what it was to find; one that is not live keeps away from every server.
THEOREM ZeroIsDone == Spec => []ZeroMeansDone
<1>1. IInv => ZeroMeansDone
  BY DEF IInv, Received, Found, ZeroMeansDone
<1> QED
  BY IInvHolds, <1>1, PTL

-----------------------------------------------------------------------------
(* The list of sessions                                                    *)

\* What matches of two lists is what matches of each.
LEMMA FilteredConcat ==
  ASSUME NEW T, NEW s \in Seq(T), NEW t \in Seq(T)
  PROVE  Filtered(s \o t) = Filtered(s) \o Filtered(t)
<1> DEFINE M == {x \in T : Matches(x)}
<1>1. ASSUME NEW u \in Seq(T) PROVE Filtered(u) = Kept(u, M)
  <2> DEFINE U == {x \in Range(u) : Matches(x)}
  <2>1. \A k \in 1..Len(u) : u[k] \in U <=> u[k] \in M
    <3>1. ASSUME NEW k \in 1..Len(u) PROVE u[k] \in Range(u) /\ u[k] \in T
      BY DEF Range
    <3> QED
      BY <3>1
  <2>2. Kept(u, U) = Kept(u, M)
    <3> HIDE DEF U, M
    <3> QED
      BY <2>1, KeptSame
  <2> QED
    BY <2>2 DEF Filtered
<1> HIDE DEF M
<1>2. s \o t \in Seq(T)
  OBVIOUS
<1>3. Filtered(s \o t) = Kept(s \o t, M)
  BY <1>1, <1>2
<1>4. Kept(s \o t, M) = Kept(s, M) \o Kept(t, M)
  BY KeptConcat
<1> QED
  BY <1>1, <1>3, <1>4

\* The threads that match on the pages up to one
ListedUpTo(k) == Filtered(FlattenSeq(Prefix(vars.pages, k)))

\* The list of luna sessions so far: nothing is printed before it is whole.
Listing ==
  /\ at \notin {"streaming", "exited"} => printed = <<>>
  /\ at \notin {"listing", "previewing", "exited"} => entries = <<>>
  /\ at = "listing" => entries = ListedUpTo(page)
  /\ at = "previewing" => page \in 1..PageCount /\ entries \o queue = ListedUpTo(page)
  /\ SessionsAllOrNothing

\* The pages are lists of threads.
LEMMA PagesAre ==
  ASSUME NEW e \in Environments
  PROVE  /\ e.pages \in Seq(Seq(UNION {Range(e.pages[k]) : k \in 1..Len(e.pages)}))
         /\ Len(e.pages) \in Nat \ {0} /\ DOMAIN e.pages = 1..Len(e.pages)
         /\ \A t \in UNION {Range(e.pages[k]) : k \in 1..Len(e.pages)} :
              t.recency \in Int /\ t.id \in Nat
<1> DEFINE T == UNION {Range(e.pages[k]) : k \in 1..Len(e.pages)}
<1>1. PICK pages : pages = e.pages
  OBVIOUS
<1>2. /\ pages \in Seq(Range(pages)) /\ pages # <<>>
      /\ \A p \in Range(pages) : /\ p \in Seq(Range(p))
                                 /\ \A t \in Range(p) : t.id \in Nat /\ t.recency \in Int
  BY <1>1, EnvironmentsAssumption
<1>3. DOMAIN pages = 1..Len(pages) /\ Len(pages) \in Nat \ {0}
  BY <1>2, LenProperties, EmptySeq
<1>4. ASSUME NEW k \in 1..Len(pages)
      PROVE  pages[k] \in Seq(T) /\ \A t \in Range(pages[k]) : t.id \in Nat /\ t.recency \in Int
  <2>1. PICK p : p = pages[k]
    OBVIOUS
  <2>2. p \in Range(pages)
    BY <1>3, <2>1 DEF Range
  <2>3. Range(p) \subseteq T
    BY <1>1, <2>1
  <2>4. p \in Seq(T)
    BY <1>2, <2>2, <2>3
  <2> HIDE DEF T
  <2> QED
    BY <1>2, <2>1, <2>2, <2>4
<1>5. pages \in Seq(Seq(T))
  <2> HIDE DEF T
  <2>1. pages \in [1..Len(pages) -> Seq(T)]
    BY <1>2, <1>3, <1>4
  <2> QED
    BY <1>3, <2>1
<1>6. \A t \in T : t.recency \in Int /\ t.id \in Nat
  BY <1>1, <1>4
<1> QED
  BY <1>1, <1>3, <1>5, <1>6

\* None of the first page, and of one more what is on it too.
LEMMA ListedUpToIs ==
  ASSUME vars \in Environments
  PROVE  /\ ListedUpTo(0) = <<>>
         /\ ListedUpTo(PageCount) = Filtered(FlattenSeq(vars.pages))
         /\ \A k \in 0..(PageCount - 1) :
              ListedUpTo(k + 1) = ListedUpTo(k) \o Filtered(vars.pages[k + 1])
<1>1. PICK pages, T : pages = vars.pages /\ T = Recorded
  OBVIOUS
<1>2. pages \in Seq(Seq(T)) /\ PageCount = Len(pages)
  BY <1>1, PagesAre DEF Recorded, PageCount
<1>3. Prefix(pages, 0) = <<>> /\ Prefix(pages, Len(pages)) = pages
  BY <1>2, PrefixIs
<1>4. ListedUpTo(0) = <<>>
  <2>1. <<>> \in Seq(Seq(T)) /\ Len(<<>>) = 0 /\ <<>> \in Seq(T)
    OBVIOUS
  <2>2. FlattenSeq(<<>>) = <<>>
    BY <2>1, FlattenType
  <2>3. Kept(<<>>, {t \in Range(<<>>) : Matches(t)}) = <<>>
    BY <2>1, KeptType
  <2> QED
    BY <1>1, <1>3, <2>2, <2>3 DEF ListedUpTo, Filtered
<1>5. ASSUME NEW k \in 0..(PageCount - 1)
      PROVE  ListedUpTo(k + 1) = ListedUpTo(k) \o Filtered(vars.pages[k + 1])
  <2>1. Prefix(pages, k) \in Seq(Seq(T)) /\ pages[k + 1] \in Seq(T)
    BY <1>2, PrefixIs
  <2>2. PICK a \in Seq(T), b \in Seq(T) : a = FlattenSeq(Prefix(pages, k)) /\ b = pages[k + 1]
    BY <2>1, FlattenType
  <2>3. FlattenSeq(Prefix(pages, k + 1)) = a \o b
    BY <1>2, <2>2, FlattenPrefix
  <2>4. Filtered(a \o b) = Filtered(a) \o Filtered(b)
    BY FilteredConcat
  <2> QED
    BY <1>1, <2>2, <2>3, <2>4 DEF ListedUpTo
<1> QED
  BY <1>1, <1>2, <1>3, <1>4, <1>5 DEF ListedUpTo

\* What is listed stays listed.
LEMMA SameListing ==
  ASSUME UNCHANGED process
  PROVE  /\ \A k \in Nat : ListedUpTo(k)' = ListedUpTo(k)
         /\ (Filtered(FlattenSeq(vars.pages)))' = Filtered(FlattenSeq(vars.pages))
<1>1. line' = line /\ vars' = vars
  BY DEF process
<1>2. PICK pages : pages = vars.pages
  OBVIOUS
<1>3. ASSUME NEW s PROVE Filtered(s)' = Filtered(s)
  BY <1>1 DEF Filtered, Matches, Has
<1>4. (Filtered(FlattenSeq(vars.pages)))' = Filtered(FlattenSeq(vars.pages))
  <2>1. (Filtered(FlattenSeq(pages)))' = Filtered(FlattenSeq(pages))
    BY <1>3
  <2> QED
    BY <1>1, <1>2, <2>1
<1>5. ASSUME NEW k \in Nat PROVE ListedUpTo(k)' = ListedUpTo(k)
  <2>1. (Filtered(FlattenSeq(Prefix(pages, k))))' = Filtered(FlattenSeq(Prefix(pages, k)))
    BY <1>3
  <2> QED
    BY <1>1, <1>2, <2>1 DEF ListedUpTo
<1> QED
  BY <1>4, <1>5

\* What is printed of a list that is whole is what was asked for.
LEMMA WholeListIsShown ==
  ASSUME DistinctThreads, vars \in Environments, entries \in Seq(Recorded), UNCHANGED process,
         entries = Filtered(FlattenSeq(vars.pages)),
         printed' = [k \in DOMAIN entries |-> <<"session", NoId, Sorted[k].id>>]
  PROVE  SessionsAllOrNothing' \/ code' # 0
<1> DEFINE wanted == Filtered(FlattenSeq(vars.pages))
           shown == [k \in DOMAIN printed' |-> CHOOSE t \in Range(wanted) : t.id = printed'[k][3]]
<1>1. wanted' = wanted
  BY SameListing
<1>2. PICK es \in Seq(Recorded), n \in Nat : es = entries /\ n = Len(entries) /\ DOMAIN entries = 1..n
  OBVIOUS
<1>3. \A t \in Recorded : t.recency \in Int /\ t.id \in Nat
  BY PagesAre DEF Recorded, PageCount
<1>4. \A t, u \in Recorded : t.id = u.id => t = u
  <2> SUFFICES ASSUME NEW t \in Recorded, NEW u \in Recorded, t.id = u.id PROVE t = u
    OBVIOUS
  <2>1. PICK i \in 1..PageCount, j \in 1..PageCount :
          t \in Range(vars.pages[i]) /\ u \in Range(vars.pages[j])
    BY DEF Recorded
  <2>2. vars.pages[i] \in Range(vars.pages) /\ vars.pages[j] \in Range(vars.pages)
    BY PagesAre DEF Range, PageCount
  <2> QED
    BY <2>1, <2>2 DEF DistinctThreads
<1>5. /\ DOMAIN Sorted = 1..n /\ Range(Sorted) = Range(es)
      /\ \A k \in 1..n : Sorted[k] \in Recorded
      /\ \A i, j \in 1..n : i < j => Sorted[i].recency >= Sorted[j].recency
  <2>1. PICK T : T = Recorded
    OBVIOUS
  <2>2. entries \in Seq(T) /\ \A t \in T : t.recency \in Int /\ t.id \in Nat
    BY <1>3, <2>1
  <2> QED
    BY <1>2, <2>1, <2>2, SortedIs
<1>6. DOMAIN printed' = 1..n /\ \A k \in 1..n : printed'[k][3] = Sorted[k].id
  BY <1>2
<1>7. ASSUME NEW k \in 1..n
      PROVE  (CHOOSE t \in Range(wanted) : t.id = printed'[k][3]) = Sorted[k]
  <2>1. Sorted[k] \in Range(es) /\ Sorted[k] \in Recorded
    BY <1>5 DEF Range
  <2>2. Range(wanted) = Range(es) /\ Range(es) \subseteq Recorded
    BY <1>2 DEF Range
  <2>3. PICK x, R : x = Sorted[k] /\ R = Range(wanted)
    OBVIOUS
  <2>4. \A t \in R : t.id = x.id <=> t = x
    BY <1>4, <2>1, <2>2, <2>3
  <2>5. x \in R
    BY <2>1, <2>2, <2>3
  <2>6. (CHOOSE t \in R : t.id = x.id) = x
    BY <2>4, <2>5
  <2> QED
    BY <1>6, <2>3, <2>6
<1>8. shown = [k \in 1..n |-> Sorted[k]]
  BY <1>6, <1>7
<1> HIDE DEF shown
<1>9. /\ shown \in Seq(Recorded) /\ Len(shown) = n /\ DOMAIN shown = 1..n
      /\ \A k \in 1..n : shown[k] = Sorted[k]
  BY <1>2, <1>5, <1>8
<1>10. Range(shown) = Range(wanted) /\ Len(shown) = Len(wanted)
  <2>1. Range(shown) = Range(Sorted)
    BY <1>5, <1>9 DEF Range
  <2> QED
    BY <1>2, <1>5, <1>9, <2>1
<1>11. \A i, j \in DOMAIN shown : i < j => shown[i].recency >= shown[j].recency
  BY <1>5, <1>9
<1> QED
  BY <1>1, <1>10, <1>11 DEF SessionsAllOrNothing, shown

\* Only the last page done is a success of luna sessions.
LEMMA SessionsFail ==
  ASSUME IInv, [Next]_allVars, Command = "sessions", at # "exited", at' = "exited", ~PageDone
  PROVE  code' # 0 /\ printed' = printed /\ at # "streaming"
<1>. USE ExitCodes DEF IInv, Course, Places, IsTurn, Exit, Fail, Goto
<1>1. CASE Parse
  <2>1. ~OnlyPrints
    BY DEF OnlyPrints, Command
  <2> QED
    BY <1>1, <2>1 DEF Parse
<1>2. CASE ResolveTransport
  BY <1>2 DEF ResolveTransport
<1>3. CASE Join
  BY <1>3 DEF Join, Joined
<1>4. CASE ListPage
  BY <1>4 DEF ListPage
<1>5. CASE RequestFails
  <2>1. \A c \in {"transport", "protocol"} : c \in Categories /\ TurnCategory(c) \in Categories
    BY DEF TurnCategory
  <2>2. \A e : ClientCategory(e) \in {"transport", "protocol"}
    BY DEF ClientCategory
  <2>3. code' \in Range(ExitCode) /\ printed' = printed
    BY <1>5, <2>1, <2>2 DEF RequestFails
  <2>4. at # "streaming"
    BY <1>5, StepPlaces
  <2> QED
    BY <2>3, <2>4
<1>6. CASE UNCHANGED allVars
  BY <1>6 DEF allVars
<1>7. CASE Preview
  BY <1>7 DEF Preview
<1>8. ~Connect
  BY StepPlaces
<1>9. ~Exec /\ ~Doctor
  <2>1. at \notin {"prompting", "preparing", "authenticating", "logging in", "turning", "streaming"}
    BY DEF IInv, Course
  <2>2. at \notin {"checking", "versioning", "upstream", "probing", "reporting"}
    BY DEF IInv, Course
  <2> QED
    BY <2>1, <2>2 DEF Exec, Doctor, ReadPrompt, Prepare, EnsureAuthenticated, Login, StartTurn,
       ChatEnds, Receive, StreamFails, CheckMachine, CheckVersion, CheckUpstream, ProbeAccount, Report
<1> QED
  BY <1>1, <1>2, <1>3, <1>4, <1>5, <1>6, <1>7, <1>8, <1>9 DEF Next, Sessions

\* The list grows by what the pages hold, and is printed when they are all read.
LEMMA ListingStep ==
  ASSUME DistinctThreads, IInv, [Next]_allVars, Listing
  PROVE  Listing'
<1>1. /\ vars \in Environments /\ entries \in Seq(Recorded) /\ page \in Nat /\ PageCount \in Nat \ {0}
      /\ at \notin {"listing", "previewing", "exited"} => page = 0
      /\ at = "listing" => page <= MaxPages /\ page < PageCount
      /\ at = "previewing" => page <= PageCount /\ page <= MaxPages /\ queue \in Seq(Recorded)
      /\ at = "streaming" => Command = "exec"
      /\ at \in {"listing", "previewing"} => Command = "sessions"
  <2>1. vars \in Environments /\ page \in 0..(MaxPages + 1)
    BY DEF IInv, Judged, Pages
  <2>2. page \in Nat
    BY <2>1, MaxPagesAssumption
  <2>3. PageCount \in Nat \ {0}
    BY <2>1, PagesAre DEF PageCount
  <2> QED
    BY <2>1, <2>2, <2>3 DEF IInv, Pages, Course
<1>2. /\ UNCHANGED process /\ Command' = Command /\ PageCount' = PageCount
      /\ \A k \in Nat : ListedUpTo(k)' = ListedUpTo(k)
  BY SameProcess, SameInput, SameListing
<1>3. /\ at \notin {"streaming", "exited"} => printed = <<>>
      /\ at \notin {"listing", "previewing", "exited"} => entries = <<>>
      /\ at = "listing" => entries = ListedUpTo(page)
      /\ at = "previewing" => page \in 1..PageCount /\ entries \o queue = ListedUpTo(page)
      /\ SessionsAllOrNothing
  BY DEF Listing
<1>4. CASE at = "exited"
  <2>1. UNCHANGED allVars
    BY <1>4, StepPlaces
  <2>2. at' = at /\ code' = code /\ printed' = printed /\ line' = line /\ vars' = vars
    BY <2>1 DEF allVars, process
  <2>3. (Filtered(FlattenSeq(vars.pages)))' = Filtered(FlattenSeq(vars.pages))
    BY <1>2, SameListing
  <2>4. SessionsAllOrNothing'
    BY <1>2, <1>3, <2>2, <2>3 DEF SessionsAllOrNothing
  <2> QED
    BY <1>4, <2>2, <2>4 DEF Listing
<1>5. CASE at # "exited" /\ PageDone
  <2>1. at = "previewing" /\ queue = <<>> /\ UNCHANGED <<page, queue, entries>> /\ entries = ListedUpTo(page)
    <3>1. at = "previewing" /\ queue = <<>> /\ UNCHANGED <<page, queue, entries>>
      BY <1>5 DEF PageDone, listing
    <3>2. entries \o <<>> = entries
      BY <1>1
    <3> QED
      BY <1>3, <3>1, <3>2
  <2>2. CASE page < Len(vars.pages)
    <3>1. at' = "listing" /\ printed' = printed
      BY <1>5, <2>2 DEF PageDone, Goto
    <3> QED
      BY <1>1, <1>2, <1>3, <2>1, <3>1 DEF Listing, SessionsAllOrNothing
  <2>3. CASE ~(page < Len(vars.pages))
    <3>1. /\ at' = "exited" /\ code' = 0
          /\ printed' = [k \in DOMAIN entries |-> <<"session", NoId, Sorted[k].id>>]
      BY <1>5, <2>3 DEF PageDone, Exit
    <3>2. page = PageCount
      BY <1>1, <2>1, <2>3 DEF PageCount
    <3>3. entries = Filtered(FlattenSeq(vars.pages))
      BY <1>1, <2>1, <3>2, ListedUpToIs
    <3>4. SessionsAllOrNothing'
      BY <1>1, <1>2, <3>1, <3>3, WholeListIsShown
    <3> QED
      BY <3>1, <3>4 DEF Listing
  <2> QED
    BY <2>2, <2>3
<1>6. CASE at # "exited" /\ ~PageDone /\ at' = "exited"
  <2>1. Command = "sessions" => code' # 0 /\ printed' = printed /\ at # "streaming"
    BY <1>6, SessionsFail
  <2> QED
    BY <1>2, <1>3, <1>6, <2>1 DEF Listing, SessionsAllOrNothing
<1>7. CASE ListPage /\ at' # "exited"
  <2>1. /\ at = "listing" /\ page' = page + 1 /\ entries' = entries /\ printed' = printed
        /\ at' = "previewing" /\ queue' = Filtered(vars.pages[page + 1])
    BY <1>7 DEF ListPage, Fail, Exit, Goto
  <2>2. page \in 0..(PageCount - 1) /\ page + 1 \in 1..PageCount /\ page + 1 \in Nat
    BY <1>1, <2>1
  <2>3. ListedUpTo(page + 1) = ListedUpTo(page) \o Filtered(vars.pages[page + 1])
    BY <1>1, <2>2, ListedUpToIs
  <2> QED
    BY <1>2, <1>3, <2>1, <2>2, <2>3 DEF Listing, SessionsAllOrNothing, ListedUpTo
<1>8. CASE Preview /\ at' # "exited"
  <2>1. /\ at = "previewing" /\ at' = at /\ queue # <<>> /\ page' = page /\ printed' = printed
        /\ entries' = Append(entries, Head(queue)) /\ queue' = Tail(queue)
    BY <1>8 DEF Preview
  <2>2. PICK es \in Seq(Recorded), q \in Seq(Recorded) : es = entries /\ q = queue
    BY <1>1, <2>1
  <2>3. Append(es, Head(q)) \o Tail(q) = es \o q
    BY <2>1, <2>2
  <2> QED
    BY <1>1, <1>2, <1>3, <2>1, <2>2, <2>3 DEF Listing, SessionsAllOrNothing
<1>9. CASE Join /\ at' # "exited"
  <2>1. at = "joining" /\ printed' = printed /\ UNCHANGED <<page, queue, entries>> /\ at' # "previewing"
    BY <1>9 DEF Join, Joined, Goto, Exit, Fail, listing
  <2>2. ListedUpTo(0) = <<>> /\ page' = 0 /\ page = 0
    BY <1>1, <2>1, ListedUpToIs
  <2> QED
    BY <1>2, <1>3, <1>9, <2>1, <2>2 DEF Listing, SessionsAllOrNothing, ListedUpTo
<1>10. CASE /\ at # "exited" /\ at' # "exited" /\ UNCHANGED <<page, queue, entries>>
            /\ at' \in {"listing", "previewing"} => at' = at
            /\ at' # "streaming" => printed' = printed /\ at # "streaming"
            /\ at \in {"listing", "previewing"} => at' = at
  BY <1>1, <1>2, <1>3, <1>10 DEF Listing, SessionsAllOrNothing, ListedUpTo
<1>11. \/ at = "exited" \/ PageDone \/ at' = "exited" \/ ListPage \/ Preview \/ Join
       \/ /\ UNCHANGED <<page, queue, entries>>
          /\ at' \in {"listing", "previewing"} => at' = at
          /\ at' # "streaming" => printed' = printed /\ at # "streaming"
          /\ at \in {"listing", "previewing"} => at' = at
  BY StepPlaces
     DEF Next, Connect, Exec, Sessions, Doctor, Parse, ResolveTransport, RefuseToken, NoBinary,
         StartServer, Opens, Closes, LinkBecomes, ReadPrompt, Prepare, EnsureAuthenticated, Login,
         StartTurn, ChatEnds, Receive, StreamFails, CheckMachine, CheckVersion, CheckUpstream,
         ProbeAccount, Report, RequestFails, Exit, Fail, Goto, allVars, listing
<1> QED
  BY <1>4, <1>5, <1>6, <1>7, <1>8, <1>9, <1>10, <1>11

\* The list of luna sessions is whole or not there.
LEMMA ListingHolds == ASSUME DistinctThreads PROVE Spec => []Listing
<1>1. Init => Listing
  BY ExitCodes DEF Init, Listing, SessionsAllOrNothing
<1>2. IInv /\ Listing /\ [Next]_allVars => Listing'
  BY ListingStep
<1> QED
  BY IInvHolds, <1>1, <1>2, PTL DEF Spec

-----------------------------------------------------------------------------
(* The blocks of the human output                                          *)

\* What is printed is for a reader.
Human == Mode = "human" /\ Command = "exec"

\* A piece of an item, as it is printed
LEMMA TokenIs ==
  ASSUME NEW f, NEW x, NEW t, t = Identity(f) \o <<x>>
  PROVE  /\ t # LineEnd /\ SubSeq(t, 1, 2) = Identity(f) /\ LastOf(t) = x
         /\ Len(t) = 3
<1>1. PICK a, b : a = f.kind /\ b = f.id
  OBVIOUS
<1>2. PICK S : S = {a, b, x}
  OBVIOUS
<1>3. PICK u \in Seq(S), v \in Seq(S) : /\ u = Identity(f) /\ Len(u) = 2
                                       /\ v = <<x>> /\ Len(v) = 1 /\ v[1] = x
  <2>1. <<a, b>> \in Seq(S) /\ <<x>> \in Seq(S) /\ Len(<<a, b>>) = 2 /\ Len(<<x>>) = 1 /\ <<x>>[1] = x
    BY <1>2
  <2> QED
    BY <1>1, <2>1 DEF Identity
<1>4. t = u \o v
  BY <1>3
<1>5. Len(t) = 3 /\ t[3] = x /\ t \in Seq(S) /\ t[1] = u[1] /\ t[2] = u[2]
  <2>0. /\ Len(u \o v) = Len(u) + Len(v) /\ u \o v \in Seq(S)
        /\ \A i \in 1..(Len(u) + Len(v)) : (u \o v)[i] = IF i <= Len(u) THEN u[i] ELSE v[i - Len(u)]
    BY ConcatProperties
  <2>4. Len(u) = 2 /\ Len(v) = 1 /\ 2 + 1 = 3
    BY <1>3
  <2>1. /\ Len(t) = 3 /\ t \in Seq(S)
        /\ \A i \in 1..3 : t[i] = IF i <= 2 THEN u[i] ELSE v[i - 2]
    BY <1>4, <2>0, <2>4
  <2>2. 1 \in 1..3 /\ 2 \in 1..3 /\ 3 \in 1..3 /\ 3 - 2 = 1
    OBVIOUS
  <2> QED
    BY <1>3, <2>1, <2>2
<1>7. SubSeq(t, 1, 2) = u
  <2>1. PICK n \in Nat : n = 2
    OBVIOUS
  <2>2. PICK w : w = SubSeq(t, 1, n)
    OBVIOUS
  <2>3. w \in Seq(S) /\ Len(w) = n /\ \A k \in 1..n : w[k] = t[k]
    BY <1>5, <2>1, <2>2
  <2>4. \A k \in 1..n : w[k] = u[k]
    <3>1. \A k \in 1..n : k = 1 \/ k = 2
      BY <2>1
    <3> QED
      BY <1>5, <2>3, <3>1
  <2>5. w = u
    BY <1>3, <2>1, <2>3, <2>4, SeqEqual
  <2> QED
    BY <2>1, <2>2, <2>5
<1>6. Len(LineEnd) = 1
  BY DEF LineEnd
<1> QED
  BY <1>3, <1>5, <1>6, <1>7 DEF LastOf

\* The pieces of a fragment
LEMMA TokensAre ==
  ASSUME NEW f, NEW T, NEW text \in Seq(T)
  PROVE  /\ Tokens(f, text) \in Seq(Range(Tokens(f, text))) /\ Len(Tokens(f, text)) = Len(text)
         /\ \A k \in 1..Len(text) : LET t == Tokens(f, text)[k]
                                    IN  t # LineEnd /\ SubSeq(t, 1, 2) = Identity(f) /\ LastOf(t) = text[k]
<1> DEFINE tokens == [k \in DOMAIN text |-> Identity(f) \o <<text[k]>>]
<1>1. PICK n \in Nat : n = Len(text) /\ DOMAIN text = 1..n
  OBVIOUS
<1>2. Tokens(f, text) = tokens
  BY DEF Tokens
<1>3. DOMAIN tokens = 1..n /\ \A k \in 1..n : tokens[k] = Identity(f) \o <<text[k]>>
  BY <1>1
<1>4. ASSUME NEW k \in 1..n
      PROVE  tokens[k] # LineEnd /\ SubSeq(tokens[k], 1, 2) = Identity(f) /\ LastOf(tokens[k]) = text[k]
  <2>1. PICK t, x : t = tokens[k] /\ x = text[k] /\ t = Identity(f) \o <<x>>
    BY <1>3
  <2> HIDE DEF tokens
  <2>2. t # LineEnd /\ SubSeq(t, 1, 2) = Identity(f) /\ LastOf(t) = x
    BY ONLY <2>1, TokenIs
  <2> QED
    BY <2>1, <2>2
<1> HIDE DEF tokens
<1>5. tokens \in [1..n -> Range(tokens)]
  <2>1. tokens = [k \in 1..n |-> tokens[k]]
    BY <1>3 DEF tokens
  <2> QED
    BY <1>3, <2>1 DEF Range
<1>6. tokens \in Seq(Range(tokens)) /\ Len(tokens) = n
  BY <1>1, <1>3, <1>5
<1> QED
  BY <1>1, <1>2, <1>4, <1>6

\* BlocksSeparated, of any output
Spaced(out) ==
  \A i, j \in 1..Len(out) :
    /\ i < j /\ out[i] # LineEnd /\ out[j] # LineEnd
    /\ \A k \in (i + 1)..(j - 1) : out[k] = LineEnd
    => \/ SubSeq(out[i], 1, 2) = SubSeq(out[j], 1, 2)
       \/ (j - 1) - i + (IF EndsLine(out[i]) THEN 1 ELSE 0) = 2

\* It says the same of what is printed.
LEMMA SpacedIs ==
  ASSUME NEW T, printed \in Seq(T)
  PROVE  BlocksSeparated <=> (Human => Spaced(printed))
<1>1. PICK out \in Seq(T) : out = printed
  OBVIOUS
<1>2. DOMAIN out = 1..Len(out) /\ Len(out) \in Nat
  OBVIOUS
<1>3. ASSUME NEW i \in 1..Len(out), NEW j \in 1..Len(out), i < j
      PROVE  Separated(i, j) <=> (j - 1) - i + (IF EndsLine(out[i]) THEN 1 ELSE 0) = 2
  <2>1. PICK a : a = SubSeq(out, i + 1, j - 1)
    OBVIOUS
  <2>2. Len(a) = (j - 1) - i
    BY <1>2, <1>3, <2>1
  <2> QED
    BY <1>1, <2>1, <2>2 DEF Separated
<1>4. \A k : Text(k) <=> out[k] # LineEnd
  BY <1>1 DEF Text
<1>5. BlocksSeparated <=>
        (Human => \A i, j \in 1..Len(out) :
           /\ i < j /\ out[i] # LineEnd /\ out[j] # LineEnd
           /\ \A k \in (i + 1)..(j - 1) : out[k] = LineEnd
           => (SubSeq(out[i], 1, 2) = SubSeq(out[j], 1, 2) \/ Separated(i, j)))
  BY <1>1, <1>2, <1>4 DEF BlocksSeparated, Human
<1>6. Spaced(out) <=>
        \A i, j \in 1..Len(out) :
           /\ i < j /\ out[i] # LineEnd /\ out[j] # LineEnd
           /\ \A k \in (i + 1)..(j - 1) : out[k] = LineEnd
           => (SubSeq(out[i], 1, 2) = SubSeq(out[j], 1, 2) \/ Separated(i, j))
  BY <1>3 DEF Spaced
<1> QED
  BY <1>1, <1>5, <1>6

\* A block after the line ends that set it apart, or more of the last block
LEMMA SpacedMore ==
  ASSUME NEW T, NEW out \in Seq(T), NEW sep \in Seq(T), NEW block \in Seq(T), NEW identity,
         Spaced(out), out # <<>> => out[Len(out)] # LineEnd,
         \A k \in 1..Len(sep) : sep[k] = LineEnd,
         \A k \in 1..Len(block) : block[k] # LineEnd /\ SubSeq(block[k], 1, 2) = identity,
         out # <<>> => \/ Len(sep) = 0 /\ SubSeq(out[Len(out)], 1, 2) = identity
                       \/ Len(sep) + (IF EndsLine(out[Len(out)]) THEN 1 ELSE 0) = 2,
         out = <<>> => Len(sep) = 0
  PROVE  Spaced(out \o (sep \o block))
<1>1. PICK m \in Nat, n \in Nat, l \in Nat : m = Len(out) /\ n = Len(sep) /\ l = Len(block)
  OBVIOUS
<1>2. PICK all : all = out \o (sep \o block)
  OBVIOUS
<1>3. /\ Len(all) = m + n + l
      /\ \A k \in 1..m : all[k] = out[k]
      /\ \A k \in 1..n : all[m + k] = sep[k]
      /\ \A k \in 1..l : all[m + n + k] = block[k]
  BY <1>1, <1>2
<1>4. /\ \A k \in (m + 1)..(m + n) : all[k] = LineEnd
      /\ \A k \in (m + n + 1)..(m + n + l) : all[k] # LineEnd /\ SubSeq(all[k], 1, 2) = identity
      /\ m > 0 => all[m] # LineEnd
  <2>1. ASSUME NEW k \in (m + 1)..(m + n) PROVE all[k] = LineEnd
    <3>1. PICK i \in 1..n : k = m + i
      <4>1. k - m \in 1..n /\ k = m + (k - m)
        BY <1>1
      <4> QED
        BY <4>1
    <3>2. all[k] = sep[i] /\ sep[i] = LineEnd
      BY <1>1, <1>3, <3>1
    <3> QED
      BY <3>2
  <2>2. ASSUME NEW k \in (m + n + 1)..(m + n + l)
        PROVE  all[k] # LineEnd /\ SubSeq(all[k], 1, 2) = identity
    <3>1. PICK i \in 1..l : k = m + n + i
      <4>1. k - (m + n) \in 1..l /\ k = m + n + (k - (m + n))
        BY <1>1
      <4> QED
        BY <4>1
    <3>2. all[k] = block[i] /\ block[i] # LineEnd /\ SubSeq(block[i], 1, 2) = identity
      BY <1>1, <1>3, <3>1
    <3> QED
      BY <3>2
  <2>3. m > 0 => all[m] # LineEnd
    BY <1>1, <1>3
  <2> QED
    BY <2>1, <2>2, <2>3
<1>5. SUFFICES ASSUME NEW i \in 1..Len(all), NEW j \in 1..Len(all), i < j,
                      all[i] # LineEnd, all[j] # LineEnd,
                      \A k \in (i + 1)..(j - 1) : all[k] = LineEnd
               PROVE  \/ SubSeq(all[i], 1, 2) = SubSeq(all[j], 1, 2)
                      \/ (j - 1) - i + (IF EndsLine(all[i]) THEN 1 ELSE 0) = 2
  BY <1>2 DEF Spaced
<1>6. CASE j <= m
  <2>1. i \in 1..Len(out) /\ j \in 1..Len(out) /\ out[i] = all[i] /\ out[j] = all[j]
    BY <1>1, <1>3, <1>5, <1>6
  <2>2. \A k \in (i + 1)..(j - 1) : out[k] = LineEnd
    <3>1. ASSUME NEW k \in (i + 1)..(j - 1) PROVE k \in 1..m
      BY <1>1, <1>5, <1>6
    <3> QED
      BY <1>3, <1>5, <3>1
  <2> QED
    BY <1>5, <2>1, <2>2 DEF Spaced
<1>7. CASE j > m
  <2>1. j >= m + n + 1
    <3>1. j \notin (m + 1)..(m + n)
      BY <1>4, <1>5
    <3> QED
      BY <1>1, <1>5, <1>7, <3>1
  <2>2. SubSeq(all[j], 1, 2) = identity
    <3>1. j \in (m + n + 1)..(m + n + l)
      BY <1>1, <1>3, <1>5, <2>1
    <3> QED
      BY <1>4, <3>1
  <2>3. CASE i >= m + n + 1
    <3>1. i \in (m + n + 1)..(m + n + l)
      BY <1>1, <1>3, <1>5, <2>3
    <3> QED
      BY <1>4, <2>2, <3>1
  <2>4. CASE i < m + n + 1
    <3>1. i \notin (m + 1)..(m + n)
      BY <1>4, <1>5
    <3>2. i <= m /\ m > 0
      BY <1>1, <1>5, <2>4, <3>1
    <3>3. i = m
      <4> SUFFICES ASSUME i < m PROVE FALSE
        BY <1>1, <1>5, <3>2
      <4>1. m \in (i + 1)..(j - 1)
        BY <1>1, <1>5, <1>7
      <4> QED
        BY <1>4, <1>5, <3>2, <4>1
    <3>4. j = m + n + 1
      <4> SUFFICES ASSUME j > m + n + 1 PROVE FALSE
        <5>1. i \in Nat /\ j \in Nat
          BY <1>1, <1>3
        <5>2. m + n + 1 \in Nat
          OBVIOUS
        <5>3. PICK c \in Nat, d \in Nat : c = m + n + 1 /\ d = j
          BY <5>1, <5>2
        <5>4. d >= c => d = c \/ d > c
          BY ONLY c \in Nat, d \in Nat
        <5> QED
          BY <2>1, <5>3, <5>4
      <4>1. m + n + 1 \in (i + 1)..(j - 1) /\ m + n + 1 \in (m + n + 1)..(m + n + l)
        BY <1>1, <1>3, <1>5, <3>3
      <4>2. all[m + n + 1] = LineEnd /\ all[m + n + 1] # LineEnd
        BY <1>4, <1>5, <4>1
      <4> QED
        BY <4>2
    <3>5. all[i] = out[Len(out)] /\ out # <<>> /\ (j - 1) - i = Len(sep)
      BY <1>1, <1>3, <3>2, <3>3, <3>4
    <3>6. \/ Len(sep) = 0 /\ SubSeq(all[i], 1, 2) = identity
          \/ Len(sep) + (IF EndsLine(all[i]) THEN 1 ELSE 0) = 2
      BY <3>5
    <3> QED
      BY <2>2, <3>5, <3>6
  <2> QED
    BY <1>1, <1>5, <2>3, <2>4
<1> QED
  BY <1>1, <1>5, <1>6, <1>7

\* A line end after it sets nothing apart.
LEMMA SpacedEnd ==
  ASSUME NEW T, NEW out \in Seq(T), Spaced(out)
  PROVE  Spaced(FinishLine(out)) /\ FinishLine(out) \in Seq(T \cup {LineEnd})
<1>1. CASE FinishLine(out) = out
  BY <1>1
<1>2. CASE FinishLine(out) = Append(out, LineEnd)
  <2>1. PICK all \in Seq(T \cup {LineEnd}), n \in Nat : all = Append(out, LineEnd) /\ n = Len(out)
    <3>1. Append(out, LineEnd) \in Seq(T \cup {LineEnd}) /\ Len(out) \in Nat
      <4>1. PICK x, U : x = LineEnd /\ U = T \cup {x}
        OBVIOUS
      <4>2. out \in Seq(U) /\ x \in U
        BY <4>1
      <4>3. Append(out, x) \in Seq(U)
        BY <4>2
      <4> QED
        BY <4>1, <4>3
    <3> QED
      BY <3>1
  <2>2. Len(all) = n + 1 /\ all[n + 1] = LineEnd /\ \A k \in 1..n : all[k] = out[k]
    BY <2>1
  <2>3. Spaced(all)
    <3> SUFFICES ASSUME NEW i \in 1..Len(all), NEW j \in 1..Len(all), i < j,
                      all[i] # LineEnd, all[j] # LineEnd,
                      \A k \in (i + 1)..(j - 1) : all[k] = LineEnd
               PROVE  \/ SubSeq(all[i], 1, 2) = SubSeq(all[j], 1, 2)
                      \/ (j - 1) - i + (IF EndsLine(all[i]) THEN 1 ELSE 0) = 2
      BY DEF Spaced
    <3>1. i \in 1..n /\ j \in 1..n
      BY <2>2
    <3>2. \A k \in (i + 1)..(j - 1) : out[k] = LineEnd
      <4>1. ASSUME NEW k \in (i + 1)..(j - 1) PROVE k \in 1..n
        BY <3>1
      <4> QED
        BY <2>2, <4>1
    <3> QED
      BY <2>1, <2>2, <3>1, <3>2 DEF Spaced
  <2> QED
    BY <1>2, <2>1, <2>3
<1> QED
  BY <1>1, <1>2 DEF FinishLine

\* A sequence of anything is one of its own elements.
LEMMA OwnSeq ==
  ASSUME NEW T, NEW s \in Seq(T)
  PROVE  s \in Seq(Range(s))
<1>1. DOMAIN s = 1..Len(s) /\ Len(s) \in Nat
  OBVIOUS
<1>2. s \in [1..Len(s) -> Range(s)]
  <2>1. s = [k \in 1..Len(s) |-> s[k]]
    OBVIOUS
  <2> QED
    BY <1>1, <2>1 DEF Range
<1> QED
  BY <1>1, <1>2

\* Two sequences of different things are sequences of one kind of thing.
LEMMA SeqOfMore ==
  ASSUME NEW A, NEW B, NEW s \in Seq(A), NEW t \in Seq(B)
  PROVE  s \in Seq(A \cup B) /\ t \in Seq(A \cup B)
OBVIOUS

\* What a fragment is set apart by, and the pieces it prints of itself
Apart(f) == IF f.continuation /\ current = Identity(f) THEN <<>> ELSE SeparateBlocks
LabelFor(f) ==
  IF f.continuation /\ current # Identity(f) /\ f.kind \in {"Reasoning", "Plan"} THEN <<Label>> ELSE <<>>
TextFor(f) == LabelFor(f) \o (IF f.text = <<>> THEN <<Blank>> ELSE f.text)

\* A fragment is what sets it apart, and then its pieces.
LEMMA FragmentIs ==
  ASSUME NEW f
  PROVE  WriteFragment(f) = Apart(f) \o Tokens(f, TextFor(f))
<1>1. CASE f.continuation /\ current = Identity(f)
  BY <1>1 DEF WriteFragment, Apart, LabelFor, TextFor
<1>2. CASE ~(f.continuation /\ current = Identity(f))
  BY <1>2 DEF WriteFragment, Apart, LabelFor, TextFor
<1> QED
  BY <1>1, <1>2

\* It has at least one piece.
LEMMA TextForIs ==
  ASSUME NEW f, NEW T, f.text \in Seq(T)
  PROVE  /\ TextFor(f) \in Seq(T \cup {Label, Blank}) /\ Len(TextFor(f)) \in Nat \ {0}
         /\ LabelFor(f) \in Seq({Label}) /\ LabelFor(f) \in Seq(T \cup {Label, Blank})
<1>1. PICK U : U = T \cup {Label, Blank}
  OBVIOUS
<1>2. PICK a \in Seq(U) : a = LabelFor(f)
  <2>1. <<Label>> \in Seq(U) /\ <<>> \in Seq(U)
    BY <1>1
  <2> QED
    BY <2>1 DEF LabelFor
<1>3. PICK b \in Seq(U) : b = (IF f.text = <<>> THEN <<Blank>> ELSE f.text) /\ Len(b) # 0
  <2>1. <<Blank>> \in Seq(U) /\ Len(<<Blank>>) = 1
    BY <1>1
  <2>2. PICK t \in Seq(T) : t = f.text
    OBVIOUS
  <2>3. t \in Seq(U)
    BY <1>1
  <2>4. t # <<>> => Len(t) # 0
    OBVIOUS
  <2>5. CASE f.text = <<>>
    <3>1. PICK b \in Seq(U) : b = <<Blank>> /\ Len(b) = 1
      BY <2>1
    <3>2. b = (IF f.text = <<>> THEN <<Blank>> ELSE f.text) /\ Len(b) # 0
      BY <2>5, <3>1
    <3> QED
      BY <3>2
  <2>6. CASE f.text # <<>>
    BY <2>2, <2>3, <2>4, <2>6
  <2> QED
    BY <2>5, <2>6
<1>4. TextFor(f) = a \o b
  BY <1>2, <1>3 DEF TextFor
<1>5. a \o b \in Seq(U) /\ Len(a \o b) \in Nat \ {0}
  BY <1>3
<1>6. LabelFor(f) \in Seq({Label})
  <2>1. <<Label>> \in Seq({Label}) /\ <<>> \in Seq({Label})
    OBVIOUS
  <2> QED
    BY <2>1 DEF LabelFor
<1> QED
  BY <1>1, <1>2, <1>4, <1>5, <1>6

\* Where the human output is: in the item its last piece is of.
InItem ==
  IF printed = <<>> THEN current = NoItemYet
  ELSE LastOf(printed) # LineEnd /\ SubSeq(LastOf(printed), 1, 2) = current

\* What is between two blocks are the line ends that make one empty line.
LEMMA ApartIs ==
  ASSUME NEW f, NEW T, printed \in Seq(T), InItem, Identity(f) # NoItemYet
  PROVE  /\ Apart(f) \in Seq({LineEnd})
         /\ printed = <<>> => Len(Apart(f)) = 0
         /\ printed # <<>> =>
              \/ Len(Apart(f)) = 0 /\ SubSeq(LastOf(printed), 1, 2) = Identity(f)
              \/ Len(Apart(f)) + (IF EndsLine(LastOf(printed)) THEN 1 ELSE 0) = 2
<1>1. PICK x, none, one, two : /\ x = LineEnd /\ none = <<>> /\ one = <<x>> /\ two = <<x, x>>
  OBVIOUS
<1>2. /\ none \in Seq({x}) /\ one \in Seq({x}) /\ two \in Seq({x})
      /\ Len(none) = 0 /\ Len(one) = 1 /\ Len(two) = 2
  BY <1>1
<1>3. CASE f.continuation /\ current = Identity(f)
  <2>1. Apart(f) = none /\ printed # <<>> /\ SubSeq(LastOf(printed), 1, 2) = Identity(f)
    BY <1>1, <1>3 DEF Apart, InItem
  <2> QED
    BY <1>1, <1>2, <2>1
<1>4. CASE ~(f.continuation /\ current = Identity(f))
  <2>1. Apart(f) = SeparateBlocks
    BY <1>4 DEF Apart
  <2>2. CASE printed = <<>>
    <3>1. Apart(f) = none
      BY <1>1, <2>1, <2>2 DEF SeparateBlocks
    <3> QED
      BY <1>1, <1>2, <2>2, <3>1
  <2>3. CASE printed # <<>>
    <3>1. Apart(f) = IF EndsLine(LastOf(printed)) THEN one ELSE two
      BY <1>1, <2>1, <2>3 DEF SeparateBlocks
    <3>2. CASE EndsLine(LastOf(printed))
      <4>1. Apart(f) = one /\ 1 + 1 = 2
        BY <3>1, <3>2
      <4> QED
        BY <1>1, <1>2, <2>3, <3>2, <4>1
    <3>3. CASE ~EndsLine(LastOf(printed))
      <4>1. Apart(f) = two /\ 2 + 0 = 2
        BY <3>1, <3>3
      <4> QED
        BY <1>1, <1>2, <2>3, <3>3, <4>1
    <3> QED
      BY <3>2, <3>3
  <2> QED
    BY <2>2, <2>3
<1> QED
  BY <1>3, <1>4

\* A fragment leaves the blocks separated, and the output in its item.
LEMMA FragmentSpaced ==
  ASSUME NEW f, NEW T, f.text \in Seq(T), printed \in Seq(Range(printed)), InItem,
         Identity(f) # NoItemYet, Spaced(printed)
  PROVE  LET out == printed \o WriteFragment(f)
         IN  /\ out \in Seq(Range(out)) /\ Spaced(out) /\ out # <<>>
             /\ LastOf(out) # LineEnd /\ SubSeq(LastOf(out), 1, 2) = Identity(f)
<1>1. PICK p, sep, block : p = printed /\ sep = Apart(f) /\ block = Tokens(f, TextFor(f))
  OBVIOUS
<1>2. /\ sep \in Seq({LineEnd})
      /\ p = <<>> => Len(sep) = 0
      /\ p # <<>> => \/ Len(sep) = 0 /\ SubSeq(LastOf(p), 1, 2) = Identity(f)
                     \/ Len(sep) + (IF EndsLine(LastOf(p)) THEN 1 ELSE 0) = 2
  BY <1>1, ApartIs
<1>13. PICK U : U = T \cup {Label, Blank}
  OBVIOUS
<1>3. PICK text \in Seq(U), n \in Nat \ {0} : text = TextFor(f) /\ n = Len(text)
  BY <1>13, TextForIs
<1>4. /\ block \in Seq(Range(block)) /\ Len(block) = n
      /\ \A k \in 1..n : block[k] # LineEnd /\ SubSeq(block[k], 1, 2) = Identity(f)
  BY <1>1, <1>3, TokensAre
<1>5. PICK V : p \in Seq(V) /\ sep \in Seq(V) /\ block \in Seq(V)
  <2>1. PICK R, L, B : R = Range(p) /\ L = {LineEnd} /\ B = Range(block)
    OBVIOUS
  <2>2. p \in Seq(R) /\ sep \in Seq(L) /\ block \in Seq(B)
    BY <1>1, <1>2, <1>4, <2>1
  <2>3. p \in Seq(R \cup L) /\ sep \in Seq(R \cup L)
    BY <2>2, SeqOfMore
  <2>4. p \in Seq((R \cup L) \cup B) /\ sep \in Seq((R \cup L) \cup B) /\ block \in Seq((R \cup L) \cup B)
    BY <2>2, <2>3, SeqOfMore
  <2> QED
    BY <2>4
<1>6. PICK out : out = p \o (sep \o block)
  OBVIOUS
<1>7. printed \o WriteFragment(f) = out
  BY <1>1, <1>6, FragmentIs
<1>8. sep \o block \in Seq(V) /\ out \in Seq(V)
  BY <1>5, <1>6
<1>9. out \in Seq(Range(out))
  BY <1>8, OwnSeq
<1>10. Len(out) \in Nat /\ Len(out) > 0 /\ out[Len(out)] = block[n] /\ n \in 1..n
  BY <1>4, <1>5, <1>6
<1>11. out # <<>> /\ LastOf(out) # LineEnd /\ SubSeq(LastOf(out), 1, 2) = Identity(f)
  <2>1. out # <<>>
    BY <1>8, <1>10
  <2> QED
    BY <1>4, <1>10, <2>1 DEF LastOf
<1>12. Spaced(out)
  <2>1. /\ Spaced(p) /\ \A k \in 1..Len(sep) : sep[k] = LineEnd
        /\ p # <<>> => p[Len(p)] # LineEnd
    BY <1>1, <1>2 DEF InItem, LastOf
  <2>2. /\ \A k \in 1..Len(block) : block[k] # LineEnd /\ SubSeq(block[k], 1, 2) = Identity(f)
        /\ p # <<>> => \/ Len(sep) = 0 /\ SubSeq(p[Len(p)], 1, 2) = Identity(f)
                       \/ Len(sep) + (IF EndsLine(p[Len(p)]) THEN 1 ELSE 0) = 2
        /\ p = <<>> => Len(sep) = 0
    BY <1>2, <1>4 DEF LastOf
  <2>3. PICK identity : identity = Identity(f)
    OBVIOUS
  <2>4. Spaced(p \o (sep \o block))
    BY <1>5, <2>1, <2>2, <2>3, SpacedMore
  <2> QED
    BY <1>6, <2>4
<1> QED
  BY <1>7, <1>9, <1>11, <1>12

\* What an event shows has a text, and is of an item.
LEMMA ShownIs ==
  ASSUME NEW s \in Streams, NEW e \in Range(s), Shows(e) # <<>>
  PROVE  LET f == Head(Shows(e))
         IN  f.text \in Seq(Range(e.item.text)) /\ Identity(f) # NoItemYet
<1>1. PICK text, type : text = e.item.text /\ type = e.item.type
  OBVIOUS
<1>2. text \in Seq(Range(text)) /\ type \in DOMAIN RenderKind
  BY <1>1, StreamsAssumption
<1>3. RenderKind[type] # "none"
  BY <1>2 DEF RenderKind
<1>4. <<>> \in Seq(Range(text))
  OBVIOUS
<1>5. PICK out : out = Render(remembered, e).out
  OBVIOUS
<1>6. out # <<>> /\ Shows(e) = out
  BY <1>5 DEF Shows
<1>7. ASSUME NEW f, out = <<f>>, f.text \in {text, <<>>}, f.kind \in {RenderKind[type], "Error"}
      PROVE  Head(Shows(e)).text \in Seq(Range(text)) /\ Identity(Head(Shows(e))) # NoItemYet
  <2>1. Head(out) = f
    BY <1>7
  <2>2. f.kind # "none"
    BY <1>3, <1>7
  <2>3. Identity(f) # NoItemYet
    BY <2>2 DEF Identity, NoItemYet
  <2> QED
    BY <1>2, <1>4, <1>6, <1>7, <2>1, <2>3
<1>8. CASE e.kind = "itemUpdated"
  <2>1. out = RenderUpdated(remembered, e.item).out
    BY <1>5, <1>8 DEF Render
  <2>2. PICK f : /\ out = <<[f EXCEPT !.continuation = TRUE]>>
                 /\ f \in {Fragment(e.item, text), Fragment(e.item, <<>>)}
    BY <1>1, <1>6, <2>1 DEF RenderUpdated, RenderThreadItem, Rendered
  <2>3. PICK g : g = [f EXCEPT !.continuation = TRUE]
    OBVIOUS
  <2>4. g.text \in {text, <<>>} /\ g.kind = RenderKind[type]
    BY <1>1, <2>2, <2>3 DEF Fragment
  <2> QED
    BY <1>1, <1>7, <2>2, <2>3, <2>4
<1>9. CASE e.kind = "itemCompleted"
  <2>1. out = RenderCompleted(remembered, e.item).out
    BY <1>5, <1>9 DEF Render
  <2>2. PICK f : out = <<f>> /\ f = RenderThreadItem(e.item)
    BY <1>6, <2>1 DEF RenderCompleted, Rendered
  <2>3. f.text \in {text, <<>>} /\ f.kind = RenderKind[type]
    BY <1>1, <2>2 DEF Fragment, RenderThreadItem
  <2> QED
    BY <1>1, <1>7, <2>2, <2>3
<1>10. CASE e.kind \notin {"itemUpdated", "itemCompleted"}
  <2>1. out = <<ErrorFragment>>
    BY <1>5, <1>6, <1>10 DEF Render, Rendered
  <2>2. PICK f : f = ErrorFragment
    OBVIOUS
  <2>3. f.text = <<>> /\ f.kind = "Error"
    BY <2>2 DEF ErrorFragment
  <2> QED
    BY <1>1, <1>7, <2>1, <2>2, <2>3
<1> QED
  BY <1>8, <1>9, <1>10

\* The human output of exec, block by block
Blocks ==
  /\ at \notin {"streaming", "exited"} =>
       current = NoItemYet /\ remembered = {} /\ got = 0 /\ printed = <<>>
  /\ feed # <<>> => feed \in Streams
  /\ Human => printed \in Seq(Range(printed)) /\ Spaced(printed)
  /\ at = "streaming" /\ Human => InItem

\* The event that is received is one of its stream's.
LEMMA NextEvent ==
  ASSUME IInv, Blocks, Receive
  PROVE  /\ at = "streaming" /\ Command = "exec" /\ feed \in Streams /\ feed \in Seq(Range(feed))
         /\ got \in 0..(Len(feed) - 1) /\ Len(feed) \in Nat /\ got + 1 \in 1..Len(feed)
         /\ feed[got + 1] \in Range(feed) /\ got' = got + 1 /\ feed' = feed
<1>1. at = "streaming" /\ got < Len(feed) /\ got' = got + 1 /\ feed' = feed
  BY DEF Receive
<1>2. feed \in Seq(Range(feed)) /\ got \in 0..Len(feed) /\ Command = "exec"
  BY <1>1 DEF IInv, Received, Course
<1>3. Len(feed) \in Nat /\ DOMAIN feed = 1..Len(feed)
  BY <1>2
<1>4. got \in 0..(Len(feed) - 1) /\ got + 1 \in 1..Len(feed)
  BY <1>1, <1>2, <1>3
<1>5. feed # <<>>
  <2>1. Len(<<>>) = 0
    OBVIOUS
  <2> QED
    BY <1>3, <1>4, <2>1
<1>6. feed \in Streams
  BY <1>5 DEF Blocks
<1>7. feed[got + 1] \in Range(feed)
  BY <1>3, <1>4 DEF Range
<1> QED
  BY <1>1, <1>2, <1>3, <1>4, <1>6, <1>7

\* What an event writes for a reader keeps the blocks apart.
LEMMA WrittenBlocks ==
  ASSUME IInv, Blocks, Receive, Human
  PROVE  LET out == Written(feed[got + 1])
             item == IF Shows(feed[got + 1]) # <<>> THEN Identity(Head(Shows(feed[got + 1])))
                     ELSE current
         IN  /\ out \in Seq(Range(out)) /\ Spaced(out)
             /\ IF out = <<>> THEN item = NoItemYet
                ELSE LastOf(out) # LineEnd /\ SubSeq(LastOf(out), 1, 2) = item
<1>1. PICK e \in Range(feed) : e = feed[got + 1]
  BY NextEvent
<1>2. feed \in Streams /\ at = "streaming"
  BY NextEvent
<1>3. printed \in Seq(Range(printed)) /\ Spaced(printed) /\ InItem
  BY <1>2 DEF Blocks
<1>4. Written(e) = IF Shows(e) = <<>> THEN printed ELSE printed \o WriteFragment(Head(Shows(e)))
  BY DEF Written, Human
<1>5. CASE Shows(e) = <<>>
  <2>1. Written(e) = printed
    BY <1>4, <1>5
  <2>2. IF printed = <<>> THEN current = NoItemYet
        ELSE LastOf(printed) # LineEnd /\ SubSeq(LastOf(printed), 1, 2) = current
    BY <1>3 DEF InItem
  <2> QED
    BY <1>1, <1>3, <1>5, <2>1, <2>2
<1>6. CASE Shows(e) # <<>>
  <2>1. PICK f, T : f = Head(Shows(e)) /\ T = Range(e.item.text)
    OBVIOUS
  <2>2. f.text \in Seq(T) /\ Identity(f) # NoItemYet
    BY <1>2, <1>6, <2>1, ShownIs
  <2>3. PICK out : out = printed \o WriteFragment(f)
    OBVIOUS
  <2>4. /\ out \in Seq(Range(out)) /\ Spaced(out) /\ out # <<>>
        /\ LastOf(out) # LineEnd /\ SubSeq(LastOf(out), 1, 2) = Identity(f)
    BY <1>3, <2>2, <2>3, FragmentSpaced
  <2>5. Written(e) = out
    BY <1>4, <1>6, <2>1, <2>3
  <2> QED
    BY <1>1, <1>6, <2>1, <2>4, <2>5
<1> QED
  BY <1>5, <1>6

\* Mode and Command stay.
LEMMA SameHuman ==
  ASSUME UNCHANGED process
  PROVE  Mode' = Mode /\ Human' = Human
<1>1. line' = line /\ vars' = vars /\ Command' = Command
  BY SameInput
<1>2. Mode' = Mode
  BY <1>1 DEF Mode, Has
<1> QED
  BY <1>1, <1>2 DEF Human

\* The next event leaves the blocks apart.
LEMMA BlocksReceive ==
  ASSUME IInv, Blocks, Receive
  PROVE  Blocks'
<1>1. /\ at = "streaming" /\ feed \in Streams /\ feed' = feed /\ Human' = Human
      /\ at' \in {"streaming", "exited"}
  <2>1. UNCHANGED process /\ at' \in {"streaming", "exited"}
    BY DEF Receive, Exit, Goto
  <2> QED
    BY <2>1, NextEvent, SameHuman
<1>2. CASE ~Human
  BY <1>1, <1>2 DEF Blocks
<1>3. CASE Human
  <2>1. PICK e : e = feed[got + 1]
    OBVIOUS
  <2>2. PICK out, item : /\ out = Written(e)
                         /\ item = IF Shows(e) # <<>> THEN Identity(Head(Shows(e))) ELSE current
    OBVIOUS
  <2>3. /\ out \in Seq(Range(out)) /\ Spaced(out)
        /\ IF out = <<>> THEN item = NoItemYet
           ELSE LastOf(out) # LineEnd /\ SubSeq(LastOf(out), 1, 2) = item
    BY <1>3, <2>1, <2>2, WrittenBlocks
  <2>4. current' = item /\ printed' = IF Ends(e) THEN FinishLine(out) ELSE out
    BY <1>3, <2>1, <2>2 DEF Receive, Output, Human
  <2>5. CASE Ends(e)
    <3>1. at' = "exited" /\ printed' = FinishLine(out)
      BY <2>1, <2>4, <2>5 DEF Receive, Exit
    <3>2. PICK T : T = Range(out)
      OBVIOUS
    <3>3. Spaced(FinishLine(out)) /\ FinishLine(out) \in Seq(T \cup {LineEnd})
      BY <2>3, <3>2, SpacedEnd
    <3>4. PICK end : end = FinishLine(out)
      OBVIOUS
    <3>5. end \in Seq(Range(end)) /\ Spaced(end)
      <4>1. PICK U : U = T \cup {LineEnd}
        OBVIOUS
      <4>2. end \in Seq(U)
        BY <3>3, <3>4, <4>1
      <4> QED
        BY <3>3, <3>4, <4>2, OwnSeq
    <3> QED
      BY <1>1, <3>1, <3>4, <3>5 DEF Blocks
  <2>6. CASE ~Ends(e)
    <3>1. printed' = out
      BY <2>4, <2>6
    <3>2. InItem'
      BY <2>3, <2>4, <3>1 DEF InItem
    <3> QED
      BY <1>1, <2>3, <3>1, <3>2 DEF Blocks
  <2> QED
    BY <2>5, <2>6
<1> QED
  BY <1>2, <1>3

\* So does every other step, which prints nothing for the reader of exec.
LEMMA BlocksStep ==
  ASSUME IInv, [Next]_allVars, Blocks
  PROVE  Blocks'
<1>1. CASE Receive
  BY <1>1, BlocksReceive
<1>2. UNCHANGED process /\ Human' = Human
  BY SameProcess, SameHuman
<1>3. CASE StartTurn
  <2>1. /\ at = "turning" /\ at' = "streaming" /\ feed' \in Streams
        /\ UNCHANGED <<current, remembered, got, printed>>
    BY <1>3 DEF StartTurn, Goto
  <2> QED
    BY <1>2, <2>1 DEF Blocks, InItem
<1>4. CASE PageDone
  <2>1. at = "previewing" /\ UNCHANGED <<feed, current, remembered, got>> /\ at' \in {"listing", "exited"}
        /\ (at' = "listing" => printed' = printed)
    BY <1>4 DEF PageDone, turn, Goto, Exit
  <2>2. ~Human
    BY <2>1 DEF IInv, Course, Human
  <2> QED
    BY <1>2, <2>1, <2>2 DEF Blocks
<1>5. CASE /\ UNCHANGED <<feed, got, remembered, current, printed>>
           /\ at' = "streaming" => at = "streaming"
           /\ at \in {"streaming", "exited"} => at' \in {"streaming", "exited"}
  BY <1>2, <1>5 DEF Blocks, InItem
<1>6. \/ Receive \/ StartTurn \/ PageDone
      \/ /\ UNCHANGED <<feed, got, remembered, current, printed>>
         /\ at' = "streaming" => at = "streaming"
         /\ at \in {"streaming", "exited"} => at' \in {"streaming", "exited"}
  BY StepPlaces
     DEF Next, Connect, Exec, Sessions, Doctor, Parse, ResolveTransport, RefuseToken, NoBinary,
         StartServer, Opens, Closes, LinkBecomes, Join, Joined, ReadPrompt, Prepare, EnsureAuthenticated, Login,
         ChatEnds, StreamFails, ListPage, Preview, CheckMachine, CheckVersion, CheckUpstream,
         ProbeAccount, Report, RequestFails, Exit, Fail, Goto, allVars, turn
<1> QED
  BY <1>1, <1>3, <1>4, <1>5, <1>6

\* The human output is always in blocks.
LEMMA BlocksHold == Spec => []Blocks
<1>1. Init => Blocks
  <2>1. <<>> \in Seq(Range(<<>>)) /\ Len(<<>>) = 0
    OBVIOUS
  <2>2. Spaced(<<>>)
    BY <2>1 DEF Spaced
  <2> QED
    BY <2>1, <2>2 DEF Init, Blocks
<1>2. IInv /\ Blocks /\ [Next]_allVars => Blocks'
  BY BlocksStep
<1> QED
  BY IInvHolds, <1>1, <1>2, PTL DEF Spec

-----------------------------------------------------------------------------
(* The text of the items                                                   *)

\* A function from one set to another
Maps(g, T, L) == g \in [T -> L]

\* Such a function of each element of a sequence
Mapped(g, s) == [k \in DOMAIN s |-> g[s[k]]]

\* It is a sequence of the function's values, as long as the sequence.
LEMMA MappedIs ==
  ASSUME NEW T, NEW L, NEW g, Maps(g, T, L), NEW s \in Seq(T)
  PROVE  /\ Mapped(g, s) \in Seq(L) /\ Len(Mapped(g, s)) = Len(s)
         /\ \A k \in 1..Len(s) : Mapped(g, s)[k] = g[s[k]]
<1>1. DOMAIN s = 1..Len(s) /\ Len(s) \in Nat /\ \A k \in 1..Len(s) : s[k] \in T
  OBVIOUS
<1>2. Mapped(g, s) = [k \in 1..Len(s) |-> g[s[k]]]
  BY <1>1 DEF Mapped
<1>3. \A k \in 1..Len(s) : g[s[k]] \in L
  BY <1>1 DEF Maps
<1> QED
  BY <1>1, <1>2, <1>3

\* Of two sequences, one after the other, it is that of each.
LEMMA MappedConcat ==
  ASSUME NEW T, NEW L, NEW g, Maps(g, T, L), NEW a \in Seq(T), NEW b \in Seq(T)
  PROVE  Mapped(g, a \o b) = Mapped(g, a) \o Mapped(g, b)
<1>1. PICK c \in Seq(T) : c = a \o b
  <2>1. a \o b \in Seq(T)
    OBVIOUS
  <2> QED
    BY <2>1
<1>2. PICK x \in Seq(L), y \in Seq(L), z \in Seq(L) :
        x = Mapped(g, a) /\ y = Mapped(g, b) /\ z = Mapped(g, c)
  BY MappedIs
<1>3. PICK m \in Nat, n \in Nat : m = Len(a) /\ n = Len(b)
  OBVIOUS
<1>4. Len(c) = m + n /\ m + n \in Nat
  BY <1>1, <1>3
<1>5. /\ Len(x) = m /\ Len(y) = n /\ Len(z) = m + n
      /\ \A k \in 1..m : x[k] = g[a[k]]
      /\ \A k \in 1..n : y[k] = g[b[k]]
      /\ \A k \in 1..(m + n) : z[k] = g[c[k]]
  <2>1. Len(Mapped(g, a)) = Len(a) /\ \A k \in 1..Len(a) : Mapped(g, a)[k] = g[a[k]]
    BY MappedIs
  <2>2. Len(Mapped(g, b)) = Len(b) /\ \A k \in 1..Len(b) : Mapped(g, b)[k] = g[b[k]]
    BY MappedIs
  <2>3. Len(Mapped(g, c)) = Len(c) /\ \A k \in 1..Len(c) : Mapped(g, c)[k] = g[c[k]]
    BY MappedIs
  <2> QED
    BY <1>2, <1>3, <1>4, <2>1, <2>2, <2>3
<1>6. PICK w \in Seq(L) : w = x \o y /\ Len(w) = m + n
  <2>1. x \o y \in Seq(L) /\ Len(x \o y) = Len(x) + Len(y)
    OBVIOUS
  <2> QED
    BY <1>5, <2>1
<1>7. ASSUME NEW k \in 1..(m + n) PROVE z[k] = w[k]
  <2>1. CASE k <= m
    <3>1. k \in 1..m /\ c[k] = a[k] /\ w[k] = x[k]
      BY <1>1, <1>3, <1>5, <1>6, <2>1
    <3> QED
      BY <1>5, <3>1
  <2>2. CASE k > m
    <3>1. PICK i \in 1..n : k = m + i
      <4>1. k - m \in 1..n /\ k = m + (k - m)
        BY <1>3, <2>2
      <4> QED
        BY <4>1
    <3>2. c[k] = b[i] /\ w[k] = y[i]
      BY <1>1, <1>3, <1>5, <1>6, <3>1
    <3> QED
      BY <1>5, <3>1, <3>2
  <2>3. k \in Nat
    BY <1>4
  <2> QED
    BY <1>3, <2>1, <2>2, <2>3
<1>8. z = w
  BY <1>5, <1>6, <1>7, SeqEqual
<1> QED
  BY <1>1, <1>2, <1>6, <1>8

\* Of a sequence with one element more, it has one more.
LEMMA MappedAppend ==
  ASSUME NEW T, NEW L, NEW g, Maps(g, T, L), NEW s \in Seq(T), NEW x \in T
  PROVE  Mapped(g, Append(s, x)) = Append(Mapped(g, s), g[x])
<1>1. PICK b \in Seq(T) : b = <<x>> /\ Len(b) = 1 /\ b[1] = x
  <2>1. <<x>> \in Seq(T) /\ Len(<<x>>) = 1 /\ <<x>>[1] = x
    OBVIOUS
  <2> QED
    BY <2>1
<1>2. Append(s, x) = s \o b
  BY <1>1
<1>3. PICK y \in Seq(L) : y = Mapped(g, b) /\ Len(y) = 1 /\ y[1] = g[x]
  <2>1. Mapped(g, b) \in Seq(L) /\ Len(Mapped(g, b)) = 1 /\ Mapped(g, b)[1] = g[x]
    <3>1. 1 \in 1..1
      OBVIOUS
    <3>2. /\ Mapped(g, b) \in Seq(L) /\ Len(Mapped(g, b)) = Len(b)
          /\ \A k \in 1..Len(b) : Mapped(g, b)[k] = g[b[k]]
      BY MappedIs
    <3>3. Mapped(g, b)[1] = g[b[1]]
      BY <1>1, <3>1, <3>2
    <3> QED
      BY <1>1, <3>2, <3>3
  <2> QED
    BY <2>1
<1>4. Mapped(g, s \o b) = Mapped(g, s) \o y
  <2>1. Mapped(g, s \o b) = Mapped(g, s) \o Mapped(g, b)
    BY MappedConcat
  <2> QED
    BY <1>3, <2>1
<1>5. PICK z \in Seq(L), v \in L : z = Mapped(g, s) /\ v = g[x]
  <2>1. g[x] \in L
    BY DEF Maps
  <2> QED
    BY <2>1, MappedIs
<1>6. y = <<v>>
  <2>1. <<v>> \in Seq(L) /\ Len(<<v>>) = 1 /\ <<v>>[1] = v
    OBVIOUS
  <2>2. \A k \in 1..1 : k = 1
    OBVIOUS
  <2>3. PICK w \in Seq(L) : w = <<v>> /\ Len(w) = 1 /\ w[1] = v
    BY <2>1
  <2>4. \A k \in 1..Len(y) : y[k] = w[k]
    BY <1>3, <1>5, <2>2, <2>3
  <2>5. y = w
    BY <1>3, <2>3, <2>4, SeqEqual
  <2> QED
    BY <2>3, <2>5
<1>7. z \o <<v>> = Append(z, v)
  OBVIOUS
<1> QED
  BY <1>2, <1>4, <1>5, <1>6, <1>7

\* The pieces that are an item's text, and what they say
IsPiece(identity, t) == t # LineEnd /\ LastOf(t) # Label /\ SubSeq(t, 1, 2) = identity
Lasts(s) == [k \in DOMAIN s |-> LastOf(s[k])]
LastsOf(T) == {LastOf(t) : t \in T}

\* What two lists of pieces say is what each says.
LEMMA LastsConcat ==
  ASSUME NEW T, NEW a \in Seq(T), NEW b \in Seq(T)
  PROVE  Lasts(a \o b) = Lasts(a) \o Lasts(b) /\ Lasts(a) \in Seq(LastsOf(T))
<1> DEFINE L == {LastOf(t) : t \in T}
           h == [t \in T |-> LastOf(t)]
<1>1. PICK g : Maps(g, T, L) /\ \A t \in T : g[t] = LastOf(t)
  <2>1. Maps(h, T, L) /\ \A t \in T : h[t] = LastOf(t)
    BY DEF Maps
  <2> HIDE DEF h, L
  <2> QED
    BY <2>1
<1> HIDE DEF L
<1>2. ASSUME NEW s \in Seq(T) PROVE Lasts(s) = Mapped(g, s)
  <2>1. \A k \in DOMAIN s : g[s[k]] = LastOf(s[k])
    BY <1>1
  <2> QED
    BY <2>1 DEF Lasts, Mapped
<1>3. PICK c \in Seq(T) : c = a \o b
  <2>1. a \o b \in Seq(T)
    OBVIOUS
  <2> QED
    BY <2>1
<1>4. Mapped(g, a \o b) = Mapped(g, a) \o Mapped(g, b) /\ Mapped(g, a) \in Seq(L)
  BY <1>1, MappedIs, MappedConcat
<1>5. Lasts(c) = Mapped(g, c) /\ Lasts(a) = Mapped(g, a) /\ Lasts(b) = Mapped(g, b)
  BY <1>2
<1> QED
  BY <1>3, <1>4, <1>5 DEF L, LastsOf

\* The text of an item in an output, whatever else is in it
LEMMA PiecesAre ==
  ASSUME NEW T, NEW out \in Seq(T), NEW identity
  PROVE  PiecesOf(identity, out) = Lasts(Kept(out, {t \in T : IsPiece(identity, t)}))
<1> DEFINE U == {t \in Range(out) : IsPiece(identity, t)}
           M == {t \in T : IsPiece(identity, t)}
<1>1. \A k \in 1..Len(out) : out[k] \in U <=> out[k] \in M
  <2>1. ASSUME NEW k \in 1..Len(out) PROVE out[k] \in Range(out) /\ out[k] \in T
    BY DEF Range
  <2> QED
    BY <2>1
<1>2. Kept(out, U) = Kept(out, M)
  <2> HIDE DEF U, M
  <2> QED
    BY <1>1, KeptSame
<1>3. PiecesOf(identity, out) = Lasts(Kept(out, U))
  BY DEF PiecesOf, Lasts, IsPiece
<1> QED
  BY <1>2, <1>3

\* The text of an item is what was printed of it first, and then the rest.
LEMMA PiecesConcat ==
  ASSUME NEW T, NEW a \in Seq(T), NEW b \in Seq(T), NEW identity
  PROVE  /\ PiecesOf(identity, a \o b) = PiecesOf(identity, a) \o PiecesOf(identity, b)
         /\ PiecesOf(identity, a) \in Seq(LastsOf(T))
<1> DEFINE M == {t \in T : IsPiece(identity, t)}
<1>1. a \o b \in Seq(T)
  OBVIOUS
<1>2. /\ PiecesOf(identity, a \o b) = Lasts(Kept(a \o b, M))
      /\ PiecesOf(identity, a) = Lasts(Kept(a, M)) /\ PiecesOf(identity, b) = Lasts(Kept(b, M))
  BY <1>1, PiecesAre
<1> HIDE DEF M
<1>3. Kept(a \o b, M) = Kept(a, M) \o Kept(b, M)
  BY KeptConcat
<1>4. PICK x \in Seq(T), y \in Seq(T) : x = Kept(a, M) /\ y = Kept(b, M)
  BY KeptType
<1>5. Lasts(x \o y) = Lasts(x) \o Lasts(y) /\ Lasts(x) \in Seq(LastsOf(T))
  BY LastsConcat
<1> QED
  BY <1>2, <1>3, <1>4, <1>5

\* The pieces of a text without a label say that text, of their item only.
LEMMA PiecesOfTokens ==
  ASSUME NEW f, NEW T, NEW text \in Seq(T), \A k \in 1..Len(text) : text[k] # Label, NEW identity
  PROVE  PiecesOf(identity, Tokens(f, text)) = IF identity = Identity(f) THEN text ELSE <<>>
<1>1. PICK ts : ts = Tokens(f, text)
  OBVIOUS
<1>2. PICK R : R = Range(ts)
  OBVIOUS
<1>3. /\ ts \in Seq(R) /\ Len(ts) = Len(text)
      /\ \A k \in 1..Len(text) : ts[k] # LineEnd /\ SubSeq(ts[k], 1, 2) = Identity(f) /\ LastOf(ts[k]) = text[k]
  BY <1>1, <1>2, TokensAre
<1> DEFINE M == {t \in R : IsPiece(identity, t)}
           all == identity = Identity(f)
<1>4. all \in BOOLEAN /\ \A k \in 1..Len(ts) : ts[k] \in M <=> all
  BY <1>3 DEF IsPiece
<1>5. PiecesOf(identity, ts) = Lasts(Kept(ts, M))
  BY <1>3, PiecesAre
<1>6. Kept(ts, M) = IF all THEN ts ELSE <<>>
  <2> HIDE DEF M, all
  <2> QED
    BY <1>3, <1>4, KeptOfAll
<1> HIDE DEF M
<1>7. Lasts(<<>>) = <<>>
  BY NoIndex DEF Lasts
<1>8. Lasts(ts) = text
  <2>1. DOMAIN ts = 1..Len(text) /\ DOMAIN text = 1..Len(text)
    BY <1>3
  <2>2. Lasts(ts) = [k \in 1..Len(text) |-> text[k]]
    BY <1>3, <2>1 DEF Lasts
  <2>3. text = [k \in 1..Len(text) |-> text[k]]
    BY <2>1
  <2> QED
    BY <2>2, <2>3
<1> QED
  BY <1>1, <1>5, <1>6, <1>7, <1>8

\* A label and a line end say nothing.
LEMMA PiecesOfNone ==
  ASSUME NEW T, NEW s \in Seq(T), NEW identity, \A k \in 1..Len(s) : ~IsPiece(identity, s[k])
  PROVE  PiecesOf(identity, s) = <<>>
<1> DEFINE M == {t \in T : IsPiece(identity, t)}
<1>1. FALSE \in BOOLEAN /\ \A k \in 1..Len(s) : s[k] \in M <=> FALSE
  OBVIOUS
<1>2. PiecesOf(identity, s) = Lasts(Kept(s, M))
  BY PiecesAre
<1>3. Kept(s, M) = <<>>
  <2> HIDE DEF M
  <2>1. Kept(s, M) = IF FALSE THEN s ELSE <<>>
    BY <1>1, KeptOfAll
  <2> QED
    BY <2>1
<1>4. Lasts(<<>>) = <<>>
  BY NoIndex DEF Lasts
<1> HIDE DEF M
<1> QED
  BY <1>2, <1>3, <1>4

\* The pieces of two texts, one after the other
LEMMA TokensConcat ==
  ASSUME NEW f, NEW T, NEW a \in Seq(T), NEW b \in Seq(T)
  PROVE  Tokens(f, a \o b) = Tokens(f, a) \o Tokens(f, b)
<1> DEFINE Token(x) == Identity(f) \o <<x>>
           L == {Token(x) : x \in T}
           h == [x \in T |-> Token(x)]
<1>1. PICK g : Maps(g, T, L) /\ \A x \in T : g[x] = Identity(f) \o <<x>>
  <2>1. Maps(h, T, L) /\ \A x \in T : h[x] = Identity(f) \o <<x>>
    BY DEF Maps
  <2> HIDE DEF h, L, Token
  <2> QED
    BY <2>1
<1> HIDE DEF L
<1>2. ASSUME NEW s \in Seq(T) PROVE Tokens(f, s) = Mapped(g, s)
  <2>1. \A k \in DOMAIN s : g[s[k]] = Identity(f) \o <<s[k]>>
    BY <1>1
  <2> QED
    BY <2>1 DEF Tokens, Mapped
<1>3. PICK c \in Seq(T) : c = a \o b
  <2>1. a \o b \in Seq(T)
    OBVIOUS
  <2> QED
    BY <2>1
<1>4. Mapped(g, a \o b) = Mapped(g, a) \o Mapped(g, b)
  BY <1>1, MappedConcat
<1>5. Tokens(f, c) = Mapped(g, c) /\ Tokens(f, a) = Mapped(g, a) /\ Tokens(f, b) = Mapped(g, b)
  BY <1>2
<1> QED
  BY <1>3, <1>4, <1>5

\* What a fragment adds to the text of an item: its own to its own.
LEMMA FragmentPieces ==
  ASSUME NEW f, NEW T, f.text \in Seq(T), \A k \in 1..Len(f.text) : f.text[k] # Label,
         printed \in Seq(Range(printed)), InItem, Identity(f) # NoItemYet, NEW identity
  PROVE  PiecesOf(identity, printed \o WriteFragment(f)) =
           IF identity # Identity(f) THEN TextOf(identity)
           ELSE TextOf(identity) \o (IF f.text = <<>> THEN <<Blank>> ELSE f.text)
<1>1. PICK U : U = T \cup {Label, Blank}
  OBVIOUS
<1>2. PICK label \in Seq(U) : label = LabelFor(f) /\ \A k \in 1..Len(label) : label[k] = Label
  <2>1. LabelFor(f) \in Seq(U) /\ LabelFor(f) \in Seq({Label})
    BY <1>1, TextForIs
  <2> QED
    BY <2>1
<1>3. PICK body \in Seq(U) : /\ body = (IF f.text = <<>> THEN <<Blank>> ELSE f.text)
                             /\ \A k \in 1..Len(body) : body[k] # Label
  <2>1. CASE f.text = <<>>
    <3>1. <<Blank>> \in Seq(U) /\ Len(<<Blank>>) = 1 /\ <<Blank>>[1] = Blank
      BY <1>1
    <3>2. PICK b \in Seq(U) : b = <<Blank>> /\ Len(b) = 1 /\ b[1] = Blank
      BY <3>1
    <3>3. \A k \in 1..Len(b) : k = 1
      BY <3>2
    <3>4. Blank # Label
      BY DEF Blank, Label
    <3>5. \A k \in 1..Len(b) : b[k] # Label
      BY <3>2, <3>3, <3>4
    <3>6. b = IF f.text = <<>> THEN <<Blank>> ELSE f.text
      BY <2>1, <3>2
    <3> QED
      BY <3>5, <3>6
  <2>2. CASE f.text # <<>>
    <3>1. PICK t \in Seq(T) : t = f.text
      OBVIOUS
    <3>2. t \in Seq(U)
      BY <1>1
    <3> QED
      BY <2>2, <3>1, <3>2
  <2> QED
    BY <2>1, <2>2
<1>4. TextFor(f) = label \o body
  BY <1>2, <1>3 DEF TextFor
<1>5. PICK p, sep, a, b : p = printed /\ sep = Apart(f) /\ a = Tokens(f, label) /\ b = Tokens(f, body)
  OBVIOUS
<1>6. Tokens(f, TextFor(f)) = a \o b
  BY <1>4, <1>5, TokensConcat
<1>7. sep \in Seq({LineEnd}) /\ p \in Seq(Range(p))
  BY <1>5, ApartIs
<1>8. /\ a \in Seq(Range(a)) /\ Len(a) = Len(label) /\ b \in Seq(Range(b))
      /\ \A k \in 1..Len(label) : LastOf(a[k]) = label[k]
  <2>1. b \in Seq(Range(b))
    BY <1>5, TokensAre
  <2>2. a \in Seq(Range(a)) /\ Len(a) = Len(label) /\ \A k \in 1..Len(label) : LastOf(a[k]) = label[k]
    BY <1>5, TokensAre
  <2> QED
    BY <2>1, <2>2
<1>9. PICK V : p \in Seq(V) /\ sep \in Seq(V) /\ a \in Seq(V) /\ b \in Seq(V)
  <2>1. PICK R, L, A, B : R = Range(p) /\ L = {LineEnd} /\ A = Range(a) /\ B = Range(b)
    OBVIOUS
  <2>2. p \in Seq(R) /\ sep \in Seq(L) /\ a \in Seq(A) /\ b \in Seq(B)
    BY <1>7, <1>8, <2>1
  <2>3. PICK C, D : C = R \cup L /\ D = A \cup B
    OBVIOUS
  <2>4. p \in Seq(C) /\ sep \in Seq(C) /\ a \in Seq(D) /\ b \in Seq(D)
    BY <2>2, <2>3, SeqOfMore
  <2>5. p \in Seq(C \cup D) /\ sep \in Seq(C \cup D) /\ a \in Seq(C \cup D) /\ b \in Seq(C \cup D)
    BY <2>4, SeqOfMore
  <2> QED
    BY <2>5
<1>10. PICK X : X = LastsOf(V)
  OBVIOUS
<1>11. ASSUME NEW s \in Seq(V), NEW t \in Seq(V)
       PROVE  /\ PiecesOf(identity, s \o t) = PiecesOf(identity, s) \o PiecesOf(identity, t)
              /\ PiecesOf(identity, s) \in Seq(X) /\ s \o t \in Seq(V)
  <2>1. s \o t \in Seq(V)
    OBVIOUS
  <2> QED
    BY <1>10, <2>1, PiecesConcat
<1>12. PICK c \in Seq(V), d \in Seq(V), out \in Seq(V) : c = a \o b /\ d = sep \o c /\ out = p \o d
  <2>1. PICK c \in Seq(V) : c = a \o b
    BY <1>9, <1>11
  <2>2. PICK d \in Seq(V) : d = sep \o c
    BY <1>9, <1>11
  <2>3. p \o d \in Seq(V)
    BY <1>9, <1>11
  <2> QED
    BY <2>1, <2>2, <2>3
<1>13. printed \o WriteFragment(f) = out
  BY <1>5, <1>6, <1>12, FragmentIs
<1>14. PiecesOf(identity, sep) = <<>>
  <2>1. \A k \in 1..Len(sep) : ~IsPiece(identity, sep[k])
    BY <1>7 DEF IsPiece
  <2> QED
    BY <1>9, <2>1, PiecesOfNone
<1>15. PiecesOf(identity, a) = <<>>
  <2>1. \A k \in 1..Len(a) : ~IsPiece(identity, a[k])
    BY <1>2, <1>8 DEF IsPiece
  <2> QED
    BY <1>9, <2>1, PiecesOfNone
<1>16. PiecesOf(identity, b) = IF identity = Identity(f) THEN body ELSE <<>>
  BY <1>3, <1>5, PiecesOfTokens
<1>17. PICK x \in Seq(X), y \in Seq(X) : x = PiecesOf(identity, p) /\ y = PiecesOf(identity, b)
  BY <1>9, <1>11
<1>18. <<>> \o y = y /\ x \o <<>> = x
  OBVIOUS
<1>19. PiecesOf(identity, c) = y
  <2>1. PiecesOf(identity, a \o b) = PiecesOf(identity, a) \o PiecesOf(identity, b)
    BY <1>9, <1>11
  <2> QED
    BY <1>12, <1>15, <1>17, <1>18, <2>1
<1>20. PiecesOf(identity, d) = y
  <2>1. PiecesOf(identity, sep \o c) = PiecesOf(identity, sep) \o PiecesOf(identity, c)
    BY <1>9, <1>11
  <2> QED
    BY <1>12, <1>14, <1>18, <1>19, <2>1
<1>21. PiecesOf(identity, out) = x \o y
  <2>1. PiecesOf(identity, p \o d) = PiecesOf(identity, p) \o PiecesOf(identity, d)
    BY <1>9, <1>11
  <2> QED
    BY <1>12, <1>17, <1>20, <2>1
<1>22. TextOf(identity) = x
  BY <1>5, <1>17 DEF TextOf
<1> QED
  BY <1>3, <1>13, <1>16, <1>17, <1>18, <1>21, <1>22

\* The last line end says nothing.
LEMMA FinishPieces ==
  ASSUME NEW out, out \in Seq(Range(out)), NEW identity
  PROVE  PiecesOf(identity, FinishLine(out)) = PiecesOf(identity, out)
<1>1. CASE FinishLine(out) = out
  BY <1>1
<1>2. CASE FinishLine(out) = Append(out, LineEnd)
  <2>1. PICK x, R, V : x = LineEnd /\ R = Range(out) /\ V = R \cup {x}
    OBVIOUS
  <2>2. PICK b \in Seq({x}) : b = <<x>> /\ \A k \in 1..Len(b) : b[k] = x
    <3>1. <<x>> \in Seq({x})
      OBVIOUS
    <3>2. PICK c \in Seq({x}) : c = <<x>>
      BY <3>1
    <3>3. \A k \in 1..Len(c) : c[k] = x
      OBVIOUS
    <3> QED
      BY <3>2, <3>3
  <2>3. out \in Seq(V) /\ b \in Seq(V)
    <3>1. out \in Seq(R)
      BY <2>1
    <3> QED
      BY <2>1, <3>1, SeqOfMore
  <2>4. Append(out, LineEnd) = out \o b
    BY <2>1, <2>2, <2>3
  <2>5. PiecesOf(identity, b) = <<>>
    <3>1. \A k \in 1..Len(b) : ~IsPiece(identity, b[k])
      BY <2>1, <2>2 DEF IsPiece
    <3> QED
      BY <2>3, <3>1, PiecesOfNone
  <2>6. PICK X : X = LastsOf(V)
    OBVIOUS
  <2>7. /\ PiecesOf(identity, out \o b) = PiecesOf(identity, out) \o PiecesOf(identity, b)
        /\ PiecesOf(identity, out) \in Seq(X)
    BY <2>3, <2>6, PiecesConcat
  <2>8. PICK y \in Seq(X) : y = PiecesOf(identity, out)
    BY <2>7
  <2>9. y \o <<>> = y
    OBVIOUS
  <2> QED
    BY <1>2, <2>4, <2>5, <2>7, <2>8, <2>9
<1> QED
  BY <1>1, <1>2 DEF FinishLine

\* The words of a turn's events
Words(s) == UNION {Range(e.item.text) : e \in Range(s)}

\* What the deltas of an item told before any event, and what one more event tells.
LEMMA ToldNext ==
  ASSUME NEW s \in Streams, NEW identity
  PROVE  /\ Told(s, 0, identity) = <<>>
         /\ \A n \in 0..(Len(s) - 1) :
              /\ Told(s, n, identity) \in Seq(Words(s)) /\ s[n + 1].item.text \in Seq(Words(s))
              /\ Told(s, n + 1, identity) =
                   IF s[n + 1].kind = "itemUpdated" /\ ItemOf(s[n + 1]) = identity
                   THEN Told(s, n, identity) \o s[n + 1].item.text ELSE Told(s, n, identity)
<1>1. PICK E, X : E = Range(s) /\ X = Words(s)
  OBVIOUS
<1>2. s \in Seq(E) /\ \A e \in E : e.item.text \in Seq(Range(e.item.text))
  BY <1>1, StreamsAssumption
<1>3. \A e \in E : e.item.text \in Seq(X)
  <2> TAKE e \in E
  <2>1. PICK t, R : t = e.item.text /\ R = Range(t)
    OBVIOUS
  <2>2. t \in Seq(R) /\ R \subseteq X
    BY <1>1, <1>2, <2>1 DEF Words
  <2>3. t \in Seq(X)
    BY <2>2
  <2> QED
    BY <2>1, <2>3
<1> DEFINE h == [e \in E |-> e.item.text]
           D == {e \in Range(s) : e.kind = "itemUpdated" /\ ItemOf(e) = identity}
<1>4. PICK g : Maps(g, E, Seq(X)) /\ \A e \in E : g[e] = e.item.text
  <2>1. Maps(h, E, Seq(X)) /\ \A e \in E : h[e] = e.item.text
    BY <1>3 DEF Maps
  <2> HIDE DEF h
  <2> QED
    BY <2>1
<1>5. PICK S : S = D
  OBVIOUS
<1>6. ASSUME NEW n, Prefix(s, n) \in Seq(E)
      PROVE  /\ Kept(Prefix(s, n), S) \in Seq(E)
             /\ Mapped(g, Kept(Prefix(s, n), S)) \in Seq(Seq(X))
             /\ Told(s, n, identity) = FlattenSeq(Mapped(g, Kept(Prefix(s, n), S)))
             /\ Told(s, n, identity) \in Seq(X)
  <2>1. PICK kept \in Seq(E) : kept = Kept(Prefix(s, n), S)
    BY <1>6, KeptType
  <2>2. PICK texts \in Seq(Seq(X)) : texts = Mapped(g, kept)
    BY <1>4, MappedIs
  <2>3. \A k \in DOMAIN kept : g[kept[k]] = kept[k].item.text
    BY <1>4
  <2>4. [k \in DOMAIN kept |-> kept[k].item.text] = texts
    BY <2>2, <2>3 DEF Mapped
  <2>5. Told(s, n, identity) = FlattenSeq([k \in DOMAIN kept |-> kept[k].item.text])
    BY <1>5, <2>1 DEF Told, Prefix
  <2>6. FlattenSeq(texts) \in Seq(X)
    BY FlattenType
  <2> QED
    BY <2>1, <2>2, <2>4, <2>5, <2>6
<1>7. Told(s, 0, identity) = <<>>
  <2>1. <<>> \in Seq(E) /\ <<>> \in Seq(Seq(X)) /\ Len(<<>>) = 0
    OBVIOUS
  <2>2. Prefix(s, 0) = <<>>
    BY <1>2, PrefixIs
  <2>3. Kept(<<>>, S) = <<>>
    BY <2>1, KeptType
  <2>4. Mapped(g, <<>>) = <<>>
    BY NoIndex DEF Mapped
  <2>5. FlattenSeq(<<>>) = <<>>
    BY <2>1, FlattenType
  <2>6. Told(s, 0, identity) = FlattenSeq(Mapped(g, Kept(Prefix(s, 0), S)))
    BY <1>6, <2>1, <2>2
  <2> QED
    BY <2>2, <2>3, <2>4, <2>5, <2>6
<1>8. ASSUME NEW n \in 0..(Len(s) - 1)
      PROVE  /\ Told(s, n, identity) \in Seq(X) /\ s[n + 1].item.text \in Seq(X)
             /\ Told(s, n + 1, identity) =
                   IF s[n + 1].kind = "itemUpdated" /\ ItemOf(s[n + 1]) = identity
                   THEN Told(s, n, identity) \o s[n + 1].item.text ELSE Told(s, n, identity)
  <2>1. PICK u \in Seq(E), e \in E, m \in Nat : u = Prefix(s, n) /\ e = s[n + 1] /\ m = n + 1
    BY <1>2, PrefixIs
  <2>2. Prefix(s, m) = Append(u, e) /\ Append(u, e) \in Seq(E)
    <3>1. Prefix(s, n + 1) = Append(u, e)
      BY <1>2, <2>1, PrefixIs
    <3> QED
      BY <2>1, <3>1
  <2>3. PICK kept \in Seq(E) : kept = Kept(u, S)
    BY <1>6, <2>1
  <2>4. PICK texts \in Seq(Seq(X)), text \in Seq(X) : texts = Mapped(g, kept) /\ text = g[e] /\ text = e.item.text
    <3>1. g[e] \in Seq(X) /\ g[e] = e.item.text
      BY <1>3, <1>4
    <3> QED
      BY <1>6, <2>1, <2>3, <3>1
  <2>5. Told(s, n, identity) = FlattenSeq(texts) /\ Told(s, n, identity) \in Seq(X)
    BY <1>6, <2>1, <2>3, <2>4
  <2>6. Told(s, m, identity) = FlattenSeq(Mapped(g, Kept(Append(u, e), S)))
    BY <1>6, <2>2
  <2>7. Kept(Append(u, e), S) = IF e \in S THEN Append(kept, e) ELSE kept
    BY <2>3, KeptAppend
  <2>8. Mapped(g, Append(kept, e)) = Append(texts, text)
    BY <1>4, <2>4, MappedAppend
  <2>9. FlattenSeq(Append(texts, text)) = FlattenSeq(texts) \o text
    BY FlattenAppend
  <2>10. e \in S <=> e.kind = "itemUpdated" /\ ItemOf(e) = identity
    BY <1>1, <1>5
  <2> HIDE DEF D
  <2> QED
    BY <2>1, <2>4, <2>5, <2>6, <2>7, <2>8, <2>9, <2>10
<1> QED
  BY <1>1, <1>7, <1>8

\* What the renderer makes of a delta and of a snapshot: of what, what, and what
\* it remembers.
LEMMA DeltaShows ==
  ASSUME NEW e, e.kind = "itemUpdated", e.item.type \in DeltaTypes, e.item.id # NoId, e.item.text # <<>>
  PROVE  /\ Shows(e) # <<>> /\ Identity(Head(Shows(e))) = ItemOf(e) /\ Head(Shows(e)).text = e.item.text
         /\ Render(remembered, e).streamed = remembered \cup {ItemOf(e)}
<1>1. PICK item, f, g : /\ item = e.item /\ f = Fragment(item, item.text)
                        /\ g = [f EXCEPT !.continuation = TRUE]
  OBVIOUS
<1>2. Render(remembered, e) = Rendered(<<g>>, remembered \cup {Streamed(f)})
  <2>1. f.id # NoId
    BY <1>1 DEF Fragment
  <2>2. Render(remembered, e) = RenderUpdated(remembered, item)
    BY <1>1 DEF Render
  <2> QED
    BY <1>1, <2>1, <2>2 DEF RenderUpdated
<1>3. g.kind = f.kind /\ g.id = f.id /\ g.text = item.text /\ f.kind = RenderKind[item.type] /\ f.id = item.id
  BY <1>1 DEF Fragment
<1>4. f.kind # "UserMessage"
  BY <1>1, <1>3 DEF DeltaTypes, RenderKind
<1>5. Render(remembered, e).out = <<g>> /\ Render(remembered, e).streamed = remembered \cup {Streamed(f)}
  BY <1>2 DEF Rendered
<1>6. <<g>> # <<>> /\ Head(<<g>>) = g
  BY RangeOfOne
<1>7. Shows(e) = <<g>>
  BY <1>3, <1>4, <1>5, <1>6 DEF Shows
<1>8. Streamed(f) = ItemOf(e) /\ Identity(g) = ItemOf(e)
  BY <1>1, <1>3 DEF Streamed, Identity, ItemOf, RenderThreadItem, Fragment
<1> QED
  BY <1>1, <1>3, <1>5, <1>6, <1>7, <1>8

\* A snapshot is shown if its item was not streamed and it has something to show.
LEMMA SnapshotShows ==
  ASSUME NEW e, e.kind = "itemCompleted"
  PROVE  LET f == RenderThreadItem(e.item)
         IN  /\ Identity(f) = ItemOf(e)
             /\ Shows(e) = IF Empty(f) \/ ItemOf(e) \in remembered \/ f.kind = "UserMessage"
                           THEN <<>> ELSE <<f>>
             /\ Render(remembered, e).streamed = remembered \ {ItemOf(e)}
<1>1. PICK f : f = RenderThreadItem(e.item)
  OBVIOUS
<1>2. Streamed(f) = ItemOf(e) /\ Identity(f) = ItemOf(e)
  BY <1>1 DEF Streamed, Identity, ItemOf
<1>3. Render(remembered, e) = Rendered(IF Empty(f) \/ ItemOf(e) \in remembered THEN <<>> ELSE <<f>>,
                                       remembered \ {ItemOf(e)})
  BY <1>1, <1>2 DEF Render, RenderCompleted
<1>4. <<f>> # <<>> /\ Head(<<f>>) = f
  BY RangeOfOne
<1>5. /\ Render(remembered, e).out = IF Empty(f) \/ ItemOf(e) \in remembered THEN <<>> ELSE <<f>>
      /\ Render(remembered, e).streamed = remembered \ {ItemOf(e)}
  BY <1>3 DEF Rendered
<1> QED
  BY <1>1, <1>2, <1>4, <1>5 DEF Shows

\* Nothing is shown of an event that is neither, and that is no failure.
LEMMA OthersShow ==
  ASSUME NEW e, e.kind \notin {"itemUpdated", "itemCompleted", "error", "turnFailed"}
  PROVE  Shows(e) = <<>> /\ Render(remembered, e).streamed = remembered
BY DEF Shows, Render, Rendered

\* What the event that is received adds to the text of an item
LEMMA ReceivePieces ==
  ASSUME WholeItems, IInv, Blocks, Receive, Human, NEW identity
  PROVE  LET e == feed[got + 1]
             f == Head(Shows(e))
         IN  TextOf(identity)' =
               IF Shows(e) = <<>> THEN TextOf(identity)
               ELSE IF identity # Identity(f) THEN TextOf(identity)
               ELSE TextOf(identity) \o (IF f.text = <<>> THEN <<Blank>> ELSE f.text)
<1>1. PICK e \in Range(feed) : e = feed[got + 1]
  BY NextEvent
<1>2. PICK out : out = Written(e)
  OBVIOUS
<1>3. out \in Seq(Range(out))
  BY <1>1, <1>2, WrittenBlocks
<1>4. printed' = IF Ends(e) THEN FinishLine(out) ELSE out
  BY <1>1, <1>2 DEF Receive, Output
<1>5. TextOf(identity)' = PiecesOf(identity, out)
  <2>1. TextOf(identity)' = PiecesOf(identity, printed')
    BY DEF TextOf
  <2>2. PiecesOf(identity, FinishLine(out)) = PiecesOf(identity, out)
    BY <1>3, FinishPieces
  <2> QED
    BY <1>4, <2>1, <2>2
<1>6. out = IF Shows(e) = <<>> THEN printed ELSE printed \o WriteFragment(Head(Shows(e)))
  BY <1>2 DEF Written, Human
<1>7. CASE Shows(e) = <<>>
  BY <1>1, <1>5, <1>6, <1>7 DEF TextOf
<1>8. CASE Shows(e) # <<>>
  <2>1. PICK f, T : f = Head(Shows(e)) /\ T = Range(e.item.text)
    OBVIOUS
  <2>2. f.text \in Seq(T) /\ Identity(f) # NoItemYet
    BY <1>8, <2>1, NextEvent, ShownIs
  <2>3. \A k \in 1..Len(f.text) : f.text[k] # Label
    <3>1. Label \notin T
      <4>1. feed \in Streams /\ got + 1 \in DOMAIN feed
        BY NextEvent
      <4> QED
        BY <1>1, <2>1, <4>1 DEF WholeItems
    <3>2. PICK t \in Seq(T) : t = f.text
      BY <2>2
    <3>3. \A k \in 1..Len(t) : t[k] \in T
      OBVIOUS
    <3> QED
      BY <3>1, <3>2, <3>3
  <2>4. printed \in Seq(Range(printed)) /\ InItem
    BY NextEvent DEF Blocks
  <2>5. PiecesOf(identity, printed \o WriteFragment(f)) =
          IF identity # Identity(f) THEN TextOf(identity)
          ELSE TextOf(identity) \o (IF f.text = <<>> THEN <<Blank>> ELSE f.text)
    BY <2>2, <2>3, <2>4, FragmentPieces
  <2> QED
    BY <1>1, <1>5, <1>6, <1>8, <2>1, <2>5
<1> QED
  BY <1>7, <1>8

\* An item whose snapshot was received
Snapshotted(n, identity) ==
  \E k \in 1..n : feed[k].kind = "itemCompleted" /\ ItemOf(feed[k]) = identity

\* What is printed of an item is what its deltas told so far
AsTold(n, identity) ==
  /\ TextOf(identity) = Told(feed, n, identity)
  /\ identity \in remembered <=> Told(feed, n, identity) # <<>>

\* The snapshot that was received is printed.
WholeAt(k) ==
  LET f == RenderThreadItem(feed[k].item)
  IN  feed[k].kind = "itemCompleted" /\ f.kind # "UserMessage" /\ ~Empty(f) /\ f.text # <<>>
        => TextOf(Identity(f)) = f.text

\* The text of every item of the turn: of the deltas so far, or all of it
Whole ==
  /\ at = "streaming" /\ Human =>
       /\ \A x \in Range(feed) : Snapshotted(got, ItemOf(x)) \/ AsTold(got, ItemOf(x))
       /\ \A k \in 1..got : WholeAt(k)
  /\ PrintedWhole

\* The next event tells nothing of an item that was completed before it.
LEMMA NotYetComplete ==
  ASSUME WholeItems, IInv, Blocks, Receive, feed[got + 1].kind \in {"itemUpdated", "itemCompleted"}
  PROVE  ~Snapshotted(got, ItemOf(feed[got + 1]))
<1> SUFFICES ASSUME NEW k \in 1..got, feed[k].kind = "itemCompleted",
                    ItemOf(feed[k]) = ItemOf(feed[got + 1])
             PROVE  FALSE
  BY DEF Snapshotted
<1>1. /\ feed \in Streams /\ DOMAIN feed = 1..Len(feed) /\ Len(feed) \in Nat
      /\ got \in 0..(Len(feed) - 1) /\ got + 1 \in 1..Len(feed)
  BY NextEvent
<1>2. k \in DOMAIN feed /\ got + 1 \in DOMAIN feed
  BY <1>1
<1>3. \A j \in DOMAIN feed : /\ feed[j].kind \in {"itemUpdated", "itemCompleted"}
                            /\ ItemOf(feed[j]) = ItemOf(feed[k])
                            => j <= k
  BY <1>1, <1>2 DEF WholeItems
<1>4. got + 1 <= k
  BY <1>2, <1>3
<1> QED
  BY <1>1, <1>4

\* An event that ends nothing leaves every item of the turn whole.
LEMMA WholeReceive ==
  ASSUME WholeItems, IInv, Blocks, Whole, Receive, Human, ~Ends(feed[got + 1])
  PROVE  /\ \A x \in Range(feed) :
              \/ Snapshotted(got + 1, ItemOf(x))
              \/ /\ TextOf(ItemOf(x))' = Told(feed, got + 1, ItemOf(x))
                 /\ ItemOf(x) \in remembered' <=> Told(feed, got + 1, ItemOf(x)) # <<>>
         /\ \A k \in 1..(got + 1) : WholeAt(k)'
<1>0. PICK s \in Streams : s = feed
  BY NextEvent
<1>1. PICK n \in 0..(Len(s) - 1), e \in Range(s) : s = feed /\ n = got /\ e = s[n + 1]
  BY <1>0, NextEvent
<1>2. /\ feed' = s /\ at = "streaming" /\ n \in Nat /\ n + 1 \in 1..Len(s) /\ DOMAIN s = 1..Len(s)
      /\ s \in Seq(Range(s)) /\ 1..(n + 1) = (1..n) \cup {n + 1}
  <2>1. feed' = s /\ at = "streaming" /\ s \in Seq(Range(s)) /\ n \in Nat /\ n + 1 \in 1..Len(s)
    BY <1>1, NextEvent
  <2>2. DOMAIN s = 1..Len(s)
    BY <2>1
  <2>3. 1..(n + 1) = (1..n) \cup {n + 1}
    BY <2>1
  <2> QED
    BY <2>1, <2>2, <2>3
<1>3. /\ \A x \in Range(s) : Snapshotted(n, ItemOf(x)) \/ AsTold(n, ItemOf(x))
      /\ \A k \in 1..n : WholeAt(k)
  BY <1>1, <1>2 DEF Whole
<1>4. remembered' = Render(remembered, e).streamed
  BY <1>1 DEF Receive, Human
<1>5. ASSUME NEW identity
      PROVE  TextOf(identity)' =
               IF Shows(e) = <<>> THEN TextOf(identity)
               ELSE IF identity # Identity(Head(Shows(e))) THEN TextOf(identity)
               ELSE TextOf(identity) \o (IF Head(Shows(e)).text = <<>> THEN <<Blank>>
                                         ELSE Head(Shows(e)).text)
  BY <1>1, ReceivePieces
<1>6. ASSUME NEW identity
      PROVE  /\ Told(s, n, identity) \in Seq(Words(s)) /\ e.item.text \in Seq(Words(s))
             /\ Told(s, n + 1, identity) = IF e.kind = "itemUpdated" /\ ItemOf(e) = identity
                                           THEN Told(s, n, identity) \o e.item.text
                                           ELSE Told(s, n, identity)
  BY <1>1, ToldNext
<1>7. \A identity : Snapshotted(n, identity) => Snapshotted(n + 1, identity)
  BY <1>2 DEF Snapshotted
<1>8. e.kind \notin {"turnCompleted", "turnFailed", "error"}
  BY <1>1 DEF Ends
<1>9. ASSUME NEW identity, identity # ItemOf(e) \/ e.kind \notin {"itemUpdated", "itemCompleted"}
      PROVE  /\ TextOf(identity)' = TextOf(identity) /\ Told(s, n + 1, identity) = Told(s, n, identity)
             /\ identity \in remembered' <=> identity \in remembered
  <2>1. Told(s, n + 1, identity) = Told(s, n, identity)
    BY <1>6, <1>9
  <2>2. CASE e.kind = "itemUpdated"
    <3>1. e.item.type \in DeltaTypes /\ e.item.id # NoId /\ e.item.text # <<>>
      BY <1>1, <1>2, <2>2 DEF WholeItems
    <3>2. /\ Shows(e) # <<>> /\ Identity(Head(Shows(e))) = ItemOf(e)
          /\ Render(remembered, e).streamed = remembered \cup {ItemOf(e)}
      BY <2>2, <3>1, DeltaShows
    <3> QED
      BY <1>4, <1>5, <1>9, <2>1, <2>2, <3>2
  <2>3. CASE e.kind = "itemCompleted"
    <3>1. PICK f : f = RenderThreadItem(e.item)
      OBVIOUS
    <3>2. /\ Identity(f) = ItemOf(e) /\ (Shows(e) = <<>> \/ Shows(e) = <<f>>)
          /\ Render(remembered, e).streamed = remembered \ {ItemOf(e)}
      BY <2>3, <3>1, SnapshotShows
    <3>3. Head(<<f>>) = f
      BY RangeOfOne
    <3>4. Shows(e) # <<>> => Identity(Head(Shows(e))) = ItemOf(e)
      BY <3>2, <3>3
    <3> QED
      BY <1>4, <1>5, <1>9, <2>1, <2>3, <3>2, <3>4
  <2>4. CASE e.kind \notin {"itemUpdated", "itemCompleted"}
    <3>1. Shows(e) = <<>> /\ Render(remembered, e).streamed = remembered
      BY <1>8, <2>4, OthersShow
    <3> QED
      BY <1>4, <1>5, <2>1, <3>1
  <2> QED
    BY <2>2, <2>3, <2>4
<1>10. ASSUME NEW x \in Range(s), ItemOf(x) # ItemOf(e) \/ e.kind \notin {"itemUpdated", "itemCompleted"}
       PROVE  \/ Snapshotted(n + 1, ItemOf(x))
              \/ /\ TextOf(ItemOf(x))' = Told(s, n + 1, ItemOf(x))
                 /\ ItemOf(x) \in remembered' <=> Told(s, n + 1, ItemOf(x)) # <<>>
  <2>1. PICK i : i = ItemOf(x)
    OBVIOUS
  <2>2. /\ TextOf(i)' = TextOf(i) /\ Told(s, n + 1, i) = Told(s, n, i)
        /\ i \in remembered' <=> i \in remembered
    BY <1>9, <1>10, <2>1
  <2>3. CASE Snapshotted(n, i)
    BY <1>7, <2>1, <2>3
  <2>4. CASE AsTold(n, i)
    <3>1. TextOf(i) = Told(s, n, i) /\ (i \in remembered <=> Told(s, n, i) # <<>>)
      BY <1>1, <2>4 DEF AsTold
    <3>2. TextOf(i)' = Told(s, n + 1, i) /\ (i \in remembered' <=> Told(s, n + 1, i) # <<>>)
      BY <2>2, <3>1
    <3>3. TextOf(ItemOf(x))' = Told(s, n + 1, i)
      BY <2>1, <3>2
    <3> QED
      BY <2>1, <3>2
  <2> QED
    BY <1>3, <2>1, <2>3, <2>4
<1>11. ASSUME NEW k \in 1..n PROVE WholeAt(k)'
  <2>1. PICK f : f = RenderThreadItem(s[k].item)
    OBVIOUS
  <2>2. SUFFICES ASSUME s[k].kind = "itemCompleted", f.kind # "UserMessage", ~Empty(f), f.text # <<>>
                 PROVE  TextOf(Identity(f))' = f.text
    BY <1>2, <2>1 DEF WholeAt
  <2>3. PICK i : i = Identity(f)
    OBVIOUS
  <2>4. TextOf(i) = f.text
    BY <1>1, <1>3, <2>1, <2>2, <2>3 DEF WholeAt
  <2>5. Snapshotted(n, i)
    BY <1>1, <2>1, <2>2, <2>3 DEF Snapshotted, ItemOf
  <2>6. i # ItemOf(e) \/ e.kind \notin {"itemUpdated", "itemCompleted"}
    BY <1>1, <2>5, NotYetComplete
  <2>7. TextOf(i)' = TextOf(i)
    BY <1>9, <2>6
  <2> QED
    BY <2>3, <2>4, <2>7
<1>12. ASSUME e.kind \in {"itemUpdated", "itemCompleted"}
       PROVE  AsTold(n, ItemOf(e))
  BY <1>1, <1>3, <1>12, NotYetComplete
<1>13. WholeAt(n + 1)'
  <2>1. PICK f : f = RenderThreadItem(e.item)
    OBVIOUS
  <2>2. SUFFICES ASSUME e.kind = "itemCompleted", f.kind # "UserMessage", ~Empty(f), f.text # <<>>
                 PROVE  TextOf(Identity(f))' = f.text
    BY <1>1, <1>2, <2>1 DEF WholeAt
  <2>3. PICK i : i = Identity(f) /\ i = ItemOf(e)
    BY <2>1 DEF ItemOf
  <2>4. TextOf(i) = Told(s, n, i) /\ (i \in remembered <=> Told(s, n, i) # <<>>)
    BY <1>1, <1>12, <2>2, <2>3 DEF AsTold
  <2>5. Told(s, n + 1, i) = Told(s, n, i) /\ Told(s, n + 1, i) \in {<<>>, f.text}
    <3>1. Told(s, n + 1, i) = Told(s, n, i)
      BY <1>6, <2>2
    <3>2. f.text = <<>> \/ Told(s, n + 1, ItemOf(e)) \in {<<>>, f.text}
      BY <1>1, <1>2, <2>1, <2>2 DEF WholeItems
    <3> QED
      BY <2>2, <2>3, <3>1, <3>2
  <2>6. Shows(e) = IF i \in remembered THEN <<>> ELSE <<f>>
    BY <2>1, <2>2, <2>3, SnapshotShows
  <2>7. CASE i \in remembered
    <3>1. TextOf(i)' = TextOf(i)
      BY <1>5, <2>6, <2>7
    <3> QED
      BY <2>3, <2>4, <2>5, <2>7, <3>1
  <2>8. CASE i \notin remembered
    <3>1. Shows(e) = <<f>> /\ <<f>> # <<>> /\ Head(<<f>>) = f
      BY <2>6, <2>8, RangeOfOne
    <3>2. TextOf(i)' = TextOf(i) \o f.text
      BY <1>5, <2>2, <2>3, <3>1
    <3>3. TextOf(i) = <<>>
      BY <2>4, <2>8
    <3>4. <<>> \o f.text = f.text
      <4>1. PICK t, R : t = f.text /\ R = Range(e.item.text)
        OBVIOUS
      <4>2. t \in Seq(R)
        BY <1>1, <3>1, <4>1, ShownIs
      <4>3. <<>> \o t = t
        BY <4>2
      <4> QED
        BY <4>1, <4>3
    <3> QED
      BY <2>3, <3>2, <3>3, <3>4
  <2> QED
    BY <2>7, <2>8
<1>14. ASSUME NEW x \in Range(s), ItemOf(x) = ItemOf(e), e.kind \in {"itemUpdated", "itemCompleted"}
       PROVE  \/ Snapshotted(n + 1, ItemOf(x))
              \/ /\ TextOf(ItemOf(x))' = Told(s, n + 1, ItemOf(x))
                 /\ ItemOf(x) \in remembered' <=> Told(s, n + 1, ItemOf(x)) # <<>>
  <2>1. CASE e.kind = "itemCompleted"
    <3>1. n + 1 \in 1..(n + 1)
      BY <1>2
    <3> QED
      BY <1>1, <1>14, <2>1, <3>1 DEF Snapshotted
  <2>2. CASE e.kind = "itemUpdated"
    <3>1. PICK i : i = ItemOf(e)
      OBVIOUS
    <3>2. TextOf(i) = Told(s, n, i)
      BY <1>1, <1>12, <1>14, <3>1 DEF AsTold
    <3>3. e.item.type \in DeltaTypes /\ e.item.id # NoId /\ e.item.text # <<>>
      BY <1>1, <1>2, <2>2 DEF WholeItems
    <3>4. /\ Shows(e) # <<>> /\ Identity(Head(Shows(e))) = i /\ Head(Shows(e)).text = e.item.text
          /\ Render(remembered, e).streamed = remembered \cup {i}
      BY <2>2, <3>1, <3>3, DeltaShows
    <3>5. TextOf(i)' = TextOf(i) \o e.item.text
      BY <1>5, <3>3, <3>4
    <3>6. Told(s, n + 1, i) = Told(s, n, i) \o e.item.text
      BY <1>6, <2>2, <3>1
    <3>7. Told(s, n, i) \o e.item.text # <<>>
      <4>1. PICK a \in Seq(Words(s)), b \in Seq(Words(s)) : a = Told(s, n, i) /\ b = e.item.text
        BY <1>6
      <4>2. b # <<>> => a \o b # <<>>
        <5>1. b # <<>> => Len(b) # 0 /\ Len(b) \in Nat
          OBVIOUS
        <5>2. Len(a \o b) = Len(a) + Len(b) /\ Len(a) \in Nat /\ Len(<<>>) = 0
          OBVIOUS
        <5> QED
          BY <5>1, <5>2
      <4> QED
        BY <3>3, <4>1, <4>2
    <3>8. TextOf(i)' = Told(s, n + 1, i) /\ i \in remembered' /\ Told(s, n + 1, i) # <<>>
      BY <1>4, <3>2, <3>4, <3>5, <3>6, <3>7
    <3> QED
      BY <1>14, <3>1, <3>8
  <2> QED
    BY <1>14, <2>1, <2>2
<1>15. \A x \in Range(s) :
         \/ Snapshotted(n + 1, ItemOf(x))
         \/ /\ TextOf(ItemOf(x))' = Told(s, n + 1, ItemOf(x))
            /\ ItemOf(x) \in remembered' <=> Told(s, n + 1, ItemOf(x)) # <<>>
  BY <1>10, <1>14
<1>16. \A k \in 1..(n + 1) : WholeAt(k)'
  BY <1>2, <1>11, <1>13
<1> QED
  BY <1>1, <1>15, <1>16

\* Only the end of a turn that completed is a success, and its event prints nothing.
LEMMA WholeEnd ==
  ASSUME WholeItems, IInv, Blocks, Whole, Receive, Human, Ends(feed[got + 1])
  PROVE  at' = "exited" /\ PrintedWhole'
<1>1. PICK e : e = feed[got + 1]
  OBVIOUS
<1>2. at = "streaming" /\ feed' = feed /\ got' = got + 1 /\ got \in Nat
  BY NextEvent
<1>3. at' = "exited" /\ code' = StreamCode(e)
  BY <1>1 DEF Receive, Exit
<1>4. CASE e.kind = "turnCompleted"
  <2>1. Shows(e) = <<>>
    BY <1>4, OthersShow
  <2>2. ASSUME NEW identity PROVE TextOf(identity)' = TextOf(identity)
    BY <1>1, <2>1, ReceivePieces
  <2>3. ASSUME NEW k \in 1..(got + 1) PROVE WholeAt(k)'
    <3>1. PICK f : f = RenderThreadItem(feed[k].item)
      OBVIOUS
    <3>2. SUFFICES ASSUME feed[k].kind = "itemCompleted", f.kind # "UserMessage", ~Empty(f), f.text # <<>>
                   PROVE  TextOf(Identity(f))' = f.text
      BY <1>2, <3>1 DEF WholeAt
    <3>3. k \in 1..got
      <4>1. k # got + 1
        BY <1>1, <1>4, <3>2
      <4> QED
        BY <1>2, <4>1
    <3>4. PICK i : i = Identity(f)
      OBVIOUS
    <3>5. TextOf(i) = f.text
      BY <1>2, <3>1, <3>2, <3>3, <3>4 DEF Whole, WholeAt
    <3>6. TextOf(i)' = TextOf(i)
      BY <2>2
    <3> QED
      BY <3>4, <3>5, <3>6
  <2>4. \A k \in 1..got' : WholeAt(k)'
    BY <1>2, <2>3
  <2> QED
    BY <1>3, <2>4 DEF PrintedWhole, WholeAt
<1>5. CASE e.kind # "turnCompleted"
  <2>1. code' # 0
    <3>1. ExitCode.turn \in Range(ExitCode)
      BY ExitCodes
    <3> QED
      BY <1>3, <1>5, <3>1, ExitCodes DEF StreamCode
  <2> QED
    BY <1>3, <2>1 DEF PrintedWhole
<1> QED
  BY <1>4, <1>5

\* Every step leaves what is printed whole.
LEMMA WholeStep ==
  ASSUME WholeItems, IInv, [Next]_allVars, Blocks, Whole
  PROVE  Whole'
<1>1. UNCHANGED process /\ Human' = Human /\ (Mode = "human" /\ Command = "exec" <=> Human)
        /\ Mode' = Mode /\ Command' = Command
  BY SameProcess, SameHuman, SameInput DEF Human
<1>2. code = Running <=> at # "exited"
  BY DEF IInv, Course
<1>3. (code = Running <=> at # "exited")'
  BY CourseStep DEF Course
<1>4. CASE ~Human
  BY <1>1, <1>4 DEF Whole, PrintedWhole
<1>5. CASE Human /\ Receive /\ Ends(feed[got + 1])
  BY <1>5, WholeEnd DEF Whole
<1>6. CASE Human /\ Receive /\ ~Ends(feed[got + 1])
  <2>1. /\ \A x \in Range(feed) :
              \/ Snapshotted(got + 1, ItemOf(x))
              \/ /\ TextOf(ItemOf(x))' = Told(feed, got + 1, ItemOf(x))
                 /\ ItemOf(x) \in remembered' <=> Told(feed, got + 1, ItemOf(x)) # <<>>
        /\ \A k \in 1..(got + 1) : WholeAt(k)'
    BY <1>6, WholeReceive
  <2>2. got' = got + 1 /\ feed' = feed /\ at' = "streaming"
    BY <1>6 DEF Receive, Goto
  <2>3. ASSUME NEW x \in Range(feed)
        PROVE  (Snapshotted(got, ItemOf(x)) \/ AsTold(got, ItemOf(x)))'
    <3>1. PICK i : i = ItemOf(x)
      OBVIOUS
    <3>2. CASE Snapshotted(got + 1, i)
      <4>1. Snapshotted(got, i)'
        BY <2>2, <3>2 DEF Snapshotted
      <4> QED
        BY <3>1, <4>1
    <3>3. CASE /\ TextOf(i)' = Told(feed, got + 1, i)
               /\ i \in remembered' <=> Told(feed, got + 1, i) # <<>>
      <4>1. AsTold(got, i)'
        BY <2>2, <3>3 DEF AsTold
      <4> QED
        BY <3>1, <4>1
    <3> QED
      BY <2>1, <3>1, <3>2, <3>3
  <2>4. ~(code' = 0)
    BY <1>3, <2>2 DEF Running
  <2>5. PrintedWhole'
    BY <2>4 DEF PrintedWhole
  <2>6. (\A x \in Range(feed) : Snapshotted(got, ItemOf(x)) \/ AsTold(got, ItemOf(x)))'
    BY <2>2, <2>3
  <2>7. (\A k \in 1..got : WholeAt(k))'
    BY <2>1, <2>2
  <2> QED
    BY <2>5, <2>6, <2>7 DEF Whole
<1>7. CASE Human /\ StartTurn
  <2>1. at = "turning" /\ at' = "streaming" /\ feed' \in Streams /\ UNCHANGED <<remembered, got, printed>>
    BY <1>7 DEF StartTurn, Goto
  <2>2. remembered' = {} /\ got' = 0 /\ printed' = <<>>
    BY <2>1 DEF Blocks
  <2>3. ASSUME NEW i PROVE AsTold(got, i)'
    <3>1. PICK s \in Streams : s = feed'
      BY <2>1
    <3>2. Told(s, 0, i) = <<>>
      BY ToldNext
    <3>3. PiecesOf(i, <<>>) = <<>>
      <4>1. <<>> \in Seq({}) /\ \A k \in 1..Len(<<>>) : FALSE
        OBVIOUS
      <4> QED
        BY <4>1, PiecesOfNone
    <3> QED
      BY <2>2, <3>1, <3>2, <3>3 DEF AsTold, TextOf
  <2>4. (\A k \in 1..got : WholeAt(k))'
    BY <2>2
  <2>5. PrintedWhole'
    BY <2>2 DEF PrintedWhole
  <2> QED
    BY <2>3, <2>4, <2>5 DEF Whole
<1>8. CASE Human /\ UNCHANGED allVars
  BY <1>1, <1>8 DEF Whole, PrintedWhole, WholeAt, AsTold, Snapshotted, TextOf, allVars, turn
<1>9. CASE Human /\ at = "streaming" /\ at' = "exited" /\ code' # 0
  BY <1>9 DEF Whole, PrintedWhole
<1>10. CASE Human /\ at \notin {"streaming", "exited"} /\ at' # "streaming" /\ got' = got
  <2>1. got' = 0
    BY <1>10 DEF Blocks
  <2> QED
    BY <1>10, <2>1 DEF Whole, PrintedWhole
<1>11. CASE Human /\ Connect
  <2>1. at \in {"preparing", "joining"} /\ at' = at /\ got' = got
    BY <1>11, StepPlaces DEF Connect, RefuseToken, NoBinary, StartServer, Opens, Closes, LinkBecomes, turn
  <2> QED
    BY <1>10, <1>11, <2>1
<1>12. \/ Receive \/ StartTurn \/ UNCHANGED allVars \/ Connect
       \/ at = "streaming" /\ at' = "exited" /\ code' # 0
       \/ at \notin {"streaming", "exited"} /\ at' # "streaming" /\ got' = got
  <2>1. CASE StreamFails
    <3>1. TurnCategory(ClientCategory("TransportClosed")) \in Categories /\ "io" \in Categories
      BY ExitCodes DEF TurnCategory, ClientCategory
    <3>2. at = "streaming" /\ at' = "exited" /\ code' \in Range(ExitCode)
      BY <2>1, <3>1, ExitCodes DEF StreamFails, Fail, Exit
    <3> QED
      BY <3>2, ExitCodes
  <2>2. CASE ~StreamFails
    BY <2>2, StepPlaces
       DEF Next, Exec, Sessions, Doctor, Parse, ResolveTransport, Join, Joined, ReadPrompt, Prepare,
           EnsureAuthenticated, Login, ChatEnds, ListPage, Preview, PageDone, CheckMachine, CheckVersion,
           CheckUpstream, ProbeAccount, Report, RequestFails, Exit, Fail, Goto, turn
  <2> QED
    BY <2>1, <2>2
<1> QED
  BY <1>4, <1>5, <1>6, <1>7, <1>8, <1>9, <1>10, <1>11, <1>12

\* The items of a turn are printed whole.
LEMMA WholeHolds == ASSUME WholeItems PROVE Spec => []Whole
<1>1. Init => Whole
  BY DEF Init, Whole, PrintedWhole
<1>2. IInv /\ Blocks /\ Whole /\ [Next]_allVars => Whole'
  BY WholeStep
<1> QED
  BY IInvHolds, BlocksHold, <1>1, <1>2, PTL DEF Spec

-----------------------------------------------------------------------------
(* What is printed                                                         *)

\* Between the texts of two items of a turn there is exactly one empty line, in
\* whatever order their deltas and snapshots come (HumanOutput): of every stream.
THEOREM BlocksStayApart == Spec => []BlocksSeparated
<1>1. Blocks => BlocksSeparated
  <2> SUFFICES ASSUME Blocks, Human PROVE BlocksSeparated
    BY DEF BlocksSeparated, Human
  <2>1. PICK R : R = Range(printed)
    OBVIOUS
  <2>2. printed \in Seq(R) /\ Spaced(printed)
    BY <2>1 DEF Blocks
  <2> QED
    BY <2>2, SpacedIs
<1> QED
  BY BlocksHold, <1>1, PTL

\* If a thread is the same wherever the server lists it, luna sessions prints all
\* the threads that match, once and in order, or none (list_sessions).
THEOREM SessionsAreAllOrNone == ASSUME DistinctThreads PROVE Spec => []SessionsAllOrNothing
<1>1. Listing => SessionsAllOrNothing
  BY DEF Listing
<1> QED
  BY ListingHolds, <1>1, PTL

\* If moreover the deltas of an item are the text of its snapshot, which comes once
\* and last, what a command prints is whole: no text is lost or printed twice.
THEOREM OutputStaysWhole == ASSUME DistinctThreads, WholeItems PROVE Spec => []OutputIsWhole
<1>1. Whole => PrintedWhole
  BY DEF Whole
<1>2. BlocksSeparated /\ PrintedWhole /\ SessionsAllOrNothing => OutputIsWhole
  BY DEF OutputIsWhole
<1> QED
  BY BlocksStayApart, SessionsAreAllOrNone, WholeHolds, <1>1, <1>2, PTL
=============================================================================
