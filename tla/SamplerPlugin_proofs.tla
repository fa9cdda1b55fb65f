------------------------ MODULE SamplerPlugin_proofs ------------------------
(***************************************************************************)
(* What holds of the sampler plugin whatever requests the engine batches,  *)
(* for any number of rows.                                                 *)
(*                                                                         *)
(* The plugin identifies a request by its row only.  MovesMatch says that  *)
(* the engine's report of moved rows is a bijection of the rows past the   *)
(* new end to the holes; with it, the plugin's order of removals,          *)
(* additions and moves ends with the engine's batch (Matched), and then    *)
(* what it records is what the engine drew (Samples) and what it writes    *)
(* is final (Lines).                                                       *)
(***************************************************************************)
EXTENDS SamplerPlugin, FiniteSetTheorems, SequenceTheorems, WellFoundedInduction, TLAPS

Audited == {r \in Requests : Mode[r] # "plain"}
InBatch(r) == \E i \in DOMAIN rows : rows[i] = r

Types ==
    /\ rows \in Seq(Requests) /\ Len(rows) <= MaxRows
    /\ status \in [Requests -> {"queued", "running", "finished", "gone"}]
    /\ commitFrom \in [Requests -> Nat]
    /\ drawn \in [Requests -> Seq(Vocabulary)]
    /\ output \in [Requests -> Seq(Vocabulary)]
    /\ sampled \in [Requests -> Seq(Vocabulary)]
    /\ forcedCount \in [Requests -> Nat]
    /\ alive \in BOOLEAN /\ torn \in BOOLEAN
    /\ states \in [1..MaxRows -> Requests \cup {NoState}]
    /\ seenIds \subseteq Audited /\ written \subseteq seenIds
    /\ file \in Seq(Range(file))

(* A request of the engine's batch has one row. *)
Batch ==
    /\ \A i, j \in DOMAIN rows : rows[i] = rows[j] => i = j
    /\ \A r \in Requests : InBatch(r) <=> status[r] \in {"running", "finished"}

(* What the plugin keeps of a request: nothing of an ordinary one. *)
Shown(r) == IF Mode[r] # "plain" THEN r ELSE NoState

ShownIn(f) ==
    \A i \in 1..MaxRows : f[i] = IF i \in DOMAIN rows THEN Shown(rows[i]) ELSE NoState

(* The plugin's rows are the engine's. *)
Matched == alive => ShownIn(states)

Forced(r) ==
    IF Mode[r] # "force" \/ Len(sampled[r]) <= Start[r] THEN 0
    ELSE Min2(Len(sampled[r]) - Start[r], Len(Tokens[r]))

(* The plugin has recorded what the engine drew, of which the engine has   *)
(* committed one window, and it has forced all it came by of its own.      *)
Samples ==
    \A r \in Requests :
        /\ sampled[r] = drawn[r] /\ Len(drawn[r]) <= MaxDrawn[r]
        /\ output[r] = SubSeq(drawn[r], commitFrom[r] + 1,
                              Min2(Len(drawn[r]), commitFrom[r] + CommitLength[r]))
        /\ forcedCount[r] = Forced(r)

(* A request that the plugin has accepted is not accepted again, and one   *)
(* whose audit is written is not in the batch of a running engine.         *)
Once ==
    /\ alive => \A i \in DOMAIN rows : rows[i] \in Audited => rows[i] \in seenIds
    /\ \A r \in written : status[r] # "finished" /\ (alive => ~InBatch(r))

(* The engine's lines are the audits of different requests, and stay true. *)
Lines ==
    /\ \A i \in DOMAIN file : file[i].by = "engine" =>
          file[i].id \in written /\ file[i] = Audit(file[i].id)
    /\ \A i, j \in DOMAIN file :
          file[i].by = "engine" /\ file[j].by = "engine" /\ file[i].id = file[j].id => i = j

SamplerInv == Types /\ Batch /\ Matched /\ Samples /\ Once /\ Lines

-----------------------------------------------------------------------------
(* The rows that are moved fill exactly the holes *)

StrictOrder(R, X) ==
    /\ \A x \in X : <<x, x>> \notin R
    /\ \A x, y, z \in X : <<x, y>> \in R /\ <<y, z>> \in R => <<x, z>> \in R
    /\ \A x, y \in X : x = y \/ <<x, y>> \in R \/ <<y, x>> \in R

Rank(R, X) == [x \in X |-> Cardinality({y \in X : <<y, x>> \in R})]

(* The elements of a finite ordered set are numbered by their ranks. *)
LEMMA Ranks ==
    ASSUME NEW X, IsFiniteSet(X), NEW R, StrictOrder(R, X)
    PROVE  Rank(R, X) \in Bijection(X, 0..(Cardinality(X) - 1))
<1> DEFINE below(x) == {y \in X : <<y, x>> \in R}
           n == Cardinality(X)
           f == Rank(R, X)
<1>1. n \in Nat
  BY FS_CardinalityType
<1>2. ASSUME NEW x \in X
      PROVE  /\ IsFiniteSet(below(x)) /\ Cardinality(below(x)) \in 0..(n - 1)
             /\ IsFiniteSet(below(x) \cup {x})
             /\ Cardinality(below(x) \cup {x}) = Cardinality(below(x)) + 1
  <2>1. IsFiniteSet(below(x))
    BY FS_Subset
  <2>2. x \notin below(x) /\ below(x) \cup {x} \in SUBSET X
    BY DEF StrictOrder
  <2> HIDE DEF below, n
  <2>3. /\ IsFiniteSet(below(x) \cup {x})
        /\ Cardinality(below(x) \cup {x}) = Cardinality(below(x)) + 1
    BY <2>1, <2>2, FS_AddElement
  <2>4. Cardinality(below(x) \cup {x}) <= n
    BY <2>2, FS_Subset DEF n
  <2>5. Cardinality(below(x)) \in Nat
    BY <2>1, FS_CardinalityType
  <2> QED BY <1>1, <2>1, <2>3, <2>4, <2>5
<1>3. \A x \in X : f[x] = Cardinality(below(x))
  BY DEF Rank
<1>4. f \in [X -> 0..(n - 1)]
  <2>1. f = [x \in X |-> f[x]]
    BY DEF Rank
  <2> HIDE DEF below, f
  <2> QED BY <1>2, <1>3, <2>1
<1>5. ASSUME NEW x \in X, NEW z \in X, <<x, z>> \in R PROVE f[x] # f[z]
  <2>1. below(x) \cup {x} \in SUBSET below(z)
    BY <1>5 DEF StrictOrder
  <2> HIDE DEF below, n, f
  <2>2. Cardinality(below(x) \cup {x}) <= Cardinality(below(z))
    BY <1>2, <2>1, FS_Subset
  <2> QED BY <1>1, <1>2, <1>3, <2>2
<1>6. f \in Injection(X, 0..(n - 1))
  <2>1. \A x, z \in X : f[x] = f[z] => x = z
    BY <1>5 DEF StrictOrder
  <2> HIDE DEF f, n
  <2> QED BY <1>4, <2>1 DEF Injection, IsInjective
<1>7. IsFiniteSet(0..(n - 1)) /\ Cardinality(0..(n - 1)) = n
  <2> HIDE DEF n
  <2> QED BY <1>1, FS_Interval
<1>8. f \in Surjection(X, 0..(n - 1))
  BY <1>6, <1>7, FS_Injection
<1> QED BY <1>6, <1>8 DEF Bijection

(* The batch is made dense again: every row past the k-th that is in use   *)
(* is moved, every hole among the first k is filled, and once.             *)
LEMMA MovesMatch ==
    ASSUME NEW occupied \in SUBSET (Nat \ {0}), IsFiniteSet(occupied),
           NEW k, k = Cardinality(occupied)
    PROVE  /\ Moves(occupied, k) \subseteq (occupied \ 1..k) \X (1..k \ occupied)
           /\ \A s \in occupied \ 1..k : \E d \in 1..k \ occupied : <<s, d>> \in Moves(occupied, k)
           /\ \A d \in 1..k \ occupied : \E s \in occupied \ 1..k : <<s, d>> \in Moves(occupied, k)
           /\ \A m, p \in Moves(occupied, k) : m[1] = p[1] <=> m[2] = p[2]
<1> DEFINE E == occupied \ 1..k
           H == 1..k \ occupied
           up == {p \in Nat \X Nat : p[1] > p[2]}
           down == {p \in Nat \X Nat : p[1] < p[2]}
           n == Cardinality(E)
<1>1. k \in Nat
  BY FS_CardinalityType
<1>2. IsFiniteSet(E) /\ IsFiniteSet(H) /\ Cardinality(H) = n
  <2>1. IsFiniteSet(1..k) /\ Cardinality(1..k) = k
    BY <1>1, FS_Interval
  <2>2. /\ IsFiniteSet(E) /\ Cardinality(E) = k - Cardinality(occupied \cap 1..k)
    BY FS_Difference
  <2>3. /\ IsFiniteSet(H) /\ Cardinality(H) = k - Cardinality(1..k \cap occupied)
    BY <2>1, FS_Difference
  <2>4. occupied \cap 1..k = 1..k \cap occupied
    OBVIOUS
  <2> QED BY <2>2, <2>3, <2>4
<1>3. StrictOrder(up, E) /\ StrictOrder(down, H)
  <2>1. E \subseteq Nat /\ H \subseteq Nat
    <3>1. 1..k \subseteq Nat
      BY <1>1
    <3> QED BY <3>1
  <2> HIDE DEF E, H
  <2> QED BY <2>1 DEF StrictOrder
<1>4. /\ Rank(up, E) \in Bijection(E, 0..(n - 1))
      /\ Rank(down, H) \in Bijection(H, 0..(n - 1))
  <2> HIDE DEF E, H, up, down
  <2> QED BY <1>2, <1>3, Ranks DEF n
<1>5. ASSUME NEW s \in E, NEW d \in H
      PROVE  <<s, d>> \in Moves(occupied, k) <=> Rank(up, E)[s] = Rank(down, H)[d]
  <2>1. {x \in occupied : x > s} = {x \in E : <<x, s>> \in up}
    <3>1. s \in Nat /\ s > k
      BY <1>1
    <3>2. \A x \in occupied : x \in Nat /\ (x > s => x \in E)
      BY <1>1, <3>1
    <3> HIDE DEF E
    <3>3. E \subseteq occupied
      BY DEF E
    <3> QED BY <3>1, <3>2, <3>3
  <2>2. {x \in H : x < d} = {x \in H : <<x, d>> \in down}
    OBVIOUS
  <2>3. <<s, d>> \in Moves(occupied, k) <=>
            Cardinality({x \in occupied : x > s}) = Cardinality({x \in H : x < d})
    BY DEF Moves
  <2> HIDE DEF E, H, up, down
  <2> QED BY <2>1, <2>2, <2>3 DEF Rank
<1>6. Moves(occupied, k) \subseteq E \X H
  BY DEF Moves
<1>7. ASSUME NEW f, NEW g, NEW S, NEW T, NEW N, f \in Bijection(S, N), g \in Bijection(T, N)
      PROVE  /\ \A s \in S : \E t \in T : f[s] = g[t]
             /\ \A t \in T : \E s \in S : f[s] = g[t]
             /\ \A s, u \in S : f[s] = f[u] => s = u
             /\ \A t, u \in T : g[t] = g[u] => t = u
  BY <1>7 DEF Bijection, Injection, Surjection, IsInjective
<1> DEFINE M == Moves(occupied, k)
           a == Rank(up, E)
           b == Rank(down, H)
<1>8. /\ \A s \in E : \E t \in H : a[s] = b[t]
      /\ \A t \in H : \E s \in E : a[s] = b[t]
      /\ \A s, u \in E : a[s] = a[u] => s = u
      /\ \A t, u \in H : b[t] = b[u] => t = u
  <2> DEFINE N == 0..(n - 1)
  <2>1. a \in Bijection(E, N) /\ b \in Bijection(H, N)
    BY <1>4
  <2> HIDE DEF E, H, a, b, N
  <2> QED BY <2>1, <1>7
<1>9. \A s \in E, d \in H : <<s, d>> \in M <=> a[s] = b[d]
  BY <1>5
<1>10. M \subseteq E \X H
  BY <1>6
<1> HIDE DEF E, H, M, a, b
<1>11. \A s \in E : \E d \in H : <<s, d>> \in M
  BY <1>8, <1>9
<1>12. \A d \in H : \E s \in E : <<s, d>> \in M
  BY <1>8, <1>9
<1>13. \A m, p \in M : m[1] = p[1] <=> m[2] = p[2]
  <2> SUFFICES ASSUME NEW m \in M, NEW p \in M PROVE m[1] = p[1] <=> m[2] = p[2]
    OBVIOUS
  <2>1. /\ m[1] \in E /\ m[2] \in H /\ a[m[1]] = b[m[2]]
        /\ p[1] \in E /\ p[2] \in H /\ a[p[1]] = b[p[2]]
    BY <1>9, <1>10
  <2> QED BY <2>1, <1>8
<1> QED BY <1>10, <1>11, <1>12, <1>13 DEF E, H, M

-----------------------------------------------------------------------------
(* Sequences *)

LEMMA OfItsRange ==
    ASSUME NEW X, NEW s \in Seq(X)
    PROVE  s \in Seq(Range(s))
<1>1. s \in [1..Len(s) -> X] /\ Len(s) \in Nat
  BY LenProperties
<1>2. \A i \in 1..Len(s) : s[i] \in Range(s)
  BY <1>1 DEF Range
<1> DEFINE Y == Range(s)
<1> HIDE DEF Y
<1>3. s \in [1..Len(s) -> Y]
  BY <1>1, <1>2 DEF Y
<1> QED BY <1>1, <1>3, SeqDef DEF Y

LEMMA Concatenated ==
    ASSUME NEW S, NEW s \in Seq(S), NEW F, NEW f \in Seq(F)
    PROVE  /\ s \o f \in Seq(Range(s \o f)) /\ Len(s \o f) = Len(s) + Len(f)
           /\ \A i \in 1..Len(s) : (s \o f)[i] = s[i]
           /\ \A i \in 1..Len(f) : (s \o f)[Len(s) + i] = f[i]
           /\ DOMAIN s = 1..Len(s) /\ DOMAIN (s \o f) = 1..(Len(s) + Len(f))
<1> DEFINE X == S \cup F
           n == Len(f)
           t == s \o f
<1>1. s \in Seq(X)
  <2>1. S \subseteq X
    OBVIOUS
  <2> HIDE DEF X
  <2> QED BY <2>1, SeqMonotonic
<1>2. f \in Seq(X) /\ n \in Nat
  <2>1. F \subseteq X
    OBVIOUS
  <2> HIDE DEF X
  <2> QED BY <2>1, SeqMonotonic, LenProperties
<1> HIDE DEF X, n, t
<1>3. /\ t \in Seq(X) /\ Len(t) = Len(s) + n
      /\ \A i \in 1..(Len(s) + n) : t[i] = IF i <= Len(s) THEN s[i] ELSE f[i - Len(s)]
  BY <1>1, <1>2, ConcatProperties DEF n, t
<1>4. Len(s) \in Nat /\ DOMAIN s = 1..Len(s) /\ DOMAIN t = 1..(Len(s) + n)
  BY <1>1, <1>3, LenProperties
<1>5. \A i \in 1..n : t[Len(s) + i] = f[i]
  <2> SUFFICES ASSUME NEW i \in 1..n PROVE t[Len(s) + i] = f[i]
    OBVIOUS
  <2>1. Len(s) + i \in 1..(Len(s) + n) /\ ~(Len(s) + i <= Len(s)) /\ Len(s) + i - Len(s) = i
    BY <1>2, <1>4
  <2> QED BY <1>3, <2>1
<1>6. t \in Seq(Range(t))
  BY <1>3, OfItsRange
<1>7. \A i \in 1..Len(s) : t[i] = s[i]
  BY <1>2, <1>3, <1>4
<1> QED BY <1>3, <1>4, <1>5, <1>6, <1>7 DEF t, n

LengthensBy(s, x, t) ==
    /\ t \in Seq(Range(t)) /\ Len(t) = Len(s) + 1
    /\ \A i \in 1..Len(s) : t[i] = s[i]
    /\ t[Len(s) + 1] = x
    /\ DOMAIN s = 1..Len(s) /\ DOMAIN t = 1..(Len(s) + 1)

LEMMA OneMore ==
    ASSUME NEW s, s \in Seq(Range(s)), NEW x
    PROVE  LengthensBy(s, x, Append(s, x))
<1> DEFINE t == Append(s, x)
<1>1. s \in Seq(Range(s) \cup {x})
  OBVIOUS
<1>2. t \in Seq(Range(s) \cup {x}) /\ Len(t) = Len(s) + 1
  BY <1>1
<1>3. t \in Seq(Range(t))
  BY <1>2, OfItsRange
<1> QED BY <1>1, <1>2, <1>3 DEF LengthensBy

(* A window of a sequence follows its growth. *)
WindowFollows(s, x, a, c) ==
    /\ Len(s) \in a..(a + c - 1) =>
          SubSeq(Append(s, x), a + 1, Min2(Len(s) + 1, a + c))
             = Append(SubSeq(s, a + 1, Min2(Len(s), a + c)), x)
    /\ Len(s) \notin a..(a + c - 1) =>
          SubSeq(Append(s, x), a + 1, Min2(Len(s) + 1, a + c))
             = SubSeq(s, a + 1, Min2(Len(s), a + c))

LEMMA WindowGrows ==
    ASSUME NEW V, NEW s \in Seq(V), NEW x \in V, NEW a \in Nat, NEW c \in Nat
    PROVE  WindowFollows(s, x, a, c)
<1> DEFINE n == Len(s)
<1>1. n \in Nat
  OBVIOUS
<1> DEFINE t == Append(s, x)
<1>2. /\ t \in Seq(V) /\ Len(t) = n + 1
      /\ \A i \in 1..n : t[i] = s[i] /\ s[i] \in V
      /\ t[n + 1] = x
  OBVIOUS
<1> HIDE DEF t, n
<1>3. ASSUME n \in a..(a + c - 1)
      PROVE  SubSeq(Append(s, x), a + 1, Min2(n + 1, a + c))
                = Append(SubSeq(s, a + 1, Min2(n, a + c)), x)
  <2>1. Min2(n + 1, a + c) = n + 1 /\ Min2(n, a + c) = n
    BY <1>1, <1>3 DEF Min2
  <2> DEFINE u == SubSeq(s, a + 1, n)
             v == SubSeq(t, a + 1, n + 1)
  <2>2. u \in Seq(V) /\ Len(u) = n - a /\ \A i \in 1..(n - a) : u[i] = s[a + i]
    <3>1. \A i \in (a + 1)..n : s[i] \in V
      BY <1>1, <1>2
    <3>2. /\ u \in Seq(V) /\ Len(u) = IF a + 1 <= n THEN n - (a + 1) + 1 ELSE 0
          /\ \A i \in 1..(n - (a + 1) + 1) : u[i] = s[a + 1 + i - 1]
      <4> HIDE DEF u
      <4> QED BY <1>1, <3>1, SubSeqProperties DEF u
    <3> HIDE DEF u
    <3>3. n - (a + 1) + 1 = n - a /\ \A i \in 1..(n - a) : a + 1 + i - 1 = a + i
      BY <1>1
    <3> QED BY <1>1, <1>3, <3>2, <3>3
  <2>3. v \in Seq(V) /\ Len(v) = n - a + 1 /\ \A i \in 1..(n - a + 1) : v[i] = t[a + i]
    <3>1. \A i \in (a + 1)..(n + 1) : t[i] \in V
      BY <1>1, <1>2
    <3>2. /\ v \in Seq(V) /\ Len(v) = IF a + 1 <= n + 1 THEN n + 1 - (a + 1) + 1 ELSE 0
          /\ \A i \in 1..(n + 1 - (a + 1) + 1) : v[i] = t[a + 1 + i - 1]
      <4> HIDE DEF v
      <4> QED BY <1>1, <3>1, SubSeqProperties DEF v
    <3> HIDE DEF v
    <3>3. n + 1 - (a + 1) + 1 = n - a + 1 /\ \A i \in 1..(n - a + 1) : a + 1 + i - 1 = a + i
      BY <1>1
    <3> QED BY <1>1, <1>3, <3>2, <3>3
  <2> HIDE DEF u, v
  <2>4. /\ Append(u, x) \in Seq(V) /\ Len(Append(u, x)) = n - a + 1
        /\ \A i \in 1..(n - a) : Append(u, x)[i] = u[i]
        /\ Append(u, x)[n - a + 1] = x
    BY <2>2
  <2>5. \A i \in 1..(n - a + 1) : v[i] = Append(u, x)[i]
    <3> SUFFICES ASSUME NEW i \in 1..(n - a + 1) PROVE v[i] = Append(u, x)[i]
      OBVIOUS
    <3>1. CASE i = n - a + 1
      <4>1. a + i = n + 1
        BY <1>1, <3>1
      <4> QED BY <1>2, <2>3, <2>4, <3>1, <4>1
    <3>2. CASE i # n - a + 1
      <4>1. i \in 1..(n - a) /\ a + i \in 1..n
        BY <1>1, <1>3, <3>2
      <4> QED BY <1>2, <2>2, <2>3, <2>4, <4>1
    <3> QED BY <3>1, <3>2
  <2>6. v = Append(u, x)
    BY <2>3, <2>4, <2>5, SeqEqual
  <2> QED BY <1>3, <2>1, <2>6 DEF u, v, t
<1>4. ASSUME n \notin a..(a + c - 1)
      PROVE  SubSeq(Append(s, x), a + 1, Min2(n + 1, a + c))
                = SubSeq(s, a + 1, Min2(n, a + c))
  <2>1. CASE n < a
    <3>1. /\ Min2(n + 1, a + c) < a + 1 /\ Min2(n, a + c) < a + 1
          /\ Min2(n + 1, a + c) \in Int /\ Min2(n, a + c) \in Int
      BY <1>1, <2>1 DEF Min2
    <3> DEFINE p == Min2(n + 1, a + c)
               q == Min2(n, a + c)
    <3> HIDE DEF p, q
    <3>2. SubSeq(t, a + 1, p) = <<>> /\ SubSeq(s, a + 1, q) = <<>>
      BY <3>1, SubSeqEmpty DEF p, q
    <3> QED BY <1>4, <3>2 DEF p, q, t
  <2>2. CASE n >= a + c
    <3>1. Min2(n + 1, a + c) = a + c /\ Min2(n, a + c) = a + c
      BY <1>1, <2>2 DEF Min2
    <3> DEFINE u == SubSeq(s, a + 1, a + c)
               v == SubSeq(t, a + 1, a + c)
    <3>2. /\ \A i \in (a + 1)..(a + c) : s[i] \in V /\ t[i] = s[i]
          /\ \A i \in 1..(a + c - (a + 1) + 1) : a + 1 + i - 1 \in (a + 1)..(a + c)
      BY <1>1, <1>2, <2>2
    <3>3. /\ u \in Seq(V) /\ Len(u) = IF a + 1 <= a + c THEN a + c - (a + 1) + 1 ELSE 0
          /\ \A i \in 1..(a + c - (a + 1) + 1) : u[i] = s[a + 1 + i - 1]
      <4> HIDE DEF u
      <4> QED BY <3>2, SubSeqProperties DEF u
    <3>4. /\ v \in Seq(V) /\ Len(v) = IF a + 1 <= a + c THEN a + c - (a + 1) + 1 ELSE 0
          /\ \A i \in 1..(a + c - (a + 1) + 1) : v[i] = t[a + 1 + i - 1]
      <4> HIDE DEF v
      <4> QED BY <3>2, SubSeqProperties DEF v
    <3> HIDE DEF u, v
    <3>5. Len(u) = Len(v) /\ Len(u) = c
      BY <3>3, <3>4
    <3>6. \A i \in 1..Len(v) : v[i] = u[i]
      <4>1. 1..Len(v) = 1..(a + c - (a + 1) + 1)
        BY <3>5
      <4> QED BY <3>2, <3>3, <3>4, <4>1
    <3>7. v = u
      BY <3>3, <3>4, <3>5, <3>6, SeqEqual
    <3> QED BY <1>4, <3>1, <3>7 DEF u, v, t
  <2>3. n < a \/ n >= a + c
    BY <1>1, <1>4
  <2> QED BY <2>1, <2>2, <2>3, Zenon
<1> QED BY <1>3, <1>4, Zenon DEF n, WindowFollows
-----------------------------------------------------------------------------
(* Audits are appended, each request's once *)

(* What readers of the file may rely on: it grows at its end, and only     *)
(* what was appended may not be visible to its end.                        *)
Grows ==
    /\ file' \in Seq(Range(file')) /\ torn' \in BOOLEAN
    /\ Len(file) <= Len(file')
    /\ \A i \in 1..Len(file) : file'[i] = file[i]
    /\ torn' => torn \/ Len(file') > Len(file)

LEMMA Writes ==
    ASSUME Types, Lines, NEW leaving, IsFiniteSet(leaving), WriteAudits(leaving),
           UNCHANGED <<sampled, forcedCount>>
    PROVE  Grows /\ Lines' /\ written' = written \cup leaving
<1> DEFINE fresh == leaving \ written
           n == Cardinality(fresh)
<1>1. IsFiniteSet(fresh) /\ n \in Nat
  BY FS_Difference, FS_CardinalityType, FS_Subset
<1>2. PICK order \in SetToSeqs(fresh) : file' = file \o [i \in 1..n |-> Audit(order[i])]
  BY DEF WriteAudits
<1>3. /\ \A i \in 1..n : order[i] \in fresh
      /\ \A i, j \in 1..n : order[i] = order[j] => i = j
  BY <1>2 DEF SetToSeqs
<1>4. written' = written \cup leaving /\ torn' \in (IF fresh = {} THEN {torn} ELSE BOOLEAN)
  BY DEF WriteAudits
<1>5. fresh # {} => n > 0
  <2> HIDE DEF fresh
  <2> QED BY <1>1, FS_EmptySet
<1> DEFINE f == [i \in 1..n |-> Audit(order[i])]
<1> HIDE DEF n, fresh
<1>6. /\ file' \in Seq(Range(file')) /\ Len(file') = Len(file) + n
      /\ \A i \in 1..Len(file) : file'[i] = file[i]
      /\ \A i \in 1..n : file'[Len(file) + i] = f[i]
      /\ DOMAIN file = 1..Len(file) /\ DOMAIN file' = 1..(Len(file) + n)
  <2>1. f \in Seq(Range(f)) /\ Len(f) = n /\ file \in Seq(Range(file))
    <3>1. \A i \in 1..n : f[i] \in Range(f)
      BY DEF Range
    <3>2. f \in [1..n -> Range(f)]
      <4> DEFINE F == Range(f)
      <4> HIDE DEF F
      <4>1. f = [i \in 1..n |-> f[i]]
        OBVIOUS
      <4>2. \A i \in 1..n : f[i] \in F
        BY <3>1 DEF F
      <4> HIDE DEF f
      <4> QED BY <4>1, <4>2 DEF F
    <3> HIDE DEF f
    <3> QED BY <1>1, <3>2, SeqDef DEF Types
  <2>2. file' = file \o f
    BY <1>2
  <2> HIDE DEF f
  <2> DEFINE t == file \o f
             X == Range(file)
             Y == Range(f)
  <2>3. /\ t \in Seq(Range(t)) /\ Len(t) = Len(file) + Len(f)
        /\ \A i \in 1..Len(file) : t[i] = file[i]
        /\ \A i \in 1..Len(f) : t[Len(file) + i] = f[i]
        /\ DOMAIN file = 1..Len(file) /\ DOMAIN t = 1..(Len(file) + Len(f))
    <3>1. file \in Seq(X) /\ f \in Seq(Y)
      BY <2>1
    <3> HIDE DEF X, Y
    <3> QED BY <3>1, Concatenated
  <2> HIDE DEF t
  <2> QED BY <2>1, <2>2, <2>3 DEF t
<1>7. Len(file) \in Nat
  BY LenProperties DEF Types
<1>8. Grows
  BY <1>1, <1>4, <1>5, <1>6, <1>7 DEF Grows, Types
<1>9. \A r : Audit(r)' = Audit(r) /\ Audit(r).by = "engine" /\ Audit(r).id = r
  BY DEF Audit, Line, Complete, Window
<1>10. ASSUME NEW i \in DOMAIN file'
       PROVE  \/ i \in 1..Len(file) /\ file'[i] = file[i]
              \/ /\ i - Len(file) \in 1..n /\ file'[i] = Audit(order[i - Len(file)])
                 /\ order[i - Len(file)] \in fresh
  <2>1. CASE i \in 1..Len(file)
    BY <1>6, <2>1
  <2>2. CASE i \notin 1..Len(file)
    <3>1. i - Len(file) \in 1..n /\ Len(file) + (i - Len(file)) = i
      BY <1>1, <1>6, <1>7, <2>2
    <3> QED BY <1>3, <1>6, <3>1
  <2> QED BY <2>1, <2>2
<1>11. fresh \cap written = {} /\ fresh \subseteq leaving
  BY DEF fresh
<1>12. ASSUME NEW i \in DOMAIN file', file'[i].by = "engine"
       PROVE  file'[i].id \in written' /\ file'[i] = Audit(file'[i].id)
  BY <1>4, <1>6, <1>9, <1>10, <1>11, <1>12 DEF Lines
<1>13. ASSUME NEW i \in DOMAIN file', NEW j \in DOMAIN file',
              file'[i].by = "engine", file'[j].by = "engine", file'[i].id = file'[j].id
       PROVE  i = j
  <2>1. CASE i \in 1..Len(file) /\ j \in 1..Len(file)
    BY <1>6, <1>13, <2>1 DEF Lines
  <2>2. CASE i \notin 1..Len(file) /\ j \notin 1..Len(file)
    <3>1. order[i - Len(file)] = order[j - Len(file)]
      BY <1>9, <1>10, <1>13, <2>2
    <3>2. i - Len(file) = j - Len(file)
      BY <1>3, <1>10, <2>2, <3>1
    <3> QED BY <1>6, <1>7, <3>2
  <2>3. ASSUME NEW p \in DOMAIN file', NEW q \in DOMAIN file', file'[p].by = "engine",
               p \in 1..Len(file), q \notin 1..Len(file)
        PROVE  file'[p].id # file'[q].id
    BY <1>6, <1>9, <1>10, <1>11, <2>3 DEF Lines
  <2> QED BY <1>13, <2>1, <2>2, <2>3
<1>14. Lines'
  BY <1>12, <1>13 DEF Lines, Audit, Complete, Window
<1> QED BY <1>4, <1>8, <1>14
-----------------------------------------------------------------------------
(* The batch's rows after some left and at most one request joined *)

LEMMA LeastNumber ==
    ASSUME NEW S \in SUBSET Nat, S # {}
    PROVE  \E x \in S : \A y \in S : x <= y
<1> DEFINE R == {p \in Nat \X Nat : p[1] < p[2]}
<1>1. IsWellFoundedOn(R, Nat)
  BY NatLessThanWellFounded DEF OpToRel
<1> HIDE DEF R
<1>2. PICK x \in S : \A y \in S : <<y, x>> \notin R
  BY <1>1, WFMin
<1>3. ASSUME NEW y \in S PROVE x <= y
  <2>1. ~(y < x)
    BY <1>2 DEF R
  <2> QED BY <2>1
<1> QED BY <1>3

(* Of n rows those in `gone' are freed, one is taken by a request of J, and *)
(* the k that are occupied then are moved together.                        *)
Layout(n, gone, J, at, occupied, k, moves) ==
    /\ n \in Nat /\ gone \in SUBSET (1..n)
    /\ at = IF gone = {} THEN n + 1 ELSE CHOOSE i \in gone : \A j \in gone : i <= j
    /\ occupied = (1..n \ gone) \cup {at : r \in J}
    /\ k = Cardinality(occupied)
    /\ moves = Moves(occupied, k)

IsDense(n, gone, J, at, occupied, k, moves) ==
    /\ at \in gone \/ (gone = {} /\ at = n + 1)
    /\ occupied \in SUBSET (Nat \ {0}) /\ IsFiniteSet(occupied) /\ k \in Nat
    /\ J # {} /\ gone = {} => k = n + 1
    /\ moves \subseteq (occupied \ 1..k) \X (1..k \ occupied)
    /\ \A s \in occupied \ 1..k : \E d \in 1..k \ occupied : <<s, d>> \in moves
    /\ \A d \in 1..k \ occupied :
          LET s == CHOOSE s \in occupied : <<s, d>> \in moves
          IN  s \in occupied \ 1..k /\ <<s, d>> \in moves
    /\ \A m, p \in moves : m[1] = p[1] <=> m[2] = p[2]

LEMMA Dense ==
    ASSUME NEW n, NEW gone, NEW J, NEW at, NEW occupied, NEW k, NEW moves,
           Layout(n, gone, J, at, occupied, k, moves)
    PROVE  IsDense(n, gone, J, at, occupied, k, moves)
<1> USE DEF Layout
<1>1. at \in gone \/ (gone = {} /\ at = n + 1)
  <2>1. CASE gone = {}
    BY <2>1
  <2>2. CASE gone # {}
    <3>1. gone \in SUBSET Nat
      OBVIOUS
    <3> QED BY <2>2, <3>1, LeastNumber
  <2> QED BY <2>1, <2>2
<1>2. occupied \subseteq 1..(n + 1) /\ at \in 1..(n + 1)
  <2>1. at \in 1..(n + 1)
    <3>1. gone \subseteq 1..n /\ 1..n \subseteq 1..(n + 1) /\ n + 1 \in 1..(n + 1)
      OBVIOUS
    <3> QED BY <1>1, <3>1, Zenon
  <2>2. ASSUME NEW x \in occupied PROVE x = at \/ x \in 1..n
    OBVIOUS
  <2>3. 1..n \subseteq 1..(n + 1)
    OBVIOUS
  <2> QED BY <2>1, <2>2, <2>3
<1>3. IsFiniteSet(occupied) /\ k \in Nat
  <2>1. occupied \subseteq 1..(n + 1)
    BY <1>2
  <2>2. IsFiniteSet(1..(n + 1))
    BY FS_Interval
  <2> QED BY <2>1, <2>2, FS_Subset, FS_CardinalityType
<1>4. ASSUME J # {}, gone = {} PROVE k = n + 1
  <2>1. occupied = 1..(n + 1)
    <3>1. ASSUME NEW x \in 1..(n + 1) PROVE x \in occupied
      <4>1. CASE x = n + 1
        BY <1>1, <1>4, <4>1
      <4>2. CASE x # n + 1
        <5>1. x \in 1..n
          BY <4>2
        <5> QED BY <1>4, <5>1
      <4> QED BY <4>1, <4>2
    <3> QED BY <1>2, <3>1
  <2>2. Cardinality(1..(n + 1)) = n + 1
    BY FS_Interval
  <2> QED BY <2>1, <2>2
<1>5. /\ moves \subseteq (occupied \ 1..k) \X (1..k \ occupied)
      /\ \A s \in occupied \ 1..k : \E d \in 1..k \ occupied : <<s, d>> \in moves
      /\ \A d \in 1..k \ occupied : \E s \in occupied \ 1..k : <<s, d>> \in moves
      /\ \A m, p \in moves : m[1] = p[1] <=> m[2] = p[2]
  <2>1. occupied \in SUBSET (Nat \ {0}) /\ 1..(n + 1) \subseteq Nat \ {0}
    BY <1>2
  <2> DEFINE M == Moves(occupied, k)
  <2>2. /\ M \subseteq (occupied \ 1..k) \X (1..k \ occupied)
        /\ \A s \in occupied \ 1..k : \E d \in 1..k \ occupied : <<s, d>> \in M
        /\ \A d \in 1..k \ occupied : \E s \in occupied \ 1..k : <<s, d>> \in M
        /\ \A m, p \in M : m[1] = p[1] <=> m[2] = p[2]
    <3>1. k = Cardinality(occupied)
      OBVIOUS
    <3> QED BY ONLY <1>3, <2>1, <3>1, MovesMatch
  <2> HIDE DEF M
  <2>3. moves = M
    BY DEF M
  <2> QED BY <2>2, <2>3
<1>6. ASSUME NEW d \in 1..k \ occupied,
             NEW s, s = CHOOSE x \in occupied : <<x, d>> \in moves
      PROVE  s \in occupied \ 1..k /\ <<s, d>> \in moves
  BY <1>5, <1>6
<1>7. occupied \in SUBSET (Nat \ {0})
  <2>1. 1..(n + 1) \subseteq Nat \ {0}
    OBVIOUS
  <2> QED BY <1>2, <2>1
<1>8. \A d \in 1..k \ occupied :
         LET s == CHOOSE s \in occupied : <<s, d>> \in moves
         IN  s \in occupied \ 1..k /\ <<s, d>> \in moves
  BY <1>6
<1> HIDE DEF Layout
<1> QED BY ONLY <1>1, <1>3, <1>4, <1>5, <1>7, <1>8 DEF IsDense
(* What the engine reports of a batch, *)
Reported(gone, J, at, occupied, k, moves, removed, added) ==
    /\ Layout(Len(rows), gone, J, at, occupied, k, moves) /\ k <= MaxRows
    /\ J \in SUBSET Requests /\ \A q, r \in J : q = r
    /\ removed = gone \ ({at : r \in J} \cup {m[2] : m \in moves})
    /\ added = {<<at, r>> : r \in J}

(* what the plugin makes of it, *)
Applied(removed, added, moves, f, g, h) ==
    f = AfterRemoved(removed) /\ g = AfterAdded(f, added) /\ h = AfterMoved(g, moves)

(* and where each row's request comes from. *)
Named(gone, J, occupied, k, moves, occupant, source) ==
    /\ occupant = [i \in occupied |-> IF i \in DOMAIN rows \ gone THEN rows[i]
                                      ELSE CHOOSE r \in J : TRUE]
    /\ source = [i \in 1..k |-> IF i \in occupied THEN i
                                ELSE CHOOSE s \in occupied : <<s, i>> \in moves]

IsAudited(r) == Mode[r] # "plain"

Followed(gone, J, at, k, moves, removed, f, g, h, occupant, source) ==
    /\ \A i \in 1..MaxRows :
          h[i] = IF i \in 1..k THEN Shown(occupant[source[i]]) ELSE NoState
    /\ h = [i \in 1..MaxRows |-> h[i]]
    /\ \A i \in removed : states[i] = NoState \/ (states[i] = rows[i] /\ IsAudited(rows[i]))
    /\ at \in 1..MaxRows /\ J # {} =>
          f[at] = NoState \/ (at \in gone /\ f[at] = rows[at] /\ IsAudited(rows[at]))
    /\ \A d \in 1..MaxRows : (\E s \in 1..MaxRows : <<s, d>> \in moves) =>
          g[d] = NoState \/ (d \in gone /\ g[d] = rows[d] /\ IsAudited(rows[d]))

(* The plugin removes, adds and moves in an order in which every row ends  *)
(* with the request that the engine has put there, and the requests it     *)
(* sees leave are among those that left.                                   *)
LEMMA PluginFollows ==
    ASSUME Types, MaxRows \in Nat, ShownIn(states),
           NEW gone, NEW J, NEW at, NEW occupied, NEW k, NEW moves, NEW removed, NEW added,
           Reported(gone, J, at, occupied, k, moves, removed, added),
           NEW f, NEW g, NEW h, Applied(removed, added, moves, f, g, h),
           NEW occupant, NEW source, Named(gone, J, occupied, k, moves, occupant, source)
    PROVE  Followed(gone, J, at, k, moves, removed, f, g, h, occupant, source)
<1> DEFINE n == Len(rows)
           old == rows
<1>0. /\ n \in Nat /\ n <= MaxRows /\ DOMAIN rows = 1..n
      /\ \A i \in 1..n : old[i] \in Requests
      /\ Layout(n, gone, J, at, occupied, k, moves)
  BY LenProperties DEF Types, Reported
<1>a. /\ gone \in SUBSET (1..n) /\ J \in SUBSET Requests
      /\ \A q, r \in J : q = r
      /\ k <= MaxRows
      /\ removed = gone \ ({at : r \in J} \cup {m[2] : m \in moves})
      /\ added = {<<at, r>> : r \in J}
      /\ at = IF gone = {} THEN n + 1 ELSE CHOOSE i \in gone : \A j \in gone : i <= j
      /\ occupied = (1..n \ gone) \cup {at : r \in J}
  BY <1>0 DEF Reported, Layout
<1>b. /\ f = AfterRemoved(removed) /\ g = AfterAdded(f, added) /\ h = AfterMoved(g, moves)
      /\ occupant = [i \in occupied |-> IF i \in 1..n \ gone THEN old[i]
                                        ELSE CHOOSE r \in J : TRUE]
      /\ source = [i \in 1..k |-> IF i \in occupied THEN i
                                  ELSE CHOOSE s \in occupied : <<s, i>> \in moves]
      /\ \A i \in 1..MaxRows : states[i] = IF i \in 1..n THEN Shown(old[i]) ELSE NoState
  BY <1>0 DEF Applied, Named, ShownIn
<1> HIDE DEF n, old
<1>1. /\ at \in gone \/ (gone = {} /\ at = n + 1)
      /\ occupied \in SUBSET (Nat \ {0}) /\ IsFiniteSet(occupied) /\ k \in Nat
      /\ J # {} /\ gone = {} => k = n + 1
      /\ moves \subseteq (occupied \ 1..k) \X (1..k \ occupied)
      /\ \A s \in occupied \ 1..k : \E d \in 1..k \ occupied : <<s, d>> \in moves
      /\ \A d \in 1..k \ occupied :
            LET s == CHOOSE s \in occupied : <<s, d>> \in moves
            IN  s \in occupied \ 1..k /\ <<s, d>> \in moves
      /\ \A m, p \in moves : m[1] = p[1] <=> m[2] = p[2]
  <2>1. IsDense(n, gone, J, at, occupied, k, moves)
    BY <1>0, Dense
  <2> QED BY ONLY <2>1 DEF IsDense
<1> USE <1>0, <1>a, <1>b
<1>2. \A i \in 1..MaxRows : f[i] = IF i \in removed THEN NoState ELSE states[i]
  BY DEF AfterRemoved
<1>3. /\ \A s \in occupied : s \in 1..MaxRows /\ (s \in 1..n \ gone \/ (s = at /\ J # {}))
      /\ at \notin 1..n \ gone
  BY <1>1
<1>4. ASSUME NEW i \in 1..MaxRows
      PROVE  g[i] = IF i = at /\ J # {} THEN Shown(CHOOSE r \in J : TRUE) ELSE f[i]
  <2>0. g[i] = IF \E r \in Requests : <<i, r>> \in added /\ Mode[r] # "plain"
               THEN CHOOSE r \in Requests : <<i, r>> \in added
               ELSE IF \E r \in Requests : <<i, r>> \in added THEN NoState ELSE f[i]
    BY DEF AfterAdded
  <2>1. CASE J = {}
    BY ONLY <2>0, <2>1, added = {<<at, r>> : r \in J}
  <2>2. CASE J # {}
    <3>1. PICK q \in J : TRUE
      BY <2>2
    <3>2. (CHOOSE r \in J : TRUE) = q
      BY <3>1
    <3>3. \A r \in Requests : <<i, r>> \in added <=> i = at /\ r = q
      BY <3>1
    <3>4. i = at => (CHOOSE r \in Requests : <<i, r>> \in added) = q
      BY <3>1, <3>3
    <3> QED BY ONLY <2>0, <2>2, <3>1, <3>2, <3>3, <3>4, J \in SUBSET Requests DEF Shown
  <2> QED BY <2>1, <2>2
<1>5. ASSUME NEW s \in occupied PROVE g[s] = Shown(occupant[s])
  <2>1. CASE s \in 1..n \ gone
    <3>1. s # at /\ s \notin removed
      BY <1>3, <2>1
    <3>2. g[s] = states[s]
      BY <1>2, <1>3, <1>4, <3>1
    <3> QED BY <1>3, <2>1, <3>2
  <2>2. CASE s \notin 1..n \ gone
    BY <1>3, <1>4, <2>2
  <2> QED BY <2>1, <2>2
<1>6. /\ \A i \in 1..MaxRows :
             h[i] = IF \E s \in 1..MaxRows : <<s, i>> \in moves
                    THEN g[CHOOSE s \in 1..MaxRows : <<s, i>> \in moves]
                    ELSE IF \E d \in 1..MaxRows : <<i, d>> \in moves THEN NoState ELSE g[i]
      /\ h = [i \in 1..MaxRows |-> h[i]]
  BY DEF AfterMoved
<1>7. \A s, d : <<s, d>> \in moves =>
         s \in occupied /\ s \notin 1..k /\ d \in 1..k /\ d \notin occupied
  BY <1>1
<1>8. ASSUME NEW i \in 1..MaxRows
      PROVE  h[i] = IF i \in 1..k THEN Shown(occupant[source[i]]) ELSE NoState
  <2>1. CASE i \in 1..k /\ i \in occupied
    <3>1. h[i] = g[i]
      BY ONLY <1>6, <1>7, <2>1, <1>8
    <3> QED BY <1>5, <2>1, <3>1
  <2>2. CASE i \in 1..k /\ i \notin occupied
    <3>1. source[i] \in occupied /\ <<source[i], i>> \in moves
      <4>1. source[i] = CHOOSE s \in occupied : <<s, i>> \in moves
        BY <2>2
      <4>2. i \in 1..k \ occupied
        BY <2>2
      <4> QED BY ONLY <1>1, <4>1, <4>2
    <3>2. ASSUME NEW s, <<s, i>> \in moves PROVE s = source[i]
      <4>1. <<s, i>>[2] = <<source[i], i>>[2] /\ <<s, i>>[1] = s /\ <<source[i], i>>[1] = source[i]
        OBVIOUS
      <4> QED BY ONLY <1>1, <3>1, <3>2, <4>1
    <3>3. (CHOOSE s \in 1..MaxRows : <<s, i>> \in moves) = source[i]
      BY <1>3, <3>1, <3>2
    <3>4. h[i] = g[source[i]]
      BY ONLY <1>3, <1>6, <1>8, <3>1, <3>3
    <3> QED BY <1>5, <2>2, <3>1, <3>4
  <2>3. CASE i \notin 1..k /\ i \in occupied
    <3>1. \E d \in 1..MaxRows : <<i, d>> \in moves
      <4>1. PICK d \in 1..k \ occupied : <<i, d>> \in moves
        BY <1>1, <2>3
      <4>2. d \in 1..MaxRows
        BY <1>1
      <4> QED BY <4>1, <4>2
    <3> QED BY <1>6, <1>7, <2>3, <3>1
  <2>4. CASE i \notin 1..k /\ i \notin occupied
    <3>1. h[i] = g[i]
      BY ONLY <1>6, <1>7, <2>4, <1>8
    <3>2. g[i] = f[i]
      BY <1>4, <2>4
    <3>3. f[i] = NoState
      <4>1. CASE i \in 1..n
        <5>1. i \in gone
          BY <2>4, <4>1
        <5>2. \A m \in moves : m[2] # i
          BY <1>1, <2>4
        <5>3. i \notin {at : r \in J}
          BY <2>4
        <5> QED BY <1>2, <5>1, <5>2, <5>3
      <4>2. CASE i \notin 1..n
        BY <1>2, <4>2
      <4> QED BY <4>1, <4>2
    <3> QED BY <2>4, <3>1, <3>2, <3>3
  <2> QED BY <2>1, <2>2, <2>3, <2>4
<1>9. ASSUME NEW i \in removed
      PROVE  states[i] = NoState \/ (states[i] = old[i] /\ IsAudited(old[i]))
  <2>1. i \in 1..n /\ i \in 1..MaxRows
    OBVIOUS
  <2>2. states[i] = Shown(old[i])
    BY <2>1
  <2> QED BY ONLY <2>2 DEF Shown, IsAudited
<1>10. ASSUME at \in 1..MaxRows, J # {}
       PROVE  f[at] = NoState \/ (at \in gone /\ f[at] = old[at] /\ IsAudited(old[at]))
  <2>1. f[at] = NoState \/ f[at] = states[at]
    BY ONLY <1>2, <1>10
  <2>2. states[at] = IF at \in 1..n THEN Shown(old[at]) ELSE NoState
    BY <1>10
  <2>3. at \in 1..n => at \in gone
    <3>1. n + 1 \notin 1..n
      OBVIOUS
    <3> QED BY ONLY <1>1, <3>1
  <2> QED BY ONLY <2>1, <2>2, <2>3 DEF Shown, IsAudited
<1>11. ASSUME NEW d \in 1..MaxRows, \E s \in 1..MaxRows : <<s, d>> \in moves
       PROVE  g[d] = NoState \/ (d \in gone /\ g[d] = old[d] /\ IsAudited(old[d]))
  <2>1. d \in 1..k /\ d \notin occupied
    BY <1>7, <1>11
  <2>2. g[d] = f[d]
    BY <1>4, <2>1
  <2>3. CASE d \in 1..n
    <3>1. d \in gone
      BY <2>1, <2>3
    <3> QED BY <1>2, <2>2, <2>3, <3>1 DEF Shown, IsAudited
  <2>4. CASE d \notin 1..n
    BY <1>2, <2>2, <2>4
  <2> QED BY <2>3, <2>4
<1> QED BY ONLY <1>6, <1>8, <1>9, <1>10, <1>11 DEF Followed, old
(* A new batch: those in the rows `gone' are out of it, those of J in it.  *)
(* Only requests that left can get their audits.                           *)
Rebatched(gone, J) ==
    /\ rows' \in Seq(Requests) /\ Len(rows') <= MaxRows
    /\ \A i, j \in DOMAIN rows' : rows'[i] = rows'[j] => i = j
    /\ \A r \in Requests : InBatch(r)' <=> r \in J \/ \E i \in DOMAIN rows \ gone : rows[i] = r
    /\ \E leaving \in SUBSET {rows[i] : i \in {j \in gone : IsAudited(rows[j])}} : WriteAudits(leaving)
    /\ \/ alive' = FALSE /\ UNCHANGED <<states, seenIds>>
       \/ /\ alive' = alive /\ states' = [i \in 1..MaxRows |-> states'[i]]
          /\ ShownIn(states)'
          /\ seenIds' = seenIds \cup (J \cap Audited)
          /\ J \cap Audited \cap seenIds = {}

(* What update_state does once it is known where the requests are. *)
LEMMA StateUpdated ==
    ASSUME Types, MaxRows \in Nat,
           NEW gone, NEW J, NEW at, NEW occupied, NEW k, NEW moves, NEW removed, NEW added,
           Reported(gone, J, at, occupied, k, moves, removed, added),
           NEW f, NEW g, NEW h, Applied(removed, added, moves, f, g, h),
           NEW occupant, NEW source,
           Followed(gone, J, at, k, moves, removed, f, g, h, occupant, source),
           NEW valid, UpdateState(removed, added, moves, valid)
    PROVE  /\ \E leaving \in SUBSET {rows[i] : i \in {j \in gone : IsAudited(rows[j])}} : WriteAudits(leaving)
           /\ \/ alive' = FALSE /\ UNCHANGED <<states, seenIds>>
              \/ /\ alive' = alive /\ states' = h
                 /\ seenIds' = seenIds \cup (J \cap Audited)
                 /\ J \cap Audited \cap seenIds = {}
<1> DEFINE new == {r \in Requests : \E i \in 1..MaxRows : <<i, r>> \in added}
           refilled == {i \in 1..MaxRows : \E r \in new : <<i, r>> \in added}
           overwritten == {i \in 1..MaxRows : \E s \in 1..MaxRows :
                               <<s, i>> \in moves /\ <<i, s>> \notin moves}
           left == StatesIn(states, removed) \cup StatesIn(f, refilled)
           lost == StatesIn(g, overwritten)
           known == {rows[i] : i \in {j \in gone : IsAudited(rows[j])}}
<1>1. f = AfterRemoved(removed) /\ g = AfterAdded(f, added) /\ h = AfterMoved(g, moves)
  BY DEF Applied
<1>2. \/ /\ \E r \in new : Refused(r, valid)
         /\ WriteAudits(left) /\ alive' = FALSE /\ UNCHANGED <<states, seenIds>>
      \/ /\ ~\E r \in new : Refused(r, valid)
         /\ WriteAudits(left \cup lost) /\ states' = h
         /\ seenIds' = seenIds \cup {r \in new : Mode[r] # "plain"}
         /\ alive' = alive
  BY <1>1 DEF UpdateState
<1>3. /\ added = {<<at, r>> : r \in J} /\ J \in SUBSET Requests
      /\ removed = gone \ ({at : r \in J} \cup {m[2] : m \in moves})
      /\ IsDense(Len(rows), gone, J, at, occupied, k, moves)
      /\ k <= MaxRows
  <2>1. Layout(Len(rows), gone, J, at, occupied, k, moves)
    BY DEF Reported
  <2>2. IsDense(Len(rows), gone, J, at, occupied, k, moves)
    BY ONLY <2>1, Dense
  <2> QED BY <2>2 DEF Reported
<1>4. J # {} => at \in 1..MaxRows
  <2>1. /\ gone \in SUBSET (1..Len(rows)) /\ Len(rows) <= MaxRows /\ Len(rows) \in Nat
    BY LenProperties DEF Reported, Layout, Types
  <2>2. (at \in gone \/ (gone = {} /\ at = Len(rows) + 1)) /\ (J # {} /\ gone = {} => k = Len(rows) + 1)
    BY <1>3 DEF IsDense
  <2>3. ASSUME J # {}, at \in gone PROVE at \in 1..MaxRows
    <3>1. at \in 1..Len(rows)
      BY ONLY <2>1, <2>3
    <3> QED BY <2>1, <3>1
  <2>4. ASSUME J # {}, gone = {}, at = Len(rows) + 1 PROVE at \in 1..MaxRows
    <3>1. Len(rows) + 1 <= MaxRows
      BY ONLY <1>3, <2>2, <2>4
    <3> QED BY <2>1, <2>4, <3>1
  <2> QED BY <2>2, <2>3, <2>4
<1>5. new = J
  <2>1. \A i, r : <<i, r>> \in added <=> i = at /\ r \in J
    BY ONLY <1>3
  <2> QED BY ONLY <1>3, <1>4, <2>1
<1>6. refilled \subseteq {at} /\ (J = {} => refilled = {})
  BY <1>3, <1>5
<1>7. left \subseteq known /\ lost \subseteq known
  <2>1. StatesIn(states, removed) \subseteq known
    <3> SUFFICES ASSUME NEW i \in removed, states[i] # NoState PROVE states[i] \in known
      BY DEF StatesIn
    <3>1. states[i] = rows[i] /\ i \in gone /\ IsAudited(rows[i])
      BY ONLY <1>3, i \in removed, states[i] # NoState,
              Followed(gone, J, at, k, moves, removed, f, g, h, occupant, source) DEF Followed
    <3> QED BY <3>1
  <2>2. StatesIn(f, refilled) \subseteq known
    <3> SUFFICES ASSUME NEW i \in refilled, f[i] # NoState PROVE f[i] \in known
      BY DEF StatesIn
    <3>1. i = at /\ J # {}
      BY <1>6
    <3>2. at \in gone /\ f[at] = rows[at] /\ IsAudited(rows[at])
      BY ONLY <1>4, <3>1, f[i] # NoState,
              Followed(gone, J, at, k, moves, removed, f, g, h, occupant, source) DEF Followed
    <3> QED BY <3>1, <3>2
  <2>3. lost \subseteq known
    <3> SUFFICES ASSUME NEW i \in overwritten, g[i] # NoState PROVE g[i] \in known
      BY DEF StatesIn
    <3>1. i \in gone /\ g[i] = rows[i] /\ IsAudited(rows[i])
      BY ONLY i \in overwritten, g[i] # NoState,
              Followed(gone, J, at, k, moves, removed, f, g, h, occupant, source) DEF Followed
    <3> QED BY <3>1
  <2> QED BY <2>1, <2>2, <2>3
<1> HIDE DEF new, left, lost, known
<1>8. \E leaving \in SUBSET known : WriteAudits(leaving)
  BY ONLY <1>2, <1>7
<1>9. \/ alive' = FALSE /\ UNCHANGED <<states, seenIds>>
      \/ /\ alive' = alive /\ states' = h
         /\ seenIds' = seenIds \cup {r \in J : Mode[r] # "plain"}
         /\ ~\E r \in J : Refused(r, valid)
  BY ONLY <1>2, <1>5
<1>10. {r \in J : Mode[r] # "plain"} = J \cap Audited
  BY <1>3 DEF Audited
<1>11. (~\E r \in J : Refused(r, valid)) => J \cap Audited \cap seenIds = {}
  BY DEF Refused, Audited
<1> QED BY ONLY <1>8, <1>9, <1>10, <1>11 DEF known
LEMMA NewBatch ==
    ASSUME SamplerAssumption, Types, Batch, ShownIn(states),
           NEW preempted \in SUBSET (DOMAIN rows), NEW J \in SUBSET Queued,
           \A q, r \in J : q = r, NEW valid, UpdateBatch(preempted, J, valid)
    PROVE  Rebatched(Finished \cup preempted, J)
<1> DEFINE n == Len(rows)
           gone == Finished \cup preempted
           at == IF gone = {} THEN Len(rows) + 1
                 ELSE CHOOSE i \in gone : \A j \in gone : i <= j
           occupied == (DOMAIN rows \ gone) \cup {at : r \in J}
           k == Cardinality(occupied)
           moves == Moves(occupied, k)
           occupantOf(i) == IF i \in DOMAIN rows \ gone THEN rows[i]
                            ELSE CHOOSE r \in J : TRUE
           sourceOf(i) == IF i \in occupied THEN i
                          ELSE CHOOSE s \in occupied : <<s, i>> \in moves
           removed == gone \ ({at : r \in J} \cup {m[2] : m \in moves})
           added == {<<at, r>> : r \in J}
           f == AfterRemoved(removed)
           g == AfterAdded(f, added)
           h == AfterMoved(g, moves)
           occupant == [i \in occupied |-> occupantOf(i)]
           source == [i \in 1..k |-> sourceOf(i)]
<1>1. /\ k <= MaxRows
      /\ rows' = [i \in 1..k |-> occupantOf(sourceOf(i))]
      /\ UpdateState(removed, added, moves, valid)
  BY DEF UpdateBatch
<1>2. /\ n \in Nat /\ DOMAIN rows = 1..n /\ gone \in SUBSET (1..n) /\ J \in SUBSET Requests
      /\ MaxRows \in Nat
  <2>1. n \in Nat /\ DOMAIN rows = 1..n
    BY LenProperties DEF Types
  <2>2. Finished \subseteq DOMAIN rows /\ Queued \subseteq Requests
    BY DEF Finished, Queued
  <2>3. gone \subseteq DOMAIN rows
    BY <2>2
  <2> HIDE DEF gone, n
  <2> QED BY <2>1, <2>2, <2>3 DEF SamplerAssumption
<1>3. Layout(n, gone, J, at, occupied, k, moves)
  BY <1>2 DEF Layout
<1>4. Reported(gone, J, at, occupied, k, moves, removed, added)
  BY <1>1, <1>2, <1>3 DEF Reported
<1>5. Applied(removed, added, moves, f, g, h) /\ Named(gone, J, occupied, k, moves, occupant, source)
  BY DEF Applied, Named
<1>6. /\ \A i \in occupied : occupant[i] = occupantOf(i)
      /\ \A i \in 1..k : source[i] = sourceOf(i)
  OBVIOUS
<1> HIDE DEF gone, at, occupied, k, moves, removed, added, f, g, h, occupant, source
<1>7. Followed(gone, J, at, k, moves, removed, f, g, h, occupant, source)
  BY <1>2, <1>4, <1>5, PluginFollows
<1>8. /\ \E leaving \in SUBSET {rows[i] : i \in {j \in gone : IsAudited(rows[j])}} : WriteAudits(leaving)
      /\ \/ alive' = FALSE /\ UNCHANGED <<states, seenIds>>
         \/ /\ alive' = alive /\ states' = h
            /\ seenIds' = seenIds \cup (J \cap Audited)
            /\ J \cap Audited \cap seenIds = {}
  BY <1>1, <1>2, <1>4, <1>5, <1>7, StateUpdated
<1>9. IsDense(n, gone, J, at, occupied, k, moves)
  BY ONLY <1>3, Dense
<1>10. occupied = (1..n \ gone) \cup {at : r \in J} /\ at \notin 1..n \ gone
  BY <1>2, <1>3, <1>9 DEF Layout, IsDense
(* Every row of the new batch holds the request of one occupied row. *)
<1>11. ASSUME NEW i \in 1..k
       PROVE  /\ source[i] \in occupied
              /\ i \in occupied => source[i] = i
              /\ i \notin occupied => source[i] \notin 1..k /\ <<source[i], i>> \in moves
  <2>1. source[i] = IF i \in occupied THEN i ELSE CHOOSE s \in occupied : <<s, i>> \in moves
    BY <1>6
  <2>2. ASSUME i \notin occupied, NEW s, s = CHOOSE x \in occupied : <<x, i>> \in moves
        PROVE  s \in occupied \ 1..k /\ <<s, i>> \in moves
    BY ONLY <1>9, <1>11, <2>2 DEF IsDense
  <2> QED BY ONLY <2>1, <2>2
<1>12. ASSUME NEW s \in occupied PROVE \E i \in 1..k : source[i] = s
  <2>1. CASE s \in 1..k
    BY <1>11, <2>1
  <2>2. CASE s \notin 1..k
    <3>1. PICK i \in 1..k \ occupied : <<s, i>> \in moves
      BY ONLY <1>9, <1>12, <2>2 DEF IsDense
    <3>2. <<source[i], i>> \in moves
      BY <1>11, <3>1
    <3>3. source[i] = s
      <4>1. /\ <<s, i>>[2] = <<source[i], i>>[2] /\ <<s, i>>[1] = s
            /\ <<source[i], i>>[1] = source[i]
        OBVIOUS
      <4> QED BY ONLY <1>9, <3>1, <3>2, <4>1 DEF IsDense
    <3> QED BY <3>3
  <2> QED BY <2>1, <2>2
<1>13. ASSUME NEW i \in 1..k, NEW j \in 1..k, source[i] = source[j] PROVE i = j
  <2>1. CASE i \in occupied /\ j \in occupied
    BY <1>11, <1>13, <2>1
  <2>2. CASE i \notin occupied /\ j \notin occupied
    <3>1. <<source[i], i>> \in moves /\ <<source[i], j>> \in moves
      BY <1>11, <1>13, <2>2
    <3>2. /\ <<source[i], i>>[1] = <<source[i], j>>[1] /\ <<source[i], i>>[2] = i
          /\ <<source[i], j>>[2] = j
      OBVIOUS
    <3> QED BY ONLY <1>9, <3>1, <3>2 DEF IsDense
  <2>3. ASSUME NEW p \in 1..k, NEW q \in 1..k, p \in occupied, q \notin occupied
        PROVE  source[p] # source[q]
    BY ONLY <1>11, <2>3
  <2> QED BY <1>13, <2>1, <2>2, <2>3
(* Different occupied rows hold different requests. *)
<1>14. ASSUME NEW s \in occupied
       PROVE  \/ s \in 1..n \ gone /\ occupant[s] = rows[s]
              \/ s = at /\ s \notin 1..n \ gone /\ occupant[s] \in J
  BY <1>2, <1>6, <1>10
<1>15. ASSUME NEW i \in 1..n, NEW q \in J PROVE rows[i] # q
  <2>1. rows[i] \in Requests /\ InBatch(rows[i])
    BY <1>2, ElementOfSeq DEF InBatch, Types
  <2>2. status[q] = "queued"
    BY DEF Queued
  <2> QED BY <1>2, <2>1, <2>2 DEF Batch
<1>16. ASSUME NEW s \in occupied, NEW u \in occupied, occupant[s] = occupant[u] PROVE s = u
  <2>1. CASE s \in 1..n \ gone /\ u \in 1..n \ gone
    BY <1>2, <1>14, <1>16, <2>1 DEF Batch
  <2>2. CASE s \notin 1..n \ gone /\ u \notin 1..n \ gone
    BY <1>14, <2>2
  <2>3. CASE (s \in 1..n \ gone) # (u \in 1..n \ gone)
    BY <1>14, <1>15, <1>16, <2>3
  <2> QED BY <2>1, <2>2, <2>3
<1>17. ASSUME NEW i \in 1..k PROVE rows'[i] = occupant[source[i]]
  <2>1. rows'[i] = occupantOf(sourceOf(i)) /\ source[i] = sourceOf(i)
    BY <1>1, <1>6
  <2> QED BY <1>6, <1>11, <2>1
<1>18. k \in Nat /\ rows' \in Seq(Requests) /\ Len(rows') = k /\ DOMAIN rows' = 1..k
  <2>1. k \in Nat
    BY <1>9 DEF IsDense
  <2>2. \A i \in 1..k : rows'[i] \in Requests
    <3>1. ASSUME NEW s \in occupied PROVE occupant[s] \in Requests
      BY <1>2, <1>14 DEF Types
    <3> QED BY <1>11, <1>17, <3>1
  <2>3. rows' \in [1..k -> Requests]
    <3>1. rows' = [i \in 1..k |-> rows'[i]]
      BY <1>1
    <3> QED BY ONLY <2>2, <3>1
  <2> QED BY ONLY <2>1, <2>3, SeqDef, LenProperties
<1>19. \A i, j \in DOMAIN rows' : rows'[i] = rows'[j] => i = j
  <2> SUFFICES ASSUME NEW i \in DOMAIN rows', NEW j \in DOMAIN rows', rows'[i] = rows'[j]
               PROVE  i = j
    OBVIOUS
  <2>0. i \in 1..k /\ j \in 1..k
    BY <1>18
  <2>1. source[i] \in occupied /\ source[j] \in occupied /\ occupant[source[i]] = occupant[source[j]]
    BY <1>11, <1>17, <2>0
  <2> QED BY ONLY <1>13, <1>16, <2>0, <2>1
<1>20. ASSUME NEW r \in Requests
       PROVE  InBatch(r)' <=> r \in J \/ \E i \in DOMAIN rows \ gone : rows[i] = r
  <2>1. InBatch(r)' <=> \E s \in occupied : occupant[s] = r
    <3>1. InBatch(r)' <=> \E i \in 1..k : rows'[i] = r
      BY <1>18 DEF InBatch
    <3>2. ASSUME NEW i \in 1..k, rows'[i] = r PROVE \E s \in occupied : occupant[s] = r
      BY ONLY <1>11, <1>17, <3>2
    <3>3. ASSUME NEW s \in occupied, occupant[s] = r PROVE \E i \in 1..k : rows'[i] = r
      BY ONLY <1>12, <1>17, <3>3
    <3> QED BY ONLY <3>1, <3>2, <3>3
  <2>2. r \in J => occupant[at] = r /\ at \in occupied
    <3>1. r \in J => at \in occupied
      BY <1>10
    <3> QED BY <1>10, <1>14, <3>1
  <2>3. (\E s \in occupied : occupant[s] = r)
            <=> r \in J \/ \E i \in 1..n \ gone : rows[i] = r
    <3>1. 1..n \ gone \subseteq occupied
      BY ONLY <1>10
    <3> QED BY ONLY <1>14, <1>10, <2>2, <3>1
  <2> QED BY <1>2, <2>1, <2>3
<1>21. states' = h => ShownIn(states)' /\ states' = [i \in 1..MaxRows |-> states'[i]]
  <2>1. /\ \A i \in 1..MaxRows :
              h[i] = IF i \in 1..k THEN Shown(occupant[source[i]]) ELSE NoState
        /\ h = [i \in 1..MaxRows |-> h[i]]
    BY ONLY <1>7 DEF Followed
  <2> QED BY ONLY <1>17, <1>18, <2>1 DEF ShownIn, Shown
<1>22. Len(rows') <= MaxRows
  BY <1>1, <1>18
<1> QED BY ONLY <1>8, <1>18, <1>19, <1>20, <1>21, <1>22 DEF Rebatched, gone
LEMMA SwappedRows ==
    ASSUME SamplerAssumption, Types, Batch, ShownIn(states),
           NEW i \in DOMAIN rows, NEW j \in DOMAIN rows, Reorder(i, j)
    PROVE  Rebatched({}, {})
<1> DEFINE n == Len(rows)
           moves == {<<i, j>>, <<j, i>>}
           f == AfterRemoved({})
           g == AfterAdded(f, {})
           h == AfterMoved(g, moves)
<1>1. /\ n \in Nat /\ DOMAIN rows = 1..n /\ i \in 1..n /\ j \in 1..n /\ n <= MaxRows
      /\ MaxRows \in Nat
  BY LenProperties DEF Types, SamplerAssumption
<1>2. i # j /\ i \in 1..MaxRows /\ j \in 1..MaxRows
  BY <1>1 DEF Reorder
<1>3. rows' = [rows EXCEPT ![i] = rows[j], ![j] = rows[i]]
  BY DEF Reorder
<1>4. /\ rows' \in Seq(Requests) /\ Len(rows') = n /\ DOMAIN rows' = 1..n
      /\ \A m \in 1..n : rows'[m] = IF m = i THEN rows[j] ELSE IF m = j THEN rows[i] ELSE rows[m]
  <2>1. rows' = [m \in 1..n |-> IF m = i THEN rows[j] ELSE IF m = j THEN rows[i] ELSE rows[m]]
    BY <1>1, <1>2, <1>3
  <2>2. \A m \in 1..n : rows[m] \in Requests
    BY ElementOfSeq DEF Types
  <2>3. rows' \in [1..n -> Requests]
    BY ONLY <1>1, <2>1, <2>2
  <2> QED BY ONLY <1>1, <2>1, <2>3, SeqDef, LenProperties
<1>5. \A x, y : <<x, y>> \in moves <=> (x = i /\ y = j) \/ (x = j /\ y = i)
  OBVIOUS
<1>6. UpdateState({}, {}, moves, TRUE)
  BY DEF Reorder
<1> HIDE DEF moves
<1>7. /\ \A m \in 1..MaxRows : f[m] = states[m] /\ g[m] = f[m]
  BY DEF AfterRemoved, AfterAdded
<1>8. /\ \E leaving : leaving = {} /\ WriteAudits(leaving)
      /\ states' = h /\ seenIds' = seenIds /\ alive' = alive
  <2> DEFINE new == {r \in Requests : \E m \in 1..MaxRows : <<m, r>> \in {}}
             refilled == {m \in 1..MaxRows : \E r \in new : <<m, r>> \in {}}
             overwritten == {m \in 1..MaxRows : \E s \in 1..MaxRows :
                                 <<s, m>> \in moves /\ <<m, s>> \notin moves}
  <2>1. new = {} /\ refilled = {} /\ overwritten = {}
    <3>1. new = {} /\ refilled = {}
      OBVIOUS
    <3>2. overwritten = {}
      <4> SUFFICES ASSUME NEW m \in overwritten PROVE FALSE
        OBVIOUS
      <4>1. PICK s \in 1..MaxRows : <<s, m>> \in moves /\ <<m, s>> \notin moves
        OBVIOUS
      <4> QED BY ONLY <1>5, <4>1
    <3> QED BY <3>1, <3>2
  <2>2. \/ \E r \in new : Refused(r, TRUE)
        \/ /\ WriteAudits(StatesIn(states, {}) \cup StatesIn(f, refilled)
                            \cup StatesIn(g, overwritten))
           /\ states' = h /\ alive' = alive
           /\ seenIds' = seenIds \cup {r \in new : Mode[r] # "plain"}
    BY <1>6 DEF UpdateState
  <2> HIDE DEF new, refilled, overwritten
  <2>3. StatesIn(states, {}) \cup StatesIn(f, refilled) \cup StatesIn(g, overwritten) = {}
    BY <2>1 DEF StatesIn
  <2> QED BY <2>1, <2>2, <2>3
<1> HIDE DEF f, g
<1>9. /\ h = [m \in 1..MaxRows |-> h[m]]
      /\ \A m \in 1..MaxRows :
            h[m] = IF m = i THEN states[j] ELSE IF m = j THEN states[i] ELSE states[m]
  <2>1. /\ h = [m \in 1..MaxRows |-> h[m]]
        /\ \A m \in 1..MaxRows :
             h[m] = IF \E s \in 1..MaxRows : <<s, m>> \in moves
                    THEN g[CHOOSE s \in 1..MaxRows : <<s, m>> \in moves]
                    ELSE IF \E d \in 1..MaxRows : <<m, d>> \in moves THEN NoState ELSE g[m]
    BY DEF AfterMoved
  <2> HIDE DEF h
  <2>2. ASSUME NEW m \in 1..MaxRows
        PROVE h[m] = IF m = i THEN states[j] ELSE IF m = j THEN states[i] ELSE states[m]
    <3>1. CASE m = i
      <4>1. (CHOOSE s \in 1..MaxRows : <<s, m>> \in moves) = j
        BY <1>2, <1>5, <3>1
      <4>2. h[m] = g[j]
        BY ONLY <1>2, <1>5, <2>1, <3>1, <4>1
      <4> QED BY <1>2, <1>7, <3>1, <4>2
    <3>2. CASE m = j
      <4>1. (CHOOSE s \in 1..MaxRows : <<s, m>> \in moves) = i
        BY <1>2, <1>5, <3>2
      <4>2. h[m] = g[i]
        BY ONLY <1>2, <1>5, <2>1, <3>2, <4>1
      <4> QED BY <1>2, <1>7, <3>2, <4>2
    <3>3. CASE m # i /\ m # j
      <4>1. \A s : <<s, m>> \notin moves /\ <<m, s>> \notin moves
        BY ONLY <1>5, <3>3
      <4>2. h[m] = g[m]
        BY ONLY <2>1, <2>2, <4>1
      <4> QED BY <1>7, <3>3, <4>2
    <3> QED BY <3>1, <3>2, <3>3
  <2> QED BY <2>1, <2>2
<1> HIDE DEF h
<1>10. ShownIn(states)' /\ states' = [m \in 1..MaxRows |-> states'[m]]
  <2>1. \A m \in 1..MaxRows : states[m] = IF m \in 1..n THEN Shown(rows[m]) ELSE NoState
    BY <1>1 DEF ShownIn
  <2>2. \A m \in 1..MaxRows : h[m] = IF m \in 1..n THEN Shown(rows'[m]) ELSE NoState
    BY ONLY <1>1, <1>2, <1>4, <1>9, <2>1
  <2> QED BY ONLY <1>4, <1>8, <1>9, <2>2 DEF ShownIn, Shown
<1>11. \A m, p \in DOMAIN rows' : rows'[m] = rows'[p] => m = p
  BY <1>1, <1>4 DEF Batch
<1>12. ASSUME NEW r \in Requests PROVE InBatch(r)' <=> \E m \in DOMAIN rows \ {} : rows[m] = r
  BY <1>1, <1>4 DEF InBatch
<1> HIDE DEF n
<1> QED BY <1>1, <1>4, <1>8, <1>10, <1>11, <1>12 DEF Rebatched
-----------------------------------------------------------------------------
(* The invariant is preserved *)

LEMMA Rebatching ==
    ASSUME SamplerAssumption, SamplerInv, alive, NEW gone \in SUBSET (DOMAIN rows),
           NEW J \in SUBSET Queued, Rebatched(gone, J),
           status' \in [Requests -> {"queued", "running", "finished", "gone"}],
           \A r \in Requests : status'[r] \in
               IF r \in J THEN {"running"}
               ELSE IF \E i \in gone : rows[i] = r THEN {"queued", "gone"} ELSE {status[r]},
           UNCHANGED <<commitFrom, drawn, output, sampled, forcedCount>>
    PROVE  SamplerInv' /\ Grows
<1> USE DEF SamplerInv
<1>1. PICK leaving \in SUBSET {rows[i] : i \in {j \in gone : IsAudited(rows[j])}} :
         WriteAudits(leaving)
  BY DEF Rebatched
<1>2. IsFiniteSet(leaving)
  <2> DEFINE all == {rows[i] : i \in 1..Len(rows)}
  <2>1. DOMAIN rows = 1..Len(rows) /\ Len(rows) \in Nat
    BY LenProperties DEF Types
  <2>2. IsFiniteSet(1..Len(rows))
    BY <2>1, FS_Interval
  <2>3. IsFiniteSet(all)
    <3>1. [i \in 1..Len(rows) |-> rows[i]] \in Surjection(1..Len(rows), all)
      BY DEF Surjection
    <3> HIDE DEF all
    <3> QED BY <2>2, <3>1, FS_Surjection
  <2>4. leaving \in SUBSET all
    BY <2>1
  <2> QED BY <2>3, <2>4, FS_Subset
<1>3. Grows /\ Lines' /\ written' = written \cup leaving
  BY <1>1, <1>2, Writes
<1>4. \A r \in leaving : \E i \in gone : rows[i] = r /\ IsAudited(r)
  OBVIOUS
<1>5. \A i \in DOMAIN rows : rows[i] \in Requests
  BY LenProperties, ElementOfSeq DEF Types
<1>6. /\ rows' \in Seq(Requests) /\ Len(rows') <= MaxRows
      /\ \A i, j \in DOMAIN rows' : rows'[i] = rows'[j] => i = j
      /\ \A r \in Requests : InBatch(r)' <=> r \in J \/ \E i \in DOMAIN rows \ gone : rows[i] = r
      /\ \/ alive' = FALSE /\ UNCHANGED <<states, seenIds>>
         \/ /\ alive' = alive /\ states' = [i \in 1..MaxRows |-> states'[i]]
            /\ ShownIn(states)'
            /\ seenIds' = seenIds \cup (J \cap Audited)
            /\ J \cap Audited \cap seenIds = {}
  BY DEF Rebatched
<1>7. \A r \in J : r \in Requests /\ status[r] = "queued" /\ \A i \in DOMAIN rows : rows[i] # r
  <2>1. \A r \in J : r \in Requests /\ status[r] = "queued"
    BY DEF Queued
  <2> QED BY <1>5, <2>1 DEF Batch, InBatch
<1>8. \A r \in leaving : r \in Audited /\ r \in seenIds
  BY <1>4, <1>5 DEF Once, Audited, IsAudited
<1>9. seenIds \subseteq seenIds' /\ seenIds' \subseteq Audited
  BY <1>6 DEF Types
<1>10. \A i \in DOMAIN rows' : rows'[i] \in Requests
  BY <1>6, LenProperties, ElementOfSeq
<1>11. states' \in [1..MaxRows -> Requests \cup {NoState}]
  <2>1. ASSUME ShownIn(states)', NEW i \in 1..MaxRows PROVE states'[i] \in Requests \cup {NoState}
    BY <1>10, <2>1 DEF ShownIn, Shown
  <2> QED BY <1>6, <2>1 DEF Types
<1>12. Types'
  BY <1>3, <1>6, <1>8, <1>9, <1>11 DEF Types, Grows
<1>13. Batch'
  <2>1. ASSUME NEW r \in Requests
        PROVE  InBatch(r)' <=> status'[r] \in {"running", "finished"}
    <3>1. CASE r \in J
      BY <1>6, <3>1
    <3>2. CASE r \notin J /\ \E i \in gone : rows[i] = r
      <4>1. ~\E i \in DOMAIN rows \ gone : rows[i] = r
        BY <3>2 DEF Batch
      <4> QED BY <1>6, <3>2, <4>1
    <3>3. CASE r \notin J /\ ~\E i \in gone : rows[i] = r
      <4>1. status'[r] = status[r]
        BY <3>3
      <4> QED BY <1>6, <3>3, <4>1 DEF Batch, InBatch
    <3> QED BY <3>1, <3>2, <3>3
  <2> QED BY <1>6, <2>1 DEF Batch
<1>14. Matched'
  BY <1>6 DEF Matched
<1>15. Samples'
  BY DEF Samples, Forced
<1>16. ASSUME alive', NEW r \in Audited, InBatch(r)' PROVE r \in seenIds'
  <2>1. r \in J \/ \E j \in DOMAIN rows \ gone : rows[j] = r
    BY <1>6, <1>16 DEF Audited
  <2> QED BY <1>6, <1>16, <2>1 DEF Once
<1>17. ASSUME NEW r \in written' PROVE r \in Requests /\ status'[r] # "finished"
  <2>1. r \in Requests
    BY <1>3, <1>8 DEF Types, Audited
  <2>2. CASE r \in written
    BY <2>1, <2>2 DEF Once
  <2>3. CASE r \in leaving
    BY <1>4, <2>1, <2>3
  <2> QED BY <1>3, <2>2, <2>3
<1>18. ASSUME NEW r \in written', alive' PROVE ~InBatch(r)'
  <2>1. r \in Audited /\ r \in Requests
    BY <1>3, <1>8 DEF Types, Audited
  <2>2. CASE r \in written
    <3>1. r \in seenIds /\ ~InBatch(r)
      BY <2>2 DEF Once, Types
    <3> QED BY <1>6, <1>18, <2>1, <3>1 DEF InBatch
  <2>3. CASE r \in leaving
    <3>1. PICK i \in gone : rows[i] = r
      BY <1>4, <2>3
    <3>2. r \notin J
      BY <1>7, <3>1
    <3>3. ~\E j \in DOMAIN rows \ gone : rows[j] = r
      BY <3>1 DEF Batch
    <3> QED BY <1>6, <2>1, <3>2, <3>3
  <2> QED BY <1>3, <2>2, <2>3
<1>19. Once'
  <2>1. ASSUME alive', NEW i \in DOMAIN rows', rows'[i] \in Audited PROVE rows'[i] \in seenIds'
    <3>1. PICK r \in Audited : r = rows'[i] /\ InBatch(r)'
      BY <2>1 DEF InBatch
    <3> QED BY <1>16, <2>1, <3>1
  <2> QED BY <1>17, <1>18, <2>1 DEF Once
<1> QED BY <1>3, <1>12, <1>13, <1>14, <1>15, <1>19
(* A request of the batch gets one more sample, seen by the plugin, ... *)
OneSample(r) ==
    /\ InBatch(r) /\ r \in Audited /\ alive
    /\ Len(drawn[r]) < MaxDrawn[r]
    /\ \E x \in Vocabulary :
          /\ drawn'[r] = Append(drawn[r], x) /\ sampled'[r] = Append(sampled[r], x)
          /\ output'[r] = IF Len(drawn[r]) \in commitFrom[r]..(commitFrom[r] + CommitLength[r] - 1)
                          THEN Append(output[r], x) ELSE output[r]
    /\ forcedCount'[r] = IF Mode[r] = "force" /\ InWindow(r) THEN forcedCount[r] + 1
                         ELSE forcedCount[r]

(* ... or none. *)
NoSample(r) ==
    /\ drawn'[r] = drawn[r] /\ sampled'[r] = sampled[r]
    /\ output'[r] = output[r] /\ forcedCount'[r] = forcedCount[r]

LEMMA Drawing ==
    ASSUME SamplerAssumption, SamplerInv, NEW discarded \in SUBSET (DOMAIN rows),
           NEW natural \in [DOMAIN rows -> Vocabulary], NEW lag \in Nat,
           SampleStep(discarded, natural, lag)
    PROVE  /\ \A r \in Requests : OneSample(r) \/ NoSample(r)
           /\ \A v \in {drawn', sampled', output', forcedCount'} : v = [r \in Requests |-> v[r]]
<1> DEFINE kept == DOMAIN rows \ discarded
           seeing == {i \in kept : states[i] # NoState}
           forcing == {i \in seeing : Mode[states[i]] = "force"}
           token(i) == IF i \in seeing THEN Overridden(states[i], natural[i]) ELSE natural[i]
           rowOf(r) == CHOOSE i \in kept : rows[i] = r
           stateRow(r) == CHOOSE i \in seeing : states[i] = r
           commits(r) == Len(drawn[r]) \in commitFrom[r]..commitFrom[r] + CommitLength[r] - 1
<1>0. Types /\ Batch /\ Matched /\ alive
  BY DEF SamplerInv, SampleStep
<1>1. \A i \in kept : Mode[rows[i]] # "plain" => Len(drawn[rows[i]]) < MaxDrawn[rows[i]]
  BY DEF SampleStep
<1>2. CASE \E i \in forcing : Drifts(states[i], lag)
  <2>1. UNCHANGED <<drawn, output, sampled, forcedCount>>
    BY <1>2 DEF SampleStep
  <2> QED BY <1>0, <2>1 DEF NoSample, Types
<1>3. CASE ~\E i \in forcing : Drifts(states[i], lag)
  <2>1. /\ drawn' = [r \in Requests |->
                IF Mode[r] # "plain" /\ \E i \in kept : rows[i] = r
                THEN Append(drawn[r], token(rowOf(r))) ELSE drawn[r]]
        /\ output' = [r \in Requests |->
                IF Mode[r] # "plain" /\ commits(r) /\ \E i \in kept : rows[i] = r
                THEN Append(output[r], token(rowOf(r))) ELSE output[r]]
        /\ sampled' = [r \in Requests |->
                IF \E i \in seeing : states[i] = r
                THEN Append(sampled[r], token(stateRow(r))) ELSE sampled[r]]
        /\ forcedCount' = [r \in Requests |->
                IF (\E i \in forcing : states[i] = r) /\ InWindow(r)
                THEN forcedCount[r] + 1 ELSE forcedCount[r]]
    BY <1>3 DEF SampleStep
  <2>2. \A i \in kept : /\ rows[i] \in Requests
                        /\ states[i] = IF Mode[rows[i]] # "plain" THEN rows[i] ELSE NoState
    <3>1. /\ DOMAIN rows = 1..Len(rows) /\ Len(rows) \in Nat /\ Len(rows) <= MaxRows
          /\ MaxRows \in Nat
          /\ \A i \in DOMAIN rows : rows[i] \in Requests
      BY <1>0, LenProperties, ElementOfSeq DEF Types, SamplerAssumption
    <3>2. \A i \in DOMAIN rows : i \in 1..MaxRows
      BY <3>1
    <3> QED BY <1>0, <3>1, <3>2 DEF Matched, ShownIn, Shown
  <2>3. seeing = {i \in kept : Mode[rows[i]] # "plain"}
    BY <2>2 DEF SamplerAssumption
  <2>4. \A i \in kept : token(i) \in Vocabulary
    <3> SUFFICES ASSUME NEW i \in kept PROVE token(i) \in Vocabulary
      OBVIOUS
    <3>1. natural[i] \in Vocabulary
      OBVIOUS
    <3>2. i \in seeing => states[i] = rows[i] /\ rows[i] \in Requests
      BY <2>2
    <3>3. ASSUME NEW r \in Requests, Mode[r] = "force", InWindow(r)
          PROVE  Tokens[r][Position(r) + 1] \in Vocabulary
      <4>1. Tokens[r] \in Seq(Vocabulary)
        BY DEF SamplerAssumption
      <4>2. Position(r) + 1 \in 1..Len(Tokens[r])
        <5>1. Len(Tokens[r]) \in Nat /\ Len(sampled[r]) \in Nat /\ Start[r] \in Nat
          BY <1>0, <4>1, LenProperties DEF Types, SamplerAssumption
        <5> QED BY <3>3, <5>1 DEF InWindow, Position
      <4> QED BY <4>1, <4>2, ElementOfSeq
    <3> QED BY <3>1, <3>2, <3>3 DEF Overridden
  <2> HIDE DEF kept, seeing, forcing, token
  <2>5. ASSUME NEW r \in Requests PROVE OneSample(r) \/ NoSample(r)
    <3>1. CASE Mode[r] # "plain" /\ \E i \in kept : rows[i] = r
      <4>1. PICK i \in kept : rows[i] = r
        BY <3>1
      <4>2. \A j \in kept : rows[j] = r => j = i
        BY <1>0, <4>1 DEF Batch, kept
      <4>3. rowOf(r) = i
        BY <4>1, <4>2
      <4>4. i \in seeing /\ states[i] = r
        BY <2>2, <2>3, <3>1, <4>1
      <4>5. \A j \in seeing : states[j] = r => j = i
        BY <2>2, <2>3, <4>2
      <4>6. stateRow(r) = i
        BY <4>4, <4>5
      <4>7. (\E j \in forcing : states[j] = r) <=> Mode[r] = "force"
        BY <4>4 DEF forcing
      <4>8. InBatch(r) /\ r \in Audited /\ Len(drawn[r]) < MaxDrawn[r]
        BY <1>1, <3>1, <4>1 DEF InBatch, Audited, kept
      <4> QED BY <1>0, <2>1, <2>4, <3>1, <4>1, <4>3, <4>4, <4>6, <4>7, <4>8 DEF OneSample
    <3>2. CASE ~(Mode[r] # "plain" /\ \E i \in kept : rows[i] = r)
      <4>1. ~\E i \in seeing : states[i] = r
        BY <2>2, <2>3, <3>2
      <4>2. ~\E i \in forcing : states[i] = r
        BY <4>1 DEF forcing
      <4> QED BY <2>1, <3>2, <4>1, <4>2 DEF NoSample
    <3> QED BY <3>1, <3>2
  <2>6. /\ drawn' = [r \in Requests |-> drawn'[r]] /\ sampled' = [r \in Requests |-> sampled'[r]]
        /\ output' = [r \in Requests |-> output'[r]]
        /\ forcedCount' = [r \in Requests |-> forcedCount'[r]]
    BY <2>1
  <2> QED BY <2>5, <2>6
<1> QED BY <1>2, <1>3
LEMMA Sampling ==
    ASSUME SamplerAssumption, SamplerInv, NEW discarded \in SUBSET (DOMAIN rows),
           NEW natural \in [DOMAIN rows -> Vocabulary], NEW lag \in Nat,
           SampleStep(discarded, natural, lag)
    PROVE  SamplerInv' /\ Grows
<1> USE DEF SamplerInv
<1>1. /\ UNCHANGED <<rows, status, commitFrom, states, seenIds, written, file, torn>>
      /\ alive /\ alive' \in BOOLEAN
  <2>1. alive \in BOOLEAN
    BY DEF Types
  <2> QED BY <2>1 DEF SampleStep
<1>2. /\ \A r \in Requests : OneSample(r) \/ NoSample(r)
      /\ drawn' = [r \in Requests |-> drawn'[r]] /\ sampled' = [r \in Requests |-> sampled'[r]]
      /\ output' = [r \in Requests |-> output'[r]]
      /\ forcedCount' = [r \in Requests |-> forcedCount'[r]]
  BY Drawing
<1>3. ASSUME NEW r \in Requests
      PROVE  /\ drawn[r] \in Seq(Vocabulary) /\ output[r] \in Seq(Vocabulary)
             /\ sampled[r] = drawn[r] /\ Len(drawn[r]) \in Nat /\ Len(drawn[r]) <= MaxDrawn[r]
             /\ commitFrom[r] \in Nat /\ CommitLength[r] \in Nat /\ MaxDrawn[r] \in Nat
             /\ Start[r] \in Nat /\ Len(Tokens[r]) \in Nat /\ forcedCount[r] \in Nat
             /\ Mode[r] = "force" => Len(Tokens[r]) > 0
             /\ forcedCount[r] = Forced(r)
             /\ output[r] = SubSeq(drawn[r], commitFrom[r] + 1,
                                   Min2(Len(drawn[r]), commitFrom[r] + CommitLength[r]))
  <2>1. Tokens[r] \in Seq(Vocabulary)
    BY DEF SamplerAssumption
  <2>2. drawn[r] \in Seq(Vocabulary) /\ output[r] \in Seq(Vocabulary)
    BY DEF Types
  <2>3. Len(Tokens[r]) \in Nat /\ Len(drawn[r]) \in Nat
    BY <2>1, <2>2, LenProperties
  <2>4. Mode[r] = "force" => Len(Tokens[r]) > 0
    BY <2>1, EmptySeq DEF SamplerAssumption
  <2> QED BY <2>2, <2>3, <2>4 DEF Types, Samples, SamplerAssumption
<1>4. ASSUME NEW r \in Requests
      PROVE  /\ drawn'[r] \in Seq(Vocabulary) /\ output'[r] \in Seq(Vocabulary)
             /\ sampled'[r] = drawn'[r] /\ Len(drawn'[r]) <= MaxDrawn[r]
             /\ forcedCount'[r] \in Nat /\ forcedCount'[r] = Forced(r)'
             /\ output'[r] = SubSeq(drawn'[r], commitFrom[r] + 1,
                                    Min2(Len(drawn'[r]), commitFrom[r] + CommitLength[r]))
  <2>1. CASE NoSample(r)
    BY <1>1, <1>3, <2>1 DEF NoSample, Forced
  <2>2. CASE OneSample(r)
    <3>1. PICK x \in Vocabulary :
             /\ drawn'[r] = Append(drawn[r], x) /\ sampled'[r] = Append(sampled[r], x)
             /\ output'[r] = IF Len(drawn[r]) \in commitFrom[r]..(commitFrom[r] + CommitLength[r] - 1)
                             THEN Append(output[r], x) ELSE output[r]
      BY <2>2 DEF OneSample
    <3>2. /\ drawn'[r] \in Seq(Vocabulary) /\ Len(drawn'[r]) = Len(drawn[r]) + 1
          /\ sampled'[r] = drawn'[r] /\ Len(drawn'[r]) <= MaxDrawn[r]
      <4>1. drawn[r] \in Seq(Vocabulary) /\ sampled[r] = drawn[r]
        BY <1>3
      <4>2. Append(drawn[r], x) \in Seq(Vocabulary) /\ Len(Append(drawn[r], x)) = Len(drawn[r]) + 1
        BY ONLY <3>1, <4>1
      <4>3. Len(drawn[r]) < MaxDrawn[r] /\ Len(drawn[r]) \in Nat /\ MaxDrawn[r] \in Nat
        BY <1>3, <2>2 DEF OneSample
      <4> QED BY ONLY <3>1, <4>1, <4>2, <4>3
    <3>3. output'[r] \in Seq(Vocabulary)
      BY <1>3, <3>1
    <3>4. output'[r] = SubSeq(drawn'[r], commitFrom[r] + 1,
                              Min2(Len(drawn'[r]), commitFrom[r] + CommitLength[r]))
      <4> DEFINE n == Len(drawn[r])
                 a == commitFrom[r]
                 c == CommitLength[r]
      <4>1. WindowFollows(drawn[r], x, a, c)
        BY <1>3, WindowGrows
      <4>2. output[r] = SubSeq(drawn[r], a + 1, Min2(n, a + c)) /\ Len(drawn'[r]) = n + 1
        BY <1>3, <3>2
      <4>3. CASE n \in a..(a + c - 1)
        BY ONLY <3>1, <4>1, <4>2, <4>3 DEF WindowFollows
      <4>4. CASE n \notin a..(a + c - 1)
        BY ONLY <3>1, <4>1, <4>2, <4>4 DEF WindowFollows
      <4> QED BY <4>3, <4>4
    <3>5. forcedCount'[r] = Forced(r)' /\ forcedCount'[r] \in Nat
      <4>1. forcedCount'[r] = IF Mode[r] = "force" /\ InWindow(r) THEN forcedCount[r] + 1
                              ELSE forcedCount[r]
        BY <2>2 DEF OneSample
      <4>2. Len(sampled'[r]) = Len(drawn[r]) + 1 /\ sampled[r] = drawn[r]
        BY <1>3, <3>2
      <4>3. Forced(r)' = IF Mode[r] # "force" \/ Len(sampled'[r]) <= Start[r] THEN 0
                         ELSE Min2(Len(sampled'[r]) - Start[r], Len(Tokens[r]))
        BY Zenon DEF Forced, Min2
      <4>4. forcedCount[r] = IF Mode[r] # "force" \/ Len(drawn[r]) <= Start[r] THEN 0
                             ELSE Min2(Len(drawn[r]) - Start[r], Len(Tokens[r]))
        BY <1>3, <4>2 DEF Forced
      <4>5. InWindow(r) <=> Len(drawn[r]) - Start[r] \in 0..Len(Tokens[r]) - 1
        BY <4>2 DEF InWindow, Position
      <4> DEFINE n == Len(drawn[r])
                 a == Start[r]
                 c == Len(Tokens[r])
                 m == Len(sampled'[r])
      <4>6. m = n + 1 /\ n \in Nat /\ a \in Nat /\ c \in Nat /\ (Mode[r] = "force" => c > 0)
        BY <1>3, <4>2
      <4> HIDE DEF n, a, c, m
      <4>7. /\ forcedCount'[r] = IF Mode[r] = "force" /\ n - a \in 0..c - 1 THEN forcedCount[r] + 1
                               ELSE forcedCount[r]
            /\ Forced(r)' = IF Mode[r] # "force" \/ m <= a THEN 0 ELSE Min2(m - a, c)
            /\ forcedCount[r] = IF Mode[r] # "force" \/ n <= a THEN 0 ELSE Min2(n - a, c)
        BY ONLY <4>1, <4>3, <4>4, <4>5 DEF n, a, c, m
      <4> DEFINE now == forcedCount[r]
                 then == forcedCount'[r]
                 due == Forced(r)'
      <4> HIDE DEF now, then, due
      <4>8. /\ then = IF Mode[r] = "force" /\ n - a \in 0..c - 1 THEN now + 1 ELSE now
            /\ due = IF Mode[r] # "force" \/ m <= a THEN 0 ELSE Min2(m - a, c)
            /\ now = IF Mode[r] # "force" \/ n <= a THEN 0 ELSE Min2(n - a, c)
        BY ONLY <4>7 DEF now, then, due
      <4>9. then = due /\ then \in Nat
        <5>1. CASE Mode[r] # "force"
          BY ONLY <4>8, <5>1
        <5>2. CASE Mode[r] = "force" /\ n < a
          BY ONLY <4>6, <4>8, <5>2
        <5>3. CASE Mode[r] = "force" /\ n >= a /\ n < a + c
          BY ONLY <4>6, <4>8, <5>3 DEF Min2
        <5>4. CASE Mode[r] = "force" /\ n >= a + c
          BY ONLY <4>6, <4>8, <5>4 DEF Min2
        <5> QED BY <4>6, <5>1, <5>2, <5>3, <5>4
      <4> QED BY ONLY <4>9 DEF then, due
    <3> QED BY <3>2, <3>3, <3>4, <3>5
  <2> QED BY <1>2, <2>1, <2>2
<1>5. /\ drawn' \in [Requests -> Seq(Vocabulary)] /\ sampled' \in [Requests -> Seq(Vocabulary)]
      /\ output' \in [Requests -> Seq(Vocabulary)] /\ forcedCount' \in [Requests -> Nat]
  <2>1. /\ \A r \in Requests : drawn'[r] \in Seq(Vocabulary) /\ output'[r] \in Seq(Vocabulary)
        /\ \A r \in Requests : sampled'[r] \in Seq(Vocabulary) /\ forcedCount'[r] \in Nat
    BY <1>4
  <2> QED BY ONLY <1>2, <2>1
<1>6. Types'
  BY <1>1, <1>5 DEF Types
<1>7. Samples'
  BY <1>1, <1>4 DEF Samples
<1>8. Batch' /\ Matched' /\ Once'
  BY <1>1 DEF Batch, InBatch, Matched, ShownIn, Once
<1>9. Lines'
  <2>1. ASSUME NEW r \in written PROVE sampled'[r] = sampled[r] /\ forcedCount'[r] = forcedCount[r]
    <3>1. r \in Requests
      BY DEF Types, Audited
    <3>2. ~InBatch(r)
      BY <1>1 DEF Once
    <3> QED BY <1>2, <3>1, <3>2 DEF OneSample, NoSample
  <2>2. \A i \in DOMAIN file : file[i].by = "engine" =>
            file[i].id \in written /\ file[i] = Audit(file[i].id)
    BY DEF Lines
  <2>3. \A i \in DOMAIN file : file[i].by = "engine" => file[i] = Audit(file[i].id)'
    BY <1>1, <2>1, <2>2 DEF Audit, Complete, Window
  <2> QED BY <1>1, <2>2, <2>3 DEF Lines
<1>10. Grows
  <2>1. Len(file) \in Nat
    BY LenProperties DEF Types
  <2> QED BY <1>1, <2>1 DEF Grows, Types
<1> QED BY <1>6, <1>7, <1>8, <1>9, <1>10
(* A response that has been sent stays sent. *)
Answered ==
    \A r \in Requests :
        /\ status[r] \in {"finished", "gone"} => status'[r] \in {"finished", "gone"}
        /\ status[r] = "gone" => status'[r] = "gone"

LEMMA Batching ==
    ASSUME SamplerAssumption, SamplerInv,
           NEW preempted \in SUBSET (DOMAIN rows \ Finished), NEW J \in SUBSET Queued,
           \A q, r \in J : q = r, NEW valid, UpdateBatch(preempted, J, valid)
    PROVE  SamplerInv' /\ Grows /\ Answered
<1> DEFINE gone == Finished \cup preempted
<1>1. /\ alive /\ UNCHANGED <<commitFrom, drawn, output, sampled, forcedCount>>
      /\ status' = [r \in Requests |->
             IF r \in J THEN "running"
             ELSE IF \E i \in preempted : rows[i] = r THEN "queued"
             ELSE IF \E i \in Finished : rows[i] = r THEN "gone"
             ELSE status[r]]
  BY DEF UpdateBatch
<1>2. Types /\ Batch /\ ShownIn(states)
  BY <1>1 DEF SamplerInv, Matched
<1>3. Rebatched(gone, J)
  <2>1. preempted \in SUBSET (DOMAIN rows)
    OBVIOUS
  <2> QED BY <1>2, <2>1, NewBatch
<1>4. status' \in [Requests -> {"queued", "running", "finished", "gone"}]
  <2>1. \A r \in Requests : status'[r] \in {"queued", "running", "finished", "gone"}
    BY <1>1, <1>2 DEF Types
  <2> QED BY <1>1, <2>1
<1>5. \A r \in Requests : status'[r] \in
          IF r \in J THEN {"running"}
          ELSE IF \E i \in gone : rows[i] = r THEN {"queued", "gone"} ELSE {status[r]}
  BY <1>1
<1>6. gone \in SUBSET (DOMAIN rows)
  BY DEF Finished
<1>7. SamplerInv' /\ Grows
  <2> HIDE DEF gone
  <2> QED BY <1>1, <1>3, <1>4, <1>5, <1>6, Rebatching
<1>8. ASSUME NEW r \in Requests, status[r] \in {"finished", "gone"}
      PROVE  status'[r] \in {"finished", "gone"} /\ (status[r] = "gone" => status'[r] = "gone")
  <2>1. r \notin J
    BY <1>8 DEF Queued
  <2>2. ~\E i \in preempted : rows[i] = r
    <3> SUFFICES ASSUME NEW i \in preempted, rows[i] = r PROVE FALSE
      OBVIOUS
    <3>1. InBatch(r) /\ status[r] # "finished"
      BY DEF InBatch, Finished
    <3> QED BY <1>2, <1>8, <3>1 DEF Batch
  <2> QED BY <1>1, <1>8, <2>1, <2>2
<1>9. Answered
  BY <1>8 DEF Answered
<1> QED BY <1>7, <1>9

LEMMA Swapping ==
    ASSUME SamplerAssumption, SamplerInv, NEW i \in DOMAIN rows, NEW j \in DOMAIN rows,
           Reorder(i, j)
    PROVE  SamplerInv' /\ Grows /\ Answered
<1>1. /\ alive /\ UNCHANGED <<commitFrom, drawn, output, sampled, forcedCount>>
      /\ status' = status
  BY DEF Reorder
<1>2. Types /\ Batch /\ ShownIn(states)
  BY <1>1 DEF SamplerInv, Matched
<1>3. Rebatched({}, {})
  BY <1>2, SwappedRows
<1>4. /\ status' \in [Requests -> {"queued", "running", "finished", "gone"}]
      /\ \A r \in Requests : status'[r] \in
             IF r \in {} THEN {"running"}
             ELSE IF \E m \in {} : rows[m] = r THEN {"queued", "gone"} ELSE {status[r]}
  BY <1>1, <1>2 DEF Types
<1>5. SamplerInv' /\ Grows
  <2> DEFINE E == {}
  <2>1. E \in SUBSET (DOMAIN rows) /\ E \in SUBSET Queued /\ Rebatched(E, E)
    BY <1>3
  <2>2. \A r \in Requests : status'[r] \in
             IF r \in E THEN {"running"}
             ELSE IF \E m \in E : rows[m] = r THEN {"queued", "gone"} ELSE {status[r]}
    BY <1>4
  <2> HIDE DEF E
  <2> QED BY <1>1, <1>4, <2>1, <2>2, Rebatching
<1> QED BY <1>1, <1>5 DEF Answered

LEMMA Finishing ==
    ASSUME SamplerInv, NEW r \in Requests, Finish(r)
    PROVE  SamplerInv' /\ Grows /\ Answered
<1>1. /\ alive /\ status[r] = "running" /\ status' = [status EXCEPT ![r] = "finished"]
      /\ UNCHANGED <<rows, commitFrom, drawn, output, alive, states, sampled, forcedCount,
                     seenIds, written, file, torn>>
  BY DEF Finish, pluginVars, fileVars
<1> USE DEF SamplerInv
<1>2. Types'
  BY <1>1 DEF Types
<1>3. Batch'
  BY <1>1 DEF Batch, InBatch, Types
<1>4. Matched' /\ Samples' /\ Lines'
  BY <1>1 DEF Matched, ShownIn, Samples, Forced, Lines, Audit, Complete, Window
<1>5. Once'
  <2>1. r \notin written
    BY <1>1 DEF Once, Batch
  <2> QED BY <1>1, <2>1 DEF Once, InBatch, Types, Audited
<1>6. Grows
  <2>1. Len(file) \in Nat
    BY LenProperties DEF Types
  <2> QED BY <1>1, <2>1 DEF Grows, Types
<1> QED BY <1>1, <1>2, <1>3, <1>4, <1>5, <1>6 DEF Answered, Types

LEMMA Flushing ==
    ASSUME SamplerInv, Flush
    PROVE  SamplerInv' /\ Grows /\ Answered
<1>1. /\ torn' = FALSE
      /\ UNCHANGED <<rows, status, commitFrom, drawn, output, alive, states, sampled,
                     forcedCount, seenIds, written, file>>
  BY DEF Flush, engineVars, pluginVars
<1> USE DEF SamplerInv
<1>2. torn' \in BOOLEAN /\ ~torn'
  BY <1>1
<1>3. Types'
  BY <1>1, <1>2 DEF Types
<1>4. Batch' /\ Matched' /\ Samples' /\ Once'
  BY <1>1 DEF Batch, InBatch, Matched, ShownIn, Samples, Forced, Once
<1>5. Lines'
  BY <1>1 DEF Lines, Audit, Complete, Window
<1>6. Grows
  <2>1. Len(file) \in Nat
    BY LenProperties DEF Types
  <2> QED BY <1>1, <1>2, <2>1 DEF Grows, Types
<1> QED BY <1>1, <1>3, <1>4, <1>5, <1>6 DEF Answered

LEMMA Appending ==
    ASSUME SamplerInv, NEW line, line.by # "engine", ForeignAppend(line)
    PROVE  SamplerInv' /\ Grows /\ Answered
<1>1. /\ torn' = FALSE /\ file' = Append(file, line)
      /\ UNCHANGED <<rows, status, commitFrom, drawn, output, alive, states, sampled,
                     forcedCount, seenIds, written>>
  BY DEF ForeignAppend, engineVars, pluginVars
<1> USE DEF SamplerInv
<1>2. file \in Seq(Range(file)) /\ Len(file) \in Nat
  BY LenProperties DEF Types
<1>3. /\ file' \in Seq(Range(file')) /\ Len(file') = Len(file) + 1
      /\ \A i \in 1..Len(file) : file'[i] = file[i]
      /\ file'[Len(file) + 1] = line
      /\ DOMAIN file = 1..Len(file) /\ DOMAIN file' = 1..(Len(file) + 1)
  <2>1. LengthensBy(file, line, file')
    BY <1>1, <1>2, OneMore
  <2> QED BY <2>1 DEF LengthensBy
<1>4. Types' /\ Batch' /\ Matched' /\ Samples' /\ Once'
  BY <1>1, <1>3 DEF Types, Batch, InBatch, Matched, ShownIn, Samples, Forced, Once
<1>5. Grows
  <2>1. torn' \in BOOLEAN /\ ~torn'
    BY <1>1
  <2> QED BY <1>2, <1>3, <2>1 DEF Grows
<1>6. ASSUME NEW i \in DOMAIN file', file'[i].by = "engine"
      PROVE  i \in DOMAIN file /\ file'[i] = file[i]
  <2>1. i # Len(file) + 1
    BY <1>3, <1>6
  <2> QED BY <1>2, <1>3, <2>1
<1>7. Lines'
  <2>1. \A i \in DOMAIN file' : file'[i].by = "engine" =>
            file'[i].id \in written' /\ file'[i] = Audit(file'[i].id)
    BY <1>1, <1>6 DEF Lines
  <2>2. \A i, j \in DOMAIN file' :
            file'[i].by = "engine" /\ file'[j].by = "engine" /\ file'[i].id = file'[j].id => i = j
    BY <1>6 DEF Lines
  <2> QED BY <1>1, <2>1, <2>2 DEF Lines, Audit, Complete, Window
<1> QED BY <1>1, <1>4, <1>5, <1>7 DEF Answered
-----------------------------------------------------------------------------
(* Every step of the engine and the plugin *)

LEMMA SamplerStarts ==
    ASSUME SamplerAssumption, SamplerInit, file \in Seq(Range(file)),
           \A i \in DOMAIN file : file[i].by # "engine"
    PROVE  SamplerInv
<1> USE DEF SamplerInit
<1>1. commitFrom \in [Requests -> Nat]
  <2>1. /\ \A r \in Requests : commitFrom[r] \in CommitStarts[r] /\ CommitStarts[r] \subseteq Nat
        /\ commitFrom = [r \in Requests |-> commitFrom[r]]
    BY DEF SamplerAssumption
  <2> QED BY ONLY <2>1
<1>2. /\ rows \in Seq(Requests) /\ Len(rows) = 0 /\ DOMAIN rows = {}
      /\ MaxRows \in Nat /\ torn \in BOOLEAN
  <2>1. rows = <<>>
    OBVIOUS
  <2>2. rows \in Seq(Requests) /\ Len(rows) = 0 /\ DOMAIN rows = {}
    BY ONLY <2>1
  <2> QED BY <2>2 DEF SamplerAssumption
<1>3. Types
  <2>1. <<>> \in Seq(Vocabulary)
    OBVIOUS
  <2> QED BY <1>1, <1>2, <2>1 DEF Types
<1>4. Batch /\ Matched /\ Once /\ Lines
  BY <1>2 DEF Batch, InBatch, Matched, ShownIn, Once, Lines
<1>5. Samples
  <2> SUFFICES ASSUME NEW r \in Requests
               PROVE  /\ sampled[r] = drawn[r] /\ Len(drawn[r]) <= MaxDrawn[r]
                      /\ output[r] = SubSeq(drawn[r], commitFrom[r] + 1,
                              Min2(Len(drawn[r]), commitFrom[r] + CommitLength[r]))
                      /\ forcedCount[r] = Forced(r)
    BY DEF Samples
  <2>1. /\ commitFrom[r] \in Nat /\ CommitLength[r] \in Nat /\ MaxDrawn[r] \in Nat /\ Start[r] \in Nat
        /\ sampled[r] = <<>> /\ drawn[r] = <<>> /\ output[r] = <<>> /\ forcedCount[r] = 0
        /\ Len(drawn[r]) = 0
    BY <1>1 DEF SamplerAssumption
  <2>2. Min2(0, commitFrom[r] + CommitLength[r]) = 0
    BY <2>1 DEF Min2
  <2>3. SubSeq(drawn[r], commitFrom[r] + 1, 0) = <<>>
    BY <2>1, SubSeqEmpty
  <2>4. Forced(r) = 0
    BY <2>1 DEF Forced
  <2> QED BY <2>1, <2>2, <2>3, <2>4
<1> QED BY <1>3, <1>4, <1>5 DEF SamplerInv

LEMMA SamplerKeeps ==
    ASSUME SamplerAssumption, SamplerInv,
           NextBatch \/ Preempt \/ Refuse \/ Swap \/ Sample \/ Flush \/ \E r \in Requests : Finish(r)
    PROVE  SamplerInv' /\ Grows /\ Answered
<1>1. CASE NextBatch
  <2>1. PICK J \in {{}} \cup {{r} : r \in Queued} : UpdateBatch({}, J, TRUE)
    BY <1>1 DEF NextBatch
  <2>2. J \in SUBSET Queued /\ \A q, r \in J : q = r
    OBVIOUS
  <2> DEFINE preempted == {}
  <2>3. preempted \in SUBSET (DOMAIN rows \ Finished) /\ UpdateBatch(preempted, J, TRUE)
    BY <2>1
  <2> HIDE DEF preempted
  <2> QED BY <2>2, <2>3, Batching
<1>2. CASE Preempt
  <2>1. PICK i \in {j \in DOMAIN rows \ Finished : Mode[rows[j]] # "plain"} :
           UpdateBatch({i}, {}, TRUE)
    BY <1>2 DEF Preempt
  <2> DEFINE preempted == {i}
             J == {}
  <2>2. /\ preempted \in SUBSET (DOMAIN rows \ Finished) /\ J \in SUBSET Queued
        /\ \A q, r \in J : q = r
    OBVIOUS
  <2>3. UpdateBatch(preempted, J, TRUE)
    BY <2>1
  <2> HIDE DEF preempted, J
  <2> QED BY <2>2, <2>3, Batching
<1>3. CASE Refuse
  <2>1. PICK q \in {p \in Queued : Mode[p] # "plain"} : UpdateBatch({}, {q}, FALSE)
    BY <1>3 DEF Refuse
  <2> DEFINE preempted == {}
             J == {q}
  <2>2. /\ preempted \in SUBSET (DOMAIN rows \ Finished) /\ J \in SUBSET Queued
        /\ \A p, r \in J : p = r
    OBVIOUS
  <2>3. UpdateBatch(preempted, J, FALSE)
    BY <2>1
  <2> HIDE DEF preempted, J
  <2> QED BY <2>2, <2>3, Batching
<1>4. CASE Swap
  BY <1>4, Swapping DEF Swap
<1>5. CASE Sample
  <2>1. PICK discarded \in SUBSET {i \in DOMAIN rows : drawn[rows[i]] = <<>>}, lag \in 0..AsyncLag :
           \E natural \in {f \in [DOMAIN rows -> Vocabulary] :
                              \A i \in DOMAIN rows : f[i] \in Natural[rows[i]]} :
               SampleStep(discarded, natural, lag)
    BY <1>5 DEF Sample
  <2>2. PICK natural \in [DOMAIN rows -> Vocabulary] : SampleStep(discarded, natural, lag)
    BY <2>1
  <2>3. discarded \in SUBSET (DOMAIN rows) /\ lag \in Nat
    BY DEF SamplerAssumption
  <2>4. SamplerInv' /\ Grows
    BY <2>2, <2>3, Sampling
  <2>5. status' = status
    BY <2>2 DEF SampleStep
  <2> QED BY <2>4, <2>5 DEF Answered
<1>6. CASE Flush
  BY <1>6, Flushing
<1>7. CASE \E r \in Requests : Finish(r)
  BY <1>7, Finishing
<1> QED BY <1>1, <1>2, <1>3, <1>4, <1>5, <1>6, <1>7

LEMMA SamplerRests ==
    ASSUME SamplerInv, UNCHANGED samplerVars
    PROVE  SamplerInv' /\ Grows /\ Answered
<1>1. UNCHANGED <<rows, status, commitFrom, drawn, output, alive, states, sampled,
                  forcedCount, seenIds, written, file, torn>>
  BY DEF samplerVars, engineVars, pluginVars, fileVars
<1> USE DEF SamplerInv
<1>2. Types' /\ Batch' /\ Matched'
  BY <1>1 DEF Types, Batch, InBatch, Matched, ShownIn
<1>3. Samples' /\ Once' /\ Lines'
  BY <1>1 DEF InBatch, Samples, Forced, Once, Lines, Audit, Complete, Window
<1>4. Grows
  <2>1. Len(file) \in Nat
    BY LenProperties DEF Types
  <2> QED BY <1>1, <2>1 DEF Grows, Types
<1> QED BY <1>1, <1>2, <1>3, <1>4 DEF Answered
-----------------------------------------------------------------------------
(* What the audits say *)

(* The committed samples of a request, as a part of the drawn ones. *)
IsPart(V, s, a, c, t) ==
    /\ Len(t) = IF Len(s) <= a THEN 0 ELSE Min2(Len(s), a + c) - a
    /\ t \in Seq(V)
    /\ \A i \in 1..Len(t) : t[i] = s[a + i]

LEMMA Committed ==
    ASSUME NEW V, NEW s \in Seq(V), NEW a \in Nat, NEW c \in Nat
    PROVE  IsPart(V, s, a, c, SubSeq(s, a + 1, Min2(Len(s), a + c)))
<1> DEFINE t == SubSeq(s, a + 1, Min2(Len(s), a + c))
           n == Len(s)
           m == Min2(n, a + c)
<1>1. n \in Nat /\ m \in Nat /\ m <= n /\ m <= a + c
  BY LenProperties DEF Min2
<1>2. \A i \in (a + 1)..m : s[i] \in V
  BY <1>1, ElementOfSeq
<1> HIDE DEF n, m, t
<1>3. /\ t \in Seq(V) /\ Len(t) = IF a + 1 <= m THEN m - (a + 1) + 1 ELSE 0
      /\ \A i \in 1..(m - (a + 1) + 1) : t[i] = s[a + 1 + i - 1]
  <2>1. t = SubSeq(s, a + 1, m)
    BY DEF n, m, t
  <2>2. a + 1 \in Int /\ m \in Int
    BY <1>1
  <2> QED BY ONLY <1>2, <2>1, <2>2, SubSeqProperties
<1>4. Len(t) = IF n <= a THEN 0 ELSE m - a
  BY <1>1, <1>3 DEF Min2, m
<1>5. \A i \in 1..Len(t) : i \in 1..(m - (a + 1) + 1) /\ a + 1 + i - 1 = a + i
  BY <1>1, <1>3
<1>6. \A i \in 1..Len(t) : t[i] = s[a + i]
  BY ONLY <1>3, <1>5
<1> QED BY ONLY <1>3, <1>4, <1>6 DEF IsPart, n, m, t

(* The lines of this engine list what it drew, each request has at most    *)
(* one, and what a complete one forced begins the output where the engine  *)
(* committed as the recording did.                                         *)
LEMMA AuditsTell ==
    ASSUME SamplerAssumption, SamplerInv, NEW i \in DOMAIN file, file[i].by = "engine",
           NEW r, r = file[i].id
    PROVE  /\ r \in Audited /\ r \in written
           /\ file[i].sampled = drawn[r]
           /\ file[i].status = "complete" /\ commitFrom[r] = Start[r]
                 => IsPrefix(Tokens[r], output[r])
<1>1. r \in written /\ r \in Audited /\ r \in Requests /\ file[i] = Audit(r)
  BY DEF SamplerInv, Lines, Types, Audited
<1>2. file[i].sampled = drawn[r]
  <2>1. sampled[r] = drawn[r]
    BY <1>1 DEF SamplerInv, Samples
  <2> QED BY <1>1, <2>1 DEF Audit, Line
<1>3. ASSUME file[i].status = "complete", commitFrom[r] = Start[r]
      PROVE  IsPrefix(Tokens[r], output[r])
  <2>1. Mode[r] = "force" /\ Complete(r)
    <3>1. Mode[r] # "capture" /\ Complete(r)
      BY <1>1, <1>3 DEF Audit, Line
    <3> QED BY <1>1, <3>1 DEF Audited, SamplerAssumption
  <2> DEFINE s == drawn[r]
             T == Tokens[r]
             u == output[r]
             a == Start[r]
             c == Len(T)
             d == CommitLength[r]
             n == Len(s)
  <2>2. /\ s \in Seq(Vocabulary) /\ T \in Seq(Vocabulary) /\ a \in Nat /\ d \in Nat
        /\ n \in Nat /\ c \in Nat /\ c > 0 /\ d >= c
    <3>1. T \in Seq(Vocabulary) /\ T # <<>> /\ d >= c /\ d \in Nat /\ a \in Nat
      BY <1>1, <2>1 DEF SamplerAssumption
    <3>2. s \in Seq(Vocabulary)
      BY <1>1 DEF SamplerInv, Types
    <3>3. c \in Nat /\ c > 0
      BY <3>1, EmptySeq
    <3> QED BY <3>1, <3>2, <3>3, LenProperties
  <2>3. T = SubSeq(s, a + 1, Min2(n, a + c)) /\ u = SubSeq(s, a + 1, Min2(n, a + d))
    BY <1>1, <1>3, <2>1 DEF Complete, Window, SamplerInv, Samples
  <2> HIDE DEF s, T, u, a, c, d, n
  <2>4. /\ Len(T) = IF n <= a THEN 0 ELSE Min2(n, a + c) - a
        /\ \A j \in 1..Len(T) : T[j] = s[a + j]
    <3>1. IsPart(Vocabulary, s, a, c, T)
      BY <2>2, <2>3, Committed DEF n
    <3> QED BY ONLY <3>1 DEF IsPart, n
  <2>5. /\ Len(u) = IF n <= a THEN 0 ELSE Min2(n, a + d) - a
        /\ u \in Seq(Vocabulary)
        /\ \A j \in 1..Len(u) : u[j] = s[a + j]
    <3>1. IsPart(Vocabulary, s, a, d, u)
      BY <2>2, <2>3, Committed DEF n
    <3> QED BY ONLY <3>1 DEF IsPart, n
  <2>6. n >= a + c
    <3>1. c = IF n <= a THEN 0 ELSE Min2(n, a + c) - a
      BY <2>4 DEF c
    <3> QED BY ONLY <2>2, <3>1 DEF Min2
  <2>7. Len(u) \in Nat /\ c <= Len(u)
    BY ONLY <2>2, <2>5, <2>6 DEF Min2
  <2>8. \A j \in 1..c : T[j] = u[j]
    <3>1. \A j \in 1..c : j \in 1..Len(u)
      BY ONLY <2>2, <2>7
    <3> QED BY <2>4, <2>5, <3>1 DEF c
  <2>9. SubSeq(T, 1, c) = SubSeq(u, 1, c)
    <3>1. /\ \A j \in 1..c : T[j] \in Vocabulary /\ u[j] \in Vocabulary
          /\ 1 \in Int /\ c \in Int /\ c - 1 + 1 = c
      <4>1. \A j \in 1..c : T[j] \in Vocabulary
        BY <2>2, ElementOfSeq DEF c
      <4> QED BY <2>2, <2>8, <4>1
    <3> DEFINE p == SubSeq(T, 1, c)
               q == SubSeq(u, 1, c)
    <3>2. /\ p \in Seq(Vocabulary) /\ Len(p) = IF 1 <= c THEN c - 1 + 1 ELSE 0
          /\ \A j \in 1..(c - 1 + 1) : p[j] = T[1 + j - 1]
      <4> HIDE DEF p
      <4> QED BY ONLY <3>1, SubSeqProperties DEF p
    <3>3. /\ q \in Seq(Vocabulary) /\ Len(q) = IF 1 <= c THEN c - 1 + 1 ELSE 0
          /\ \A j \in 1..(c - 1 + 1) : q[j] = u[1 + j - 1]
      <4> HIDE DEF q
      <4> QED BY ONLY <3>1, SubSeqProperties DEF q
    <3> HIDE DEF p, q
    <3>4. Len(p) = c /\ Len(q) = c /\ \A j \in 1..c : p[j] = q[j]
      <4>1. \A j \in 1..c : 1 + j - 1 = j
        OBVIOUS
      <4> QED BY <2>2, <2>8, <3>1, <3>2, <3>3, <4>1
    <3>5. p = q
      BY <3>2, <3>3, <3>4, SeqEqual
    <3> QED BY <3>5 DEF p, q
  <2> QED BY <2>7, <2>9 DEF IsPrefix, c, T, u
<1> QED BY <1>1, <1>2, <1>3
=============================================================================
