--------------------------- MODULE PaperBookProofs ---------------------------
(***************************************************************************)
(* Proofs about PaperBook, for any number of instruments, any quotes,      *)
(* rankings and profiles, and any bound on the ticks.                      *)
(*                                                                         *)
(* The engine goes through its instruments one by one, so most of its      *)
(* operators are folds.  The first part shows what a fold and a sum give,  *)
(* by the well-foundedness of the subsets of a finite set; the second is   *)
(* the arithmetic of the rounding; the rest follows a tick, operator by    *)
(* operator, as process_tick does.                                         *)
(***************************************************************************)
EXTENDS PaperBook, FiniteSetTheorems, TLAPS

-----------------------------------------------------------------------------
(* Folds *)

\* Among sets of subsets of a finite set there is a smallest one.
LEMMA SmallestSubset ==
  ASSUME NEW D, IsFiniteSet(D), NEW C, C \subseteq SUBSET D, C # {}
  PROVE  \E s \in C : \A t \in C : t \subseteq s => t = s
<1>1. IsWellFoundedOn(StrictSubsetOrdering(D), SUBSET D)
  BY FS_StrictSubsetOrderingWellFounded, FS_FiniteSubsetsOfFinite
<1>2. \E x \in C : \A y \in C : ~ (<<y, x>> \in StrictSubsetOrdering(D))
  BY <1>1, WFMin
<1> QED BY <1>2 DEF StrictSubsetOrdering

\* g folds op over every subset of d, taking pick[s] last of s.
Folds(g, d, T, pick, base, op) ==
  /\ g \in [SUBSET d -> T]
  /\ \A s \in SUBSET d :
       g[s] = IF s = {} THEN base ELSE op[<<g[s \ {pick[s]}], pick[s]>>]

\* Two folds agree on what both are defined on.
LEMMA FoldsAgree ==
  ASSUME NEW d, IsFiniteSet(d), NEW e, NEW T, NEW pick, NEW base, NEW op, NEW g, NEW h,
         \A s \in SUBSET d : s # {} => pick[s] \in s,
         Folds(g, d, T, pick, base, op), Folds(h, e, T, pick, base, op),
         NEW t \in SUBSET d, t \in SUBSET e
  PROVE  g[t] = h[t]
<1> DEFINE C == {s \in SUBSET d : s \in SUBSET e /\ g[s] # h[s]}
<1> SUFFICES ASSUME C # {} PROVE FALSE
  OBVIOUS
<1>0. C \subseteq SUBSET d
  OBVIOUS
<1>1. PICK s \in C : \A u \in C : u \subseteq s => u = s
  <2> HIDE DEF C
  <2> QED BY <1>0, SmallestSubset
<1> DEFINE u == s \ {pick[s]}
<1>2. s # {}
  BY <1>1 DEF Folds
<1>3. pick[s] \in s /\ u \in SUBSET d /\ u \in SUBSET e /\ u # s
  BY <1>1, <1>2
<1>4. g[u] = h[u]
  BY <1>1, <1>3
<1>5. g[s] = op[<<g[u], pick[s]>>] /\ h[s] = op[<<h[u], pick[s]>>]
  BY <1>1, <1>2 DEF Folds
<1> QED BY <1>1, <1>4, <1>5

\* There is a fold of every operation on a finite set.
LEMMA FoldsExist ==
  ASSUME NEW D, IsFiniteSet(D), NEW T, NEW pick, NEW base \in T, NEW op \in [T \X D -> T],
         \A s \in SUBSET D : s # {} => pick[s] \in s
  PROVE  \E g : Folds(g, D, T, pick, base, op)
<1> DEFINE C == {d \in SUBSET D : ~ \E g : Folds(g, d, T, pick, base, op)}
<1> SUFFICES ASSUME C # {} PROVE FALSE
  OBVIOUS
<1>0. C \subseteq SUBSET D
  OBVIOUS
<1>1. PICK d \in C : \A u \in C : u \subseteq d => u = d
  <2> HIDE DEF C
  <2> QED BY <1>0, SmallestSubset
<1>2. \A u \in SUBSET d : u # d => \E g : Folds(g, u, T, pick, base, op)
  BY <1>1
<1> DEFINE best == [u \in SUBSET d |-> CHOOSE g : Folds(g, u, T, pick, base, op)]
           low == d \ {pick[d]}
           top == op[<<best[low][low], pick[d]>>]
           f == [s \in SUBSET d |-> IF s = {} THEN base ELSE IF s = d THEN top ELSE best[s][s]]
<1>3. \A u \in SUBSET d : u # d => Folds(best[u], u, T, pick, base, op)
  BY <1>2
<1>4. d # {} => pick[d] \in d /\ low \in SUBSET d /\ low # d
  BY <1>1
<1>5. d # {} => top \in T
  <2> SUFFICES ASSUME d # {} PROVE top \in T
    OBVIOUS
  <2>1. Folds(best[low], low, T, pick, base, op) /\ low \in SUBSET low
    BY <1>3, <1>4
  <2>2. best[low][low] \in T
    <3> HIDE DEF best, low
    <3> QED BY <2>1 DEF Folds
  <2>3. pick[d] \in D
    BY <1>1, <1>4
  <2> HIDE DEF best, low
  <2> QED BY <2>2, <2>3
<1>6. f \in [SUBSET d -> T]
  <2> SUFFICES ASSUME NEW s \in SUBSET d PROVE f[s] \in T
    OBVIOUS
  <2>1. CASE s = {} \/ s = d
    BY <2>1, <1>5
  <2>2. CASE s # {} /\ s # d
    <3>1. Folds(best[s], s, T, pick, base, op) /\ s \in SUBSET s
      BY <2>2, <1>3
    <3>2. best[s][s] \in T
      <4> HIDE DEF best
      <4> QED BY <3>1 DEF Folds
    <3>3. f[s] = best[s][s]
      BY <2>2
    <3> QED BY <3>2, <3>3
  <2> QED BY <2>1, <2>2
<1>7. ASSUME NEW s \in SUBSET d, s # {}
      PROVE  f[s] = op[<<f[s \ {pick[s]}], pick[s]>>]
  <2> DEFINE u == s \ {pick[s]}
  <2>1. pick[s] \in s /\ u \in SUBSET d /\ u # s /\ u # d
    BY <1>1, <1>7
  <2>2. Folds(best[u], u, T, pick, base, op)
    BY <1>3, <2>1
  <2>3. f[u] = best[u][u]
    BY <2>1, <2>2 DEF Folds
  <2>4. CASE s = d
    BY <2>3, <2>4, <1>7
  <2>5. CASE s # d
    <3>1. Folds(best[s], s, T, pick, base, op)
      BY <1>3, <2>5
    <3>2. f[s] = best[s][s] /\ best[s][s] = op[<<best[s][u], pick[s]>>]
      BY <3>1, <2>5, <1>7 DEF Folds
    <3>3. IsFiniteSet(s) /\ \A t \in SUBSET s : t # {} => pick[t] \in t
      BY <1>1, FS_Subset
    <3>4. u \in SUBSET s /\ u \in SUBSET u
      OBVIOUS
    <3>5. best[s][u] = best[u][u]
      BY <2>2, <3>1, <3>3, <3>4, FoldsAgree
    <3> QED BY <2>3, <3>2, <3>5
  <2> QED BY <2>4, <2>5
<1>8. f[{}] = base
  OBVIOUS
<1>9. Folds(f, d, T, pick, base, op)
  <2> HIDE DEF f
  <2> QED BY <1>6, <1>7, <1>8 DEF Folds
<1> QED BY <1>1, <1>9


\* A set of numbers up to n has its last.
LEMMA LastOne ==
  ASSUME NEW n \in Nat, NEW s \in SUBSET (1 .. n), s # {}
  PROVE  Max(s) \in s /\ \A i \in s : i <= Max(s)
<1> DEFINE C == {t \in SUBSET (1 .. n) : \E k \in 0 .. n : t = 1 .. k /\ s \subseteq t}
<1>1. C \subseteq SUBSET (1 .. n) /\ C # {} /\ IsFiniteSet(1 .. n)
  <2>1. n \in 0 .. n /\ s \subseteq 1 .. n /\ 1 .. n \in SUBSET (1 .. n)
    OBVIOUS
  <2>2. 1 .. n \in C
    BY <2>1
  <2>3. IsFiniteSet(1 .. n)
    BY FS_Interval
  <2> QED BY <2>2, <2>3
<1>2. PICK t \in C : \A u \in C : u \subseteq t => u = t
  <2> HIDE DEF C
  <2>1. PICK D : D = 1 .. n
    OBVIOUS
  <2>2. C \subseteq SUBSET D /\ C # {} /\ IsFiniteSet(D)
    BY <1>1, <2>1
  <2> QED BY <2>2, SmallestSubset
<1>3. PICK k \in 0 .. n : t = 1 .. k /\ s \subseteq 1 .. k
  BY <1>2
<1>4. k > 0
  <2>1. CASE k = 0
    <3>1. 1 .. k = {}
      BY <2>1
    <3> QED BY <3>1, <1>3
  <2> QED BY <2>1
<1>5. k \in s
  <2> SUFFICES ASSUME k \notin s PROVE FALSE
    OBVIOUS
  <2>1. s \subseteq 1 .. (k - 1) /\ k - 1 \in 0 .. n
    BY <1>3, <1>4
  <2>2. 1 .. (k - 1) \in SUBSET (1 .. n) /\ 1 .. (k - 1) \subseteq 1 .. k
    BY <2>1
  <2>3. 1 .. (k - 1) \in C
    BY <2>1, <2>2
  <2>4. 1 .. (k - 1) = 1 .. k
    BY <1>2, <1>3, <2>2, <2>3
  <2>5. k \in 1 .. k /\ k \notin 1 .. (k - 1)
    BY <1>3, <1>4
  <2> QED BY <2>4, <2>5
<1>6. \E m \in s : \A i \in s : m >= i
  BY <1>3, <1>5
<1>7. Max(s) \in s /\ \A i \in s : Max(s) >= i
  BY <1>6, Zenon DEF Max
<1> QED BY <1>7

\* Induction up to n, over data.
LEMMA Climb ==
  ASSUME NEW n \in Nat, NEW h, NEW R, h[0] \in R[0],
         \A k \in 1 .. n : h[k - 1] \in R[k - 1] => h[k] \in R[k]
  PROVE  \A k \in 0 .. n : h[k] \in R[k]
<1> DEFINE C == {t \in SUBSET (0 .. n) : \E k \in 0 .. n : t = 0 .. k /\ h[k] \notin R[k]}
<1> SUFFICES ASSUME NEW j \in 0 .. n, h[j] \notin R[j] PROVE FALSE
  OBVIOUS
<1>1. C \subseteq SUBSET (0 .. n) /\ C # {} /\ IsFiniteSet(0 .. n)
  <2>1. 0 .. j \in SUBSET (0 .. n)
    OBVIOUS
  <2>2. 0 .. j \in C
    BY <2>1
  <2>3. IsFiniteSet(0 .. n)
    BY FS_Interval
  <2> QED BY <2>2, <2>3
<1>2. PICK t \in C : \A u \in C : u \subseteq t => u = t
  <2> HIDE DEF C
  <2>1. PICK D : D = 0 .. n
    OBVIOUS
  <2>2. C \subseteq SUBSET D /\ C # {} /\ IsFiniteSet(D)
    BY <1>1, <2>1
  <2> QED BY <2>2, SmallestSubset
<1>3. PICK k \in 0 .. n : t = 0 .. k /\ h[k] \notin R[k]
  BY <1>2
<1>4. k \in 1 .. n /\ k - 1 \in 0 .. n
  BY <1>3
<1>5. h[k - 1] \notin R[k - 1]
  BY <1>3, <1>4
<1>6. 0 .. (k - 1) \in C /\ 0 .. (k - 1) \subseteq 0 .. k
  BY <1>4, <1>5
<1>7. 0 .. (k - 1) = 0 .. k
  BY <1>2, <1>3, <1>6
<1>8. k \in 0 .. k /\ k \notin 0 .. (k - 1)
  BY <1>3
<1> QED BY <1>7, <1>8

\* g folds op from the left over 1 .. n, and over every subset of it.
FoldsLeft(g, n, T, base, op) ==
  /\ g \in [SUBSET (1 .. n) -> T]
  /\ g[{}] = base
  /\ \A s \in SUBSET (1 .. n) : s # {} => g[s] = op[<<g[s \ {Max(s)}], Max(s)>>]

\* h climbs from base to top, one op at a time.
Climbs(h, n, T, base, op, top) ==
  /\ h \in [0 .. n -> T]
  /\ h[0] = base /\ h[n] = top
  /\ \A k \in 1 .. n : h[k] = op[<<h[k - 1], k>>]

\* There is a fold from the left of every operation.
LEMMA FoldsLeftExist ==
  ASSUME NEW n \in Nat, NEW T, NEW base \in T, NEW op \in [T \X (1 .. n) -> T]
  PROVE  \E g : FoldsLeft(g, n, T, base, op)
<1> DEFINE pick == [s \in SUBSET (1 .. n) |-> Max(s)]
<1>1. \A s \in SUBSET (1 .. n) : s # {} => pick[s] \in s
  BY LastOne
<1>2. IsFiniteSet(1 .. n)
  BY FS_Interval
<1>3. PICK g : Folds(g, 1 .. n, T, pick, base, op)
  <2> HIDE DEF pick
  <2> QED BY <1>1, <1>2, FoldsExist, Zenon
<1>4. FoldsLeft(g, n, T, base, op)
  BY <1>3 DEF Folds, FoldsLeft
<1> QED BY <1>4

\* What satisfies the equation of a fold from the left climbs to its result.
Follows(F, n, T, base, op) ==
  /\ F[{}] = base
  /\ \A s \in SUBSET (1 .. n) :
       s # {} /\ F[s \ {Max(s)}] \in T => F[s] = op[<<F[s \ {Max(s)}], Max(s)>>]

\* It does so by the results on its prefixes.
LEMMA FoldsClimb ==
  ASSUME NEW n \in Nat, NEW T, NEW base \in T, NEW op \in [T \X (1 .. n) -> T], NEW F,
         Follows(F, n, T, base, op)
  PROVE  \E h : Climbs(h, n, T, base, op, F[1 .. n])
<1> DEFINE h == [k \in 0 .. n |-> F[1 .. k]]
           R == [k \in 0 .. n |-> T]
<1>1. \A k \in 1 .. n : 1 .. k \in SUBSET (1 .. n) /\ 1 .. k # {} /\ Max(1 .. k) = k
  <2> TAKE k \in 1 .. n
  <2>1. 1 .. k \in SUBSET (1 .. n) /\ k \in 1 .. k
    OBVIOUS
  <2>2. Max(1 .. k) \in 1 .. k /\ k <= Max(1 .. k)
    BY <2>1, LastOne
  <2> QED BY <2>1, <2>2
<1>2. \A k \in 1 .. n : (1 .. k) \ {k} = 1 .. (k - 1) /\ k - 1 \in 0 .. n
  OBVIOUS
<1>3. \A k \in 1 .. n : F[1 .. (k - 1)] \in T => F[1 .. k] = op[<<F[1 .. (k - 1)], k>>]
  BY <1>1, <1>2 DEF Follows
<1>4. F[1 .. 0] = base
  <2>1. 1 .. 0 = {}
    OBVIOUS
  <2> QED BY <2>1 DEF Follows
<1>5. h[0] = base /\ \A k \in 1 .. n : h[k] = F[1 .. k] /\ h[k - 1] = F[1 .. (k - 1)]
  BY <1>4
<1>6. h[0] \in R[0] /\ \A k \in 1 .. n : h[k - 1] \in R[k - 1] => h[k] \in R[k]
  <2>1. \A k \in 1 .. n : k \in 0 .. n /\ k - 1 \in 0 .. n
    OBVIOUS
  <2>2. R[0] = T /\ \A k \in 1 .. n : R[k] = T /\ R[k - 1] = T
    BY <2>1
  <2>3. \A k \in 1 .. n : F[1 .. (k - 1)] \in T => F[1 .. k] \in T
    BY <1>3
  <2> HIDE DEF h, R
  <2> QED BY <1>5, <2>2, <2>3
<1>7. \A k \in 0 .. n : h[k] \in R[k]
  <2> HIDE DEF h, R
  <2> QED BY <1>6, Climb
<1>8. h \in [0 .. n -> T] /\ h[n] = F[1 .. n]
  BY <1>7
<1>9. \A k \in 1 .. n : h[k] = op[<<h[k - 1], k>>]
  BY <1>3, <1>5, <1>7
<1> HIDE DEF h
<1> QED BY <1>5, <1>8, <1>9 DEF Climbs

-----------------------------------------------------------------------------
(* Sums *)

\* g sums f over every subset of D.
Sums(g, D, f) ==
  /\ g \in [SUBSET D -> Int]
  /\ g[{}] = 0
  /\ \A s \in SUBSET D : \A x \in s : g[s] = f[x] + g[s \ {x}]

\* A sum that takes its elements in one order is the sum in any order.
LEMMA AnyOrder ==
  ASSUME NEW D, IsFiniteSet(D), NEW f \in [D -> Int], NEW g \in [SUBSET D -> Int], NEW pick,
         g[{}] = 0,
         \A s \in SUBSET D : s # {} => pick[s] \in s /\ g[s] = f[pick[s]] + g[s \ {pick[s]}]
  PROVE  Sums(g, D, f)
<1> DEFINE C == {s \in SUBSET D : \E x \in s : g[s] # f[x] + g[s \ {x}]}
<1>1. CASE C = {}
  BY <1>1 DEF Sums
<1>2. CASE C # {}
  <2>0. C \subseteq SUBSET D
    OBVIOUS
  <2>1. PICK s \in C : \A u \in C : u \subseteq s => u = s
    <3> HIDE DEF C
    <3> QED BY <1>2, <2>0, SmallestSubset
  <2>2. PICK x \in s : g[s] # f[x] + g[s \ {x}]
    BY <2>1
  <2> DEFINE p == pick[s]
             sp == s \ {p}
             sx == s \ {x}
             both == (s \ {p}) \ {x}
  <2>3. s \in SUBSET D /\ p \in s /\ g[s] = f[p] + g[sp] /\ p # x
    BY <2>1, <2>2
  <2>4. sp \in SUBSET D /\ sx \in SUBSET D /\ sp \subseteq s /\ sx \subseteq s /\ sp # s /\ sx # s
        /\ x \in sp /\ p \in sx /\ both = sx \ {p} /\ both = sp \ {x} /\ both \in SUBSET D
    BY <2>3
  <2>5. sp \notin C /\ sx \notin C
    <3> HIDE DEF C
    <3> QED BY <2>1, <2>4
  <2>6. g[sp] = f[x] + g[both] /\ g[sx] = f[p] + g[both]
    BY <2>4, <2>5
  <2>7. f[x] \in Int /\ f[p] \in Int /\ g[both] \in Int /\ g[sx] \in Int
    BY <2>3, <2>4
  <2> HIDE DEF p, sp, sx, both, C
  <2>8. g[s] = f[x] + g[sx]
    BY <2>3, <2>6, <2>7
  <2> QED BY <2>2, <2>8 DEF sx
<1> QED BY <1>1, <1>2

\* There is one sum.
LEMMA SumsAgree ==
  ASSUME NEW D, IsFiniteSet(D), NEW E, NEW f, NEW e, NEW g, NEW h, Sums(g, D, f), Sums(h, E, e),
         NEW s \in SUBSET D, s \in SUBSET E, \A x \in s : f[x] = e[x]
  PROVE  g[s] = h[s]
<1> DEFINE C == {t \in SUBSET D : t \subseteq s /\ g[t] # h[t]}
<1> SUFFICES ASSUME C # {} PROVE FALSE
  OBVIOUS
<1>0. C \subseteq SUBSET D
  OBVIOUS
<1>1. PICK t \in C : \A u \in C : u \subseteq t => u = t
  <2> HIDE DEF C
  <2> QED BY <1>0, SmallestSubset
<1>2. t \in SUBSET D /\ t \in SUBSET E /\ t \subseteq s /\ g[t] # h[t]
  BY <1>1
<1>3. PICK x \in t : TRUE
  BY <1>2 DEF Sums
<1>4. t \ {x} \notin C
  <2> HIDE DEF C
  <2> QED BY <1>1, <1>3
<1>5. g[t \ {x}] = h[t \ {x}]
  BY <1>2, <1>4
<1>6. g[t] = f[x] + g[t \ {x}] /\ h[t] = e[x] + h[t \ {x}]
  BY <1>2, <1>3 DEF Sums
<1> QED BY <1>2, <1>3, <1>5, <1>6

\* g sums f over D and its subsets, taking pick[s] first of s.
SumsBy(g, D, f, pick) ==
  /\ g \in [SUBSET D -> Int]
  /\ g = [s \in SUBSET D |-> IF s = {} THEN 0 ELSE f[pick[s]] + g[s \ {pick[s]}]]

\* There is a sum in every order.
LEMMA SumsExist ==
  ASSUME NEW D, IsFiniteSet(D), NEW f \in [D -> Int], NEW pick,
         \A s \in SUBSET D : s # {} => pick[s] \in s
  PROVE  \E g : SumsBy(g, D, f, pick) /\ Sums(g, D, f)
<1> DEFINE op == [p \in Int \X D |-> f[p[2]] + p[1]]
<1>1. op \in [Int \X D -> Int] /\ \A n \in Int, x \in D : op[<<n, x>>] = f[x] + n
  OBVIOUS
<1>2. PICK g : Folds(g, D, Int, pick, 0, op)
  <2>1. 0 \in Int
    OBVIOUS
  <2> HIDE DEF op
  <2> QED BY <1>1, <2>1, FoldsExist
<1>3. ASSUME NEW s \in SUBSET D, s # {}
      PROVE  g[s] = f[pick[s]] + g[s \ {pick[s]}]
  <2>1. pick[s] \in D /\ s \ {pick[s]} \in SUBSET D
    BY <1>3
  <2> HIDE DEF op
  <2> QED BY <1>1, <1>2, <1>3, <2>1 DEF Folds
<1>4. g \in [SUBSET D -> Int] /\ g[{}] = 0
  BY <1>2 DEF Folds
<1>5. SumsBy(g, D, f, pick)
  BY <1>3, <1>4 DEF SumsBy
<1>6. Sums(g, D, f)
  BY <1>3, <1>4, AnyOrder
<1> QED BY <1>5, <1>6

\* What satisfies the equation of such a sum is one.
LEMMA SumsFollow ==
  ASSUME NEW D, IsFiniteSet(D), NEW f \in [D -> Int], NEW pick, NEW G, G[{}] = 0,
         \A s \in SUBSET D : s # {} => pick[s] \in s /\ G[s] = f[pick[s]] + G[s \ {pick[s]}],
         G = [s \in SUBSET D |-> G[s]]
  PROVE  Sums(G, D, f)
<1>1. G \in [SUBSET D -> Int]
  <2> DEFINE C == {s \in SUBSET D : G[s] \notin Int}
  <2> SUFFICES ASSUME C # {} PROVE FALSE
    OBVIOUS
  <2>0. C \subseteq SUBSET D
    OBVIOUS
  <2>1. PICK s \in C : \A u \in C : u \subseteq s => u = s
    <3> HIDE DEF C
    <3> QED BY <2>0, SmallestSubset
  <2>2. s \in SUBSET D /\ G[s] \notin Int
    BY <2>1
  <2>4. s # {}
    <3>1. 0 \in Int
      OBVIOUS
    <3> HIDE DEF C
    <3> QED BY <2>2, <3>1
  <2>5. pick[s] \in s /\ pick[s] \in D /\ G[s] = f[pick[s]] + G[s \ {pick[s]}]
    BY <2>2, <2>4
  <2>3. s \ {pick[s]} \notin C
    <3> HIDE DEF C
    <3> QED BY <2>1, <2>5
  <2>6. G[s \ {pick[s]}] \in Int /\ f[pick[s]] \in Int
    BY <2>2, <2>3, <2>5
  <2> HIDE DEF C
  <2> QED BY <2>2, <2>5, <2>6
<1> QED BY <1>1, AnyOrder

\* There are N instruments.
LEMMA InstrumentsFinite == IsFiniteSet(Instruments) /\ Cardinality(Instruments) = N
  BY BookConstants, FS_Interval DEF Instruments

\* The sum of a function over the instruments.
Total(f) == MapThenSumSet(LAMBDA i : f[i], Instruments)

\* The total of the model is such a sum.
LEMMA TotalSums ==
  ASSUME NEW f \in [Instruments -> Int]
  PROVE  \E g : Sums(g, Instruments, f) /\ Total(f) = g[Instruments]
<1> DEFINE Eq(g) == g = [s \in SUBSET Instruments |->
                           IF s = {} THEN 0
                           ELSE f[CHOOSE x \in s : TRUE] + g[s \ {CHOOSE x \in s : TRUE}]]
           G == CHOOSE g : Eq(g)
           pick == [s \in SUBSET Instruments |-> CHOOSE x \in s : TRUE]
<1>1. \A s \in SUBSET Instruments : s # {} => pick[s] \in s
  BY Zenon
<1>2. PICK g : SumsBy(g, Instruments, f, pick) /\ Sums(g, Instruments, f)
  <2> HIDE DEF pick
  <2> QED BY <1>1, InstrumentsFinite, SumsExist, Zenon
<1>3. Eq(g)
  BY <1>2 DEF SumsBy
<1>4. Eq(G)
  BY <1>3, Zenon
<1>5. /\ G[{}] = 0 /\ G = [s \in SUBSET Instruments |-> G[s]]
      /\ \A s \in SUBSET Instruments : s # {} => G[s] = f[pick[s]] + G[s \ {pick[s]}]
  <2> HIDE DEF G
  <2> QED BY <1>4
<1>6. Sums(G, Instruments, f)
  <2> HIDE DEF G, pick
  <2> QED BY <1>1, <1>5, InstrumentsFinite, SumsFollow
<1>7. Total(f) = G[Instruments]
  BY Zenon DEF Total, MapThenSumSet, MapThenFoldSet
<1> QED BY <1>6, <1>7

\* A total of integers is one.
LEMMA TotalType ==
  ASSUME NEW f \in [Instruments -> Int]
  PROVE  Total(f) \in Int
<1>1. PICK g : Sums(g, Instruments, f) /\ Total(f) = g[Instruments]
  BY TotalSums
<1>2. Instruments \in SUBSET Instruments
  OBVIOUS
<1> QED BY <1>1, <1>2 DEF Sums

\* The total of nothing but zeros is zero.
LEMMA TotalZero ==
  ASSUME NEW f \in [Instruments -> Int], \A i \in Instruments : f[i] = 0
  PROVE  Total(f) = 0
<1>1. PICK g : Sums(g, Instruments, f) /\ Total(f) = g[Instruments]
  BY TotalSums
<1> DEFINE z == [i \in Instruments |-> 0]
           h == [s \in SUBSET Instruments |-> 0]
<1>2. Sums(h, Instruments, z)
  BY DEF Sums
<1>3. g[Instruments] = h[Instruments]
  <2> HIDE DEF h
  <2>1. \A i \in Instruments : f[i] = z[i]
    OBVIOUS
  <2> HIDE DEF z
  <2> QED BY <1>1, <1>2, <2>1, InstrumentsFinite, SumsAgree
<1> QED BY <1>1, <1>3

\* A change of one element changes the total by as much.
LEMMA TotalExcept ==
  ASSUME NEW f \in [Instruments -> Int], NEW i \in Instruments, NEW v \in Int
  PROVE  Total([f EXCEPT ![i] = v]) = Total(f) - f[i] + v
<1> DEFINE e == [f EXCEPT ![i] = v]
           rest == Instruments \ {i}
<1>1. e \in [Instruments -> Int] /\ e[i] = v /\ \A j \in rest : f[j] = e[j]
  OBVIOUS
<1>2. PICK g : Sums(g, Instruments, f) /\ Total(f) = g[Instruments]
  BY TotalSums
<1>3. PICK h : Sums(h, Instruments, e) /\ Total(e) = h[Instruments]
  <2> HIDE DEF e
  <2> QED BY <1>1, TotalSums
<1>4. rest \in SUBSET Instruments
  OBVIOUS
<1>5. g[rest] = h[rest]
  <2> HIDE DEF e, rest
  <2> QED BY <1>1, <1>2, <1>3, <1>4, InstrumentsFinite, SumsAgree
<1>6. g[Instruments] = f[i] + g[rest] /\ h[Instruments] = e[i] + h[rest]
  <2>1. Instruments \in SUBSET Instruments /\ Instruments \ {i} = rest
    OBVIOUS
  <2> HIDE DEF e, rest
  <2> QED BY <1>2, <1>3, <2>1 DEF Sums
<1>7. g[rest] \in Int
  BY <1>2, <1>4 DEF Sums
<1> HIDE DEF e, rest
<1> QED BY <1>1, <1>2, <1>3, <1>5, <1>6, <1>7 DEF e

\* The cost of a book is the total of the costs of its positions.
LEMMA BasisTotal ==
  ASSUME NEW b
  PROVE  Basis(b) = Total(b.basis)
  BY Zenon DEF Basis, Total

\* A book is worth an integer, and one without positions nothing.
LEMMA GrossType ==
  ASSUME NEW b, \A i \in Held(b) : Value(b, i) \in Int
  PROVE  Gross(b) \in Int /\ (Held(b) = {} => Gross(b) = 0)
<1> DEFINE D == Held(b)
           f == [i \in D |-> Value(b, i)]
           Eq(g) == g = [s \in SUBSET D |->
                           IF s = {} THEN 0
                           ELSE Value(b, CHOOSE x \in s : TRUE) + g[s \ {CHOOSE x \in s : TRUE}]]
           G == CHOOSE g : Eq(g)
           pick == [s \in SUBSET D |-> CHOOSE x \in s : TRUE]
<1>1. \A s \in SUBSET D : s # {} => pick[s] \in s
  BY Zenon
<1>2. f \in [D -> Int] /\ IsFiniteSet(D) /\ \A s \in SUBSET D : s # {} => f[pick[s]] = Value(b, pick[s])
  <2>1. D \in SUBSET Instruments
    BY DEF Held
  <2>2. IsFiniteSet(D)
    <3> HIDE DEF D
    <3> QED BY <2>1, InstrumentsFinite, FS_Subset
  <2>3. \A s \in SUBSET D : s # {} => pick[s] \in D
    BY <1>1
  <2> HIDE DEF pick, D
  <2> QED BY <2>2, <2>3 DEF D
<1>3. PICK g : SumsBy(g, D, f, pick) /\ Sums(g, D, f)
  <2> HIDE DEF pick, f, D
  <2> QED BY <1>1, <1>2, SumsExist, Zenon
<1>4. Eq(g)
  <2>1. \A s \in SUBSET D : s # {} => f[pick[s]] = Value(b, CHOOSE x \in s : TRUE)
    BY <1>2
  <2>2. \A s \in SUBSET D : pick[s] = CHOOSE x \in s : TRUE
    OBVIOUS
  <2> HIDE DEF f, pick, D
  <2> QED BY <1>3, <2>1, <2>2 DEF SumsBy
<1>5. Eq(G)
  BY <1>4, Zenon
<1>6. /\ G[{}] = 0 /\ G = [s \in SUBSET D |-> G[s]]
      /\ \A s \in SUBSET D : s # {} => G[s] = f[pick[s]] + G[s \ {pick[s]}]
  <2>1. \A s \in SUBSET D : s # {} => f[pick[s]] = Value(b, CHOOSE x \in s : TRUE)
    BY <1>2
  <2>2. \A s \in SUBSET D : pick[s] = CHOOSE x \in s : TRUE
    OBVIOUS
  <2> HIDE DEF G, f, pick, D
  <2> QED BY <1>5, <2>1, <2>2
<1>7. Sums(G, D, f)
  <2> HIDE DEF G, f, pick, D
  <2> QED BY <1>1, <1>2, <1>6, SumsFollow
<1>8. Gross(b) = G[D]
  BY Zenon DEF Gross, MapThenSumSet, MapThenFoldSet
<1> HIDE DEF G, f, pick, D
<1> QED BY <1>7, <1>8 DEF Sums, D

-----------------------------------------------------------------------------
(* The folds of the engine *)

\* What each close keeps, the settlement keeps.
LEMMA SettledStays ==
  ASSUME NEW snapshot, NEW T, NEW b \in T,
         \A x \in T, i \in Instruments : Closed(x, snapshot, i) \in T
  PROVE  Settled(b, snapshot) \in T
<1> DEFINE op == [p \in T \X (1 .. N) |-> Closed(p[1], snapshot, p[2])]
           Eq(f) == f = [s \in SUBSET (1 .. N) |->
                           IF s = {} THEN b ELSE Closed(f[s \ {Max(s)}], snapshot, All[Max(s)])]
           F == CHOOSE f : Eq(f)
<1>1. N \in Nat /\ Instruments = 1 .. N
  BY BookConstants DEF Instruments
<1>2. op \in [T \X (1 .. N) -> T]
      /\ \A x \in T, i \in 1 .. N : op[<<x, i>>] = Closed(x, snapshot, i)
  BY <1>1
<1>3. \A s \in SUBSET (1 .. N) : s # {} => Max(s) \in 1 .. N /\ All[Max(s)] = Max(s)
  BY <1>1, LastOne DEF All
<1>4. PICK g : FoldsLeft(g, N, T, b, op)
  <2> HIDE DEF op
  <2> QED BY <1>1, <1>2, FoldsLeftExist, Zenon
<1>5. Eq(g)
  <2>1. \A s \in SUBSET (1 .. N) : s # {} => g[s] = Closed(g[s \ {Max(s)}], snapshot, All[Max(s)])
    <3> HIDE DEF op
    <3> QED BY <1>2, <1>3, <1>4 DEF FoldsLeft
  <2> QED BY <2>1, <1>4 DEF FoldsLeft
<1>6. Eq(F)
  BY <1>5, Zenon
<1>7. Follows(F, N, T, b, op)
  <2> HIDE DEF F, op
  <2> QED BY <1>2, <1>3, <1>6 DEF Follows
<1>8. PICK h : Climbs(h, N, T, b, op, F[1 .. N])
  <2> HIDE DEF F, op
  <2> QED BY <1>1, <1>2, <1>7, FoldsClimb, Zenon
<1>9. Settled(b, snapshot) = F[1 .. N]
  BY Zenon DEF Settled, FoldLeft, MapThenFoldSet, All, Instruments
<1> HIDE DEF F, op
<1> QED BY <1>1, <1>8, <1>9 DEF Climbs

\* What each sale keeps, the sales keep.
LEMMA SellsStay ==
  ASSUME NEW snapshot, NEW delta, NEW T, NEW b \in T,
         \A x \in T, i \in Instruments : Lowered(x, snapshot, delta, i) \in T
  PROVE  Sells(b, snapshot, delta) \in T
<1> DEFINE op == [p \in T \X (1 .. N) |-> Lowered(p[1], snapshot, delta, p[2])]
           Eq(f) == f = [s \in SUBSET (1 .. N) |->
                           IF s = {} THEN b ELSE Lowered(f[s \ {Max(s)}], snapshot, delta, All[Max(s)])]
           F == CHOOSE f : Eq(f)
<1>1. N \in Nat /\ Instruments = 1 .. N
  BY BookConstants DEF Instruments
<1>2. op \in [T \X (1 .. N) -> T]
      /\ \A x \in T, i \in 1 .. N : op[<<x, i>>] = Lowered(x, snapshot, delta, i)
  BY <1>1
<1>3. \A s \in SUBSET (1 .. N) : s # {} => Max(s) \in 1 .. N /\ All[Max(s)] = Max(s)
  BY <1>1, LastOne DEF All
<1>4. PICK g : FoldsLeft(g, N, T, b, op)
  <2> HIDE DEF op
  <2> QED BY <1>1, <1>2, FoldsLeftExist, Zenon
<1>5. Eq(g)
  <2>1. \A s \in SUBSET (1 .. N) : s # {} => g[s] = Lowered(g[s \ {Max(s)}], snapshot, delta, All[Max(s)])
    <3> HIDE DEF op
    <3> QED BY <1>2, <1>3, <1>4 DEF FoldsLeft
  <2> QED BY <2>1, <1>4 DEF FoldsLeft
<1>6. Eq(F)
  BY <1>5, Zenon
<1>7. Follows(F, N, T, b, op)
  <2> HIDE DEF F, op
  <2> QED BY <1>2, <1>3, <1>6 DEF Follows
<1>8. PICK h : Climbs(h, N, T, b, op, F[1 .. N])
  <2> HIDE DEF F, op
  <2> QED BY <1>1, <1>2, <1>7, FoldsClimb, Zenon
<1>9. Sells(b, snapshot, delta) = F[1 .. N]
  BY Zenon DEF Sells, FoldLeft, MapThenFoldSet, All, Instruments
<1> HIDE DEF F, op
<1> QED BY <1>1, <1>8, <1>9 DEF Climbs

\* What each purchase keeps, the purchases keep.
LEMMA BuysStay ==
  ASSUME NEW snapshot, NEW delta, NEW T, NEW b \in T,
         \A x \in T, i \in Instruments : Raised(x, snapshot, delta, i) \in T
  PROVE  Buys(b, snapshot, delta) \in T
<1> DEFINE op == [p \in T \X (1 .. N) |-> Raised(p[1], snapshot, delta, p[2])]
           Eq(f) == f = [s \in SUBSET (1 .. N) |->
                           IF s = {} THEN b ELSE Raised(f[s \ {Max(s)}], snapshot, delta, All[Max(s)])]
           F == CHOOSE f : Eq(f)
<1>1. N \in Nat /\ Instruments = 1 .. N
  BY BookConstants DEF Instruments
<1>2. op \in [T \X (1 .. N) -> T]
      /\ \A x \in T, i \in 1 .. N : op[<<x, i>>] = Raised(x, snapshot, delta, i)
  BY <1>1
<1>3. \A s \in SUBSET (1 .. N) : s # {} => Max(s) \in 1 .. N /\ All[Max(s)] = Max(s)
  BY <1>1, LastOne DEF All
<1>4. PICK g : FoldsLeft(g, N, T, b, op)
  <2> HIDE DEF op
  <2> QED BY <1>1, <1>2, FoldsLeftExist, Zenon
<1>5. Eq(g)
  <2>1. \A s \in SUBSET (1 .. N) : s # {} => g[s] = Raised(g[s \ {Max(s)}], snapshot, delta, All[Max(s)])
    <3> HIDE DEF op
    <3> QED BY <1>2, <1>3, <1>4 DEF FoldsLeft
  <2> QED BY <2>1, <1>4 DEF FoldsLeft
<1>6. Eq(F)
  BY <1>5, Zenon
<1>7. Follows(F, N, T, b, op)
  <2> HIDE DEF F, op
  <2> QED BY <1>2, <1>3, <1>6 DEF Follows
<1>8. PICK h : Climbs(h, N, T, b, op, F[1 .. N])
  <2> HIDE DEF F, op
  <2> QED BY <1>1, <1>2, <1>7, FoldsClimb, Zenon
<1>9. Buys(b, snapshot, delta) = F[1 .. N]
  BY Zenon DEF Buys, FoldLeft, MapThenFoldSet, All, Instruments
<1> HIDE DEF F, op
<1> QED BY <1>1, <1>8, <1>9 DEF Climbs

\* The books between the legs of the seed.
Legwork(h, T, b, snapshot, lacking) ==
  /\ h \in [0 .. N -> T]
  /\ h[0] = b /\ h[N] = Legs(b, snapshot, lacking)
  /\ \A k \in 1 .. N : h[k] = Leg(h[k - 1], snapshot, lacking, k)

\* The seed goes from leg to leg.
LEMMA LegsClimb ==
  ASSUME NEW snapshot, NEW lacking, NEW T, NEW b \in T,
         \A x \in T, i \in Instruments : Leg(x, snapshot, lacking, i) \in T
  PROVE  \E h : Legwork(h, T, b, snapshot, lacking)
<1> DEFINE op == [p \in T \X (1 .. N) |-> Leg(p[1], snapshot, lacking, p[2])]
           Eq(f) == f = [s \in SUBSET (1 .. N) |->
                           IF s = {} THEN b ELSE Leg(f[s \ {Max(s)}], snapshot, lacking, All[Max(s)])]
           F == CHOOSE f : Eq(f)
<1>1. N \in Nat /\ Instruments = 1 .. N
  BY BookConstants DEF Instruments
<1>2. op \in [T \X (1 .. N) -> T]
      /\ \A x \in T, i \in 1 .. N : op[<<x, i>>] = Leg(x, snapshot, lacking, i)
  BY <1>1
<1>3. \A s \in SUBSET (1 .. N) : s # {} => Max(s) \in 1 .. N /\ All[Max(s)] = Max(s)
  BY <1>1, LastOne DEF All
<1>4. PICK g : FoldsLeft(g, N, T, b, op)
  <2> HIDE DEF op
  <2> QED BY <1>1, <1>2, FoldsLeftExist, Zenon
<1>5. Eq(g)
  <2>1. \A s \in SUBSET (1 .. N) : s # {} => g[s] = Leg(g[s \ {Max(s)}], snapshot, lacking, All[Max(s)])
    <3> HIDE DEF op
    <3> QED BY <1>2, <1>3, <1>4 DEF FoldsLeft
  <2> QED BY <2>1, <1>4 DEF FoldsLeft
<1>6. Eq(F)
  BY <1>5, Zenon
<1>7. Follows(F, N, T, b, op)
  <2> HIDE DEF F, op
  <2> QED BY <1>2, <1>3, <1>6 DEF Follows
<1>8. PICK h : Climbs(h, N, T, b, op, F[1 .. N])
  <2> HIDE DEF F, op
  <2> QED BY <1>1, <1>2, <1>7, FoldsClimb, Zenon
<1>9. Legs(b, snapshot, lacking) = F[1 .. N]
  BY Zenon DEF Legs, FoldLeft, MapThenFoldSet, All, Instruments
<1>10. \A k \in 1 .. N : k - 1 \in 0 .. N
  BY <1>1
<1> HIDE DEF F, op
<1>11. \A k \in 1 .. N : h[k] = Leg(h[k - 1], snapshot, lacking, k)
  <2>1. \A k \in 1 .. N : h[k - 1] \in T /\ h[k] = op[<<h[k - 1], k>>]
    BY <1>8, <1>10 DEF Climbs
  <2> QED BY <1>2, <2>1
<1> QED BY <1>8, <1>9, <1>11 DEF Climbs, Legwork

\* What each allotment keeps, the targets keep.
LEMMA AllottedStays ==
  ASSUME NEW eligible, NEW cap, NEW ranking, ranking \in [Instruments -> Instruments],
         NEW T, NEW b \in T,
         \A x \in T, i \in Instruments : Given(x, i, eligible, cap) \in T
  PROVE  Allotted(b, eligible, cap, ranking) \in T
<1> DEFINE op == [p \in T \X (1 .. N) |-> Given(p[1], ranking[p[2]], eligible, cap)]
           Eq(f) == f = [s \in SUBSET (1 .. N) |->
                           IF s = {} THEN b ELSE Given(f[s \ {Max(s)}], ranking[Max(s)], eligible, cap)]
           F == CHOOSE f : Eq(f)
<1>1. N \in Nat /\ Instruments = 1 .. N
  BY BookConstants DEF Instruments
<1>2. op \in [T \X (1 .. N) -> T]
      /\ \A x \in T, i \in 1 .. N : op[<<x, i>>] = Given(x, ranking[i], eligible, cap)
  BY <1>1
<1>3. \A s \in SUBSET (1 .. N) : s # {} => Max(s) \in 1 .. N
  BY <1>1, LastOne
<1>4. PICK g : FoldsLeft(g, N, T, b, op)
  <2> HIDE DEF op
  <2> QED BY <1>1, <1>2, FoldsLeftExist, Zenon
<1>5. Eq(g)
  <2>1. \A s \in SUBSET (1 .. N) : s # {} => g[s] = Given(g[s \ {Max(s)}], ranking[Max(s)], eligible, cap)
    <3> HIDE DEF op
    <3> QED BY <1>2, <1>3, <1>4 DEF FoldsLeft
  <2> QED BY <2>1, <1>4 DEF FoldsLeft
<1>6. Eq(F)
  BY <1>5, Zenon
<1>7. Follows(F, N, T, b, op)
  <2> HIDE DEF F, op
  <2> QED BY <1>2, <1>3, <1>6 DEF Follows
<1>8. PICK h : Climbs(h, N, T, b, op, F[1 .. N])
  <2> HIDE DEF F, op
  <2> QED BY <1>1, <1>2, <1>7, FoldsClimb, Zenon
<1>9. Allotted(b, eligible, cap, ranking) = F[1 .. N]
  BY Zenon DEF Allotted, FoldLeft, MapThenFoldSet, Instruments
<1> HIDE DEF F, op
<1> QED BY <1>1, <1>8, <1>9 DEF Climbs

-----------------------------------------------------------------------------
(* Rounding *)

\* A quotient and its rest.
LEMMA Quotient ==
  ASSUME NEW x \in Int, NEW y \in Nat \ {0}
  PROVE  /\ x \div y \in Int /\ x % y \in Int
         /\ x = (x \div y) * y + (x % y)
         /\ 0 <= x % y /\ x % y < y
  OBVIOUS

\* A quotient is the greatest below.
LEMMA Floor ==
  ASSUME NEW x \in Int, NEW y \in Nat \ {0}
  PROVE  x \div y \in Int /\ (x \div y) * y <= x /\ x < (x \div y) * y + y
  OBVIOUS

\* Multiples as close as the divisor are in order.
LEMMA Between ==
  ASSUME NEW y \in Nat \ {0}, NEW q \in Int, NEW r \in Int, q * y < r * y + y
  PROVE  q <= r
  OBVIOUS

\* Only the quotient is the greatest below.
LEMMA QuotientUnique ==
  ASSUME NEW x \in Int, NEW y \in Nat \ {0}, NEW q \in Int, q * y <= x, x < q * y + y
  PROVE  x \div y = q
<1> DEFINE p == x \div y
<1>1. p \in Int /\ p * y <= x /\ x < p * y + y
  BY Quotient
<1> HIDE DEF p
<1>2. q * y < p * y + y /\ p * y < q * y + y
  BY <1>1
<1>3. q <= p /\ p <= q
  BY <1>1, <1>2, Between
<1> QED BY <1>1, <1>3 DEF p

\* A rounded quotient is an integer, and not negative for a natural.
LEMMA RoundedType ==
  ASSUME NEW x \in Int, NEW y \in Nat \ {0}
  PROVE  Rounded(x, y) \in Int /\ (x >= 0 => Rounded(x, y) >= 0)
  BY DEF Rounded

\* A rate of an amount is an integer.
LEMMA BpsType ==
  ASSUME NEW x \in Int, NEW bps \in Nat
  PROVE  Bps(x, bps) \in Int
  BY RoundedType DEF Bps

\* A rate of a few basis points costs at most twice its share: half a cent more, and only once
\* the share is half a cent.
LEMMA BpsBounds ==
  ASSUME NEW x \in Nat, NEW bps \in Nat
  PROVE  /\ Bps(x, bps) \in Nat
         /\ Bps(x, bps) * 10000 <= x * bps + 5000
         /\ Bps(x, bps) * 10000 <= 2 * (x * bps)
         /\ x * bps < 5000 => Bps(x, bps) = 0
<1> DEFINE y == x * bps
<1>1. y \in Nat
  OBVIOUS
<1>2. Bps(x, bps) = (y + 5000) \div 10000
  BY DEF Bps, Rounded
<1> HIDE DEF y
<1> QED BY <1>1, <1>2 DEF y

\* What is left without a rate is at most what the rate says.
LEMMA WithoutBounds ==
  ASSUME NEW x \in Nat, NEW bps \in Nat
  PROVE  Without(x, bps) \in Nat /\ Without(x, bps) * (10000 + bps) <= x * 10000
<1> DEFINE d == 10000 + bps
           q == x \div d
           r == x % d
           v == r * 10000
           s == v \div d
<1>1. d \in Nat \ {0}
  OBVIOUS
<1> HIDE DEF d
<1>2. q \in Int /\ r \in Int /\ x = q * d + r /\ 0 <= r /\ r < d /\ q * d <= x /\ x < q * d + d
  BY <1>1, Quotient, Floor
<1>3. q >= 0
  <2>1. 0 * d < q * d + d
    BY <1>1, <1>2
  <2> QED BY <1>1, <1>2, <2>1, Between
<1> HIDE DEF q, r
<1>4. s \in Int /\ s * d <= r * 10000 /\ r * 10000 < s * d + d
  <2>1. v \in Int
    BY <1>2
  <2> HIDE DEF v
  <2>2. s \in Int /\ s * d <= v /\ v < s * d + d
    BY <1>1, <2>1, Floor
  <2> QED BY <2>2 DEF v
<1>5. s >= 0
  <2>1. s * d \in Int
    BY <1>1, <1>4
  <2>2. 0 * d < s * d + d
    BY <1>1, <1>2, <1>4, <2>1
  <2> QED BY <1>1, <1>4, <2>2, Between
<1>6. Without(x, bps) = q * 10000 + s
  BY DEF Without, q, s, v, r, d
<1> HIDE DEF s
<1>7. (q * 10000 + s) * d = q * d * 10000 + s * d
  BY <1>1, <1>2, <1>4
<1>8. (q * 10000 + s) * d <= x * 10000
  <2>1. q * d \in Int /\ s * d \in Int
    BY <1>1, <1>2, <1>4
  <2> QED BY <1>2, <1>4, <1>7, <2>1
<1> QED BY <1>2, <1>3, <1>4, <1>5, <1>6, <1>8 DEF d

\* The share in 32 bits is the rounded product over the total.
LEMMA ShareRounds ==
  ASSUME NEW part \in Int, NEW whole \in Nat, NEW total \in Nat \ {0}
  PROVE  Share(part, whole, total) = Rounded(part * whole, total)
<1> DEFINE a == whole \div 1000
           c == whole % 1000
           high == part * a
           q == high \div total
           m == high % total
           rest == m * 1000 + part * c
           half == total \div 2
           r == (rest + half) \div total
<1>1. a \in Int /\ c \in Int /\ whole = a * 1000 + c
  OBVIOUS
<1>2. high \in Int
  BY <1>1
<1>3. q \in Int /\ m \in Int /\ high = q * total + m
  <2> HIDE DEF high
  <2> QED BY <1>2, Quotient
<1>4. rest \in Int /\ half \in Int
  BY <1>1, <1>3
<1>5. r \in Int /\ r * total <= rest + half /\ rest + half < r * total + total
  <2> HIDE DEF rest, half
  <2> QED BY <1>4, Quotient
<1>6. part * whole = high * 1000 + part * c
  <2> HIDE DEF a, c
  <2> QED BY <1>1
<1>7. part * whole + half = q * total * 1000 + rest + half
  <2> HIDE DEF a, c, high, q, m, half
  <2> QED BY <1>1, <1>2, <1>3, <1>4, <1>6
<1> DEFINE s == q * 1000 + r
<1>8. s \in Int /\ s * total = q * total * 1000 + r * total
  <2> HIDE DEF q, r
  <2> QED BY <1>3, <1>5
<1>9. s * total <= part * whole + half /\ part * whole + half < s * total + total
  <2> HIDE DEF s, q, rest, half, r
  <2>1. part * whole \in Int /\ q * total * 1000 \in Int /\ r * total \in Int
    BY <1>3, <1>5
  <2> QED BY <1>4, <1>5, <1>7, <1>8, <2>1
<1>10. part * whole + half \in Int
  <2> HIDE DEF half
  <2> QED BY <1>4
<1>11. (part * whole + half) \div total = s
  <2> HIDE DEF s, half
  <2> QED BY <1>8, <1>9, <1>10, QuotientUnique
<1>12. Share(part, whole, total) = q * 1000 + r
  BY DEF Share, Rounded
<1> QED BY <1>11, <1>12 DEF Rounded

\* The share of everything is everything.
LEMMA ShareWhole ==
  ASSUME NEW part \in Int, NEW total \in Nat \ {0}
  PROVE  Share(part, total, total) = part
<1> DEFINE half == total \div 2
<1>1. half \in Int /\ 0 <= half /\ half < total
  OBVIOUS
<1>2. part * total \in Int
  OBVIOUS
<1>3. (part * total + half) \div total = part
  <2> HIDE DEF half
  <2>1. part * total + half \in Int /\ part * total <= part * total + half
        /\ part * total + half < part * total + total
    BY <1>1, <1>2
  <2> QED BY <2>1, QuotientUnique
<1> QED BY <1>3, ShareRounds DEF Rounded

\* The shares of the two parts of a split are the whole, or a cent more.
LEMMA ShareSplit ==
  ASSUME NEW part \in Int, NEW total \in Nat \ {0}, NEW sold \in 0 .. total
  PROVE  Share(part, sold, total) + Share(part, total - sold, total) - part \in {0, 1}
<1> DEFINE half == total \div 2
           x == part * sold
           y == part * (total - sold)
           p == (x + half) \div total
           q == (y + half) \div total
<1>1. half \in Int /\ half * 2 <= total /\ total < half * 2 + 2 /\ half >= 0
  OBVIOUS
<1>2. x \in Int /\ y \in Int /\ x + y = part * total
  OBVIOUS
<1>3. p \in Int /\ p * total <= x + half /\ x + half < p * total + total
  <2> HIDE DEF half, x
  <2>1. x + half \in Int
    BY <1>1, <1>2
  <2> QED BY <2>1, Floor
<1>4. q \in Int /\ q * total <= y + half /\ y + half < q * total + total
  <2> HIDE DEF half, y
  <2>1. y + half \in Int
    BY <1>1, <1>2
  <2> QED BY <2>1, Floor
<1> DEFINE d == p + q - part
<1>5. d \in Int /\ d * total = p * total + q * total - part * total
  <2> HIDE DEF p, q
  <2> QED BY <1>3, <1>4, Z3
<1>6. d * total <= total /\ 0 < d * total + total
  <2> HIDE DEF d, p, q, x, y, half
  <2>1. p * total \in Int /\ q * total \in Int /\ part * total \in Int /\ d * total \in Int
    BY <1>3, <1>4, <1>5
  <2> QED BY <1>1, <1>2, <1>3, <1>4, <1>5, <2>1
<1>7. d \in {0, 1}
  <2> HIDE DEF d
  <2>1. d * total < 1 * total + total /\ 0 * total < d * total + total
    BY <1>5, <1>6
  <2>2. d <= 1 /\ 0 <= d
    BY <1>5, <2>1, Between
  <2> QED BY <1>5, <2>2
<1>8. Share(part, sold, total) = p /\ Share(part, total - sold, total) = q
  <2>1. sold \in Nat /\ total - sold \in Nat
    OBVIOUS
  <2> QED BY <2>1, ShareRounds DEF Rounded
<1> QED BY <1>7, <1>8

-----------------------------------------------------------------------------
(* The books as data *)

Books == [kind : Kinds, line : Lines, cash : Int, realized : Int,
          quantity : [Instruments -> Int], basis : [Instruments -> Int],
          mark : [Instruments -> Nat], stale : SUBSET Instruments,
          complete : BOOLEAN, crashed : BOOLEAN, sales : Nat]

\* Each sale that splits a position makes at most a cent.
Drift(b) == b.cash + Total(b.basis) - Start - b.realized
Balanced(b) == Drift(b) \in 0 .. b.sales

\* A trade changes nothing but cash, results and positions.
Alike(x, b) ==
  /\ x.kind = b.kind /\ x.line = b.line /\ x.stale = b.stale
  /\ x.complete = b.complete /\ x.crashed = b.crashed

\* Every kind of book has its rates.
LEMMA KindCosts ==
  ASSUME NEW kind \in Kinds
  PROVE  /\ Fee(kind) \in Nat /\ AdverseBps(kind) \in Nat
         /\ Adverse(kind).spread \in Nat /\ Adverse(kind).slippage \in Nat
         /\ Adverse(kind).impact \in Nat /\ Adverse(kind).latency \in Nat
<1>1. CASE kind = "prediction"
  BY <1>1 DEF Fee, AdverseBps, Adverse
<1>2. CASE kind = "crypto"
  BY <1>2 DEF Fee, AdverseBps, Adverse
<1>3. CASE kind = "equity"
  BY <1>3 DEF Fee, AdverseBps, Adverse
<1> QED BY <1>1, <1>2, <1>3, BookConstants

\* Friction is an integer.
LEMMA FrictionType ==
  ASSUME NEW kind \in Kinds, NEW gross \in Int
  PROVE  Friction(kind, gross) \in Int
<1>1. /\ Bps(gross, Adverse(kind).spread) \in Int /\ Bps(gross, Adverse(kind).slippage) \in Int
      /\ Bps(gross, Adverse(kind).impact) \in Int /\ Bps(gross, Adverse(kind).latency) \in Int
  BY KindCosts, BpsType
<1> QED BY <1>1 DEF Friction

\* So is what a purchase takes from the cash.
LEMMA OutlayType ==
  ASSUME NEW kind \in Kinds, NEW notional \in Int
  PROVE  Outlay(kind, notional) \in Int
<1>1. Friction(kind, notional) \in Int /\ Bps(notional, Fee(kind)) \in Int
  BY KindCosts, BpsType, FrictionType
<1> DEFINE gross == notional + Bps(notional, AdverseBps(kind))
<1>2. gross \in Int
  <2>1. Bps(notional, AdverseBps(kind)) \in Int
    BY KindCosts, BpsType
  <2> QED BY <2>1
<1>3. Bps(gross, Fee(kind)) \in Int
  <2> HIDE DEF gross
  <2> QED BY <1>2, KindCosts, BpsType
<1> QED BY <1>1, <1>2, <1>3 DEF Outlay

\* The costs of a sale are never more than what it brings.
LEMMA ProceedsType ==
  ASSUME NEW kind \in Kinds, NEW gross \in Nat
  PROVE  NetProceeds(kind, gross) \in Nat
<1>1. CASE kind = "prediction"
  <2> DEFINE a == Bps(gross, 25)
             b == Bps(gross, 10)
             c == Bps(gross, 5)
             d == Bps(gross, 0)
  <2>1. NetProceeds(kind, gross) = gross - (a + b + c + b) - d
    BY <1>1 DEF NetProceeds, Friction, Adverse, Fee
  <2>2. a \in Nat /\ a * 10000 <= 2 * (gross * 25)
    BY BpsBounds
  <2>3. b \in Nat /\ b * 10000 <= 2 * (gross * 10)
    BY BpsBounds
  <2>4. c \in Nat /\ c * 10000 <= 2 * (gross * 5)
    BY BpsBounds
  <2>5. d \in Nat /\ d * 10000 <= 2 * (gross * 0)
    BY BpsBounds
  <2> HIDE DEF a, b, c, d
  <2> QED BY <2>1, <2>2, <2>3, <2>4, <2>5
<1>2. ASSUME NEW adverse \in 0 .. 50, NEW fee \in 0 .. 50
      PROVE  gross - Bps(gross, adverse) - Bps(gross - Bps(gross, adverse), fee) \in Nat
  <2> DEFINE a == Bps(gross, adverse)
             got == gross - a
             f == Bps(got, fee)
  <2>1. adverse \in Nat /\ gross * adverse \in Nat /\ gross * adverse <= gross * 50
    OBVIOUS
  <2>2. a \in Nat /\ a * 10000 <= 2 * (gross * adverse)
    BY <2>1, BpsBounds
  <2>3. got \in Nat
    <3> HIDE DEF a
    <3> QED BY <2>1, <2>2
  <2> HIDE DEF got
  <2>4. fee \in Nat /\ got * fee \in Nat /\ got * fee <= got * 50
    BY <2>3
  <2>5. f \in Nat /\ f * 10000 <= 2 * (got * fee)
    BY <2>3, <2>4, BpsBounds
  <2>6. got - f \in Nat
    <3> HIDE DEF f
    <3> QED BY <2>3, <2>4, <2>5
  <2> QED BY <2>6 DEF got
<1>3. CASE kind = "crypto"
  BY <1>2, <1>3 DEF NetProceeds, AdverseBps, Adverse, Fee
<1>4. CASE kind = "equity"
  BY <1>2, <1>4 DEF NetProceeds, AdverseBps, Adverse, Fee
<1> QED BY <1>1, <1>3, <1>4, BookConstants

\* So is the value of a position.
LEMMA ValueType ==
  ASSUME NEW b \in Books, NEW i \in Instruments
  PROVE  Value(b, i) \in Int /\ (b.quantity[i] >= 0 => Value(b, i) >= 0)
<1>1. b.quantity[i] \in Int /\ b.mark[i] \in Nat
  BY DEF Books
<1>2. b.quantity[i] * b.mark[i] \in Int /\ (b.quantity[i] >= 0 => b.quantity[i] * b.mark[i] >= 0)
  BY <1>1
<1> QED BY <1>2, RoundedType, BookConstants DEF Value

\* So is the equity of a book.
LEMMA EquityType ==
  ASSUME NEW b \in Books
  PROVE  Equity(b) \in Int
<1>1. Gross(b) \in Int
  BY ValueType, GrossType DEF Held
<1> QED BY <1>1 DEF Equity, Books

\* The minimum of two.
LEMMA PairMin ==
  ASSUME NEW x \in Int, NEW y \in Int
  PROVE  Min({x, y}) = IF x <= y THEN x ELSE y
<1>1. \E m \in {x, y} : \A n \in {x, y} : m =< n
  OBVIOUS
<1>2. Min({x, y}) \in {x, y} /\ \A n \in {x, y} : Min({x, y}) =< n
  BY <1>1, Zenon DEF Min
<1> QED BY <1>2

\* A book with other amounts.
Amounts(b, cash, realized, quantity, basis, mark, sales) ==
  [kind |-> b.kind, line |-> b.line, cash |-> cash, realized |-> realized,
   quantity |-> quantity, basis |-> basis, mark |-> mark, stale |-> b.stale,
   complete |-> b.complete, crashed |-> b.crashed, sales |-> sales]

\* A change of the cash, as other amounts.
LEMMA CashSet ==
  ASSUME NEW b \in Books, NEW cash
  PROVE  [b EXCEPT !.cash = cash]
           = Amounts(b, cash, b.realized, b.quantity, b.basis, b.mark, b.sales)
  BY DEF Books, Amounts

\* What a buy and a sale write, field by field.
LEMMA BuyAmounts ==
  ASSUME NEW b \in Books, NEW i \in Instruments, NEW m, NEW notional
  PROVE  Buy(b, i, m, notional)
           = Amounts(b, b.cash - Outlay(b.kind, notional), b.realized,
                     [b.quantity EXCEPT ![i] = Filled(b.kind, b.quantity[i], m, notional)],
                     [b.basis EXCEPT ![i] = b.basis[i] + Outlay(b.kind, notional)],
                     [b.mark EXCEPT ![i] = m], b.sales)
<1> DEFINE outlay == Outlay(b.kind, notional)
           cash == b.cash - outlay
           quantity == [b.quantity EXCEPT ![i] = Filled(b.kind, b.quantity[i], m, notional)]
           basis == [b.basis EXCEPT ![i] = b.basis[i] + outlay]
           mark == [b.mark EXCEPT ![i] = m]
           x1 == [b EXCEPT !.cash = cash]
           x2 == [x1 EXCEPT !.basis = basis]
           x3 == [x2 EXCEPT !.mark = mark]
           x4 == [x3 EXCEPT !.quantity = quantity]
<1>1. x1.basis = b.basis /\ x2.mark = b.mark /\ x3.quantity = b.quantity
  BY DEF Books
<1>2. Buy(b, i, m, notional) = x4
  BY DEF Buy, Books
<1> HIDE DEF outlay, cash, quantity, basis, mark
<1>3. x1 = Amounts(b, cash, b.realized, b.quantity, b.basis, b.mark, b.sales)
  BY CashSet
<1> HIDE DEF x1
<1>4. x2 = Amounts(b, cash, b.realized, b.quantity, basis, b.mark, b.sales)
  BY <1>3 DEF Amounts
<1> HIDE DEF x2
<1>5. x3 = Amounts(b, cash, b.realized, b.quantity, basis, mark, b.sales)
  BY <1>4 DEF Amounts
<1> HIDE DEF x3
<1>6. x4 = Amounts(b, cash, b.realized, quantity, basis, mark, b.sales)
  BY <1>5 DEF Amounts
<1> QED BY <1>2, <1>6 DEF outlay, cash, quantity, basis, mark

\* The same of a sale.
LEMMA SellAmounts ==
  ASSUME NEW b \in Books, NEW i \in Instruments, NEW m, NEW sold, NEW net, NEW left,
         left = IF sold = b.quantity[i] THEN 0
                ELSE BasisLeft(b.basis[i], b.quantity[i] - sold, b.quantity[i])
  PROVE  Sell(b, i, m, sold, net)
           = Amounts(b, b.cash + net,
                     b.realized + net - Share(b.basis[i], sold, b.quantity[i]),
                     [b.quantity EXCEPT ![i] = b.quantity[i] - sold],
                     [b.basis EXCEPT ![i] = left],
                     [b.mark EXCEPT ![i] = m], b.sales + 1)
<1> DEFINE cash == b.cash + net
           realized == b.realized + net - Share(b.basis[i], sold, b.quantity[i])
           quantity == [b.quantity EXCEPT ![i] = b.quantity[i] - sold]
           mark == [b.mark EXCEPT ![i] = m]
           sales == b.sales + 1
           basis == [b.basis EXCEPT ![i] = left]
           x1 == [b EXCEPT !.cash = cash]
           x2 == [x1 EXCEPT !.realized = realized]
           x3 == [x2 EXCEPT !.quantity = quantity]
           x4 == [x3 EXCEPT !.mark = mark]
           x5 == [x4 EXCEPT !.sales = sales]
           x6 == [x5 EXCEPT !.basis = basis]
<1>1. x1.realized = b.realized /\ x2.quantity = b.quantity /\ x3.mark = b.mark
      /\ x4.sales = b.sales /\ x5.basis = b.basis
  BY DEF Books
<1>2. Sell(b, i, m, sold, net) = x6
  BY DEF Sell, Books
<1> HIDE DEF cash, realized, quantity, mark, sales, basis
<1>3. x1 = Amounts(b, cash, b.realized, b.quantity, b.basis, b.mark, b.sales)
  BY CashSet
<1> HIDE DEF x1
<1>4. x2 = Amounts(b, cash, realized, b.quantity, b.basis, b.mark, b.sales)
  BY <1>3 DEF Amounts
<1> HIDE DEF x2
<1>5. x3 = Amounts(b, cash, realized, quantity, b.basis, b.mark, b.sales)
  BY <1>4 DEF Amounts
<1> HIDE DEF x3
<1>6. x4 = Amounts(b, cash, realized, quantity, b.basis, mark, b.sales)
  BY <1>5 DEF Amounts
<1> HIDE DEF x4
<1>7. x5 = Amounts(b, cash, realized, quantity, b.basis, mark, sales)
  BY <1>6 DEF Amounts
<1> HIDE DEF x5
<1>8. x6 = Amounts(b, cash, realized, quantity, basis, mark, sales)
  BY <1>7 DEF Amounts
<1> QED BY <1>2, <1>8 DEF cash, realized, quantity, mark, sales, basis

\* What a purchase leaves of the book, and what a sale does.
AfterBuy(x, b, i, m, notional) ==
  /\ x \in Books /\ Alike(x, b) /\ Drift(x) = Drift(b) /\ x.sales = b.sales
  /\ x.cash = b.cash - Outlay(b.kind, notional)
  /\ x.realized = b.realized
  /\ x.quantity = [b.quantity EXCEPT ![i] = Filled(b.kind, b.quantity[i], m, notional)]
  /\ x.basis = [b.basis EXCEPT ![i] = b.basis[i] + Outlay(b.kind, notional)]

AfterSale(x, b, i, sold, net) ==
  /\ x \in Books /\ Alike(x, b) /\ x.cash = b.cash + net
  /\ Drift(x) \in {Drift(b), Drift(b) + 1} /\ x.sales = b.sales + 1
  /\ x.quantity = [b.quantity EXCEPT ![i] = b.quantity[i] - sold]
  /\ \A j \in Instruments : x.basis[j] >= 0 \/ x.basis[j] = b.basis[j]

\* A purchase moves cash into cost, cent for cent.
LEMMA BuyKeeps ==
  ASSUME NEW b \in Books, NEW i \in Instruments, NEW m \in Nat \ {0}, NEW notional \in Int
  PROVE  AfterBuy(Buy(b, i, m, notional), b, i, m, notional)
<1> DEFINE x == Buy(b, i, m, notional)
           outlay == Outlay(b.kind, notional)
           filled == Filled(b.kind, b.quantity[i], m, notional)
<1>1. outlay \in Int
  BY OutlayType DEF Books
<1>2. filled \in Int
  <2>1. notional * Lot \in Int
    BY BookConstants
  <2>2. Rounded(notional * Lot, m) \in Int
    BY <2>1, RoundedType
  <2>3. b.quantity[i] \in Int
    BY DEF Books
  <2> QED BY <2>2, <2>3 DEF Filled
<1>3. x = Amounts(b, b.cash - outlay, b.realized, [b.quantity EXCEPT ![i] = filled],
                  [b.basis EXCEPT ![i] = b.basis[i] + outlay], [b.mark EXCEPT ![i] = m], b.sales)
  BY BuyAmounts
<1> HIDE DEF x, outlay, filled
<1>4. x \in Books /\ Alike(x, b) /\ x.sales = b.sales /\ x.realized = b.realized
      /\ x.cash = b.cash - outlay /\ x.quantity = [b.quantity EXCEPT ![i] = filled]
      /\ x.basis = [b.basis EXCEPT ![i] = b.basis[i] + outlay]
  <2> DEFINE cash == b.cash - outlay
             quantity == [b.quantity EXCEPT ![i] = filled]
             basis == [b.basis EXCEPT ![i] = b.basis[i] + outlay]
             mark == [b.mark EXCEPT ![i] = m]
  <2>1. cash \in Int /\ b.realized \in Int /\ quantity \in [Instruments -> Int]
        /\ basis \in [Instruments -> Int] /\ mark \in [Instruments -> Nat] /\ b.sales \in Nat
    BY <1>1, <1>2 DEF Books
  <2> HIDE DEF cash, quantity, basis, mark
  <2>2. x = Amounts(b, cash, b.realized, quantity, basis, mark, b.sales)
    BY <1>3 DEF cash, quantity, basis, mark
  <2>3. x \in Books /\ Alike(x, b) /\ x.sales = b.sales /\ x.realized = b.realized
        /\ x.cash = cash /\ x.quantity = quantity /\ x.basis = basis
    BY <2>1, <2>2 DEF Amounts, Alike, Books
  <2> QED BY <2>3 DEF cash, quantity, basis
<1>5. b.basis \in [Instruments -> Int] /\ b.basis[i] \in Int /\ b.cash \in Int /\ b.realized \in Int
  BY DEF Books
<1>6. Total(x.basis) = Total(b.basis) - b.basis[i] + (b.basis[i] + outlay)
  BY <1>1, <1>4, <1>5, TotalExcept
<1>7. Total(b.basis) \in Int /\ Start \in Int
  BY <1>5, TotalType, BookConstants DEF Start
<1>8. Drift(x) = Drift(b)
  BY <1>1, <1>4, <1>5, <1>6, <1>7 DEF Drift
<1> QED BY <1>4, <1>8 DEF AfterBuy, x, outlay, filled

\* A sale realises its result but for a cent.
LEMMA SellKeeps ==
  ASSUME NEW b \in Books, NEW i \in Instruments, NEW m \in Nat, NEW net \in Int,
         b.basis[i] >= 0, NEW sold \in Nat, 0 < sold, sold <= b.quantity[i]
  PROVE  AfterSale(Sell(b, i, m, sold, net), b, i, sold, net)
<1> DEFINE x == Sell(b, i, m, sold, net)
           held == b.quantity[i]
           whole == b.basis[i]
           cost == Share(whole, sold, held)
           left == IF sold = held THEN 0 ELSE BasisLeft(whole, held - sold, held)
<1>1. held \in Nat \ {0} /\ whole \in Nat /\ held - sold \in Nat
  BY DEF Books
<1>2. cost \in Int
  <2>1. whole * sold \in Int
    BY <1>1
  <2> HIDE DEF held, whole
  <2> QED BY <1>1, <2>1, ShareRounds, RoundedType
<1>3. left \in Int /\ left >= 0
  <2>1. whole * (held - sold) \in Int /\ whole * (held - sold) >= 0
    BY <1>1
  <2> HIDE DEF held, whole
  <2>2. Rounded(whole * (held - sold), held) \in Int /\ Rounded(whole * (held - sold), held) >= 0
    BY <1>1, <2>1, RoundedType
  <2>3. Share(whole, held - sold, held) = Rounded(whole * (held - sold), held)
    BY <1>1, ShareRounds
  <2> QED BY <2>2, <2>3 DEF BasisLeft
<1>4. left + cost - whole \in {0, 1}
  <2> HIDE DEF held, whole
  <2>1. CASE sold = held
    BY <1>1, <2>1, ShareWhole
  <2>2. CASE sold # held
    <3>1. sold \in 0 .. held
      BY <1>1
    <3>2. Share(whole, sold, held) + Share(whole, held - sold, held) - whole \in {0, 1}
      BY <1>1, <3>1, ShareSplit
    <3> QED BY <1>2, <1>3, <2>2, <3>2, <1>1 DEF BasisLeft
  <2> QED BY <2>1, <2>2
<1>5. x = Amounts(b, b.cash + net, b.realized + net - cost,
                  [b.quantity EXCEPT ![i] = held - sold], [b.basis EXCEPT ![i] = left],
                  [b.mark EXCEPT ![i] = m], b.sales + 1)
  BY SellAmounts
<1>6. b.basis \in [Instruments -> Int] /\ b.cash \in Int /\ b.realized \in Int /\ b.sales \in Nat
  BY DEF Books
<1>7. whole = b.basis[i] /\ held = b.quantity[i]
  OBVIOUS
<1> HIDE DEF x, held, whole, cost, left
<1>8. x \in Books /\ Alike(x, b) /\ x.sales = b.sales + 1
      /\ x.realized = b.realized + net - cost /\ x.cash = b.cash + net
      /\ x.quantity = [b.quantity EXCEPT ![i] = held - sold]
      /\ x.basis = [b.basis EXCEPT ![i] = left]
  <2> DEFINE cash == b.cash + net
             realized == b.realized + net - cost
             quantity == [b.quantity EXCEPT ![i] = held - sold]
             basis == [b.basis EXCEPT ![i] = left]
             mark == [b.mark EXCEPT ![i] = m]
             sales == b.sales + 1
  <2>1. cash \in Int /\ realized \in Int /\ quantity \in [Instruments -> Int]
        /\ basis \in [Instruments -> Int] /\ mark \in [Instruments -> Nat] /\ sales \in Nat
    BY <1>1, <1>2, <1>3 DEF Books
  <2> HIDE DEF cash, realized, quantity, basis, mark, sales
  <2>2. x = Amounts(b, cash, realized, quantity, basis, mark, sales)
    BY <1>5 DEF cash, realized, quantity, basis, mark, sales
  <2>3. x \in Books /\ Alike(x, b) /\ x.sales = sales /\ x.realized = realized
        /\ x.cash = cash /\ x.quantity = quantity /\ x.basis = basis
    BY <2>1, <2>2 DEF Amounts, Alike, Books
  <2> QED BY <2>3 DEF cash, realized, quantity, basis, sales
<1>9. Total(x.basis) = Total(b.basis) - whole + left
  BY <1>3, <1>6, <1>7, <1>8, TotalExcept
<1>10. Total(b.basis) \in Int /\ Start \in Int
  BY <1>6, TotalType, BookConstants DEF Start
<1>11. Drift(x) = Drift(b) + (left + cost - whole)
  BY <1>1, <1>2, <1>3, <1>6, <1>8, <1>9, <1>10 DEF Drift
<1>12. Drift(b) \in Int
  BY <1>6, <1>10 DEF Drift
<1>13. Drift(x) \in {Drift(b), Drift(b) + 1}
  BY <1>4, <1>11, <1>12
<1>14. \A j \in Instruments : x.basis[j] >= 0 \/ x.basis[j] = b.basis[j]
  BY <1>3, <1>6, <1>8
<1> QED BY <1>7, <1>8, <1>13, <1>14 DEF AfterSale, x

-----------------------------------------------------------------------------
(* The parts of a tick *)

Snapshots == [Instruments -> Quotes]

\* What may be traded has a mark.
LEMMA QuoteType ==
  ASSUME NEW snapshot \in Snapshots, NEW i \in Instruments
  PROVE  /\ snapshot[i].fresh \in BOOLEAN /\ snapshot[i].settled \in BOOLEAN
         /\ snapshot[i].eligible \in BOOLEAN /\ snapshot[i].mark \in Nat
         /\ Tradable(snapshot, i) => snapshot[i].mark \in Nat \ {0}
<1>1. snapshot[i] \in Quotes
  BY DEF Snapshots
<1> QED BY <1>1, QuotesMarked DEF Tradable

\* Marking moves no cash and no position.
LEMMA MarkedKeeps ==
  ASSUME NEW b \in Books, NEW snapshot \in Snapshots, NEW x, x = Marked(b, snapshot)
  PROVE  /\ x \in Books
         /\ x.kind = b.kind /\ x.line = b.line /\ x.cash = b.cash /\ x.realized = b.realized
         /\ x.quantity = b.quantity /\ x.basis = b.basis /\ x.complete = b.complete
         /\ x.crashed = b.crashed /\ x.sales = b.sales
         /\ x.stale = {i \in Held(b) : ~snapshot[i].fresh}
<1> DEFINE mark == [i \in Instruments |->
                      IF i \in Held(b) /\ snapshot[i].fresh THEN snapshot[i].mark ELSE b.mark[i]]
           stale == {i \in Held(b) : ~snapshot[i].fresh}
           x1 == [b EXCEPT !.mark = mark]
           x2 == [x1 EXCEPT !.stale = stale]
<1>1. x = x2
  BY DEF Marked, Books
<1>2. mark \in [Instruments -> Nat]
  BY QuoteType DEF Books
<1>3. stale \in SUBSET Instruments
  BY DEF Held
<1> HIDE DEF mark, stale
<1>4. /\ x1 \in Books /\ x1.kind = b.kind /\ x1.line = b.line /\ x1.cash = b.cash
      /\ x1.realized = b.realized /\ x1.quantity = b.quantity /\ x1.basis = b.basis
      /\ x1.complete = b.complete /\ x1.crashed = b.crashed /\ x1.sales = b.sales
  BY <1>2 DEF Books
<1> HIDE DEF x1
<1>5. /\ x2 \in Books /\ x2.kind = x1.kind /\ x2.line = x1.line /\ x2.cash = x1.cash
      /\ x2.realized = x1.realized /\ x2.quantity = x1.quantity /\ x2.basis = x1.basis
      /\ x2.complete = x1.complete /\ x2.crashed = x1.crashed /\ x2.sales = x1.sales
      /\ x2.stale = stale
  BY <1>3, <1>4 DEF Books
<1> HIDE DEF x2
<1> QED BY <1>1, <1>4, <1>5 DEF stale

\* The books the sales of a tick lead to from b.
Sellable(b) == {x \in Books : Alike(x, b) /\ Valid(x) /\ Balanced(x)}

\* Every sale of a part of a position leads to such a book.
LEMMA SellStays ==
  ASSUME NEW b, NEW x \in Sellable(b), NEW i \in Instruments, NEW m \in Nat, NEW net \in Nat,
         NEW sold \in Nat, 0 < sold, sold <= x.quantity[i], NEW y, y = Sell(x, i, m, sold, net)
  PROVE  y \in Sellable(b) /\ y.quantity = [x.quantity EXCEPT ![i] = @ - sold]
<1>1. x \in Books /\ Alike(x, b) /\ Valid(x) /\ Balanced(x)
  BY DEF Sellable
<1>2. x.basis[i] >= 0 /\ x.quantity \in [Instruments -> Int] /\ net \in Int
  BY <1>1 DEF Valid, Books
<1>3. /\ y \in Books /\ Alike(y, x) /\ y.cash = x.cash + net
      /\ Drift(y) \in {Drift(x), Drift(x) + 1} /\ y.sales = x.sales + 1
      /\ y.quantity = [x.quantity EXCEPT ![i] = @ - sold]
      /\ \A j \in Instruments : y.basis[j] >= 0 \/ y.basis[j] = x.basis[j]
  <2>1. AfterSale(y, x, i, sold, net)
    BY <1>1, <1>2, SellKeeps, Zenon
  <2> QED BY <2>1 DEF AfterSale
<1>4. Valid(y)
  <2>1. \A j \in Instruments : y.quantity[j] = IF j = i THEN x.quantity[i] - sold ELSE x.quantity[j]
    BY <1>2, <1>3
  <2>2. \A j \in Instruments : y.quantity[j] >= 0
    BY <1>1, <1>2, <2>1 DEF Valid
  <2>3. y.cash >= 0
    BY <1>1, <1>3 DEF Valid, Books
  <2> QED BY <1>1, <1>3, <2>2, <2>3 DEF Valid
<1>5. Balanced(y)
  <2>1. Drift(x) \in 0 .. x.sales /\ x.sales \in Nat
    BY <1>1 DEF Balanced, Books
  <2> QED BY <1>3, <2>1 DEF Balanced
<1>6. Alike(y, b)
  BY <1>1, <1>3 DEF Alike
<1> QED BY <1>3, <1>4, <1>5, <1>6 DEF Sellable

\* Settlement closes positions whole and touches no stale one.
SettledFrom(b, snapshot) ==
  {x \in Sellable(b) :
     /\ \A i \in Instruments : x.quantity[i] \in {0, b.quantity[i]}
     /\ \A i \in Instruments : ~snapshot[i].fresh => x.quantity[i] = b.quantity[i]
     /\ b.crashed \/ b.kind # "prediction" => x = b
     /\ (\A i \in Instruments : b.quantity[i] = 0) => x = b}

\* A close does so of one position.
LEMMA ClosedStays ==
  ASSUME NEW b \in Books, NEW snapshot \in Snapshots, NEW x \in SettledFrom(b, snapshot),
         NEW i \in Instruments
  PROVE  Closed(x, snapshot, i) \in SettledFrom(b, snapshot)
<1>1. CASE ~Settles(x, snapshot, i)
  BY <1>1 DEF Closed
<1>2. CASE Settles(x, snapshot, i)
  <2> DEFINE y == Sell(x, i, snapshot[i].mark, x.quantity[i], Value(x, i))
  <2>1. x \in Sellable(b) /\ x \in Books /\ x.kind = b.kind /\ x.crashed = b.crashed
    BY DEF SettledFrom, Sellable, Alike
  <2>2. /\ b.kind = "prediction" /\ ~b.crashed /\ snapshot[i].fresh
        /\ x.quantity[i] > 0 /\ x.quantity \in [Instruments -> Int]
    BY <1>2, <2>1 DEF Settles, Held, Books
  <2>3. x.quantity[i] \in Nat /\ snapshot[i].mark \in Nat /\ Value(x, i) \in Nat
    BY <2>1, <2>2, ValueType, QuoteType
  <2>4. y \in Sellable(b) /\ y.quantity = [x.quantity EXCEPT ![i] = @ - x.quantity[i]]
    BY <2>1, <2>2, <2>3, SellStays
  <2> HIDE DEF y
  <2>5. \A j \in Instruments : y.quantity[j] = IF j = i THEN 0 ELSE x.quantity[j]
    BY <2>2, <2>3, <2>4
  <2>6. b.quantity[i] # 0
    BY <2>2 DEF SettledFrom
  <2>7. y \in SettledFrom(b, snapshot)
    BY <2>2, <2>4, <2>5, <2>6 DEF SettledFrom
  <2> QED BY <1>2, <2>7 DEF Closed, y
<1> QED BY <1>1, <1>2

\* So does the settlement.
LEMMA SettledType ==
  ASSUME NEW b \in Books, Valid(b), Balanced(b), NEW snapshot \in Snapshots
  PROVE  Settled(b, snapshot) \in SettledFrom(b, snapshot)
<1>1. b \in SettledFrom(b, snapshot)
  BY DEF SettledFrom, Sellable, Alike
<1>2. \A x \in SettledFrom(b, snapshot), i \in Instruments :
        Closed(x, snapshot, i) \in SettledFrom(b, snapshot)
  BY ClosedStays
<1> QED BY <1>1, <1>2, SettledStays, Zenon

\* The size of a trade is a natural.
LEMMA SizeType ==
  ASSUME NEW line \in Lines, NEW amount \in Int
  PROVE  Size(line, amount) \in Nat
<1> DEFINE most == line.maximum
           moved == IF amount < 0 THEN -amount ELSE amount
<1>1. most \in Nat /\ moved \in Nat
  BY BookConstants
<1>2. Min({most, moved}) \in Nat
  <2> HIDE DEF most, moved
  <2> QED BY <1>1, PairMin
<1> QED BY <1>2 DEF Size

\* No sale is of more than the position, and one at a mark of nothing is of all of it.
LEMMA SoldType ==
  ASSUME NEW b \in Books, NEW i \in Instruments, b.quantity[i] >= 0, NEW m \in Nat,
         NEW notional \in Nat
  PROVE  SoldQuantity(b, i, m, notional) \in 0 .. b.quantity[i]
<1> DEFINE held == b.quantity[i]
           worth == Rounded(held * m, Lot)
           wanted == Rounded(notional * Lot, m)
<1>1. held \in Nat
  BY DEF Books
<1>2. CASE notional >= worth - 1
  BY <1>1, <1>2 DEF SoldQuantity
<1>3. CASE ~(notional >= worth - 1)
  <2>1. m # 0
    <3> SUFFICES ASSUME m = 0 PROVE FALSE
      OBVIOUS
    <3>1. Rounded(0, Lot) = 0
      BY BookConstants DEF Rounded
    <3>2. held * m = 0
      BY <1>1
    <3>3. worth = 0
      <4> HIDE DEF held
      <4> QED BY <3>1, <3>2
    <3> QED BY <1>3, <3>3
  <2>2. notional * Lot \in Int /\ notional * Lot >= 0
    BY BookConstants
  <2>3. wanted \in Int /\ wanted >= 0
    BY <2>1, <2>2, RoundedType
  <2>4. Min({held, wanted}) \in 0 .. held
    <3> HIDE DEF held, wanted
    <3> QED BY <1>1, <2>3, PairMin
  <2>5. SoldQuantity(b, i, m, notional) = Min({held, wanted})
    BY <1>3 DEF SoldQuantity
  <2> QED BY <2>4, <2>5
<1> QED BY <1>2, <1>3

\* The sale of a rebalance leads to such a book.
LEMMA LoweredStays ==
  ASSUME NEW b, NEW snapshot \in Snapshots, NEW delta \in [Instruments -> Int],
         NEW x \in Sellable(b), NEW i \in Instruments
  PROVE  Lowered(x, snapshot, delta, i) \in Sellable(b)
<1> DEFINE m == snapshot[i].mark
           notional == Size(x.line, delta[i])
           sold == SoldQuantity(x, i, m, notional)
           net == NetProceeds(x.kind, Rounded(sold * m, Lot))
           y == Sell(x, i, m, sold, net)
<1>1. x \in Books /\ x.quantity[i] \in Nat /\ x.line \in Lines /\ x.kind \in Kinds
  BY DEF Sellable, Valid, Books
<1>2. m \in Nat /\ notional \in Nat
  BY <1>1, QuoteType, SizeType
<1>3. sold \in 0 .. x.quantity[i]
  <2> HIDE DEF m, notional
  <2> QED BY <1>1, <1>2, SoldType
<1>4. net \in Nat
  <2> HIDE DEF m, sold
  <2>1. sold * m \in Nat
    BY <1>1, <1>2, <1>3
  <2>2. Rounded(sold * m, Lot) \in Nat
    BY <2>1, RoundedType, BookConstants
  <2> QED BY <1>1, <2>2, ProceedsType
<1>5. sold # 0 => y \in Sellable(b)
  <2> SUFFICES ASSUME sold # 0 PROVE y \in Sellable(b)
    OBVIOUS
  <2>1. sold \in Nat /\ 0 < sold /\ sold <= x.quantity[i]
    <3> HIDE DEF sold
    <3> QED BY <1>1, <1>3
  <2> HIDE DEF m, sold, net
  <2> QED BY <1>2, <1>4, <2>1, SellStays
<1>6. SellFor(x, i, m, notional) = IF sold = 0 THEN x ELSE y
  BY DEF SellFor
<1>7. Lowered(x, snapshot, delta, i) \in {x, SellFor(x, i, m, notional)}
  BY DEF Lowered
<1> HIDE DEF m, notional, sold, y
<1> QED BY <1>5, <1>6, <1>7

\* The books the purchases of a tick lead to from b.
Buyable(b) == {x \in Books : Alike(x, b) /\ Balanced(x)}

\* It is a natural.
LEMMA WithoutType ==
  ASSUME NEW x \in Nat, NEW bps \in Nat
  PROVE  Without(x, bps) \in Nat
  BY WithoutBounds

\* An equity book can pay for what it affords: its one cost, rounded to cents, is never more
\* than the cash the purchase leaves.
LEMMA EquityCost ==
  ASSUME NEW cash \in Nat, NEW n \in Nat, n <= Without(Without(cash, 10), 0)
  PROVE  Outlay("equity", n) <= cash
<1> DEFINE w == Without(cash, 10)
           u == Without(w, 0)
           a == Bps(n, 10)
           g == n + a
           f == Bps(g, 0)
<1>1. w \in Nat /\ w * 10010 <= cash * 10000
  BY WithoutBounds
<1>2. n <= u
  OBVIOUS
<1> HIDE DEF w
<1>3. u = w
  <2>1. ASSUME NEW m \in Nat
        PROVE  Without(m, 0) = m
    BY DEF Without
  <2> QED BY <1>1, <2>1
<1> HIDE DEF u
<1>4. Outlay("equity", n) = g + f
  BY DEF Outlay, AdverseBps, Adverse, Fee
<1>5. a \in Nat /\ a * 10000 <= n * 10 + 5000
  BY BpsBounds
<1>6. g \in Nat /\ g = n + a
  BY <1>5
<1> HIDE DEF a, g
<1>7. f = 0
  <2>1. g * 0 < 5000
    BY <1>6
  <2> QED BY <1>6, <2>1, BpsBounds
<1> HIDE DEF f
<1> QED BY <1>1, <1>2, <1>3, <1>4, <1>5, <1>6, <1>7

\* So it pays for its purchases.
LEMMA EquityPays ==
  ASSUME NEW x \in Books, x.kind = "equity", x.cash \in Nat, NEW notional \in Nat,
         notional <= Affordable(x)
  PROVE  Outlay(x.kind, notional) <= x.cash
<1>1. Affordable(x) = Without(Without(x.cash, 10), 0)
  BY DEF Affordable, AdverseBps, Adverse, Fee
<1> DEFINE cash == x.cash
<1>2. cash \in Nat /\ notional <= Without(Without(cash, 10), 0)
  BY <1>1
<1> HIDE DEF cash
<1>3. Outlay("equity", notional) <= cash
  BY <1>2, EquityCost
<1> QED BY <1>3 DEF cash

\* The purchase of a rebalance leads to such a book.
LEMMA RaisedStays ==
  ASSUME NEW b, NEW snapshot \in Snapshots, NEW delta \in [Instruments -> Int],
         NEW x \in Buyable(b), NEW i \in Instruments,
         delta[i] > 0 => snapshot[i].mark > 0, NEW r, r = Raised(x, snapshot, delta, i)
  PROVE  r \in Buyable(b) /\ (x.kind = "equity" /\ x.cash >= 0 => r.cash >= 0)
<1> DEFINE m == snapshot[i].mark
           notional == Min({Size(x.line, delta[i]), Affordable(x)})
           y == Buy(x, i, m, notional)
<1>1. x \in Books /\ x.line \in Lines /\ x.kind \in Kinds /\ x.cash \in Int
  BY DEF Buyable, Books
<1>2. Affordable(x) \in Int
  <2>1. \A amount \in Int, bps \in Nat : Without(amount, bps) \in Int
    BY DEF Without
  <2>2. AdverseBps(x.kind) \in Nat /\ Fee(x.kind) \in Nat
    BY <1>1, KindCosts
  <2> QED BY <1>1, <2>1, <2>2 DEF Affordable
<1>3. notional \in Int
  <2>1. Size(x.line, delta[i]) \in Int
    BY <1>1, SizeType
  <2> QED BY <1>2, <2>1, PairMin
<1>4. CASE ~(delta[i] > 0)
  BY <1>4 DEF Raised
<1>5. CASE delta[i] > 0
  <2>1. m \in Nat \ {0}
    BY <1>5, QuoteType
  <2>2. y \in Books /\ Alike(y, x) /\ Drift(y) = Drift(x) /\ y.sales = x.sales
        /\ y.cash = x.cash - Outlay(x.kind, notional)
    <3> HIDE DEF m, notional
    <3>1. AfterBuy(y, x, i, m, notional)
      BY <1>1, <1>3, <2>1, BuyKeeps, Zenon
    <3> HIDE DEF y
    <3> QED BY <3>1 DEF AfterBuy
  <2>3. y \in Buyable(b)
    BY <2>2 DEF Buyable, Alike, Balanced
  <2>4. r \in {x, y}
    BY DEF Raised
  <2>5. x.kind = "equity" /\ x.cash >= 0 => y.cash >= 0
    <3> SUFFICES ASSUME x.kind = "equity", x.cash >= 0 PROVE y.cash >= 0
      OBVIOUS
    <3>0. x.kind \in Kinds /\ x.cash \in Nat
      BY <1>1
    <3>1. Affordable(x) \in Nat
      <4> DEFINE w == Without(x.cash, AdverseBps(x.kind))
      <4>1. w \in Nat
        BY <3>0, KindCosts, WithoutType
      <4> HIDE DEF w
      <4>2. Without(w, Fee(x.kind)) \in Nat
        BY <3>0, <4>1, KindCosts, WithoutType
      <4> QED BY <4>2 DEF Affordable, w
    <3>2. Size(x.line, delta[i]) \in Nat
      BY <1>1, SizeType
    <3>3. notional \in Nat /\ notional <= Affordable(x)
      BY <3>1, <3>2, PairMin
    <3> HIDE DEF notional, y
    <3>4. Outlay(x.kind, notional) <= x.cash
      BY <1>1, <3>0, <3>3, EquityPays
    <3>5. Outlay(x.kind, notional) \in Int
      BY <1>1, <1>3, OutlayType
    <3> QED BY <1>1, <2>2, <3>4, <3>5
  <2> HIDE DEF y
  <2> QED BY <2>3, <2>4, <2>5
<1> QED BY <1>4, <1>5

\* Only an instrument with a mark gets a target of its own.
Givings(eligible) ==
  {t \in [left : Int, slots : Nat, target : [Instruments -> Int]] :
     \A i \in Instruments : i \notin eligible => t.target[i] = 0}

\* An allotment gives one.
LEMMA GivenStays ==
  ASSUME NEW eligible, NEW cap \in Int, NEW t \in Givings(eligible), NEW i \in Instruments
  PROVE  Given(t, i, eligible, cap) \in Givings(eligible)
<1> DEFINE part == Min({cap, Rounded(t.left, t.slots)})
           u == [left |-> t.left - part, slots |-> t.slots - 1,
                 target |-> [t.target EXCEPT ![i] = part]]
<1>1. t.left \in Int /\ t.slots \in Nat /\ t.target \in [Instruments -> Int]
      /\ \A j \in Instruments : j \notin eligible => t.target[j] = 0
  BY DEF Givings
<1>2. CASE i \notin eligible \/ t.slots = 0
  BY <1>2 DEF Given
<1>3. CASE ~(i \notin eligible \/ t.slots = 0)
  <2>1. t.slots \in Nat \ {0}
    BY <1>1, <1>3
  <2>2. Rounded(t.left, t.slots) \in Int
    BY <1>1, <2>1, RoundedType
  <2>3. part \in Int
    BY <2>2, PairMin
  <2> HIDE DEF part
  <2>4. u \in Givings(eligible)
    BY <1>1, <1>3, <2>1, <2>3 DEF Givings
  <2> QED BY <1>3, <2>4 DEF Given, part
<1> QED BY <1>2, <1>3

\* What is to be bought has a mark.
LEMMA TargetsType ==
  ASSUME NEW b \in Books, Valid(b), NEW snapshot \in Snapshots, NEW ranking \in Rankings
  PROVE  /\ Targets(b, snapshot, ranking) \in [Instruments -> Int]
         /\ \A i \in Instruments :
              Targets(b, snapshot, ranking)[i] - Value(b, i) > 0 => snapshot[i].mark > 0
<1> DEFINE eligible == Eligible(snapshot)
           cap == Rounded(Equity(b) * b.line.cap, 100)
           left == Rounded(Equity(b) * b.line.gross, 100)
           slots == Min({b.line.count, Cardinality(eligible)})
           all == [left |-> left, slots |-> slots, target |-> [i \in Instruments |-> 0]]
<1>1. \A i \in Instruments : Value(b, i) \in Int /\ Value(b, i) >= 0
  BY ValueType DEF Valid
<1>2. CASE eligible = {}
  BY <1>1, <1>2 DEF Targets
<1>3. CASE eligible # {}
  <2>1. b.line.cap \in Nat /\ b.line.gross \in Nat /\ b.line.count \in Nat
    BY BookConstants DEF Books
  <2>2. cap \in Int /\ left \in Int
    <3>1. Equity(b) * b.line.cap \in Int /\ Equity(b) * b.line.gross \in Int
      BY <2>1, EquityType
    <3> QED BY <3>1, RoundedType
  <2>3. slots \in Nat
    <3>1. eligible \in SUBSET Instruments
      BY DEF Eligible
    <3>2. Cardinality(eligible) \in Nat
      <4> HIDE DEF eligible
      <4> QED BY <3>1, InstrumentsFinite, FS_Subset, FS_CardinalityType
    <3> HIDE DEF eligible
    <3> QED BY <2>1, <3>2, PairMin
  <2>4. all \in Givings(eligible)
    <3> HIDE DEF cap, left, slots, eligible
    <3> QED BY <2>2, <2>3 DEF Givings
  <2>5. ranking \in [Instruments -> Instruments]
    BY BookConstants
  <2>6. Allotted(all, eligible, cap, ranking) \in Givings(eligible)
    <3> HIDE DEF cap, all, eligible
    <3>1. \A t \in Givings(eligible), i \in Instruments : Given(t, i, eligible, cap) \in Givings(eligible)
      BY <2>2, GivenStays
    <3> QED BY <2>4, <2>5, <3>1, AllottedStays, Zenon
  <2>7. Targets(b, snapshot, ranking) = Allotted(all, eligible, cap, ranking).target
    BY <1>3 DEF Targets
  <2> DEFINE target == Targets(b, snapshot, ranking)
  <2>8. target \in [Instruments -> Int] /\ \A i \in Instruments : i \notin eligible => target[i] = 0
    <3> HIDE DEF all, eligible, cap
    <3> QED BY <2>6, <2>7 DEF Givings
  <2>9. \A i \in Instruments : i \in eligible => snapshot[i].mark > 0
    BY DEF Eligible
  <2> HIDE DEF target, eligible
  <2>10. \A i \in Instruments : target[i] - Value(b, i) > 0 => snapshot[i].mark > 0
    BY <1>1, <2>8, <2>9
  <2> QED BY <2>8, <2>10 DEF target
<1> QED BY <1>2, <1>3

\* A rebalance keeps the books balanced, and an equity book in cash.
LEMMA RebalancedType ==
  ASSUME NEW b \in Books, Valid(b), Balanced(b), NEW snapshot \in Snapshots,
         NEW ranking \in Rankings
  PROVE  /\ Rebalanced(b, snapshot, ranking) \in Buyable(b)
         /\ b.kind = "equity" => Rebalanced(b, snapshot, ranking).cash >= 0
<1> DEFINE target == Targets(b, snapshot, ranking)
           delta == [i \in Instruments |-> target[i] - Value(b, i)]
           sold == Sells(b, snapshot, delta)
<1>1. delta \in [Instruments -> Int] /\ \A i \in Instruments : delta[i] > 0 => snapshot[i].mark > 0
  <2>1. target \in [Instruments -> Int]
        /\ \A i \in Instruments : target[i] - Value(b, i) > 0 => snapshot[i].mark > 0
    BY TargetsType
  <2>2. \A i \in Instruments : Value(b, i) \in Int
    BY ValueType
  <2> HIDE DEF target
  <2> QED BY <2>1, <2>2
<1> HIDE DEF delta
<1>2. sold \in Sellable(b)
  <2>1. b \in Sellable(b)
    BY DEF Sellable, Alike
  <2>2. \A x \in Sellable(b), i \in Instruments : Lowered(x, snapshot, delta, i) \in Sellable(b)
    BY <1>1, LoweredStays
  <2> QED BY <2>1, <2>2, SellsStay, Zenon
<1> HIDE DEF sold
<1>3. Buys(sold, snapshot, delta) \in Buyable(b)
  <2>1. sold \in Buyable(b)
    BY <1>2 DEF Sellable, Buyable
  <2>2. \A x \in Buyable(b), i \in Instruments : Raised(x, snapshot, delta, i) \in Buyable(b)
    BY <1>1, RaisedStays
  <2> QED BY <2>1, <2>2, BuysStay, Zenon
<1>4. b.kind = "equity" => Buys(sold, snapshot, delta).cash >= 0
  <2> SUFFICES ASSUME b.kind = "equity" PROVE Buys(sold, snapshot, delta).cash >= 0
    OBVIOUS
  <2> DEFINE Solvent == {x \in Buyable(b) : x.cash >= 0}
  <2>1. sold \in Solvent
    BY <1>2 DEF Sellable, Buyable, Valid
  <2>2. \A x \in Solvent : x \in Buyable(b) /\ x.kind = "equity" /\ x.cash >= 0
    BY DEF Buyable, Alike
  <2>3. \A x \in Solvent, i \in Instruments : Raised(x, snapshot, delta, i) \in Solvent
    <3> TAKE x \in Solvent, i \in Instruments
    <3> DEFINE r == Raised(x, snapshot, delta, i)
    <3>1. r = Raised(x, snapshot, delta, i)
      OBVIOUS
    <3> HIDE DEF r, Solvent
    <3>2. r \in Buyable(b) /\ r.cash >= 0
      BY <1>1, <2>2, <3>1, RaisedStays
    <3> QED BY <3>1, <3>2 DEF Solvent
  <2> HIDE DEF Solvent
  <2>4. Buys(sold, snapshot, delta) \in Solvent
    BY <2>1, <2>3, BuysStay, Zenon
  <2> QED BY <2>4 DEF Solvent
<1> QED BY <1>3, <1>4 DEF Rebalanced, sold, delta

-----------------------------------------------------------------------------
(* The seed *)

\* When every leg is there the k-th instrument gets the k-th slice.
LEMMA LegBuys ==
  ASSUME NEW x, NEW snapshot, NEW lacking, NEW i \in Instruments, SeedReady(snapshot)
  PROVE  Leg(x, snapshot, lacking, i) = Buy(x, i, snapshot[i].mark, Slice(lacking, N, i))
<1> DEFINE legs == {j \in Instruments : Tradable(snapshot, j)}
           below == {j \in legs : j <= i}
<1>1. legs = Instruments
  BY DEF SeedReady
<1>2. i \in Int /\ 1 <= i /\ i <= N /\ N \in Nat
  BY BookConstants DEF Instruments
<1>3. below = 1 .. i
  <2> HIDE DEF legs
  <2> QED BY <1>1, <1>2 DEF Instruments
<1>4. Cardinality(1 .. i) = i
  <2>1. Cardinality(1 .. i) = IF 1 > i THEN 0 ELSE i - 1 + 1
    BY <1>2, FS_Interval
  <2> QED BY <1>2, <2>1
<1>5. Cardinality(legs) = N /\ Cardinality(below) = i
  BY <1>1, <1>3, <1>4, InstrumentsFinite
<1> HIDE DEF below
<1>6. Leg(x, snapshot, lacking, i)
        = IF i \in legs
          THEN Buy(x, i, snapshot[i].mark, Slice(lacking, Cardinality(legs), Cardinality(below)))
          ELSE x
  BY DEF Leg, below
<1> HIDE DEF legs
<1> QED BY <1>1, <1>5, <1>6

\* A slice is an integer.
LEMMA SliceType ==
  ASSUME NEW lacking \in Int, NEW i \in Int
  PROVE  Slice(lacking, N, i) \in Int
<1>1. lacking \div N \in Int
  BY Quotient, BookConstants
<1> QED BY <1>1 DEF Slice

\* A leg keeps the books balanced.
LEMMA LegStays ==
  ASSUME NEW b, NEW snapshot \in Snapshots, SeedReady(snapshot), NEW lacking \in Int,
         NEW x \in Buyable(b), NEW i \in Instruments
  PROVE  Leg(x, snapshot, lacking, i) \in Buyable(b)
<1> DEFINE m == snapshot[i].mark
           slice == Slice(lacking, N, i)
           y == Buy(x, i, m, slice)
<1>1. m \in Nat \ {0}
  BY QuoteType DEF SeedReady
<1>2. slice \in Int
  BY SliceType DEF Instruments
<1>3. x \in Books /\ Alike(x, b) /\ Balanced(x)
  BY DEF Buyable
<1>4. AfterBuy(y, x, i, m, slice)
  <2> HIDE DEF m, slice
  <2> QED BY <1>1, <1>2, <1>3, BuyKeeps, Zenon
<1>5. Leg(x, snapshot, lacking, i) = y
  BY LegBuys
<1> HIDE DEF y
<1> QED BY <1>3, <1>4, <1>5 DEF AfterBuy, Buyable, Alike, Balanced

\* So do the legs.
LEMMA LegsType ==
  ASSUME NEW b \in Books, Balanced(b), NEW snapshot \in Snapshots, SeedReady(snapshot),
         NEW lacking \in Int
  PROVE  Legs(b, snapshot, lacking) \in Buyable(b)
<1>1. b \in Buyable(b)
  BY DEF Buyable, Alike
<1>2. \A x \in Buyable(b), i \in Instruments : Leg(x, snapshot, lacking, i) \in Buyable(b)
  BY LegStays
<1>3. PICK h : Legwork(h, Buyable(b), b, snapshot, lacking)
  BY <1>1, <1>2, LegsClimb, Zenon
<1>4. N \in 0 .. N
  BY BookConstants
<1> QED BY <1>3, <1>4 DEF Legwork

\* The flag of the seed moves no amount.
LEMMA CompleteSet ==
  ASSUME NEW b \in Books, NEW complete \in BOOLEAN, NEW x, x = [b EXCEPT !.complete = complete]
  PROVE  /\ x \in Books /\ (Balanced(b) => Balanced(x))
         /\ x.kind = b.kind /\ x.line = b.line /\ x.stale = b.stale /\ x.crashed = b.crashed
         /\ x.cash = b.cash /\ x.quantity = b.quantity /\ x.basis = b.basis
         /\ x.complete = complete
<1>1. /\ x \in Books
      /\ x.kind = b.kind /\ x.line = b.line /\ x.stale = b.stale /\ x.crashed = b.crashed
      /\ x.cash = b.cash /\ x.quantity = b.quantity /\ x.basis = b.basis
      /\ x.realized = b.realized /\ x.sales = b.sales /\ x.complete = complete
  BY DEF Books
<1> QED BY <1>1 DEF Balanced, Drift

\* Nor does the crash.
LEMMA CrashedSet ==
  ASSUME NEW b \in Books, NEW x, x = [b EXCEPT !.crashed = TRUE]
  PROVE  /\ x \in Books /\ (Balanced(b) => Balanced(x))
         /\ x.kind = b.kind /\ x.line = b.line /\ x.stale = b.stale /\ x.complete = b.complete
         /\ x.cash = b.cash /\ x.quantity = b.quantity /\ (b.crashed => x = b)
<1>1. /\ x \in Books
      /\ x.kind = b.kind /\ x.line = b.line /\ x.stale = b.stale /\ x.complete = b.complete
      /\ x.cash = b.cash /\ x.quantity = b.quantity /\ x.basis = b.basis
      /\ x.realized = b.realized /\ x.sales = b.sales
  BY DEF Books
<1>2. b.crashed => x = b
  BY DEF Books
<1> QED BY <1>1, <1>2 DEF Balanced, Drift

\* A book alike but for the flag of the seed.
Successor(x, b) ==
  /\ x \in Books /\ Balanced(x)
  /\ x.kind = b.kind /\ x.line = b.line /\ x.stale = b.stale /\ x.crashed = b.crashed

\* The seed keeps the books balanced.
LEMMA SeededType ==
  ASSUME NEW b \in Books, Balanced(b), NEW snapshot \in Snapshots
  PROVE  Successor(Seeded(b, snapshot), b)
<1> DEFINE lacking == Seed - Basis(b)
           bought == Legs(b, snapshot, lacking)
           done == Basis(bought) >= Seed - 1
           x == [b EXCEPT !.complete = TRUE]
           y == [bought EXCEPT !.complete = done]
<1>1. lacking \in Int
  <2>1. Basis(b) \in Int
    BY BasisTotal, TotalType DEF Books
  <2> QED BY <2>1, BookConstants
<1> HIDE DEF lacking
<1>2. Successor(x, b)
  BY CompleteSet DEF Successor
<1>3. SeedReady(snapshot) => Successor(y, b)
  <2> SUFFICES ASSUME SeedReady(snapshot) PROVE Successor(y, b)
    OBVIOUS
  <2>1. bought \in Books /\ Alike(bought, b) /\ Balanced(bought)
    BY <1>1, LegsType DEF Buyable
  <2>2. done \in BOOLEAN
    OBVIOUS
  <2> HIDE DEF bought, done
  <2> QED BY <2>1, <2>2, CompleteSet DEF Successor, Alike
<1>4. Successor(b, b)
  BY DEF Successor
<1>5. Seeded(b, snapshot) = IF lacking <= 1 THEN x ELSE IF ~SeedReady(snapshot) THEN b ELSE y
  BY DEF Seeded, lacking
<1> HIDE DEF x, y
<1> QED BY <1>2, <1>3, <1>4, <1>5

-----------------------------------------------------------------------------
(* A tick *)

\* What is known of a book once it is marked and settled.
Opened(now, b, snapshot) ==
  /\ now \in Books /\ Valid(now) /\ Balanced(now)
  /\ now.kind = b.kind /\ now.line = b.line
  /\ now.complete = b.complete /\ now.crashed = b.crashed
  /\ now.stale = {i \in Held(b) : ~snapshot[i].fresh}
  /\ \A i \in Instruments : now.quantity[i] \in {0, b.quantity[i]}
  /\ \A i \in Instruments : ~snapshot[i].fresh => now.quantity[i] = b.quantity[i]
  /\ b.crashed \/ b.kind # "prediction" => now = Marked(b, snapshot)
  /\ (\A i \in Instruments : b.quantity[i] = 0) => now = Marked(b, snapshot)

\* It is, of every valid book.
LEMMA NowOpened ==
  ASSUME NEW b \in Books, Valid(b), Balanced(b), NEW snapshot \in Snapshots
  PROVE  Opened(Settled(Marked(b, snapshot), snapshot), b, snapshot)
<1> DEFINE m == Marked(b, snapshot)
           now == Settled(m, snapshot)
<1>1. /\ m \in Books
      /\ m.kind = b.kind /\ m.line = b.line /\ m.cash = b.cash /\ m.realized = b.realized
      /\ m.quantity = b.quantity /\ m.basis = b.basis /\ m.complete = b.complete
      /\ m.crashed = b.crashed /\ m.sales = b.sales
      /\ m.stale = {i \in Held(b) : ~snapshot[i].fresh}
  BY MarkedKeeps
<1> HIDE DEF m
<1>2. Valid(m) /\ Balanced(m)
  BY <1>1 DEF Valid, Balanced, Drift
<1>3. now \in SettledFrom(m, snapshot)
  BY <1>1, <1>2, SettledType
<1> HIDE DEF now
<1>4. now \in Books /\ Alike(now, m) /\ Valid(now) /\ Balanced(now)
  BY <1>3 DEF SettledFrom, Sellable
<1>5. /\ \A i \in Instruments : now.quantity[i] \in {0, m.quantity[i]}
      /\ \A i \in Instruments : ~snapshot[i].fresh => now.quantity[i] = m.quantity[i]
      /\ m.crashed \/ m.kind # "prediction" => now = m
      /\ (\A i \in Instruments : m.quantity[i] = 0) => now = m
  BY <1>3 DEF SettledFrom
<1>6. Opened(now, b, snapshot)
  BY <1>1, <1>4, <1>5 DEF Opened, Alike, m
<1> QED BY <1>6 DEF now, m

\* A tick freezes the book as soon as one of its open marks is stale.
LEMMA OpenedFrozen ==
  ASSUME NEW b \in Books, NEW snapshot, NEW now, Opened(now, b, snapshot), now.stale # {}
  PROVE  Frozen(now)
<1>1. PICK i \in Held(b) : i \in now.stale /\ ~snapshot[i].fresh
  BY DEF Opened
<1>2. i \in Instruments /\ b.quantity[i] > 0
  BY <1>1 DEF Held
<1>3. now.quantity[i] = b.quantity[i]
  BY <1>1, <1>2 DEF Opened
<1> QED BY <1>1, <1>2, <1>3 DEF Frozen, Held

\* A tick keeps the books balanced.
LEMMA TickedType ==
  ASSUME NEW b \in Books, Valid(b), Balanced(b), NEW snapshot \in Snapshots,
         NEW ranking \in Rankings
  PROVE  /\ Ticked(b, snapshot, ranking) \in Books
         /\ Balanced(Ticked(b, snapshot, ranking))
         /\ Ticked(b, snapshot, ranking).kind = b.kind
         /\ Ticked(b, snapshot, ranking).line = b.line
         /\ b.complete => Ticked(b, snapshot, ranking).complete
<1> DEFINE now == Settled(Marked(b, snapshot), snapshot)
           crash == [now EXCEPT !.crashed = TRUE]
           traded == Rebalanced(now, snapshot, ranking)
           seeded == Seeded(now, snapshot)
           Keeps(x) == /\ x \in Books /\ Balanced(x) /\ x.kind = b.kind /\ x.line = b.line
                       /\ b.complete => x.complete
<1>1. Opened(now, b, snapshot)
  BY NowOpened
<1>2. Ticked(b, snapshot, ranking) = IF now.crashed \/ Equity(now) <= Threshold THEN crash
                                     ELSE IF Frozen(now) THEN now
                                     ELSE IF now.complete THEN traded ELSE seeded
  BY DEF Ticked
<1> HIDE DEF now
<1>3. /\ now \in Books /\ Valid(now) /\ Balanced(now)
      /\ now.kind = b.kind /\ now.line = b.line /\ now.complete = b.complete
  BY <1>1 DEF Opened
<1>4. Keeps(now)
  BY <1>3
<1>5. Keeps(crash)
  BY <1>3, CrashedSet
<1>6. Keeps(traded)
  <2>1. traded \in Buyable(now)
    BY <1>3, RebalancedType
  <2> HIDE DEF traded
  <2> QED BY <1>3, <2>1 DEF Buyable, Alike
<1>7. ~now.complete => Keeps(seeded)
  <2>1. Successor(seeded, now)
    BY <1>3, SeededType
  <2> HIDE DEF seeded
  <2> QED BY <1>3, <2>1 DEF Successor
<1>8. Keeps(Ticked(b, snapshot, ranking))
  <2> HIDE DEF crash, traded, seeded, Keeps
  <2> QED BY <1>2, <1>4, <1>5, <1>6, <1>7
<1> QED BY <1>8

\* A stale mark leaves the tick nothing but settlement, a crash nothing at all.
Guarded(x, b) ==
  /\ b.crashed => x = [b EXCEPT !.mark = x.mark, !.stale = x.stale]
  /\ x.stale # {} =>
       \A i \in Instruments :
         \/ x.quantity[i] = b.quantity[i]
         \/ b.kind = "prediction" /\ i \notin x.stale /\ x.quantity[i] = 0

\* Every tick is guarded.
LEMMA TickedGuards ==
  ASSUME NEW b \in Books, Valid(b), Balanced(b), NEW snapshot \in Snapshots,
         NEW ranking \in Rankings
  PROVE  Guarded(Ticked(b, snapshot, ranking), b)
<1> DEFINE x == Ticked(b, snapshot, ranking)
           now == Settled(Marked(b, snapshot), snapshot)
           crash == [now EXCEPT !.crashed = TRUE]
           traded == Rebalanced(now, snapshot, ranking)
           seeded == Seeded(now, snapshot)
<1>1. Opened(now, b, snapshot)
  BY NowOpened
<1>2. x = IF now.crashed \/ Equity(now) <= Threshold THEN crash
          ELSE IF Frozen(now) THEN now
          ELSE IF now.complete THEN traded ELSE seeded
  BY DEF Ticked
<1> HIDE DEF now, x
<1>3. now \in Books /\ Valid(now) /\ Balanced(now) /\ now.crashed = b.crashed
  BY <1>1 DEF Opened
<1>4. crash.stale = now.stale /\ crash.quantity = now.quantity /\ (now.crashed => crash = now)
  BY <1>3, CrashedSet
<1>5. x.stale = now.stale
  <2>1. traded.stale = now.stale
    BY <1>3, RebalancedType DEF Buyable, Alike
  <2>2. seeded.stale = now.stale
    BY <1>3, SeededType DEF Successor
  <2> HIDE DEF crash, traded, seeded
  <2> QED BY <1>2, <1>4, <2>1, <2>2
<1>6. now.stale # {} => x.quantity = now.quantity
  <2>1. now.stale # {} => Frozen(now)
    BY <1>1, OpenedFrozen
  <2> HIDE DEF crash, traded, seeded
  <2> QED BY <1>2, <1>4, <2>1
<1>7. ASSUME b.crashed PROVE x = [b EXCEPT !.mark = x.mark, !.stale = x.stale]
  <2>1. x = now
    BY <1>2, <1>3, <1>4, <1>7
  <2>2. now = Marked(b, snapshot)
    BY <1>1, <1>7 DEF Opened
  <2> QED BY <2>1, <2>2 DEF Marked, Books
<1>8. \A i \in x.stale : i \in Instruments /\ ~snapshot[i].fresh
  BY <1>1, <1>5 DEF Opened, Held
<1>9. \A i \in x.stale : x.quantity[i] = b.quantity[i]
  BY <1>1, <1>5, <1>6, <1>8 DEF Opened
<1>10. \A i \in Instruments : now.quantity[i] \in {0, b.quantity[i]}
  BY <1>1 DEF Opened
<1>11. b.kind # "prediction" => now.quantity = b.quantity
  <2> SUFFICES ASSUME b.kind # "prediction" PROVE now.quantity = b.quantity
    OBVIOUS
  <2>1. now = Marked(b, snapshot)
    BY <1>1 DEF Opened
  <2> QED BY <2>1 DEF Marked, Books
<1>12. x.stale # {} => x.quantity = now.quantity
  BY <1>5, <1>6
<1> QED BY <1>7, <1>9, <1>10, <1>11, <1>12 DEF Guarded, x

-----------------------------------------------------------------------------
(* What the seed costs *)

\* The costs of a purchase are at most one per cent of it.
LEMMA OutlayBounds ==
  ASSUME NEW kind \in Kinds, NEW s \in Nat
  PROVE  /\ Outlay(kind, s) \in Int /\ Outlay(kind, s) >= s
         /\ 100 * (Outlay(kind, s) - s) <= s
<1>1. CASE kind = "prediction"
  <2> DEFINE a == Bps(s, 25)
             b == Bps(s, 10)
             c == Bps(s, 5)
             d == Bps(s, 0)
  <2>1. Outlay(kind, s) = s + (a + b + c + b) + d
    BY <1>1 DEF Outlay, Friction, Adverse, Fee
  <2>2. a \in Nat /\ a * 10000 <= 2 * (s * 25)
    BY BpsBounds
  <2>3. b \in Nat /\ b * 10000 <= 2 * (s * 10)
    BY BpsBounds
  <2>4. c \in Nat /\ c * 10000 <= 2 * (s * 5)
    BY BpsBounds
  <2>5. d = 0
    <3>1. s * 0 < 5000
      OBVIOUS
    <3> QED BY <3>1, BpsBounds
  <2> HIDE DEF a, b, c, d
  <2> QED BY <2>1, <2>2, <2>3, <2>4, <2>5
<1>2. CASE kind = "crypto"
  <2> DEFINE a == Bps(s, 30)
             g == s + a
             f == Bps(g, 20)
  <2>1. Outlay(kind, s) = g + f
    BY <1>2 DEF Outlay, AdverseBps, Adverse, Fee
  <2>2. a \in Nat /\ a * 10000 <= s * 30 + 5000 /\ a * 10000 <= 2 * (s * 30)
    BY BpsBounds
  <2>3. g \in Nat /\ g = s + a
    BY <2>2
  <2>4. f \in Nat /\ f * 10000 <= g * 20 + 5000 /\ (g * 20 < 5000 => f = 0)
    <3>1. ASSUME NEW n \in Nat
          PROVE  Bps(n, 20) \in Nat /\ Bps(n, 20) * 10000 <= n * 20 + 5000
      BY BpsBounds
    <3>2. ASSUME NEW n \in Nat, n * 20 < 5000
          PROVE  Bps(n, 20) = 0
      BY <3>2, BpsBounds
    <3> HIDE DEF a, g
    <3> QED BY <2>3, <3>1, <3>2
  <2> HIDE DEF a, g, f
  <2> QED BY <2>1, <2>2, <2>3, <2>4
<1>3. CASE kind = "equity"
  <2> DEFINE a == Bps(s, 10)
             g == s + a
             f == Bps(g, 0)
  <2>1. Outlay(kind, s) = g + f
    BY <1>3 DEF Outlay, AdverseBps, Adverse, Fee
  <2>2. a \in Nat /\ a * 10000 <= 2 * (s * 10)
    BY BpsBounds
  <2>3. g \in Nat /\ g = s + a
    BY <2>2
  <2>4. f = 0
    <3> HIDE DEF g
    <3>1. g * 0 < 5000
      BY <2>3
    <3> QED BY <2>3, <3>1, BpsBounds
  <2> HIDE DEF a, g, f
  <2> QED BY <2>1, <2>2, <2>3, <2>4
<1> QED BY <1>1, <1>2, <1>3, BookConstants

\* What the first k slices of the seed come to.
Sliced(k) == k * (Seed \div N) + (IF k <= Seed % N THEN k ELSE Seed % N)

\* They come to the seed, and each buys some of its instrument.
LEMMA SlicedSums ==
  /\ Sliced(0) = 0 /\ Sliced(N) = Seed
  /\ \A k \in Instruments :
       /\ Sliced(k - 1) \in Nat /\ Slice(Seed, N, k) \in Nat \ {0}
       /\ Sliced(k) = Sliced(k - 1) + Slice(Seed, N, k)
       /\ \A q \in Quotes : q.mark <= Lot * Slice(Seed, N, k)
<1> DEFINE each == Seed \div N
           rest == Seed % N
<1>1. each \in Int /\ rest \in Int /\ Seed = each * N + rest /\ 0 <= rest /\ rest < N
  BY Quotient, BookConstants
<1>2. N \in Nat \ {0} /\ Seed \in Nat /\ N <= Seed /\ Lot \in Nat \ {0}
  BY BookConstants, SeedScale
<1>3. each >= 1
  <2>1. 1 * N < each * N + N
    <3> HIDE DEF each, rest
    <3> QED BY <1>1, <1>2
  <2> HIDE DEF each, rest
  <2> QED BY <1>1, <1>2, <2>1, Between
<1>4. \A k \in Int : Sliced(k) = k * each + (IF k <= rest THEN k ELSE rest)
  BY DEF Sliced
<1>5. \A k \in Int : Slice(Seed, N, k) = each + (IF k <= rest THEN 1 ELSE 0)
  BY DEF Slice
<1>6. \A q \in Quotes : q.mark \in Nat /\ q.mark <= Lot * each
  BY SeedScale, QuotesMarked
<1> HIDE DEF each, rest
<1>7. Sliced(0) = 0
  BY <1>1, <1>4
<1>8. Sliced(N) = Seed
  <2>1. Sliced(N) = N * each + (IF N <= rest THEN N ELSE rest)
    BY <1>2, <1>4
  <2>2. ~(N <= rest)
    BY <1>1, <1>2
  <2>3. Sliced(N) = N * each + rest
    BY <2>1, <2>2
  <2> QED BY <1>1, <1>2, <2>3
<1>9. ASSUME NEW k \in Instruments
      PROVE  /\ Sliced(k - 1) \in Nat /\ Slice(Seed, N, k) \in Nat \ {0}
             /\ Sliced(k) = Sliced(k - 1) + Slice(Seed, N, k)
             /\ \A q \in Quotes : q.mark <= Lot * Slice(Seed, N, k)
  <2>1. k \in Int /\ k >= 1 /\ k - 1 \in Nat
    BY DEF Instruments
  <2>2. (k - 1) * each \in Nat /\ k * each = (k - 1) * each + each
    BY <1>1, <1>3, <2>1
  <2>3. Slice(Seed, N, k) \in Nat \ {0} /\ Slice(Seed, N, k) \in {each, each + 1}
    BY <1>1, <1>3, <1>5, <2>1
  <2>4. Sliced(k - 1) \in Nat /\ Sliced(k) = Sliced(k - 1) + Slice(Seed, N, k)
    <3>1. Sliced(k - 1) = (k - 1) * each + (IF k - 1 <= rest THEN k - 1 ELSE rest)
      BY <1>4, <2>1
    <3>2. Sliced(k) = k * each + (IF k <= rest THEN k ELSE rest)
      BY <1>4, <2>1
    <3>3. Slice(Seed, N, k) = each + (IF k <= rest THEN 1 ELSE 0)
      BY <1>5, <2>1
    <3> QED BY <1>1, <2>1, <2>2, <3>1, <3>2, <3>3
  <2>5. Lot * each <= Lot * Slice(Seed, N, k)
    BY <1>1, <1>2, <2>3
  <2>6. Lot * each \in Int /\ Lot * Slice(Seed, N, k) \in Int
    BY <1>1, <1>2, <2>3
  <2>7. \A q \in Quotes : q.mark <= Lot * Slice(Seed, N, k)
    BY <1>6, <2>5, <2>6
  <2> QED BY <2>3, <2>4, <2>7
<1> QED BY <1>7, <1>8, <1>9

\* A book after the first k legs.
SeededTo(k, b) ==
  {x \in Buyable(b) :
     /\ x.realized = b.realized
     /\ \A i \in Instruments : IF i <= k THEN x.quantity[i] > 0 ELSE x.quantity[i] = 0
     /\ Total(x.basis) >= Sliced(k)
     /\ 100 * (Total(x.basis) - Sliced(k)) <= Sliced(k)}

\* A leg buys its instrument for its slice and at most one per cent.
LEMMA LegSeeds ==
  ASSUME NEW b \in Books, NEW snapshot \in Snapshots, SeedReady(snapshot), NEW k \in Instruments,
         NEW x \in SeededTo(k - 1, b)
  PROVE  Leg(x, snapshot, Seed, k) \in SeededTo(k, b)
<1> DEFINE m == snapshot[k].mark
           slice == Slice(Seed, N, k)
           outlay == Outlay(x.kind, slice)
           filled == Filled(x.kind, x.quantity[k], m, slice)
           y == Buy(x, k, m, slice)
<1>1. x \in Buyable(b) /\ x \in Books /\ x.kind \in Kinds /\ x.quantity \in [Instruments -> Int]
      /\ x.basis \in [Instruments -> Int]
  BY DEF SeededTo, Buyable, Books
<1>2. k \in Int /\ k >= 1
  BY DEF Instruments
<1>3. x.quantity[k] = 0
  BY <1>2 DEF SeededTo
<1>4. m \in Nat \ {0} /\ snapshot[k] \in Quotes
  BY QuoteType DEF SeedReady, Snapshots
<1>5. slice \in Nat \ {0} /\ m <= Lot * slice /\ Sliced(k - 1) \in Nat
      /\ Sliced(k) = Sliced(k - 1) + slice
  BY <1>4, SlicedSums
<1>6. outlay \in Int /\ outlay >= slice /\ 100 * (outlay - slice) <= slice
  <2> HIDE DEF slice
  <2> QED BY <1>1, <1>5, OutlayBounds
<1>7. filled \in Int /\ filled > 0
  <2>1. slice * Lot \in Int /\ m <= slice * Lot
    <3> HIDE DEF slice, m
    <3> QED BY <1>4, <1>5, BookConstants
  <2>2. Rounded(slice * Lot, m) \in Int /\ Rounded(slice * Lot, m) > 0
    <3> DEFINE w == slice * Lot
    <3>0. w \in Int /\ m <= w
      BY <2>1
    <3> HIDE DEF w, m, slice
    <3>1. Rounded(w, m) \in Int /\ w < Rounded(w, m) * m + m
      <4>1. m \div 2 \in Int /\ 0 <= m \div 2
        BY <1>4
      <4> DEFINE v == w + m \div 2
      <4>2. v \in Int /\ w <= v
        BY <3>0, <4>1
      <4> HIDE DEF v
      <4>3. v \div m \in Int /\ v < (v \div m) * m + m
        BY <1>4, <4>2, Floor
      <4>4. Rounded(w, m) = v \div m
        BY DEF Rounded, v
      <4>5. (v \div m) * m \in Int
        BY <1>4, <4>3
      <4> QED BY <1>4, <3>0, <4>2, <4>3, <4>4, <4>5
    <3>2. 1 * m < Rounded(w, m) * m + m
      <4>1. Rounded(w, m) * m \in Int
        BY <1>4, <3>1
      <4> QED BY <1>4, <3>0, <3>1, <4>1
    <3>3. 1 <= Rounded(w, m)
      BY <1>4, <3>1, <3>2, Between
    <3> QED BY <3>1, <3>3 DEF w
  <2>3. filled = Rounded(slice * Lot, m)
    <3> HIDE DEF slice, m
    <3>1. Rounded(slice * Lot, m) \in Int
      BY <2>2
    <3> QED BY <1>3, <1>5, <3>1 DEF Filled
  <2> QED BY <2>2, <2>3
<1>8. AfterBuy(y, x, k, m, slice)
  <2>1. slice \in Int
    BY <1>5
  <2> HIDE DEF m, slice
  <2> QED BY <1>1, <1>4, <2>1, BuyKeeps, Zenon
<1>9. y \in Books /\ y \in Buyable(b) /\ y.realized = x.realized
      /\ y.quantity = [x.quantity EXCEPT ![k] = filled]
      /\ y.basis = [x.basis EXCEPT ![k] = x.basis[k] + outlay]
  <2>1. y \in Buyable(b)
    <3> HIDE DEF y, m, slice
    <3> QED BY <1>1, <1>8 DEF AfterBuy, Buyable, Alike, Balanced
  <2> HIDE DEF y
  <2> QED BY <1>8, <2>1 DEF AfterBuy
<1> HIDE DEF y, filled, outlay, slice, m
<1>10. \A i \in Instruments : IF i <= k THEN y.quantity[i] > 0 ELSE y.quantity[i] = 0
  <2>1. \A i \in Instruments : y.quantity[i] = IF i = k THEN filled ELSE x.quantity[i]
    BY <1>1, <1>9
  <2>2. \A i \in Instruments : IF i <= k - 1 THEN x.quantity[i] > 0 ELSE x.quantity[i] = 0
    BY DEF SeededTo
  <2>3. \A i \in Instruments :
          i \in Int /\ (i <= k /\ i # k => i <= k - 1) /\ (~(i <= k) => ~(i <= k - 1))
    BY <1>2 DEF Instruments
  <2> QED BY <1>2, <1>7, <2>1, <2>2, <2>3
<1>11. Total(x.basis) \in Int /\ Total(y.basis) = Total(x.basis) + outlay
  <2>1. Total(x.basis) \in Int /\ x.basis[k] \in Int /\ x.basis[k] + outlay \in Int
    BY <1>1, <1>6, TotalType
  <2>2. Total(y.basis) = Total(x.basis) - x.basis[k] + (x.basis[k] + outlay)
    BY <1>1, <1>9, <2>1, TotalExcept
  <2> QED BY <1>6, <2>1, <2>2
<1>12. Total(x.basis) >= Sliced(k - 1) /\ 100 * (Total(x.basis) - Sliced(k - 1)) <= Sliced(k - 1)
  BY DEF SeededTo
<1>13. Total(y.basis) >= Sliced(k) /\ 100 * (Total(y.basis) - Sliced(k)) <= Sliced(k)
  BY <1>5, <1>6, <1>11, <1>12
<1>14. y \in SeededTo(k, b)
  <2>1. x.realized = b.realized
    BY DEF SeededTo
  <2> QED BY <1>9, <1>10, <1>13, <2>1 DEF SeededTo
<1> QED BY <1>14, LegBuys DEF y, slice, m

\* A new book is valid.
LEMMA NewBookType ==
  ASSUME NEW kind \in Kinds, NEW line \in Lines, NEW b, b = NewBook(kind, line)
  PROVE  /\ b \in Books /\ b.kind = kind /\ b.line = line /\ b.stale = {} /\ b.cash = Start
         /\ b.realized = 0 /\ ~b.complete /\ ~b.crashed /\ b.basis \in [Instruments -> Int]
         /\ \A i \in Instruments : b.quantity[i] = 0 /\ b.basis[i] = 0
         /\ Total(b.basis) = 0 /\ Valid(b) /\ Balanced(b)
<1> DEFINE zeros == [i \in Instruments |-> 0]
<1>1. zeros \in [Instruments -> Int] /\ zeros \in [Instruments -> Nat]
      /\ \A i \in Instruments : zeros[i] = 0
  OBVIOUS
<1>2. Start \in Int
  BY BookConstants DEF Start
<1>3. b = [kind |-> kind, line |-> line, cash |-> Start, realized |-> 0,
           quantity |-> zeros, basis |-> zeros, mark |-> zeros, stale |-> {},
           complete |-> FALSE, crashed |-> FALSE, sales |-> 0]
  BY DEF NewBook
<1> HIDE DEF zeros
<1>4. b \in Books
  BY <1>1, <1>2, <1>3 DEF Books
<1>5. /\ b.kind = kind /\ b.line = line /\ b.stale = {} /\ b.cash = Start /\ b.realized = 0
      /\ b.sales = 0 /\ b.complete = FALSE /\ b.crashed = FALSE
      /\ b.quantity = zeros /\ b.basis = zeros
  BY <1>3
<1>6. Total(zeros) = 0
  BY <1>1, TotalZero
<1>7. Valid(b)
  BY <1>1, <1>5, BookConstants DEF Valid, Start
<1>8. Balanced(b)
  <2>1. Drift(b) = Start + 0 - Start - 0
    BY <1>5, <1>6 DEF Drift
  <2> QED BY <1>2, <1>5, <2>1 DEF Balanced
<1> QED BY <1>1, <1>4, <1>5, <1>6, <1>7, <1>8

\* A book without positions has nothing to mark.
LEMMA NewBookMarked ==
  ASSUME NEW kind \in Kinds, NEW line \in Lines, NEW b, b = NewBook(kind, line),
         NEW snapshot \in Snapshots
  PROVE  Held(b) = {} /\ Marked(b, snapshot) = b
<1> DEFINE x == Marked(b, snapshot)
           mark == [i \in Instruments |->
                      IF i \in Held(b) /\ snapshot[i].fresh THEN snapshot[i].mark ELSE b.mark[i]]
           stale == {i \in Held(b) : ~snapshot[i].fresh}
           x1 == [b EXCEPT !.mark = mark]
           x2 == [x1 EXCEPT !.stale = stale]
<1>1. b \in Books /\ b.stale = {}
  BY NewBookType
<1>2. Held(b) = {}
  BY NewBookType DEF Held
<1>3. x = x2
  BY <1>1 DEF Marked, Books
<1>4. mark = b.mark /\ stale = b.stale
  BY <1>1, <1>2 DEF Books
<1> HIDE DEF mark, stale
<1>5. x1 = b
  BY <1>1, <1>4 DEF Books
<1> HIDE DEF x1
<1>6. x2 = b
  BY <1>1, <1>4, <1>5 DEF Books
<1> HIDE DEF x2
<1> QED BY <1>2, <1>3, <1>6 DEF x

\* The legs buy every instrument.
LEMMA LegsSeed ==
  ASSUME NEW kind \in Kinds, NEW line \in Lines, NEW b, b = NewBook(kind, line),
         NEW snapshot \in Snapshots, SeedReady(snapshot)
  PROVE  Legs(b, snapshot, Seed) \in SeededTo(N, b)
<1> DEFINE R == [k \in 0 .. N |-> SeededTo(k, b)]
<1>1. N \in Nat /\ N \in 0 .. N /\ 0 \in 0 .. N /\ Seed \in Int
  BY BookConstants
<1>2. b \in Books /\ Balanced(b) /\ b \in Buyable(b)
  BY NewBookType DEF Buyable, Alike
<1>3. \A x \in Buyable(b), i \in Instruments : Leg(x, snapshot, Seed, i) \in Buyable(b)
  BY <1>1, LegStays
<1>4. PICK h : Legwork(h, Buyable(b), b, snapshot, Seed)
  BY <1>2, <1>3, LegsClimb, Zenon
<1>5. h[0] \in R[0]
  <2>1. Total(b.basis) = 0 /\ Sliced(0) = 0
    BY NewBookType, SlicedSums
  <2>2. \A i \in Instruments : ~(i <= 0) /\ b.quantity[i] = 0
    BY NewBookType DEF Instruments
  <2>3. b \in SeededTo(0, b)
    BY <1>2, <2>1, <2>2 DEF SeededTo
  <2> QED BY <1>1, <1>4, <2>3 DEF Legwork
<1>6. ASSUME NEW k \in 1 .. N, h[k - 1] \in R[k - 1]
      PROVE  h[k] \in R[k]
  <2>1. k - 1 \in 0 .. N /\ k \in 0 .. N /\ k \in Instruments
    BY <1>1 DEF Instruments
  <2>2. h[k - 1] \in SeededTo(k - 1, b)
    BY <1>6, <2>1
  <2>3. Leg(h[k - 1], snapshot, Seed, k) \in SeededTo(k, b)
    BY <1>2, <2>1, <2>2, LegSeeds
  <2>4. h[k] = Leg(h[k - 1], snapshot, Seed, k)
    BY <1>4 DEF Legwork
  <2> QED BY <2>1, <2>3, <2>4
<1>7. \A k \in 0 .. N : h[k] \in R[k]
  <2> HIDE DEF R
  <2> QED BY <1>1, <1>5, <1>6, Climb, Zenon
<1>8. h[N] \in SeededTo(N, b)
  BY <1>1, <1>7
<1> QED BY <1>4, <1>8 DEF Legwork

\* The seed of a book: all of its instruments, for the seed and at most one per cent, with
\* cash to spare.
SeedBought(x) ==
  /\ x.complete /\ x.cash >= 0
  /\ Held(x) = Instruments /\ Basis(x) \in Seed .. Seed + Seed \div 100

\* A tick seeds a new book whole or leaves it.
LEMMA TickedSeeds ==
  ASSUME NEW kind \in Kinds, NEW line \in Lines, NEW b, b = NewBook(kind, line),
         NEW snapshot \in Snapshots, NEW ranking
  PROVE  Ticked(b, snapshot, ranking) = b \/ SeedBought(Ticked(b, snapshot, ranking))
<1> DEFINE now == Settled(Marked(b, snapshot), snapshot)
           bought == Legs(b, snapshot, Seed)
           done == Basis(bought) >= Seed - 1
           y == [bought EXCEPT !.complete = done]
<1>1. /\ b \in Books /\ b.stale = {} /\ b.cash = Start /\ ~b.complete /\ ~b.crashed
      /\ \A i \in Instruments : b.quantity[i] = 0
      /\ Total(b.basis) = 0 /\ Valid(b) /\ Balanced(b)
  BY NewBookType
<1>2. Marked(b, snapshot) = b /\ Held(b) = {}
  BY NewBookMarked
<1>3. now = b
  <2>1. Opened(now, b, snapshot)
    BY <1>1, NowOpened
  <2> HIDE DEF now
  <2> QED BY <1>1, <1>2, <2>1 DEF Opened
<1>4. Equity(b) > Threshold
  <2>1. Gross(b) = 0
    BY <1>2, GrossType
  <2> QED BY <1>1, <2>1, BookConstants DEF Equity, Start, Threshold
<1>5. ~Frozen(b)
  BY <1>1 DEF Frozen
<1>6. Ticked(b, snapshot, ranking) = Seeded(b, snapshot)
  <2>1. ~(b.crashed \/ Equity(b) <= Threshold)
    <3>1. Equity(b) \in Int /\ Threshold \in Int
      BY <1>1, EquityType DEF Threshold
    <3> QED BY <1>1, <1>4, <3>1
  <2>2. Ticked(b, snapshot, ranking) = IF now.crashed \/ Equity(now) <= Threshold
                                       THEN [now EXCEPT !.crashed = TRUE]
                                       ELSE IF Frozen(now) THEN now
                                       ELSE IF now.complete THEN Rebalanced(now, snapshot, ranking)
                                       ELSE Seeded(now, snapshot)
    BY DEF Ticked
  <2> HIDE DEF now
  <2> QED BY <1>1, <1>3, <1>5, <2>1, <2>2
<1>7. Seeded(b, snapshot) = IF ~SeedReady(snapshot) THEN b ELSE y
  <2>1. Basis(b) = 0
    BY <1>1, BasisTotal
  <2>2. Seed - Basis(b) = Seed /\ ~(Seed <= 1)
    BY <2>1, BookConstants, SeedScale
  <2> QED BY <2>2 DEF Seeded
<1>8. SeedReady(snapshot) => SeedBought(y)
  <2> SUFFICES ASSUME SeedReady(snapshot) PROVE SeedBought(y)
    OBVIOUS
  <2>1. bought \in SeededTo(N, b)
    BY LegsSeed
  <2>2. bought \in Books /\ Sliced(N) = Seed /\ Seed \in Nat /\ N \in Nat
    BY <2>1, SlicedSums, BookConstants DEF SeededTo, Buyable
  <2>3. Total(bought.basis) \in Int
    BY <2>2, TotalType DEF Books
  <2>4. Total(bought.basis) >= Seed /\ 100 * (Total(bought.basis) - Seed) <= Seed
    BY <2>1, <2>2 DEF SeededTo
  <2>5. Basis(bought) = Total(bought.basis)
    BY BasisTotal
  <2>6. done = TRUE
    <3> HIDE DEF bought
    <3> QED BY <2>2, <2>3, <2>4, <2>5
  <2>7. Basis(bought) \in Seed .. Seed + Seed \div 100
    <3> HIDE DEF bought
    <3> QED BY <2>2, <2>3, <2>4, <2>5
  <2>8. \A i \in Instruments : bought.quantity[i] > 0
    <3>1. \A i \in Instruments : i <= N
      BY <2>2 DEF Instruments
    <3> HIDE DEF bought
    <3> QED BY <2>1, <3>1 DEF SeededTo
  <2>9. /\ y.complete = done /\ y.cash = bought.cash
        /\ y.quantity = bought.quantity /\ y.basis = bought.basis
    <3> HIDE DEF bought, done
    <3> QED BY <2>2, <2>6, CompleteSet
  <2>10. Basis(y) = Basis(bought)
    <3> HIDE DEF y, bought
    <3> QED BY <2>5, <2>9, BasisTotal
  <2>11. Held(y) = Instruments
    <3> HIDE DEF y, bought
    <3> QED BY <2>8, <2>9 DEF Held
  <2>12. bought.cash >= 0
    <3>1. bought.realized = 0 /\ Drift(bought) >= 0
      <4>1. bought.realized = b.realized /\ Drift(bought) \in 0 .. bought.sales
        BY <2>1 DEF SeededTo, Buyable, Balanced
      <4>2. b.realized = 0
        BY NewBookType
      <4> QED BY <4>1, <4>2
    <3> HIDE DEF bought
    <3>2. bought.cash \in Int
      BY <2>2 DEF Books
    <3>3. bought.cash + Total(bought.basis) - 2 * Seed - 0 >= 0
      BY <3>1 DEF Drift, Start
    <3> QED BY <2>2, <2>3, <2>4, <3>2, <3>3
  <2> HIDE DEF y, bought, done
  <2> QED BY <2>6, <2>7, <2>9, <2>10, <2>11, <2>12 DEF SeedBought
<1> HIDE DEF y
<1> QED BY <1>6, <1>7, <1>8

\* No tick overdraws an equity book: its seed is paid from twice its cost, its sales bring
\* cash and it buys what it affords.
LEMMA EquitySolvent ==
  ASSUME NEW b \in Books, Valid(b), Balanced(b), b.kind = "equity",
         ~b.complete => b = NewBook(b.kind, b.line),
         NEW snapshot \in Snapshots, NEW ranking \in Rankings
  PROVE  Ticked(b, snapshot, ranking).cash >= 0
<1> DEFINE now == Settled(Marked(b, snapshot), snapshot)
           crash == [now EXCEPT !.crashed = TRUE]
           traded == Rebalanced(now, snapshot, ranking)
<1>1. CASE ~b.complete
  <2>1. b.kind \in Kinds /\ b.line \in Lines /\ b.cash >= 0
    BY DEF Books, Valid
  <2> QED BY <1>1, <2>1, TickedSeeds DEF SeedBought
<1>2. CASE b.complete
  <2>1. Opened(now, b, snapshot)
    BY NowOpened
  <2>2. Ticked(b, snapshot, ranking) = IF now.crashed \/ Equity(now) <= Threshold THEN crash
                                       ELSE IF Frozen(now) THEN now
                                       ELSE IF now.complete THEN traded
                                       ELSE Seeded(now, snapshot)
    BY DEF Ticked
  <2> HIDE DEF now
  <2>3. /\ now \in Books /\ Valid(now) /\ Balanced(now) /\ now.kind = "equity"
        /\ now.complete /\ now.cash >= 0
    BY <1>2, <2>1 DEF Opened, Valid
  <2>4. crash.cash >= 0
    BY <2>3, CrashedSet
  <2>5. traded.cash >= 0
    BY <2>3, RebalancedType
  <2> HIDE DEF crash, traded
  <2> QED BY <2>2, <2>3, <2>4, <2>5
<1> QED BY <1>1, <1>2

-----------------------------------------------------------------------------
(* The theorems *)

\* The inductive invariant: the ledger is whole and balanced, and a book without its seed is a
\* new one.
Inv ==
  /\ book \in Books /\ Valid(book) /\ Balanced(book)
  /\ ~book.complete => book = NewBook(book.kind, book.line)
  /\ offered \in Books /\ ticks \in 0 .. MaxTicks
  /\ offered.kind = "equity" => offered.cash >= 0

\* The engine starts in the invariant.
LEMMA InitInv == Init => Inv
<1> SUFFICES ASSUME Init PROVE Inv
  OBVIOUS
<1>1. PICK kind \in Kinds, line \in Lines : book = NewBook(kind, line)
  BY DEF Init
<1>2. book \in Books /\ book.kind = kind /\ book.line = line /\ Valid(book) /\ Balanced(book)
  BY <1>1, NewBookType
<1>3. offered = book /\ ticks \in 0 .. MaxTicks
  BY BookConstants DEF Init
<1> QED BY <1>1, <1>2, <1>3 DEF Inv, Valid

\* What one tick of the engine does to a book of the ledger.
TickStep(snapshot, ranking) ==
  /\ offered' = Ticked(book, snapshot, ranking)
  /\ book' = book \/ (book' = offered' /\ Valid(offered'))

\* Every step is a tick, kept or rejected.
LEMMA NextTicks ==
  ASSUME Next
  PROVE  \E snapshot \in Snapshots, ranking \in Rankings : TickStep(snapshot, ranking)
<1>1. PICK snapshot \in [Instruments -> Quotes], ranking \in Rankings : Tick(snapshot, ranking)
  BY DEF Next
<1>2. snapshot \in Snapshots
  BY DEF Snapshots
<1>3. TickStep(snapshot, ranking)
  BY <1>1 DEF Tick, TickStep
<1> QED BY <1>2, <1>3

\* Every step keeps the invariant.
LEMMA StepInv == Inv /\ [Next]_vars => Inv'
<1> SUFFICES ASSUME Inv, [Next]_vars PROVE Inv'
  OBVIOUS
<1>1. CASE UNCHANGED vars
  BY <1>1 DEF Inv, vars, Valid, Balanced, Drift
<1>2. CASE Next
  <2>1. PICK snapshot \in Snapshots, ranking \in Rankings : TickStep(snapshot, ranking)
    BY <1>2, NextTicks
  <2> DEFINE x == Ticked(book, snapshot, ranking)
  <2>2. book \in Books /\ Valid(book) /\ Balanced(book)
    BY DEF Inv
  <2>3. x \in Books /\ Balanced(x) /\ x.kind = book.kind /\ x.line = book.line
        /\ (book.complete => x.complete)
    BY <2>2, TickedType
  <2>4. ~book.complete => x = book \/ x.complete
    <3> SUFFICES ASSUME ~book.complete PROVE x = book \/ x.complete
      OBVIOUS
    <3>1. book = NewBook(book.kind, book.line)
      BY DEF Inv
    <3>2. book.kind \in Kinds /\ book.line \in Lines
      BY <2>2 DEF Books
    <3> QED BY <3>1, <3>2, TickedSeeds DEF SeedBought
  <2>5. ~x.complete => x = NewBook(x.kind, x.line)
    BY <2>3, <2>4 DEF Inv
  <2>6. offered' = x /\ (book' = book \/ (book' = x /\ Valid(x)))
    BY <2>1 DEF TickStep
  <2>7. ticks' \in 0 .. MaxTicks
    BY <1>2, BookConstants DEF Next, Tick, Inv
  <2>8. x.kind = "equity" => x.cash >= 0
    BY <2>2, <2>3, EquitySolvent DEF Inv
  <2> HIDE DEF x
  <2>9. CASE book' = book
    BY <2>3, <2>6, <2>7, <2>8, <2>9 DEF Inv, Valid, Balanced, Drift
  <2>10. CASE book' = x /\ Valid(x)
    BY <2>3, <2>5, <2>6, <2>7, <2>8, <2>10 DEF Inv, Valid, Balanced, Drift
  <2> QED BY <2>6, <2>9, <2>10
<1> QED BY <1>1, <1>2

\* The invariant holds at every moment, for the books of process_tick and of the ledger file.
THEOREM BookInvariant == Spec => []Inv
<1>1. Inv /\ [Next]_vars => Inv'
  BY StepInv
<1> QED BY InitInv, <1>1, PTL DEF Spec

\* The books balance (PaperBook.BooksBalance): whatever is marked, settled, seeded, bought and
\* sold, cash and the cost of what is held account for the starting balance and the realised
\* result, but for a cent of each sale.
THEOREM BooksBalanced == Spec => []BooksBalance
<1>1. Inv => BooksBalance
  <2> SUFFICES ASSUME Inv PROVE BooksBalance
    OBVIOUS
  <2>1. Drift(book) \in 0 .. book.sales
    BY DEF Inv, Balanced
  <2>2. Basis(book) = Total(book.basis) /\ book.sales \in Nat
    BY BasisTotal DEF Inv, Books
  <2> QED BY <2>1, <2>2 DEF BooksBalance, Drift
<1> QED BY BookInvariant, <1>1, PTL

\* No tick of the engine leaves an equity book with negative cash (PaperBook.NoNegativeCash,
\* which prediction books violate: their costs are rounded one by one, an equity's at once).
THEOREM EquityNeverOverdrawn == Spec => [](offered.kind = "equity" => NoNegativeCash)
<1>1. Inv => (offered.kind = "equity" => NoNegativeCash)
  BY DEF Inv, NoNegativeCash
<1> QED BY BookInvariant, <1>1, PTL

\* The seed happens once and whole (PaperBook.SeedOnce): a tick before it leaves the new book
\* as it was or buys all its instruments, for the seed and at most one per cent of costs.
THEOREM SeededOnce == Spec => SeedOnce
<1>1. Inv /\ [Next]_vars => [SeedStep]_vars
  <2> SUFFICES ASSUME Inv, Next PROVE SeedStep
    OBVIOUS
  <2>1. PICK snapshot \in Snapshots, ranking \in Rankings : TickStep(snapshot, ranking)
    BY NextTicks
  <2> DEFINE x == Ticked(book, snapshot, ranking)
  <2>2. book \in Books /\ Valid(book) /\ Balanced(book) /\ book.kind \in Kinds /\ book.line \in Lines
    BY DEF Inv, Books
  <2>3. book.complete => x.complete
    BY <2>2, TickedType
  <2>4. ~book.complete => book = NewBook(book.kind, book.line) /\ (x = book \/ SeedBought(x))
    <3> SUFFICES ASSUME ~book.complete
                 PROVE  book = NewBook(book.kind, book.line) /\ (x = book \/ SeedBought(x))
      OBVIOUS
    <3>1. book = NewBook(book.kind, book.line)
      BY DEF Inv
    <3> QED BY <2>2, <3>1, TickedSeeds
  <2>5. book' = book \/ book' = x
    BY <2>1 DEF TickStep
  <2> HIDE DEF x
  <2>6. ~book'.complete => ~book.complete /\ book' = book
    BY <2>3, <2>4, <2>5 DEF SeedBought
  <2>7. ~book.complete => book = [NewBook(book.kind, book.line) EXCEPT !.crashed = book.crashed]
    <3>1. [book EXCEPT !.crashed = book.crashed] = book
      BY <2>2 DEF Books
    <3> QED BY <2>4, <3>1
  <2>8. book'.complete /\ ~book.complete => SeedBought(book')
    BY <2>4, <2>5
  <2> QED BY <2>3, <2>5, <2>6, <2>7, <2>8 DEF SeedBought, SeedStep
<1> QED BY BookInvariant, <1>1, PTL DEF Spec, SeedOnce

\* Trading is guarded (PaperBook.TradesGuarded): a crashed book only has its marks moved, and
\* one with a stale open mark trades nothing but a settlement, which leaves the stale alone.
THEOREM TradingGuarded == Spec => TradesGuarded
<1>1. Inv /\ [Next]_vars => [TradeStep]_vars
  <2> SUFFICES ASSUME Inv, Next PROVE TradeStep
    OBVIOUS
  <2>1. PICK snapshot \in Snapshots, ranking \in Rankings : TickStep(snapshot, ranking)
    BY NextTicks
  <2>2. book \in Books /\ Valid(book) /\ Balanced(book)
    BY DEF Inv
  <2>3. CASE book' = book
    <3>1. book = [book EXCEPT !.mark = book.mark, !.stale = book.stale]
      BY <2>2 DEF Books
    <3> QED BY <2>3, <3>1 DEF TradeStep, SettledOnly
  <2>4. CASE book' = Ticked(book, snapshot, ranking)
    <3>1. Guarded(book', book)
      BY <2>2, <2>4, TickedGuards, Zenon
    <3> QED BY <3>1 DEF Guarded, TradeStep, SettledOnly
  <2> QED BY <2>1, <2>3, <2>4 DEF TickStep
<1> QED BY BookInvariant, <1>1, PTL DEF Spec, TradesGuarded
=============================================================================
