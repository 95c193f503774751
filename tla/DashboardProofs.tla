---------------------------- MODULE DashboardProofs --------------------------
(***************************************************************************)
(* That paging is complete: what a reader of all pages misses or sees      *)
(* twice was tied, was itself active, or had something placed before it    *)
(* meanwhile; the argument counts what stands before a key. That the       *)
(* overview, the lists, the detail of a session and its parts count and    *)
(* add up the same; the argument is induction over the subsets of a finite *)
(* set, from which sums get their rules. That the chat links every call of *)
(* a tool to its message, which comes from what a line of each tool        *)
(* becomes. And that the cards of the featured board are true. All of it   *)
(* for all lines, projects, page sizes and numbers of entries.             *)
(***************************************************************************)
EXTENDS Dashboard, FiniteSetTheorems, WellFoundedInduction, TLAPS

-----------------------------------------------------------------------------
(* What stands before a key, and what a page holds of it.                  *)

IsKeys(K) == IsFiniteSet(DOMAIN K) /\ \A x \in DOMAIN K : K[x] \in Int

Less(K, x) == {y \in DOMAIN K : K[y] < K[x]}

LEMMA MinOfTwo ==
  ASSUME NEW a \in Nat, NEW b \in Nat
  PROVE  /\ Min({a, b}) \in {a, b}
         /\ Min({a, b}) <= a /\ Min({a, b}) <= b
  <1>1. \E x \in {a, b} : \A y \in {a, b} : x <= y
    OBVIOUS
  <1>2. Min({a, b}) \in {a, b} /\ \A y \in {a, b} : Min({a, b}) <= y
    BY <1>1 DEF Min
  <1> QED
    BY <1>2

LEMMA LessType ==
  ASSUME NEW K, IsKeys(K), NEW x \in DOMAIN K
  PROVE  /\ Less(K, x) \in SUBSET DOMAIN K
         /\ IsFiniteSet(Less(K, x)) /\ Cardinality(Less(K, x)) \in Nat
         /\ Cardinality(DOMAIN K) \in Nat
         /\ Cardinality(Less(K, x)) < Cardinality(DOMAIN K)
  <1>1. IsFiniteSet(DOMAIN K) /\ Cardinality(DOMAIN K) \in Nat
    BY FS_CardinalityType DEF IsKeys
  <1>2. Less(K, x) \in SUBSET DOMAIN K /\ x \notin Less(K, x)
    BY DEF Less, IsKeys
  <1>3. IsFiniteSet(Less(K, x)) /\ Cardinality(Less(K, x)) <= Cardinality(DOMAIN K)
        /\ Cardinality(Less(K, x)) # Cardinality(DOMAIN K)
    BY <1>1, <1>2, FS_Subset
  <1>4. Cardinality(Less(K, x)) \in Nat
    BY <1>3, FS_CardinalityType
  <1> QED
    BY <1>1, <1>2, <1>3, <1>4

LEMMA Fewer ==
  ASSUME NEW S, NEW T \in SUBSET S, IsFiniteSet(S)
  PROVE  /\ IsFiniteSet(T) /\ Cardinality(T) \in Nat /\ Cardinality(S) \in Nat
         /\ Cardinality(T) <= Cardinality(S)
         /\ \A x \in S : x \notin T => Cardinality(T) < Cardinality(S)
  <1>1. IsFiniteSet(T) /\ Cardinality(T) <= Cardinality(S) /\ (Cardinality(S) = Cardinality(T) => S = T)
    BY FS_Subset
  <1>2. Cardinality(T) \in Nat /\ Cardinality(S) \in Nat
    BY <1>1, FS_CardinalityType
  <1> QED
    BY <1>1, <1>2

(* A page is preceded by as many keys as the pages before it hold, so an   *)
(* untied key is on the page that its place is in.                         *)
LEMMA PagePlace ==
  ASSUME NEW K, IsKeys(K), NEW page \in Nat, Skip(page) \in Nat,
         NEW P \in Pages(K, page), NEW x \in DOMAIN K, x \notin Tied(K)
  PROVE  /\ x \in P => /\ Cardinality(Less(K, x)) >= Skip(page)
                       /\ Cardinality(Less(K, x)) < Skip(page) + PageSize
         /\ x \notin P => \/ Cardinality(Less(K, x)) < Skip(page)
                          \/ Cardinality(Less(K, x)) >= Skip(page) + PageSize
  <1> DEFINE S == DOMAIN K
             n == Cardinality(S)
             L == Less(K, x)
             skipped == Min({Skip(page), n})
             size == Min({PageSize, n - skipped})
  <1>1. /\ IsFiniteSet(S) /\ n \in Nat /\ L \in SUBSET S /\ IsFiniteSet(L)
        /\ Cardinality(L) \in Nat /\ PageSize \in Nat
    BY LessType, DashboardAssumption DEF IsKeys
  <1>2. /\ P \in SUBSET S /\ Cardinality(P) = size
        /\ \E Q \in SUBSET (S \ P) :
             /\ Cardinality(Q) = skipped
             /\ \A a \in Q, b \in S \ Q : K[a] <= K[b]
             /\ \A a \in P, b \in S \ (P \cup Q) : K[a] <= K[b]
    BY DEF Pages, kSubset
  <1> PICK Q \in SUBSET (S \ P) :
             /\ Cardinality(Q) = skipped
             /\ \A a \in Q, b \in S \ Q : K[a] <= K[b]
             /\ \A a \in P, b \in S \ (P \cup Q) : K[a] <= K[b]
    BY <1>2
  <1>3. \A y \in S : K[y] \in Int /\ (y # x => K[y] # K[x])
    BY DEF Tied, IsKeys
  <1>4. skipped \in {Skip(page), n} /\ skipped <= Skip(page) /\ skipped <= n /\ skipped \in Nat
    BY <1>1, MinOfTwo
  <1> HIDE DEF skipped
  <1>5. n - skipped \in Nat
    BY <1>1, <1>4
  <1>6. size \in {PageSize, n - skipped} /\ size <= PageSize /\ size <= n - skipped /\ size \in Nat
    BY <1>1, <1>5, MinOfTwo
  <1>7. IsFiniteSet(Q) /\ IsFiniteSet(P) /\ Q \cap P = {} /\ Q \cup P \in SUBSET S
    BY <1>1, <1>2, FS_Subset
  <1>8. IsFiniteSet(Q \cup P) /\ Cardinality(Q \cup P) = skipped + size
    <2>1. Cardinality(Q \cap P) = 0
      BY <1>7, FS_EmptySet
    <2>2. /\ IsFiniteSet(Q \cup P)
          /\ Cardinality(Q \cup P) = Cardinality(Q) + Cardinality(P) - Cardinality(Q \cap P)
      BY <1>7, FS_Union
    <2>3. Cardinality(Q) = skipped /\ Cardinality(P) = size
      BY <1>2
    <2> HIDE DEF size
    <2> QED
      BY <1>4, <1>6, <2>1, <2>2, <2>3
  <1> HIDE DEF size
  <1>9. CASE x \in P
    <2>1. Q \in SUBSET L
      BY <1>3, <1>9 DEF Less
    <2>2. L \in SUBSET (Q \cup P) /\ x \notin L
      BY <1>2, <1>3, <1>9 DEF Less
    <2>3. skipped <= Cardinality(L) /\ Cardinality(L) < skipped + size
      BY <1>1, <1>8, <1>9, <2>1, <2>2, Fewer
    <2>4. skipped = Skip(page)
      BY <1>1, <1>4, <1>6, <2>3
    <2> QED
      BY <1>1, <1>4, <1>6, <1>9, <2>3, <2>4
  <1>10. CASE x \in Q
    <2>1. L \in SUBSET Q /\ x \notin L
      BY <1>1, <1>3, <1>10 DEF Less
    <2>2. Cardinality(L) < skipped
      BY <1>7, <1>10, <2>1, Fewer
    <2> QED
      BY <1>1, <1>4, <1>10, <2>2
  <1>11. CASE x \notin P /\ x \notin Q
    <2>1. Q \cup P \in SUBSET L
      BY <1>2, <1>3, <1>7, <1>11 DEF Less
    <2>2. skipped + size <= Cardinality(L)
      BY <1>1, <1>8, <2>1, Fewer
    <2>3. skipped + size < n
      <3>1. x \notin Q \cup P
        BY <1>11
      <3> QED
        BY <1>1, <1>7, <1>8, <3>1, Fewer
    <2>4. skipped = Skip(page) /\ size = PageSize
      BY <1>1, <1>4, <1>6, <2>3
    <2> QED
      BY <1>11, <2>2, <2>4
  <1> QED
    BY <1>9, <1>10, <1>11

(* The pages: each begins where the one before it ended, and the last one  *)
(* ends behind all that was counted.                                       *)
LEMMA SkipStep ==
  ASSUME NEW page \in Nat \ {0}
  PROVE  Skip(page) \in Nat /\ Skip(page + 1) = Skip(page) + PageSize /\ Skip(1) = 0
  <1>1. PageSize \in Nat
    BY DashboardAssumption
  <1>2. \A a \in Nat : a * PageSize \in Nat /\ (a + 1) * PageSize = a * PageSize + PageSize
    BY <1>1
  <1>3. page - 1 \in Nat /\ (page - 1) + 1 = (page + 1) - 1
    OBVIOUS
  <1>4. (1 - 1) * PageSize = 0
    BY <1>1
  <1> QED
    BY <1>2, <1>3, <1>4 DEF Skip

LEMMA LastPageEnds ==
  ASSUME NEW page \in Nat \ {0}, NEW total \in Nat, LastPage(PaginationRes(page, total))
  PROVE  total <= Skip(page) + PageSize
  <1> DEFINE q == (total + PageSize - 1) \div PageSize
  <1>1. PageSize \in Nat \ {0}
    BY DashboardAssumption
  <1>2. q \in Nat /\ total + PageSize - 1 < (q + 1) * PageSize
    BY <1>1
  <1>3. page >= q
    BY DEF LastPage, PaginationRes, TotalPages
  <1> HIDE DEF q
  <1>4. (q + 1) * PageSize <= (page + 1) * PageSize
    BY <1>1, <1>2, <1>3
  <1>5. (page + 1) * PageSize = (page - 1) * PageSize + PageSize + PageSize
    BY <1>1
  <1>6. (page - 1) * PageSize \in Nat
    BY <1>1
  <1> QED
    BY <1>1, <1>2, <1>4, <1>5, <1>6 DEF Skip
-----------------------------------------------------------------------------
(* A reader of all pages, and the keys as they are.                        *)

Active(r, x) == r.kind = "sessions" /\ x \in r.moved
Preceded(K, x, S) == \E y \in S \ {x} : K[y] <= K[x]

(* A key not shown yet stands behind the pages read.                       *)
Ahead(r, K) ==
  \A x \in r.start \ (r.shown \cup r.tied) :
    Active(r, x) \/ Skip(r.page) <= Cardinality(Less(K, x))

(* And within what was counted, unless something came before it since.     *)
Counted(r, K) ==
  \A x \in r.start \ (r.shown \cup r.tied) :
    Active(r, x) \/ Preceded(K, x, r.late) \/ Cardinality(Less(K, x)) < r.total

(* Of what never moved, a key that was shown has less before it than the   *)
(* pages read hold.                                                        *)
Behind(r, K) ==
  \A x \in r.shown \ r.tied : Cardinality(Less(K, x) \ r.moved) < Skip(r.page)

Repeated(r, K) ==
  \A x \in r.twice \ r.tied :
    Preceded(K, x, r.moved) \/ (Active(r, x) /\ r.moved # {x})

Fits(r, K) ==
  /\ r.page \in Nat \ {0} /\ r.total \in Nat
  /\ r.start \subseteq DOMAIN K /\ r.shown \subseteq DOMAIN K /\ r.twice \subseteq DOMAIN K
  /\ r.moved \subseteq DOMAIN K /\ r.late \subseteq r.moved

OnTrack(r, K) ==
  /\ Fits(r, K)
  /\ Ahead(r, K)
  /\ r.step = "find" => Counted(r, K)
  /\ Behind(r, K)
  /\ Repeated(r, K)

(* Keys are added, or come to stand before what they stood behind.         *)
Placed(K, N) == {x \in DOMAIN N : x \notin DOMAIN K \/ N[x] # K[x]}
Grown(K, N) ==
  /\ IsKeys(K) /\ IsKeys(N)
  /\ DOMAIN K \subseteq DOMAIN N
  /\ \A x \in DOMAIN K : N[x] <= K[x]

(* The reader r2 is r, after the keys in S took their places.              *)
Noted(r, r2, S) ==
  /\ r2.kind = r.kind /\ r2.step = r.step /\ r2.page = r.page /\ r2.total = r.total
  /\ r2.start = r.start /\ r2.shown = r.shown /\ r2.twice = r.twice /\ r2.tied = r.tied
  /\ r2.moved = r.moved \cup S /\ r2.late = r.late \cup S

LEMMA LessGrows ==
  ASSUME NEW K, NEW N, Grown(K, N), NEW x \in DOMAIN K, N[x] = K[x]
  PROVE  Less(K, x) \subseteq Less(N, x) /\ Cardinality(Less(K, x)) <= Cardinality(Less(N, x))
  <1>1. \A y \in DOMAIN K : y \in DOMAIN N /\ K[y] \in Int /\ N[y] \in Int /\ N[y] <= K[y]
    BY DEF Grown, IsKeys
  <1>2. Less(K, x) \in SUBSET Less(N, x)
    BY <1>1 DEF Less
  <1>3. IsFiniteSet(Less(N, x))
    BY <1>1, LessType DEF Grown
  <1> QED
    BY <1>2, <1>3, Fewer

(* What stands before a key now and was never placed stood there already.  *)
LEMMA LessUnplaced ==
  ASSUME NEW K, NEW N, Grown(K, N), NEW x \in DOMAIN K, NEW y \in Less(N, x),
         y \notin Placed(K, N)
  PROVE  y \in Less(K, x)
  <1>1. y \in DOMAIN K /\ N[y] = K[y] /\ N[y] < N[x]
    BY DEF Less, Placed
  <1>2. K[y] \in Int /\ N[x] \in Int /\ K[x] \in Int /\ N[x] <= K[x]
    BY <1>1 DEF Grown, IsKeys
  <1> QED
    BY <1>1, <1>2 DEF Less

LEMMA PrecededGrows ==
  ASSUME NEW K, NEW N, Grown(K, N), NEW x \in DOMAIN K, N[x] = K[x],
         NEW S \in SUBSET DOMAIN K, NEW T, S \subseteq T, Preceded(K, x, S)
  PROVE  Preceded(N, x, T)
  <1>1. \A y \in DOMAIN K : y \in DOMAIN N /\ K[y] \in Int /\ N[y] \in Int /\ N[y] <= K[y]
    BY DEF Grown, IsKeys
  <1>2. PICK y \in S \ {x} : K[y] <= K[x]
    BY DEF Preceded
  <1>3. N[y] <= N[x] /\ y \in T \ {x}
    BY <1>1, <1>2
  <1> QED
    BY <1>3 DEF Preceded

(* Placing keys leaves the reader on track.                                *)
LEMMA PlacingKeeps ==
  ASSUME NEW r, NEW r2, NEW K, NEW N, OnTrack(r, K), Grown(K, N), Noted(r, r2, Placed(K, N)),
         \A x \in DOMAIN K : N[x] # K[x] => r.kind = "sessions"
  PROVE  OnTrack(r2, N)
  <1> DEFINE S == Placed(K, N)
  <1>0. /\ r2.kind = r.kind /\ r2.step = r.step /\ r2.page = r.page /\ r2.total = r.total
        /\ r2.start = r.start /\ r2.shown = r.shown /\ r2.twice = r.twice /\ r2.tied = r.tied
        /\ r2.moved = r.moved \cup S /\ r2.late = r.late \cup S
    BY DEF Noted
  <1>1. /\ r.page \in Nat \ {0} /\ r.total \in Nat
        /\ r.start \subseteq DOMAIN K /\ r.shown \subseteq DOMAIN K /\ r.twice \subseteq DOMAIN K
        /\ r.moved \subseteq DOMAIN K /\ r.late \subseteq r.moved
        /\ DOMAIN K \subseteq DOMAIN N /\ S \subseteq DOMAIN N
        /\ Skip(r.page) \in Nat
    BY SkipStep DEF OnTrack, Fits, Grown, Placed
  <1>2. ASSUME NEW x \in DOMAIN K, N[x] # K[x]
        PROVE  r.kind = "sessions" /\ x \in S
    BY <1>1, <1>2 DEF Placed
  <1>3. Fits(r2, N)
    BY <1>0, <1>1 DEF Fits
  <1>4. ASSUME NEW x \in r2.start \ (r2.shown \cup r2.tied), ~Active(r2, x)
        PROVE  N[x] = K[x] /\ x \in r.start \ (r.shown \cup r.tied) /\ x \in DOMAIN K /\ ~Active(r, x)
    BY <1>0, <1>1, <1>2, <1>4 DEF Active
  <1>5. Ahead(r2, N)
    <2> SUFFICES ASSUME NEW x \in r2.start \ (r2.shown \cup r2.tied), ~Active(r2, x)
                 PROVE  Skip(r2.page) <= Cardinality(Less(N, x))
      BY DEF Ahead
    <2>1. N[x] = K[x] /\ x \in DOMAIN K /\ Skip(r.page) <= Cardinality(Less(K, x))
      BY <1>4 DEF OnTrack, Ahead
    <2>2. Cardinality(Less(K, x)) <= Cardinality(Less(N, x))
      BY <2>1, LessGrows
    <2>3. Cardinality(Less(K, x)) \in Nat /\ Cardinality(Less(N, x)) \in Nat
      BY <1>1, <2>1, LessType DEF Grown
    <2> QED
      BY <1>0, <1>1, <2>1, <2>2, <2>3
  <1>6. r2.step = "find" => Counted(r2, N)
    <2> SUFFICES ASSUME r2.step = "find", NEW x \in r2.start \ (r2.shown \cup r2.tied),
                        ~Active(r2, x), ~Preceded(N, x, r2.late)
                 PROVE  Cardinality(Less(N, x)) < r2.total
      BY DEF Counted
    <2>1. N[x] = K[x] /\ x \in DOMAIN K
      BY <1>4
    <2>2. ~Preceded(K, x, r.late)
      BY <1>0, <1>1, <2>1, PrecededGrows
    <2>3. Cardinality(Less(K, x)) < r.total
      BY <1>0, <1>4, <2>2 DEF OnTrack, Counted
    <2>4. ASSUME NEW y \in Less(N, x) PROVE y \in Less(K, x)
      <3>1. y \in DOMAIN N /\ N[y] < N[x] /\ N[x] \in Int /\ N[y] \in Int
        BY <1>1, <2>1 DEF Less, Grown, IsKeys
      <3>2. y # x /\ N[y] <= N[x]
        BY <3>1
      <3>3. y \notin S
        BY <1>0, <3>2 DEF Preceded
      <3> QED
        BY <2>1, <3>3, LessUnplaced
    <2>5. Less(N, x) \in SUBSET Less(K, x) /\ IsFiniteSet(Less(K, x)) /\ Cardinality(Less(K, x)) \in Nat
      BY <2>1, <2>4, LessType DEF Grown
    <2>6. Cardinality(Less(N, x)) <= Cardinality(Less(K, x)) /\ Cardinality(Less(N, x)) \in Nat
      BY <2>5, Fewer
    <2> QED
      BY <1>0, <1>1, <2>3, <2>5, <2>6
  <1>7. Behind(r2, N)
    <2> SUFFICES ASSUME NEW x \in r2.shown \ r2.tied
                 PROVE  Cardinality(Less(N, x) \ r2.moved) < Skip(r2.page)
      BY DEF Behind
    <2>1. x \in DOMAIN K /\ Cardinality(Less(K, x) \ r.moved) < Skip(r.page)
      BY <1>0, <1>1 DEF OnTrack, Behind
    <2>2. Less(N, x) \ r2.moved \in SUBSET (Less(K, x) \ r.moved)
      BY <1>0, <2>1, LessUnplaced
    <2>3. IsFiniteSet(Less(K, x) \ r.moved)
      BY <2>1, LessType, FS_Difference DEF Grown
    <2>4. /\ Cardinality(Less(N, x) \ r2.moved) <= Cardinality(Less(K, x) \ r.moved)
          /\ Cardinality(Less(N, x) \ r2.moved) \in Nat /\ Cardinality(Less(K, x) \ r.moved) \in Nat
      BY <2>2, <2>3, Fewer
    <2> QED
      BY <1>0, <1>1, <2>1, <2>4
  <1>8. Repeated(r2, N)
    <2> SUFFICES ASSUME NEW x \in r2.twice \ r2.tied, ~(Active(r2, x) /\ r2.moved # {x})
                 PROVE  Preceded(N, x, r2.moved)
      BY DEF Repeated
    <2>1. x \in DOMAIN K /\ (Preceded(K, x, r.moved) \/ (Active(r, x) /\ r.moved # {x}))
      BY <1>0, <1>1 DEF OnTrack, Repeated
    <2>2. \E y \in r.moved : y # x
      BY <2>1 DEF Preceded, Active
    <2>3. ~Active(r2, x)
      BY <1>0, <2>2
    <2>4. N[x] = K[x] /\ ~Active(r, x)
      BY <1>0, <1>2, <2>1, <2>3 DEF Active
    <2> QED
      BY <1>0, <1>1, <2>1, <2>4, PrecededGrows
  <1> QED
    BY <1>3, <1>5, <1>6, <1>7, <1>8 DEF OnTrack
-----------------------------------------------------------------------------
(* The latest of some times.                                               *)

LEMMA Least ==
  ASSUME NEW T \in SUBSET Nat, T # {}
  PROVE  \E x \in T : \A y \in T : x <= y
  <1>1. PICK x \in T : \A y \in T : ~(<<y, x>> \in OpToRel(<, Nat))
    BY WFMin, NatLessThanWellFounded
  <1>2. \A y \in T : ~(y < x)
    BY <1>1 DEF OpToRel
  <1> QED
    BY <1>2

LEMMA MaxOfTimes ==
  ASSUME NEW b \in Nat, NEW T \in SUBSET (0 .. b), T # {}
  PROVE  Max(T) \in T /\ \A y \in T : Max(T) >= y
  <1> DEFINE U == {b - t : t \in T}
  <1>1. U \in SUBSET Nat
    OBVIOUS
  <1>2. U # {}
    <2>1. PICK t : t \in T
      OBVIOUS
    <2> QED
      BY <2>1
  <1>3. \A y \in T : b - y \in U
    OBVIOUS
  <1>4. \A u \in U : \E t \in T : u = b - t
    OBVIOUS
  <1> HIDE DEF U
  <1>5. PICK u \in U : \A v \in U : u <= v
    BY <1>1, <1>2, Least
  <1>6. PICK x \in T : u = b - x
    BY <1>4
  <1>7. \A y \in T : u <= b - y
    BY <1>3, <1>5
  <1>8. \A y \in T : x >= y
    BY <1>6, <1>7
  <1> QED
    BY <1>8 DEF Max
-----------------------------------------------------------------------------
(* Induction over the numbers and over the subsets of a finite set: what   *)
(* holds of some of them is a set.                                         *)

LEMMA SetInduction ==
  ASSUME NEW F \in SUBSET Nat, 0 \in F, \A n \in F : n + 1 \in F
  PROVE  F = Nat
  <1> DEFINE Bad == Nat \ F
  <1> SUFFICES ASSUME Bad # {} PROVE FALSE
    OBVIOUS
  <1>1. PICK n \in Bad : \A m \in Bad : n <= m
    BY Least
  <1>2. n # 0 /\ n - 1 \in Nat /\ n - 1 \notin Bad
    BY <1>1
  <1> QED
    BY <1>1, <1>2

LEMMA SubsetInduction ==
  ASSUME NEW X, IsFiniteSet(X), NEW F, {} \in F,
         \A T \in SUBSET X : T # {} /\ (\A x \in T : T \ {x} \in F) => T \in F
  PROVE  \A T \in SUBSET X : T \in F
  <1> DEFINE Bad == {T \in SUBSET X : T \notin F}
             N == {Cardinality(T) : T \in Bad}
  <1>1. \A T \in SUBSET X : IsFiniteSet(T) /\ Cardinality(T) \in Nat
    BY FS_Subset, FS_CardinalityType
  <1>2. N \in SUBSET Nat
    BY <1>1
  <1> SUFFICES ASSUME Bad # {} PROVE FALSE
    OBVIOUS
  <1>3. N # {}
    OBVIOUS
  <1>4. PICK n \in N : \A m \in N : n <= m
    BY <1>2, <1>3, Least
  <1>5. PICK T \in Bad : n = Cardinality(T)
    BY <1>4
  <1>6. ASSUME NEW x \in T PROVE T \ {x} \in F
    <2>1. T \ {x} \in SUBSET X /\ Cardinality(T \ {x}) = Cardinality(T) - 1
      BY <1>1, <1>5, FS_RemoveElement
    <2>2. T \ {x} \in Bad => Cardinality(T) <= Cardinality(T) - 1
      BY <1>4, <1>5, <2>1
    <2>3. Cardinality(T) \in Nat
      BY <1>1, <1>5
    <2> QED
      BY <2>1, <2>2, <2>3
  <1> QED
    BY <1>5, <1>6

(* Functions that are defined by recursion over them exist.                *)

OverNumbers(g, N, v, step) == g = [n \in 0 .. N |-> IF n = 0 THEN v ELSE step[<<n, g[n - 1]>>]]
OverSubsets(g, S, v, step, pick) ==
  g = [T \in SUBSET S |-> IF T = {} THEN v ELSE step[<<pick[T], g[T \ {pick[T]}]>>]]

LEMMA NumberRecursion ==
  ASSUME NEW N \in Nat, NEW V, NEW v \in V, NEW step \in [(1 .. N) \X V -> V]
  PROVE  \E g \in [0 .. N -> V] : OverNumbers(g, N, v, step)
  <1> DEFINE Upto(g, n) == g[0] = v /\ \A m \in 1 .. n : g[m] = step[<<m, g[m - 1]>>]
             F == {n \in Nat : n <= N => \E g \in [0 .. n -> V] : Upto(g, n)}
  <1>1. 0 \in F
    <2> DEFINE g == [n \in 0 .. 0 |-> v]
    <2>1. g \in [0 .. 0 -> V] /\ Upto(g, 0)
      OBVIOUS
    <2> HIDE DEF g
    <2> QED
      BY <2>1
  <1>2. ASSUME NEW n \in F PROVE n + 1 \in F
    <2>1. n \in Nat
      OBVIOUS
    <2> SUFFICES ASSUME n + 1 <= N PROVE \E g \in [0 .. (n + 1) -> V] : Upto(g, n + 1)
      BY <2>1
    <2>2. PICK h \in [0 .. n -> V] : Upto(h, n)
      BY <2>1
    <2> DEFINE g == [m \in 0 .. (n + 1) |-> IF m = n + 1 THEN step[<<n + 1, h[n]>>] ELSE h[m]]
    <2>3. h[n] \in V /\ n + 1 \in 1 .. N
      BY <2>1
    <2>4. step[<<n + 1, h[n]>>] \in V
      BY <2>3
    <2>5. g \in [0 .. (n + 1) -> V] /\ g[n + 1] = step[<<n + 1, h[n]>>] /\ \A m \in 0 .. n : g[m] = h[m]
      BY <2>1, <2>4
    <2> HIDE DEF g
    <2>6. ASSUME NEW m \in 1 .. (n + 1) PROVE g[m] = step[<<m, g[m - 1]>>]
      <3>1. CASE m = n + 1
        BY <2>1, <2>5, <3>1, SMTT(30)
      <3>2. CASE m \in 1 .. n
        <4>1. m \in 0 .. n /\ m - 1 \in 0 .. n
          BY <2>1, <3>2
        <4> QED
          BY <2>2, <2>5, <3>2, <4>1
      <3> QED
        BY <2>1, <3>1, <3>2
    <2>7. g[0] = v
      BY <2>1, <2>2, <2>5
    <2> QED
      BY <2>5, <2>6, <2>7
  <1>3. F \in SUBSET Nat
    OBVIOUS
  <1> HIDE DEF F
  <1>4. N \in F
    BY <1>1, <1>2, <1>3, SetInduction
  <1>5. PICK g \in [0 .. N -> V] : Upto(g, N)
    BY <1>4 DEF F
  <1>6. \A n \in 0 .. N : g[n] = IF n = 0 THEN v ELSE step[<<n, g[n - 1]>>]
    BY <1>5
  <1> QED
    BY <1>6 DEF OverNumbers

LEMMA SubsetRecursion ==
  ASSUME NEW S, IsFiniteSet(S), NEW V, NEW v \in V, NEW step \in [S \X V -> V],
         NEW pick, \A T \in SUBSET S : T # {} => pick[T] \in T
  PROVE  \E g \in [SUBSET S -> V] : OverSubsets(g, S, v, step, pick)
  <1> DEFINE Step(g, T) == IF T = {} THEN v ELSE step[<<pick[T], g[T \ {pick[T]}]>>]
             Upto(g, n) == \A T \in SUBSET S : Cardinality(T) <= n => g[T] = Step(g, T)
             F == {n \in Nat : \E g \in [SUBSET S -> V] : Upto(g, n)}
  <1>1. \A T \in SUBSET S : IsFiniteSet(T) /\ Cardinality(T) \in Nat /\ (Cardinality(T) = 0 <=> T = {})
    BY FS_Subset, FS_CardinalityType, FS_EmptySet
  <1>2. \A T \in SUBSET S : T # {} => /\ pick[T] \in T /\ T \ {pick[T]} \in SUBSET S
                                      /\ Cardinality(T \ {pick[T]}) = Cardinality(T) - 1
    <2> SUFFICES ASSUME NEW T \in SUBSET S, T # {}
                 PROVE  /\ pick[T] \in T /\ T \ {pick[T]} \in SUBSET S
                        /\ Cardinality(T \ {pick[T]}) = Cardinality(T) - 1
      OBVIOUS
    <2>1. pick[T] \in T /\ IsFiniteSet(T)
      BY <1>1
    <2> QED
      BY <2>1, FS_RemoveElement
  <1>3. 0 \in F
    <2> DEFINE g == [T \in SUBSET S |-> v]
    <2>1. g \in [SUBSET S -> V] /\ g[{}] = v
      OBVIOUS
    <2>2. \A T \in SUBSET S : Cardinality(T) <= 0 => T = {}
      BY <1>1
    <2>3. Upto(g, 0)
      BY <2>1, <2>2
    <2> QED
      BY <2>1, <2>3
  <1>4. ASSUME NEW n \in F PROVE n + 1 \in F
    <2>1. n \in Nat
      OBVIOUS
    <2>2. PICK g \in [SUBSET S -> V] : Upto(g, n)
      OBVIOUS
    <2> DEFINE h == [T \in SUBSET S |-> Step(g, T)]
    <2>3. h \in [SUBSET S -> V] /\ \A T \in SUBSET S : h[T] = Step(g, T)
      <3>1. \A T \in SUBSET S : Step(g, T) \in V
        <4>1. ASSUME NEW T \in SUBSET S, T # {} PROVE step[<<pick[T], g[T \ {pick[T]}]>>] \in V
          <5>1. pick[T] \in S /\ g[T \ {pick[T]}] \in V
            BY <1>2, <4>1
          <5> QED
            BY <5>1
        <4> QED
          BY <4>1
      <3> HIDE DEF Step
      <3> QED
        BY <3>1
    <2>4. ASSUME NEW T \in SUBSET S, Cardinality(T) <= n + 1 PROVE h[T] = Step(h, T)
      <3>1. h[T] = Step(g, T)
        BY <2>3
      <3>2. T # {} => h[T \ {pick[T]}] = g[T \ {pick[T]}]
        <4>1. ASSUME T # {} PROVE T \ {pick[T]} \in SUBSET S /\ Cardinality(T \ {pick[T]}) <= n
          BY <1>1, <1>2, <2>1, <2>4, <4>1
        <4> QED
          BY <2>2, <2>3, <4>1
      <3> HIDE DEF h
      <3> QED
        BY <3>1, <3>2
    <2> HIDE DEF h, Step
    <2>5. Upto(h, n + 1)
      BY <2>4
    <2> QED
      BY <2>1, <2>3, <2>5
  <1>5. F \in SUBSET Nat
    OBVIOUS
  <1> HIDE DEF F
  <1>6. Cardinality(S) \in Nat /\ \A T \in SUBSET S : Cardinality(T) <= Cardinality(S)
    BY FS_CardinalityType, FS_Subset
  <1>7. Cardinality(S) \in F
    BY <1>3, <1>4, <1>5, <1>6, SetInduction
  <1>8. PICK g \in [SUBSET S -> V] : Upto(g, Cardinality(S))
    BY <1>7 DEF F
  <1>9. \A T \in SUBSET S : g[T] = Step(g, T)
    BY <1>6, <1>8
  <1> HIDE DEF Upto
  <1>10. DOMAIN g = SUBSET S
    OBVIOUS
  <1>11. g = [T \in SUBSET S |-> g[T]]
    BY <1>10
  <1>12. [T \in SUBSET S |-> g[T]] = [T \in SUBSET S |-> Step(g, T)]
    <2> HIDE DEF Step
    <2> QED
      BY <1>9
  <1>13. g = [T \in SUBSET S |-> Step(g, T)]
    BY <1>11, <1>12
  <1> QED
    BY <1>13 DEF OverSubsets
LEMMA ImageFinite ==
  ASSUME NEW S, IsFiniteSet(S), NEW f, DOMAIN f = S, NEW T, T = {f[x] : x \in S}
  PROVE  IsFiniteSet(T)
  <1>1. [x \in S |-> f[x]] \in Surjection(S, T)
    BY DEF Surjection
  <1> QED
    BY <1>1, FS_Surjection

LEMMA CountImage ==
  ASSUME NEW S, IsFiniteSet(S), NEW f, DOMAIN f = S, NEW T, T = {f[x] : x \in S},
         \A x, y \in S : f[x] = f[y] => x = y
  PROVE  IsFiniteSet(T) /\ Cardinality(T) = Cardinality(S)
  <1> DEFINE g == [x \in S |-> f[x]]
  <1>1. g \in [S -> T] /\ (\A x \in S : g[x] = f[x])
    OBVIOUS
  <1>2. \A x, y \in S : g[x] = g[y] => x = y
    OBVIOUS
  <1>3. \A t \in T : \E x \in S : g[x] = t
    OBVIOUS
  <1> HIDE DEF g
  <1>4. g \in Injection(S, T)
    BY <1>1, <1>2 DEF Injection, IsInjective
  <1>5. g \in Surjection(S, T)
    BY <1>1, <1>3 DEF Surjection
  <1>6. ExistsBijection(S, T)
    BY <1>4, <1>5 DEF Bijection, ExistsBijection
  <1> QED
    BY <1>6, FS_Bijection
-----------------------------------------------------------------------------
(* The sum of a function over a set: any function that adds up one element *)
(* after the other gives it.                                               *)
Total(w, S) == MapThenSumSet(LAMBDA x : w[x], S)

Pick(T) == CHOOSE x \in T : TRUE

Adds(g, w, S) == g = [T \in SUBSET S |-> IF T = {} THEN 0 ELSE w[Pick(T)] + g[T \ {Pick(T)}]]

LEMMA PickIn ==
  ASSUME NEW T, T # {}
  PROVE  Pick(T) \in T
  BY DEF Pick

LEMMA AddsExists ==
  ASSUME NEW S, IsFiniteSet(S), NEW w \in [S -> Int]
  PROVE  \E g \in [SUBSET S -> Int] : Adds(g, w, S)
  <1> DEFINE step == [x \in S \X Int |-> w[x[1]] + x[2]]
             pick == [T \in SUBSET S |-> Pick(T)]
  <1>1. step \in [S \X Int -> Int] /\ \A x \in S, n \in Int : step[<<x, n>>] = w[x] + n
    OBVIOUS
  <1>2. \A T \in SUBSET S : pick[T] = Pick(T) /\ (T # {} => pick[T] \in T)
    BY PickIn
  <1>3. 0 \in Int
    OBVIOUS
  <1> HIDE DEF step, pick
  <1> DEFINE V == Int
             v == 0
  <1>7. v \in V /\ step \in [S \X V -> V] /\ \A T \in SUBSET S : T # {} => pick[T] \in T
    BY <1>1, <1>2, <1>3
  <1> HIDE DEF V, v
  <1>8. \E g \in [SUBSET S -> V] : OverSubsets(g, S, v, step, pick)
    BY <1>7, SubsetRecursion
  <1>4. PICK g \in [SUBSET S -> Int] :
          g = [T \in SUBSET S |-> IF T = {} THEN 0 ELSE step[<<pick[T], g[T \ {pick[T]}]>>]]
    BY <1>8 DEF V, v, OverSubsets
  <1>5. \A T \in SUBSET S : g[T] = IF T = {} THEN 0 ELSE w[Pick(T)] + g[T \ {Pick(T)}]
    <2> SUFFICES ASSUME NEW T \in SUBSET S, T # {} PROVE g[T] = w[Pick(T)] + g[T \ {Pick(T)}]
      BY <1>4
    <2>1. g[T] = step[<<pick[T], g[T \ {pick[T]}]>>]
      BY <1>4
    <2>2. pick[T] = Pick(T) /\ Pick(T) \in S /\ g[T \ {Pick(T)}] \in Int
      BY <1>2
    <2> QED
      BY <1>1, <2>1, <2>2
  <1>6. DOMAIN g = SUBSET S
    OBVIOUS
  <1> QED
    BY <1>5, <1>6 DEF Adds


LEMMA AddsAgree ==
  ASSUME NEW S, IsFiniteSet(S), NEW w, NEW v, NEW g, Adds(g, w, S), NEW T \in SUBSET S, NEW h, Adds(h, v, T),
         \A x \in T : w[x] = v[x]
  PROVE  g[T] = h[T]
  <1> DEFINE F == {U \in SUBSET T : g[U] = h[U]}
  <1>1. \A U \in SUBSET T : /\ g[U] = IF U = {} THEN 0 ELSE w[Pick(U)] + g[U \ {Pick(U)}]
                            /\ h[U] = IF U = {} THEN 0 ELSE v[Pick(U)] + h[U \ {Pick(U)}]
    BY DEF Adds
  <1>2. {} \in F
    BY <1>1
  <1>3. ASSUME NEW U \in SUBSET T, U # {}, \A x \in U : U \ {x} \in F
        PROVE  U \in F
    <2>1. Pick(U) \in U
      BY <1>3, PickIn
    <2>2. g[U \ {Pick(U)}] = h[U \ {Pick(U)}] /\ w[Pick(U)] = v[Pick(U)]
      BY <1>3, <2>1
    <2> QED
      BY <1>1, <1>3, <2>2
  <1>4. IsFiniteSet(T)
    BY FS_Subset
  <1> HIDE DEF F
  <1>5. T \in F
    BY <1>2, <1>3, <1>4, SubsetInduction
  <1> QED
    BY <1>5 DEF F

(* The library's sum is such a function.                                   *)
LEMMA TotalAdds ==
  ASSUME NEW S, IsFiniteSet(S), NEW w \in [S -> Int]
  PROVE  \E g \in [SUBSET S -> Int] : Adds(g, w, S) /\ Total(w, S) = g[S]
  <1> DEFINE it == CHOOSE g : Adds(g, w, S)
  <1>1. Total(w, S) = it[S]
    BY DEF Total, MapThenSumSet, MapThenFoldSet, Adds, Pick
  <1>2. PICK g \in [SUBSET S -> Int] : Adds(g, w, S)
    BY AddsExists
  <1>3. Adds(it, w, S)
    BY <1>2
  <1> HIDE DEF it
  <1>4. it[S] = g[S]
    BY <1>2, <1>3, AddsAgree
  <1> QED
    BY <1>1, <1>2, <1>4


LEMMA TotalEmpty ==
  ASSUME NEW w
  PROVE  Total(w, {}) = 0
  <1> DEFINE it == CHOOSE g : Adds(g, w, {})
             z == [T \in SUBSET {} |-> 0]
  <1>1. Total(w, {}) = it[{}]
    BY DEF Total, MapThenSumSet, MapThenFoldSet, Adds, Pick
  <1>2. Adds(z, w, {})
    BY DEF Adds
  <1>3. Adds(it, w, {})
    BY <1>2
  <1> HIDE DEF it
  <1> QED
    BY <1>1, <1>3 DEF Adds

LEMMA TotalType ==
  ASSUME NEW S, IsFiniteSet(S), NEW w \in [S -> Int]
  PROVE  Total(w, S) \in Int
  <1>1. PICK g \in [SUBSET S -> Int] : Adds(g, w, S) /\ Total(w, S) = g[S]
    BY TotalAdds
  <1> QED
    BY <1>1

(* It is the same for functions that agree on the set.                     *)
LEMMA TotalSame ==
  ASSUME NEW S, IsFiniteSet(S), NEW w, NEW v \in [S -> Int], \A x \in S : w[x] = v[x]
  PROVE  Total(w, S) = Total(v, S)
  <1> DEFINE it == CHOOSE g : Adds(g, w, S)
  <1>1. Total(w, S) = it[S]
    BY DEF Total, MapThenSumSet, MapThenFoldSet, Adds, Pick
  <1>3. PICK g \in [SUBSET S -> Int] : Adds(g, v, S) /\ Total(v, S) = g[S]
    BY TotalAdds
  <1>4. Adds(g, w, S)
    <2>1. \A T \in SUBSET S : T # {} => w[Pick(T)] = v[Pick(T)]
      BY PickIn
    <2> QED
      BY <1>3, <2>1 DEF Adds
  <1>5. Adds(it, w, S)
    BY <1>4
  <1> HIDE DEF it
  <1>6. it[S] = g[S]
    BY <1>4, <1>5, AddsAgree
  <1> QED
    BY <1>1, <1>3, <1>6

(* It comes to what is left and any element that is taken away.            *)
LEMMA TotalRemove ==
  ASSUME NEW S, IsFiniteSet(S), NEW w \in [S -> Int], NEW x \in S
  PROVE  Total(w, S) = Total(w, S \ {x}) + w[x]
  <1> DEFINE F == {T \in SUBSET S : \A y \in T : Total(w, T) = Total(w, T \ {y}) + w[y]}
  <1>1. \A T \in SUBSET S : IsFiniteSet(T) /\ Total(w, T) \in Int
    <2> SUFFICES ASSUME NEW T \in SUBSET S PROVE IsFiniteSet(T) /\ Total(w, T) \in Int
      OBVIOUS
    <2>1. IsFiniteSet(T)
      BY FS_Subset
    <2> DEFINE v == [y \in T |-> w[y]]
    <2>2. v \in [T -> Int] /\ \A y \in T : w[y] = v[y]
      OBVIOUS
    <2> HIDE DEF v
    <2>3. Total(w, T) = Total(v, T)
      BY <2>1, <2>2, TotalSame
    <2> QED
      BY <2>1, <2>2, <2>3, TotalType
  <1>2. ASSUME NEW T \in SUBSET S, T # {}
        PROVE  Total(w, T) = Total(w, T \ {Pick(T)}) + w[Pick(T)]
    <2> DEFINE p == Pick(T)
               R == T \ {p}
               v == [y \in T |-> w[y]]
               u == [y \in R |-> w[y]]
    <2>1. p \in T
      BY <1>2, PickIn
    <2>2. /\ v \in [T -> Int] /\ \A y \in T : w[y] = v[y]
          /\ u \in [R -> Int] /\ \A y \in R : w[y] = u[y] /\ v[y] = u[y]
      OBVIOUS
    <2>3. R \in SUBSET S /\ R \in SUBSET T /\ IsFiniteSet(T)
      BY <1>1
    <2>12. IsFiniteSet(R)
      BY <2>3, FS_Subset
    <2> HIDE DEF v, u, p, R
    <2>4. Total(w, T) = Total(v, T) /\ Total(w, R) = Total(u, R)
      BY <1>1, <2>2, <2>3, TotalSame
    <2>5. PICK g \in [SUBSET T -> Int] : Adds(g, v, T) /\ Total(v, T) = g[T]
      BY <1>1, <2>2, TotalAdds
    <2>6. PICK h \in [SUBSET R -> Int] : Adds(h, u, R) /\ Total(u, R) = h[R]
      BY <2>2, <2>12, TotalAdds
    <2>7. g[R] = h[R]
      BY <2>2, <2>3, <2>5, <2>6, AddsAgree
    <2>8. g[T] = v[p] + g[R]
      BY <1>2, <2>5 DEF Adds, p, R
    <2>9. g[R] \in Int /\ v[p] \in Int
      BY <2>1, <2>2, <2>3, <2>5
    <2>10. g[T] = g[R] + v[p]
      BY <2>8, <2>9
    <2>11. v[p] = w[p]
      BY <2>1, <2>2
    <2> QED
      BY <2>4, <2>5, <2>6, <2>7, <2>10, <2>11 DEF p, R
  <1>3. {} \in F
    OBVIOUS
  <1>4. ASSUME NEW T \in SUBSET S, T # {}, \A y \in T : T \ {y} \in F
        PROVE  T \in F
    <2> DEFINE p == Pick(T)
    <2>1. p \in T /\ Total(w, T) = Total(w, T \ {p}) + w[p]
      BY <1>2, <1>4, PickIn
    <2> HIDE DEF p
    <2> SUFFICES ASSUME NEW y \in T, y # p PROVE Total(w, T) = Total(w, T \ {y}) + w[y]
      BY <2>1
    <2>2. Total(w, T \ {p}) = Total(w, (T \ {p}) \ {y}) + w[y]
      BY <1>4, <2>1
    <2>3. Total(w, T \ {y}) = Total(w, (T \ {y}) \ {p}) + w[p]
      BY <1>4, <2>1
    <2>4. (T \ {y}) \ {p} = (T \ {p}) \ {y}
      OBVIOUS
    <2> DEFINE a == Total(w, T \ {p})
               b == Total(w, T \ {y})
               c == Total(w, (T \ {p}) \ {y})
    <2>5. c \in Int /\ w[p] \in Int /\ w[y] \in Int
      BY <1>1, <2>1
    <2>6. Total(w, T) = a + w[p] /\ a = c + w[y] /\ b = c + w[p]
      BY <2>1, <2>2, <2>3, <2>4
    <2> HIDE DEF a, b, c
    <2>7. Total(w, T) = b + w[y]
      BY <2>5, <2>6
    <2> QED
      BY <2>7 DEF b
  <1> HIDE DEF F
  <1>5. S \in F
    BY <1>3, <1>4, SubsetInduction
  <1> QED
    BY <1>5 DEF F


(* The same, for a function that is defined on more than the set.          *)
LEMMA TotalTake ==
  ASSUME NEW S, IsFiniteSet(S), NEW w, \A y \in S : w[y] \in Int, NEW x \in S
  PROVE  Total(w, S) = Total(w, S \ {x}) + w[x]
  <1> DEFINE v == [y \in S |-> w[y]]
             u == [y \in S \ {x} |-> w[y]]
  <1>1. /\ v \in [S -> Int] /\ \A y \in S : w[y] = v[y]
        /\ u \in [S \ {x} -> Int] /\ \A y \in S \ {x} : w[y] = u[y] /\ v[y] = u[y]
    OBVIOUS
  <1>2. IsFiniteSet(S \ {x})
    BY FS_RemoveElement
  <1> HIDE DEF u, v
  <1>3. Total(w, S) = Total(v, S) /\ Total(w, S \ {x}) = Total(u, S \ {x}) /\ Total(v, S \ {x}) = Total(u, S \ {x})
    BY <1>1, <1>2, TotalSame
  <1>4. Total(v, S) = Total(v, S \ {x}) + v[x]
    BY <1>1, TotalRemove
  <1> QED
    BY <1>1, <1>3, <1>4

LEMMA TotalInt ==
  ASSUME NEW S, IsFiniteSet(S), NEW w, \A y \in S : w[y] \in Int
  PROVE  Total(w, S) \in Int
  <1> DEFINE v == [y \in S |-> w[y]]
  <1>1. v \in [S -> Int] /\ \A y \in S : w[y] = v[y]
    OBVIOUS
  <1> HIDE DEF v
  <1> QED
    BY <1>1, TotalSame, TotalType

LEMMA TotalAlike ==
  ASSUME NEW S, IsFiniteSet(S), NEW w, NEW v, \A y \in S : w[y] = v[y] /\ v[y] \in Int
  PROVE  Total(w, S) = Total(v, S)
  <1> DEFINE u == [y \in S |-> w[y]]
  <1>1. u \in [S -> Int] /\ \A y \in S : w[y] = u[y] /\ v[y] = u[y]
    OBVIOUS
  <1> HIDE DEF u
  <1> QED
    BY <1>1, TotalSame

LEMMA TotalOne ==
  ASSUME NEW w, NEW x, w[x] \in Int
  PROVE  Total(w, {x}) = w[x]
  <1>1. IsFiniteSet({x}) /\ {x} \ {x} = {} /\ \A y \in {x} : w[y] \in Int
    BY FS_Singleton
  <1>2. Total(w, {x}) = Total(w, {x} \ {x}) + w[x]
    BY <1>1, TotalTake
  <1>3. Total(w, {x} \ {x}) = 0
    BY <1>1, TotalEmpty
  <1> QED
    BY <1>2, <1>3

(* Ones are counted; zeros may be left out.                                *)
LEMMA TotalOnes ==
  ASSUME NEW S, IsFiniteSet(S), NEW w, \A x \in S : w[x] = 1
  PROVE  Total(w, S) = Cardinality(S)
  <1> DEFINE F == {T \in SUBSET S : Total(w, T) = Cardinality(T)}
  <1>1. {} \in F
    BY TotalEmpty, FS_EmptySet
  <1>2. ASSUME NEW T \in SUBSET S, T # {}, \A x \in T : T \ {x} \in F
        PROVE  T \in F
    <2>1. IsFiniteSet(T) /\ Cardinality(T) \in Nat
      BY FS_Subset, FS_CardinalityType
    <2>2. PICK x \in T : TRUE
      BY <1>2
    <2>3. Total(w, T) = Total(w, T \ {x}) + 1
      BY <2>1, TotalTake
    <2>4. Cardinality(T \ {x}) = Cardinality(T) - 1
      BY <2>1, FS_RemoveElement
    <2>5. Total(w, T \ {x}) = Cardinality(T \ {x})
      BY <1>2
    <2> QED
      BY <2>1, <2>3, <2>4, <2>5
  <1> HIDE DEF F
  <1>3. S \in F
    BY <1>1, <1>2, SubsetInduction, SMTT(30)
  <1> QED
    BY <1>3 DEF F

LEMMA TotalZeros ==
  ASSUME NEW S, IsFiniteSet(S), NEW w, NEW R \in SUBSET S, \A x \in R : w[x] \in Int, \A x \in S \ R : w[x] = 0
  PROVE  Total(w, S) = Total(w, R)
  <1> DEFINE F == {T \in SUBSET S : Total(w, T) = Total(w, T \cap R)}
  <1>1. {} \in F
    <2>1. {} \cap R = {}
      OBVIOUS
    <2> QED
      BY <2>1
  <1>2. ASSUME NEW T \in SUBSET S, T # {}, \A x \in T : T \ {x} \in F
        PROVE  T \in F
    <2>1. IsFiniteSet(T) /\ IsFiniteSet(T \cap R) /\ \A y \in T : w[y] \in Int
      BY FS_Subset
    <2>2. PICK x \in T : TRUE
      BY <1>2
    <2>3. Total(w, T) = Total(w, T \ {x}) + w[x]
      BY <2>1, TotalTake
    <2>4. Total(w, T \ {x}) = Total(w, (T \ {x}) \cap R)
      BY <1>2
    <2>5. CASE x \in R
      <3>1. Total(w, T \cap R) = Total(w, (T \cap R) \ {x}) + w[x]
        BY <2>1, <2>5, TotalTake
      <3>2. (T \cap R) \ {x} = (T \ {x}) \cap R
        OBVIOUS
      <3> QED
        BY <2>3, <2>4, <3>1, <3>2
    <2>6. CASE x \notin R
      <3>1. (T \ {x}) \cap R = T \cap R /\ w[x] = 0
        BY <2>6
      <3>2. Total(w, T \cap R) \in Int
        BY <2>1, TotalInt
      <3>3. Total(w, T) = Total(w, T \cap R) + 0
        BY <2>3, <2>4, <3>1
      <3> QED
        BY <3>2, <3>3
    <2> QED
      BY <2>5, <2>6
  <1> HIDE DEF F
  <1>3. S \in F
    BY <1>1, <1>2, SubsetInduction
  <1>4. S \cap R = R
    OBVIOUS
  <1> QED
    BY <1>3, <1>4 DEF F

(* A sum is the sum of the sums over its parts.                            *)
Fibre(S, f, k) == {x \in S : f[x] = k}

LEMMA TotalParts ==
  ASSUME NEW S, IsFiniteSet(S), NEW w, \A x \in S : w[x] \in Int,
         NEW K, IsFiniteSet(K), NEW f, \A x \in S : f[x] \in K,
         NEW v, \A k \in K : v[k] = Total(w, Fibre(S, f, k))
  PROVE  Total(w, S) = Total(v, K)
  <1> DEFINE P(T) == [k \in K |-> Total(w, Fibre(T, f, k))]
             F == {T \in SUBSET S : Total(w, T) = Total(P(T), K)}
  <1>1. ASSUME NEW T \in SUBSET S
        PROVE  IsFiniteSet(T) /\ \A k \in K : P(T)[k] \in Int
    <2>1. IsFiniteSet(T)
      BY FS_Subset
    <2>2. ASSUME NEW k \in K PROVE Total(w, Fibre(T, f, k)) \in Int
      <3>1. IsFiniteSet(Fibre(T, f, k)) /\ \A x \in Fibre(T, f, k) : w[x] \in Int
        BY <2>1, FS_Subset DEF Fibre
      <3> QED
        BY <3>1, TotalInt
    <2> QED
      BY <2>1, <2>2
  <1>2. {} \in F
    <2>1. \A k \in K : P({})[k] = 0
      <3>1. \A k \in K : Fibre({}, f, k) = {}
        BY DEF Fibre
      <3> QED
        BY <3>1, TotalEmpty
    <2> HIDE DEF P
    <2>2. Total(P({}), K) = Total(P({}), {})
      BY <2>1, TotalZeros
    <2> QED
      BY <2>2, TotalEmpty
  <1>3. ASSUME NEW T \in SUBSET S, T # {}, \A x \in T : T \ {x} \in F
        PROVE  T \in F
    <2>1. PICK x \in T : TRUE
      BY <1>3
    <2> DEFINE R == T \ {x}
               k == f[x]
               p == P(T)
               r == P(R)
    <2>2. R \in SUBSET S /\ k \in K
      BY <2>1
    <2>3. Total(w, T) = Total(w, R) + w[x] /\ w[x] \in Int
      BY <1>1, <2>1, TotalTake
    <2>4. p[k] = r[k] + w[x]
      <3>1. Fibre(T, f, k) \ {x} = Fibre(R, f, k) /\ x \in Fibre(T, f, k)
        BY <2>1 DEF Fibre
      <3>2. IsFiniteSet(Fibre(T, f, k)) /\ \A y \in Fibre(T, f, k) : w[y] \in Int
        BY <1>1, FS_Subset DEF Fibre
      <3> DEFINE A == Fibre(T, f, k)
      <3>4. IsFiniteSet(A) /\ (\A y \in A : w[y] \in Int) /\ x \in A
        BY <3>1, <3>2
      <3> HIDE DEF A
      <3>5. Total(w, A) = Total(w, A \ {x}) + w[x]
        BY <3>4, TotalTake
      <3>3. Total(w, Fibre(T, f, k)) = Total(w, Fibre(R, f, k)) + w[x]
        BY <3>1, <3>5 DEF A
      <3> QED
        BY <2>2, <3>3
    <2>5. \A j \in K \ {k} : p[j] = r[j]
      <3>1. \A j \in K \ {k} : Fibre(T, f, j) = Fibre(R, f, j)
        BY <2>1 DEF Fibre
      <3> QED
        BY <3>1
    <2>6. \A j \in K : p[j] \in Int /\ r[j] \in Int
      BY <1>1, <2>2
    <2>7. Total(w, R) = Total(r, K)
      BY <1>3, <2>1
    <2> HIDE DEF P, R, k, p, r
    <2>8. Total(p, K) = Total(p, K \ {k}) + p[k] /\ Total(r, K) = Total(r, K \ {k}) + r[k]
      BY <2>2, <2>6, TotalTake
    <2>9. IsFiniteSet(K \ {k})
      BY FS_Subset
    <2>10. Total(p, K \ {k}) = Total(r, K \ {k}) /\ Total(r, K \ {k}) \in Int
      BY <2>5, <2>6, <2>9, TotalAlike, TotalInt
    <2>11. Total(w, T) = Total(p, K)
      BY <2>2, <2>3, <2>4, <2>6, <2>7, <2>8, <2>10
    <2> QED
      BY <2>11 DEF p
  <1>4. Total(P(S), K) = Total(v, K)
    <2>1. \A k \in K : v[k] = P(S)[k] /\ P(S)[k] \in Int
      BY <1>1
    <2> HIDE DEF P
    <2> QED
      BY <2>1, TotalAlike
  <1> HIDE DEF F, P
  <1>5. S \in F
    BY <1>2, <1>3, SubsetInduction
  <1> QED
    BY <1>4, <1>5 DEF F

(* Elements may be named otherwise.                                        *)
LEMMA TotalRenamed ==
  ASSUME NEW S, IsFiniteSet(S), NEW w, \A x \in S : w[x] \in Int,
         NEW f, NEW K, K = {f[x] : x \in S}, \A x, y \in S : f[x] = f[y] => x = y,
         NEW v, \A x \in S : v[f[x]] = w[x]
  PROVE  Total(w, S) = Total(v, K)
  <1>1. IsFiniteSet(K)
    <2> DEFINE g == [x \in S |-> f[x]]
    <2>1. DOMAIN g = S /\ K = {g[x] : x \in S}
      OBVIOUS
    <2> HIDE DEF g
    <2> QED
      BY <2>1, ImageFinite
  <1>2. ASSUME NEW k \in K PROVE v[k] = Total(w, Fibre(S, f, k))
    <2>1. PICK x \in S : k = f[x]
      OBVIOUS
    <2>2. Fibre(S, f, k) = {x}
      BY <2>1 DEF Fibre
    <2>5. IsFiniteSet({x}) /\ w[x] \in Int /\ {x} \ {x} = {}
      BY FS_Singleton
    <2>3. Total(w, {x}) = Total(w, {x} \ {x}) + w[x]
      BY <2>5, TotalTake
    <2>6. Total(w, {x} \ {x}) = 0
      BY <2>5, TotalEmpty
    <2>4. Total(w, {x}) = w[x]
      BY <2>3, <2>5, <2>6
    <2> QED
      BY <2>1, <2>2, <2>4
  <1> QED
    BY <1>1, <1>2, TotalParts
-----------------------------------------------------------------------------
(* Sequences. What is kept of one, or several strung together, is at each  *)
(* place something of theirs, and nothing of theirs is there twice.        *)

Draws(out, f, seq, P) ==
  /\ f \in [DOMAIN out -> P]
  /\ \A i, j \in DOMAIN out : f[i] = f[j] => i = j
  /\ \A p \in P : \E i \in DOMAIN out : f[i] = p
  /\ \A i \in DOMAIN out : out[i] = seq[f[i]]

LEMMA DrawsBoth ==
  ASSUME NEW S, NEW out \in Seq(S), NEW piece \in Seq(S), NEW f, NEW h, NEW seq, NEW P, NEW Q, P \cap Q = {},
         Draws(out, f, seq, P), Draws(piece, h, seq, Q)
  PROVE  \E g : Draws(out \o piece, g, seq, P \cup Q)
  <1> DEFINE n == Len(out)
             m == Len(piece)
             both == out \o piece
             g == [i \in 1 .. (n + m) |-> IF i <= n THEN f[i] ELSE h[i - n]]
  <1>1. /\ n \in Nat /\ m \in Nat /\ DOMAIN out = 1 .. n /\ DOMAIN piece = 1 .. m /\ DOMAIN both = 1 .. (n + m)
        /\ \A i \in 1 .. n : both[i] = out[i]
        /\ \A i \in 1 .. m : both[n + i] = piece[i]
    OBVIOUS
  <1>2. \A i \in 1 .. n : i \in 1 .. (n + m) /\ g[i] = f[i]
    BY <1>1
  <1>3. \A i \in 1 .. m : n + i \in 1 .. (n + m) /\ g[n + i] = h[i]
    <2> SUFFICES ASSUME NEW i \in 1 .. m PROVE n + i \in 1 .. (n + m) /\ g[n + i] = h[i]
      OBVIOUS
    <2>1. n + i \in 1 .. (n + m) /\ ~(n + i <= n) /\ (n + i) - n = i
      BY <1>1
    <2> QED
      BY <2>1
  <1>4. \A i \in 1 .. (n + m) : i \in 1 .. n \/ \E j \in 1 .. m : i = n + j
    <2> SUFFICES ASSUME NEW i \in 1 .. (n + m), i \notin 1 .. n PROVE \E j \in 1 .. m : i = n + j
      OBVIOUS
    <2>1. i - n \in 1 .. m /\ i = n + (i - n)
      BY <1>1
    <2> QED
      BY <2>1
  <1>5. /\ \A i \in 1 .. n : f[i] \in P /\ out[i] = seq[f[i]]
        /\ \A i \in 1 .. m : h[i] \in Q /\ piece[i] = seq[h[i]]
    BY <1>1 DEF Draws
  <1>12. /\ \A i, j \in 1 .. n : f[i] = f[j] => i = j
         /\ \A i, j \in 1 .. m : h[i] = h[j] => i = j
    BY <1>1 DEF Draws
  <1> HIDE DEF n, m, both, g
  <1>7. \A i \in 1 .. (n + m) : g[i] \in P \cup Q /\ both[i] = seq[g[i]]
    <2> SUFFICES ASSUME NEW i \in 1 .. (n + m) PROVE g[i] \in P \cup Q /\ both[i] = seq[g[i]]
      OBVIOUS
    <2>1. CASE i \in 1 .. n
      BY <1>1, <1>2, <1>5, <2>1
    <2>2. ASSUME NEW j \in 1 .. m, i = n + j PROVE g[i] \in P \cup Q /\ both[i] = seq[g[i]]
      <3>1. both[n + j] = piece[j]
        BY <1>1
      <3>2. g[n + j] = h[j]
        BY <1>3
      <3>3. h[j] \in Q /\ piece[j] = seq[h[j]]
        BY <1>5
      <3> QED
        BY <2>2, <3>1, <3>2, <3>3
    <2> QED
      BY <1>4, <2>1, <2>2
  <1>8. ASSUME NEW i \in 1 .. (n + m), NEW j \in 1 .. (n + m), g[i] = g[j] PROVE i = j
    <2>1. CASE i \in 1 .. n /\ j \in 1 .. n
      BY <1>2, <1>8, <1>12, <2>1
    <2>2. ASSUME NEW k \in 1 .. m, NEW l \in 1 .. m, i = n + k, j = n + l PROVE i = j
      <3>1. h[k] = h[l]
        BY <1>3, <1>8, <2>2
      <3> QED
        BY <1>12, <2>2, <3>1
    <2>3. ASSUME NEW k \in 1 .. m, i \in 1 .. n, j = n + k PROVE i = j
      BY <1>2, <1>3, <1>5, <1>8, <2>3
    <2>4. ASSUME NEW k \in 1 .. m, j \in 1 .. n, i = n + k PROVE i = j
      BY <1>2, <1>3, <1>5, <1>8, <2>4
    <2> QED
      BY <1>4, <2>1, <2>2, <2>3, <2>4
  <1>9. ASSUME NEW q \in P \cup Q PROVE \E i \in 1 .. (n + m) : g[i] = q
    <2>1. CASE q \in P
      <3>1. PICK i \in 1 .. n : f[i] = q
        BY <1>1, <2>1 DEF Draws
      <3> QED
        BY <1>2, <3>1
    <2>2. CASE q \in Q
      <3>1. PICK i \in 1 .. m : h[i] = q
        BY <1>1, <2>2 DEF Draws
      <3> QED
        BY <1>3, <3>1
    <2> QED
      BY <2>1, <2>2
  <1>10. g \in [1 .. (n + m) -> P \cup Q]
    <2>1. g = [i \in 1 .. (n + m) |-> IF i <= n THEN f[i] ELSE h[i - n]]
      BY DEF g
    <2> QED
      BY <1>7, <2>1
  <1>11. Draws(both, g, seq, P \cup Q)
    BY <1>1, <1>7, <1>8, <1>9, <1>10 DEF Draws
  <1> QED
    BY <1>11 DEF both

LEMMA DrawsMore ==
  ASSUME NEW S, NEW out \in Seq(S), NEW f, NEW seq, NEW P, Draws(out, f, seq, P), NEW p, p \notin P, seq[p] \in S
  PROVE  \E g : Draws(Append(out, seq[p]), g, seq, P \cup {p})
  <1> DEFINE piece == <<seq[p]>>
             h == <<p>>
  <1>1. piece \in Seq(S) /\ Append(out, seq[p]) = out \o piece /\ P \cap {p} = {}
    OBVIOUS
  <1>2. Draws(piece, h, seq, {p})
    BY DEF Draws
  <1> HIDE DEF piece, h
  <1>3. \E g : Draws(out \o piece, g, seq, P \cup {p})
    BY <1>1, <1>2, DrawsBoth
  <1> QED
    BY <1>1, <1>3

LEMMA KeptPlaces ==
  ASSUME NEW S, NEW seq \in Seq(S), NEW places
  PROVE  Kept(seq, places) \in Seq(S) /\ \E f : Draws(Kept(seq, places), f, seq, places \cap DOMAIN seq)
  <1> DEFINE N == Len(seq)
             V == Seq(S)
             empty == <<>>
             step == [x \in (1 .. N) \X V |-> IF x[1] \in places THEN Append(x[2], seq[x[1]]) ELSE x[2]]
             Is(g) == g = [n \in 0 .. N |-> IF n = 0 THEN <<>> ELSE IF n \in places THEN Append(g[n - 1], seq[n]) ELSE g[n - 1]]
             it == CHOOSE g : Is(g)
  <1>1. Kept(seq, places) = it[N]
    BY DEF Kept
  <1>2. N \in Nat /\ DOMAIN seq = 1 .. N /\ \A n \in 1 .. N : seq[n] \in S
    OBVIOUS
  <1>3. \A n \in 1 .. N, s \in V : step[<<n, s>>] = IF n \in places THEN Append(s, seq[n]) ELSE s
    OBVIOUS
  <1>4. empty \in V /\ step \in [(1 .. N) \X V -> V]
    BY <1>2
  <1> HIDE DEF step, V, empty, N
  <1>5. PICK g \in [0 .. N -> V] : OverNumbers(g, N, empty, step)
    BY <1>2, <1>4, NumberRecursion
  <1>6. \A n \in 0 .. N : g[n] = IF n = 0 THEN <<>> ELSE IF n \in places THEN Append(g[n - 1], seq[n]) ELSE g[n - 1]
    <2> SUFFICES ASSUME NEW n \in 0 .. N
                 PROVE  g[n] = IF n = 0 THEN <<>> ELSE IF n \in places THEN Append(g[n - 1], seq[n]) ELSE g[n - 1]
      OBVIOUS
    <2>1. g[n] = IF n = 0 THEN empty ELSE step[<<n, g[n - 1]>>]
      BY <1>5 DEF OverNumbers
    <2>2. CASE n = 0
      BY <2>1, <2>2 DEF empty
    <2>3. CASE n # 0
      <3>1. n \in 1 .. N /\ n - 1 \in 0 .. N
        BY <1>2, <2>3
      <3>2. g[n - 1] \in V
        BY <3>1
      <3> QED
        BY <1>3, <2>1, <2>3, <3>1, <3>2
    <2> QED
      BY <2>2, <2>3
  <1>7. Is(g)
    BY <1>6
  <1>8. Is(it)
    BY <1>7
  <1>9. \A n \in 0 .. N : it[n] = IF n = 0 THEN <<>> ELSE IF n \in places THEN Append(it[n - 1], seq[n]) ELSE it[n - 1]
    BY <1>8
  <1> HIDE DEF it, Is
  <1> DEFINE Drawn(n) == it[n] \in Seq(S) /\ \E f : Draws(it[n], f, seq, places \cap (1 .. n))
             F == {n \in Nat : n <= N => Drawn(n)}
  <1>10. Drawn(0)
    <2>1. it[0] = <<>>
      BY <1>2, <1>9
    <2>2. Draws(<<>>, <<>>, seq, places \cap (1 .. 0))
      BY DEF Draws
    <2>3. <<>> \in Seq(S)
      OBVIOUS
    <2> QED
      BY <2>1, <2>2, <2>3
  <1>11. ASSUME NEW n \in Nat, n + 1 <= N, Drawn(n) PROVE Drawn(n + 1)
    <2>1. it[n + 1] = IF n + 1 \in places THEN Append(it[n], seq[n + 1]) ELSE it[n]
      <3>1. n + 1 \in 0 .. N /\ (n + 1) - 1 = n /\ n + 1 # 0
        BY <1>2, <1>11
      <3> QED
        BY <1>9, <3>1
    <2>2. it[n] \in Seq(S)
      BY <1>11
    <2>3. PICK f : Draws(it[n], f, seq, places \cap (1 .. n))
      BY <1>11
    <2>4. CASE n + 1 \in places
      <3>1. n + 1 \in 1 .. N /\ seq[n + 1] \in S
        BY <1>2, <1>11
      <3>2. places \cap (1 .. (n + 1)) = (places \cap (1 .. n)) \cup {n + 1} /\ n + 1 \notin places \cap (1 .. n)
        BY <2>4
      <3>3. \E h : Draws(Append(it[n], seq[n + 1]), h, seq, (places \cap (1 .. n)) \cup {n + 1})
        BY <2>2, <2>3, <3>1, <3>2, DrawsMore
      <3>4. Append(it[n], seq[n + 1]) \in Seq(S)
        BY <2>2, <3>1
      <3> QED
        BY <2>1, <2>4, <3>2, <3>3, <3>4
    <2>5. CASE n + 1 \notin places
      <3>1. places \cap (1 .. (n + 1)) = places \cap (1 .. n)
        BY <2>5
      <3> QED
        BY <2>1, <2>2, <2>3, <2>5, <3>1
    <2> QED
      BY <2>4, <2>5
  <1> HIDE DEF Drawn
  <1>12. F \in SUBSET Nat /\ 0 \in F /\ \A n \in F : n + 1 \in F
    BY <1>2, <1>10, <1>11
  <1> HIDE DEF F
  <1>13. N \in F
    BY <1>2, <1>12, SetInduction
  <1>14. Drawn(N)
    BY <1>2, <1>13 DEF F
  <1> QED
    BY <1>1, <1>2, <1>14 DEF Drawn

Spots(seqs, I) == {p \in I \X Nat : p[2] \in DOMAIN seqs[p[1]]}
At(seqs) == [p \in Spots(seqs, DOMAIN seqs) |-> seqs[p[1]][p[2]]]

LEMMA DrawsSpots ==
  ASSUME NEW S, NEW N \in Nat, NEW seqs, DOMAIN seqs = 1 .. N, \A i \in 1 .. N : seqs[i] \in Seq(S), NEW n \in 1 .. N
  PROVE  /\ \E h : Draws(seqs[n], h, At(seqs), Spots(seqs, {n}))
         /\ Spots(seqs, 1 .. (n - 1)) \cap Spots(seqs, {n}) = {}
         /\ Spots(seqs, 1 .. (n - 1)) \cup Spots(seqs, {n}) = Spots(seqs, 1 .. n)
  <1> DEFINE h == [j \in DOMAIN seqs[n] |-> <<n, j>>]
  <1>1. \A j \in DOMAIN seqs[n] : j \in Nat /\ <<n, j>> \in Spots(seqs, {n}) /\ <<n, j>> \in Spots(seqs, 1 .. N)
    BY DEF Spots
  <1>2. \A j \in DOMAIN seqs[n] : At(seqs)[<<n, j>>] = seqs[n][j]
    BY <1>1 DEF At
  <1>3. \A p \in Spots(seqs, {n}) : p[2] \in DOMAIN seqs[n] /\ p = <<n, p[2]>>
    BY DEF Spots
  <1>4. h \in [DOMAIN seqs[n] -> Spots(seqs, {n})]
    BY <1>1
  <1>5. \A i, j \in DOMAIN seqs[n] : h[i] = h[j] => i = j
    OBVIOUS
  <1>6. \A p \in Spots(seqs, {n}) : \E i \in DOMAIN seqs[n] : h[i] = p
    BY <1>3
  <1>7. \A i \in DOMAIN seqs[n] : seqs[n][i] = At(seqs)[h[i]]
    BY <1>2
  <1> HIDE DEF h
  <1>8. Draws(seqs[n], h, At(seqs), Spots(seqs, {n}))
    BY <1>4, <1>5, <1>6, <1>7 DEF Draws
  <1>9. 1 .. n = (1 .. (n - 1)) \cup {n} /\ n \notin 1 .. (n - 1)
    OBVIOUS
  <1>10. Spots(seqs, 1 .. (n - 1)) \cap Spots(seqs, {n}) = {}
    BY <1>9 DEF Spots
  <1>11. Spots(seqs, 1 .. (n - 1)) \cup Spots(seqs, {n}) = Spots(seqs, 1 .. n)
    BY <1>9 DEF Spots
  <1> QED
    BY <1>8, <1>10, <1>11

LEMMA FlattenPlaces ==
  ASSUME NEW S, NEW seqs \in Seq(Seq(S))
  PROVE  /\ FlattenSeq(seqs) \in Seq(S)
         /\ \E f : Draws(FlattenSeq(seqs), f, At(seqs), Spots(seqs, DOMAIN seqs))
  <1> DEFINE N == Len(seqs)
             V == Seq(S)
             empty == <<>>
             step == [x \in (1 .. N) \X V |-> x[2] \o seqs[x[1]]]
             Is(g) == g = [i \in 1 .. N |-> IF i = 1 THEN seqs[i] ELSE g[i - 1] \o seqs[i]]
             it == CHOOSE g : Is(g)
  <1>1. CASE N = 0
    <2>1. FlattenSeq(seqs) = seqs /\ seqs = <<>>
      BY <1>1 DEF FlattenSeq
    <2>2. Draws(<<>>, <<>>, At(seqs), Spots(seqs, DOMAIN seqs))
      BY <2>1 DEF Draws, Spots
    <2>3. <<>> \in Seq(S)
      OBVIOUS
    <2> QED
      BY <2>1, <2>2, <2>3
  <1>2. CASE N # 0
    <2>1. FlattenSeq(seqs) = it[N]
      BY <1>2 DEF FlattenSeq
    <2>2. N \in Nat \ {0} /\ DOMAIN seqs = 1 .. N /\ \A n \in 1 .. N : seqs[n] \in V
      BY <1>2
    <2>19. \A s, t \in V : s \o t \in V
      OBVIOUS
    <2>3. \A n \in 1 .. N, s \in V : step[<<n, s>>] = s \o seqs[n] /\ step[<<n, s>>] \in V
      <3> HIDE DEF V
      <3> QED
        BY <2>2, <2>19
    <2>4. empty \in V /\ step \in [(1 .. N) \X V -> V]
      BY <2>2
    <2>11. \A s \in V : empty \o s = s
      OBVIOUS
    <2> HIDE DEF step, V, empty, N
    <2>5. PICK g \in [0 .. N -> V] : OverNumbers(g, N, empty, step)
      BY <2>2, <2>4, NumberRecursion
    <2>6. \A n \in 1 .. N : g[n] = g[n - 1] \o seqs[n]
      <3> SUFFICES ASSUME NEW n \in 1 .. N PROVE g[n] = g[n - 1] \o seqs[n]
        OBVIOUS
      <3>1. n - 1 \in 0 .. N /\ n \in 0 .. N /\ n # 0
        BY <2>2
      <3>2. g[n] = step[<<n, g[n - 1]>>] /\ g[n - 1] \in V
        BY <2>5, <3>1 DEF OverNumbers
      <3> QED
        BY <2>3, <3>2
    <2>7. g[0] = empty
      BY <2>2, <2>5 DEF OverNumbers
    <2> DEFINE k == [n \in 1 .. N |-> g[n]]
    <2>8. \A n \in 1 .. N : k[n] = IF n = 1 THEN seqs[n] ELSE k[n - 1] \o seqs[n]
      <3> SUFFICES ASSUME NEW n \in 1 .. N PROVE k[n] = IF n = 1 THEN seqs[n] ELSE k[n - 1] \o seqs[n]
        OBVIOUS
      <3>1. CASE n = 1
        <4>1. k[n] = g[n] /\ g[n] = g[n - 1] \o seqs[n] /\ n - 1 = 0 /\ seqs[n] \in V
          BY <2>2, <2>6, <3>1
        <4> QED
          BY <2>7, <2>11, <3>1, <4>1
      <3>2. CASE n # 1
        <4>1. n - 1 \in 1 .. N
          BY <2>2, <3>2
        <4>2. k[n - 1] = g[n - 1] /\ k[n] = g[n]
          BY <4>1
        <4> QED
          BY <2>6, <3>2, <4>2
      <3> QED
        BY <3>1, <3>2
    <2>9. Is(k)
      <3>1. k = [n \in 1 .. N |-> k[n]]
        OBVIOUS
      <3> HIDE DEF k
      <3> QED
        BY <2>8, <3>1
    <2> HIDE DEF k
    <2>10. Is(it)
      BY <2>9
    <2>12. \A n \in 1 .. N : it[n] = IF n = 1 THEN seqs[n] ELSE it[n - 1] \o seqs[n]
      BY <2>10
    <2> HIDE DEF it, Is
    <2> DEFINE Drawn(n) == it[n] \in Seq(S) /\ \E f : Draws(it[n], f, At(seqs), Spots(seqs, 1 .. n))
               F == {n \in Nat : n < N => Drawn(n + 1)}
    <2>16. \A n \in 1 .. N : seqs[n] \in Seq(S)
      BY <2>2 DEF V
    <2>13. Drawn(1)
      <3>1. it[1] = seqs[1] /\ 1 \in 1 .. N
        BY <2>2, <2>12
      <3>2. \E h : Draws(seqs[1], h, At(seqs), Spots(seqs, {1}))
        BY <2>2, <2>16, <3>1, DrawsSpots
      <3>3. 1 .. 1 = {1}
        OBVIOUS
      <3> QED
        BY <2>16, <3>1, <3>2, <3>3
    <2>14. ASSUME NEW n \in Nat \ {0}, n + 1 <= N, Drawn(n) PROVE Drawn(n + 1)
      <3>1. n + 1 \in 1 .. N /\ (n + 1) - 1 = n /\ n + 1 # 1
        BY <2>2, <2>14
      <3>2. it[n + 1] = it[n] \o seqs[n + 1]
        BY <2>12, <3>1
      <3>3. it[n] \in Seq(S) /\ seqs[n + 1] \in Seq(S)
        BY <2>14, <2>16, <3>1
      <3>4. PICK f : Draws(it[n], f, At(seqs), Spots(seqs, 1 .. n))
        BY <2>14
      <3>5. /\ \E h : Draws(seqs[n + 1], h, At(seqs), Spots(seqs, {n + 1}))
            /\ Spots(seqs, 1 .. n) \cap Spots(seqs, {n + 1}) = {}
            /\ Spots(seqs, 1 .. n) \cup Spots(seqs, {n + 1}) = Spots(seqs, 1 .. (n + 1))
        BY <2>2, <2>16, <3>1, DrawsSpots
      <3>6. PICK h : Draws(seqs[n + 1], h, At(seqs), Spots(seqs, {n + 1}))
        BY <3>5
      <3>7. \E g2 : Draws(it[n] \o seqs[n + 1], g2, At(seqs), Spots(seqs, 1 .. n) \cup Spots(seqs, {n + 1}))
        BY <3>3, <3>4, <3>5, <3>6, DrawsBoth
      <3>8. it[n] \o seqs[n + 1] \in Seq(S)
        BY <3>3
      <3> QED
        BY <3>2, <3>5, <3>7, <3>8
    <2> HIDE DEF Drawn
    <2>15. F \in SUBSET Nat /\ 0 \in F /\ \A n \in F : n + 1 \in F
      <3>1. 0 \in F
        BY <2>13
      <3>2. ASSUME NEW n \in F PROVE n + 1 \in F
        <4> SUFFICES ASSUME n + 1 < N PROVE Drawn((n + 1) + 1)
          OBVIOUS
        <4>1. n + 1 \in Nat \ {0} /\ n < N /\ (n + 1) + 1 <= N
          BY <2>2
        <4> QED
          BY <2>14, <4>1
      <3> QED
        BY <3>1, <3>2
    <2> HIDE DEF F
    <2>17. N - 1 \in F /\ (N - 1) + 1 = N /\ N - 1 < N
      <3>1. F = Nat
        BY <2>15, SetInduction
      <3> QED
        BY <2>2, <3>1
    <2>18. Drawn(N)
      BY <2>17 DEF F
    <2> QED
      BY <2>1, <2>2, <2>18 DEF Drawn
  <1> QED
    BY <1>1, <1>2

(* Sums along sequences.                                                   *)
Along(w, s) == Total([i \in DOMAIN s |-> w[s[i]]], DOMAIN s)

Strung(S, seqs, w, v) ==
  seqs \in Seq(Seq(S)) /\ w \in [S -> Int] /\ \A k \in DOMAIN seqs : v[k] = Along(w, seqs[k])

LEMMA FlattenTotal ==
  ASSUME NEW S, NEW seqs, NEW w, NEW v, Strung(S, seqs, w, v)
  PROVE  Along(w, FlattenSeq(seqs)) = Total(v, DOMAIN seqs)
  <1> DEFINE F == FlattenSeq(seqs)
             W == [i \in DOMAIN F |-> w[F[i]]]
             K == Spots(seqs, DOMAIN seqs)
             u == [p \in K |-> w[seqs[p[1]][p[2]]]]
             first == [p \in K |-> p[1]]
             second(k) == [p \in Fibre(K, first, k) |-> p[2]]
             part(k) == [i \in DOMAIN seqs[k] |-> w[seqs[k][i]]]
  <1>0. /\ seqs \in Seq(Seq(S)) /\ w \in [S -> Int]
        /\ \A k \in DOMAIN seqs : v[k] = Along(w, seqs[k])
    BY DEF Strung
  <1>1. F \in Seq(S)
    BY <1>0, FlattenPlaces
  <1>2. PICK f : Draws(F, f, At(seqs), K)
    BY <1>0, FlattenPlaces
  <1>3. Along(w, F) = Total(W, DOMAIN F)
    BY DEF Along
  <1> HIDE DEF F
  <1>4. IsFiniteSet(DOMAIN F) /\ \A i \in DOMAIN F : F[i] \in S /\ W[i] = w[F[i]] /\ W[i] \in Int
    <2>1. DOMAIN F = 1 .. Len(F) /\ Len(F) \in Nat
      BY <1>1
    <2>2. IsFiniteSet(1 .. Len(F))
      BY <2>1, FS_Interval
    <2> QED
      BY <1>0, <1>1, <2>1, <2>2
  <1>5. \A p \in K : p[1] \in DOMAIN seqs /\ p[2] \in DOMAIN seqs[p[1]] /\ p = <<p[1], p[2]>>
    BY DEF Spots
  <1>6. \A p \in K : first[p] = p[1] /\ u[p] = w[seqs[p[1]][p[2]]]
    OBVIOUS
  <1>7. \A i \in DOMAIN F : f[i] \in K /\ u[f[i]] = W[i]
    <2> SUFFICES ASSUME NEW i \in DOMAIN F PROVE f[i] \in K /\ u[f[i]] = W[i]
      OBVIOUS
    <2>1. f[i] \in K /\ F[i] = At(seqs)[f[i]]
      BY <1>2 DEF Draws
    <2>2. At(seqs)[f[i]] = seqs[f[i][1]][f[i][2]]
      BY <2>1 DEF At
    <2> QED
      BY <1>4, <1>6, <2>1, <2>2
  <1>8. K = {f[i] : i \in DOMAIN F} /\ \A i, j \in DOMAIN F : f[i] = f[j] => i = j
    BY <1>2 DEF Draws
  <1>9. \A k \in DOMAIN seqs : seqs[k] \in Seq(S)
    BY <1>0
  <1>10. IsFiniteSet(DOMAIN seqs)
    <2>1. DOMAIN seqs = 1 .. Len(seqs) /\ Len(seqs) \in Nat
      BY <1>0
    <2> QED
      BY <2>1, FS_Interval
  <1>11. \A k \in DOMAIN seqs : \A i \in DOMAIN seqs[k] : <<k, i>> \in K
    <2>1. \A k \in DOMAIN seqs : DOMAIN seqs[k] = 1 .. Len(seqs[k])
      BY <1>9
    <2> QED
      BY <2>1 DEF Spots
  <1> HIDE DEF W, K, u, first
  <1>12. Total(W, DOMAIN F) = Total(u, K)
    <2>1. (\A i \in DOMAIN F : W[i] \in Int) /\ \A i \in DOMAIN F : u[f[i]] = W[i]
      BY <1>4, <1>7
    <2> DEFINE D == DOMAIN F
    <2> HIDE DEF D
    <2>2. /\ IsFiniteSet(D) /\ \A i \in D : W[i] \in Int
          /\ K = {f[i] : i \in D} /\ \A i, j \in D : f[i] = f[j] => i = j
          /\ \A i \in D : u[f[i]] = W[i]
      BY <1>4, <1>8, <2>1 DEF D
    <2>3. Total(W, D) = Total(u, K)
      BY <2>2, TotalRenamed
    <2> QED
      BY <2>3 DEF D
  <1>13. IsFiniteSet(K) /\ \A p \in K : u[p] \in Int
    <2>1. \A p \in K : u[p] \in Int
      BY <1>4, <1>7, <1>8
    <2> DEFINE g == [i \in DOMAIN F |-> f[i]]
    <2>2. DOMAIN g = DOMAIN F /\ K = {g[i] : i \in DOMAIN F}
      BY <1>8
    <2> HIDE DEF g
    <2> QED
      BY <1>4, <2>1, <2>2, ImageFinite
  <1>14. ASSUME NEW k \in DOMAIN seqs PROVE v[k] = Total(u, Fibre(K, first, k))
    <2> DEFINE X == Fibre(K, first, k)
               z == part(k)
               h == second(k)
    <2>1. v[k] = Total(z, DOMAIN seqs[k])
      BY <1>0 DEF Along
    <2>2. \A p \in X : p \in K /\ p[1] = k /\ p[2] \in DOMAIN seqs[k] /\ p = <<k, p[2]>> /\ h[p] = p[2]
      BY <1>5, <1>6 DEF Fibre
    <2>3. \A i \in DOMAIN seqs[k] : <<k, i>> \in X /\ h[<<k, i>>] = i
      BY <1>6, <1>11 DEF Fibre
    <2>4. \A i \in DOMAIN seqs[k] : z[i] = w[seqs[k][i]]
      OBVIOUS
    <2>5. IsFiniteSet(X) /\ \A p \in X : u[p] \in Int
      <3>1. X \in SUBSET K
        BY DEF Fibre
      <3> QED
        BY <1>13, <3>1, FS_Subset
    <2> DEFINE D == DOMAIN seqs[k]
    <2> HIDE DEF X, z, h, D
    <2>6. D = {h[p] : p \in X}
      <3>1. (\A p \in X : h[p] \in D) /\ \A i \in D : <<k, i>> \in X /\ h[<<k, i>>] = i
        BY <2>2, <2>3 DEF D
      <3> QED
        BY <3>1
    <2>7. ASSUME NEW p \in X, NEW q \in X, h[p] = h[q] PROVE p = q
      <3>1. p[2] = q[2] /\ p = <<k, p[2]>> /\ q = <<k, q[2]>>
        BY <2>2, <2>7
      <3> QED
        BY <3>1
    <2>8. \A p \in X : z[h[p]] = u[p]
      BY <1>6, <2>2, <2>4
    <2>9. Total(u, X) = Total(z, D)
      BY <2>5, <2>6, <2>7, <2>8, TotalRenamed
    <2> QED
      BY <2>1, <2>9 DEF X, D
  <1>15. \A p \in K : first[p] \in DOMAIN seqs
    BY <1>5, <1>6
  <1>16. Total(u, K) = Total(v, DOMAIN seqs)
    <2> DEFINE D == DOMAIN seqs
    <2>1. IsFiniteSet(D) /\ (\A p \in K : first[p] \in D) /\ \A k \in D : v[k] = Total(u, Fibre(K, first, k))
      BY <1>10, <1>14, <1>15
    <2> HIDE DEF D
    <2>2. Total(u, K) = Total(v, D)
      BY <1>13, <2>1, TotalParts
    <2> QED
      BY <2>2 DEF D
  <1> QED
    BY <1>3, <1>12, <1>16 DEF F
-----------------------------------------------------------------------------
(* What a line becomes.                                                    *)

EntryOf(e, data) ==
  /\ e.type \in {"human", "agent", "tool_execution", "system"}
  /\ e.meta.timestamp \in 0 .. MaxTime
  /\ e.usage \in Nat /\ (e.usage # 0 => e.type = "agent" /\ e.meta.sessionId # None)
  /\ List(e.content)
  /\ \A b \in ToSet(e.content) :
       b.type = "tool_call_ref" =>
         e.type = "agent" /\ [message |-> e.meta.uuid, id |-> b.id, name |-> b.name] \in CallsOf(data)
  /\ e.type = "tool_execution" =>
       /\ \/ [message |-> e.source, id |-> e.id, name |-> e.toolName] \in CallsOf(data)
          \/ e.toolName = None /\ [message |-> e.source, id |-> e.id] \in ResultsOf(data)
       /\ \A r \in e.result : r.error => r.status = "error"
  /\ e.meta.sessionId = None \/ e.type = "agent" \/ e.source = e.meta.uuid \/ e.meta.uuid \in OtherIds(data)

LEMMA ListIs ==
  ASSUME NEW s, NEW n \in Nat, s = [i \in 1 .. n |-> s[i]]
  PROVE  List(s) /\ Len(s) = n /\ DOMAIN s = 1 .. n
  <1>1. DOMAIN s = 1 .. n /\ \A i \in 1 .. n : s[i] \in ToSet(s)
    BY DEF ToSet
  <1>2. s \in [1 .. n -> ToSet(s)]
    BY <1>1
  <1> QED
    BY <1>1, <1>2 DEF List

LEMMA ListType ==
  ASSUME NEW s, List(s)
  PROVE  /\ Len(s) \in Nat /\ DOMAIN s = 1 .. Len(s) /\ s \in Seq(ToSet(s))
         /\ \A i \in DOMAIN s : s[i] \in ToSet(s)
         /\ \A x \in ToSet(s) : \E i \in DOMAIN s : x = s[i]
  BY DEF List, ToSet

LEMMA SeqIsList ==
  ASSUME NEW S, NEW s \in Seq(S)
  PROVE  List(s) /\ ToSet(s) \subseteq S
  <1>1. Len(s) \in Nat /\ DOMAIN s = 1 .. Len(s) /\ s = [i \in 1 .. Len(s) |-> s[i]]
    OBVIOUS
  <1>2. ToSet(s) \subseteq S
    BY <1>1 DEF ToSet
  <1> QED
    BY <1>1, <1>2, ListIs

LEMMA BlocksAre ==
  ASSUME NEW content, List(content), NEW types
  PROVE  /\ List(Blocks(content, types))
         /\ \A i \in DOMAIN Blocks(content, types) :
              Blocks(content, types)[i] \in ToSet(content) /\ Blocks(content, types)[i].type \in types
  <1> DEFINE P == {i \in DOMAIN content : content[i].type \in types}
             out == Kept(content, P)
  <1>1. content \in Seq(ToSet(content))
    BY DEF List
  <1>2. out \in Seq(ToSet(content)) /\ \E f : Draws(out, f, content, P \cap DOMAIN content)
    <2> HIDE DEF P
    <2> QED
      BY <1>1, KeptPlaces
  <1>3. PICK f : Draws(out, f, content, P \cap DOMAIN content)
    BY <1>2
  <1>4. Blocks(content, types) = out
    BY DEF Blocks
  <1> HIDE DEF out
  <1>5. \A i \in DOMAIN out : f[i] \in P /\ f[i] \in DOMAIN content /\ out[i] = content[f[i]]
    BY <1>3 DEF Draws
  <1>6. \A i \in DOMAIN out : out[i] \in ToSet(content) /\ out[i].type \in types
    BY <1>5 DEF ToSet
  <1> QED
    BY <1>2, <1>4, <1>6, SeqIsList

(* All that a part of a line becomes.                                      *)
AllOf(s, data) == List(s) /\ \A i \in DOMAIN s : EntryOf(s[i], data)

LEMMA AllOfBoth ==
  ASSUME NEW s, NEW t, NEW data, AllOf(s, data), AllOf(t, data)
  PROVE  AllOf(s \o t, data)
  <1>1. Len(s) \in Nat /\ DOMAIN s = 1 .. Len(s) /\ Len(t) \in Nat /\ DOMAIN t = 1 .. Len(t)
    BY ListType DEF AllOf
  <1> DEFINE S == ToSet(s) \cup ToSet(t)
  <1>2. s \in Seq(S) /\ t \in Seq(S)
    BY DEF AllOf, List
  <1>3. s \o t \in Seq(S) /\ \A i \in DOMAIN (s \o t) : (s \o t)[i] \in S
    BY <1>2
  <1>4. \A x \in S : EntryOf(x, data)
    BY DEF AllOf, ToSet
  <1> HIDE DEF S
  <1> QED
    BY <1>3, <1>4, SeqIsList DEF AllOf

LEMMA AllOfOne ==
  ASSUME NEW e, NEW data, EntryOf(e, data)
  PROVE  AllOf(<<e>>, data)
  <1>1. <<e>> \in Seq({e})
    OBVIOUS
  <1>2. DOMAIN <<e>> = {1} /\ <<e>>[1] = e
    OBVIOUS
  <1> QED
    BY <1>1, <1>2, SeqIsList DEF AllOf

LEMMA AllOfNone ==
  ASSUME NEW data
  PROVE  AllOf(<<>>, data)
  <1> DEFINE s == <<>>
  <1>1. s \in Seq({}) /\ DOMAIN s = {}
    OBVIOUS
  <1> HIDE DEF s
  <1>2. List(s)
    BY <1>1, SeqIsList
  <1>3. AllOf(s, data)
    BY <1>1, <1>2 DEF AllOf
  <1> QED
    BY <1>3 DEF s

LEMMA AllOfEach ==
  ASSUME NEW data, NEW n \in Nat, NEW s, s = [i \in 1 .. n |-> s[i]], \A i \in 1 .. n : EntryOf(s[i], data)
  PROVE  AllOf(s, data)
  BY ListIs DEF AllOf

LEMMA HumanEntry ==
  ASSUME NEW data, NEW meta, NEW content, meta.timestamp \in 0 .. MaxTime, List(content),
         \A i \in DOMAIN content : content[i].type # "tool_call_ref", meta.uuid \in OtherIds(data)
  PROVE  EntryOf(HumanMessage(meta, content), data)
  <1> DEFINE e == HumanMessage(meta, content)
  <1>1. e.type = "human" /\ e.meta = meta /\ e.content = content /\ e.usage = 0
    BY DEF HumanMessage, Entry
  <1> HIDE DEF e
  <1>2. \A b \in ToSet(content) : b.type # "tool_call_ref"
    BY DEF ToSet
  <1>3. EntryOf(e, data)
    BY <1>1, <1>2 DEF EntryOf
  <1> QED
    BY <1>3 DEF e

LEMMA SystemEntry ==
  ASSUME NEW data, NEW meta, NEW subtype, meta.timestamp \in 0 .. MaxTime,
         meta.sessionId = None \/ meta.uuid \in OtherIds(data)
  PROVE  EntryOf(SystemMessage(meta, subtype), data)
  <1> DEFINE e == SystemMessage(meta, subtype)
             empty == <<>>
  <1>1. e.type = "system" /\ e.meta = meta /\ e.content = empty /\ e.usage = 0
    BY DEF SystemMessage, Entry
  <1>2. empty \in Seq({}) /\ DOMAIN empty = {}
    OBVIOUS
  <1> HIDE DEF e, empty
  <1>3. List(empty) /\ \A b \in ToSet(empty) : b.type # "tool_call_ref"
    BY <1>2, SeqIsList DEF ToSet
  <1>4. EntryOf(e, data)
    BY <1>1, <1>3 DEF EntryOf
  <1> QED
    BY <1>4 DEF e

LEMMA ExecutionEntry ==
  ASSUME NEW data, NEW meta, NEW id, NEW name, NEW source, NEW result, meta.timestamp \in 0 .. MaxTime,
         \/ [message |-> source, id |-> id, name |-> name] \in CallsOf(data)
         \/ name = None /\ [message |-> source, id |-> id] \in ResultsOf(data),
         \A r \in result : r.error => r.status = "error",
         source = meta.uuid \/ meta.uuid \in OtherIds(data)
  PROVE  EntryOf(ToolExecution(meta, id, name, source, result), data)
  <1> DEFINE e == ToolExecution(meta, id, name, source, result)
             empty == <<>>
  <1>1. /\ e.type = "tool_execution" /\ e.meta = meta /\ e.content = empty /\ e.usage = 0 /\ e.id = id
        /\ e.toolName = name /\ e.source = source /\ e.result = result
    BY DEF ToolExecution, Entry
  <1>2. empty \in Seq({}) /\ DOMAIN empty = {}
    OBVIOUS
  <1> HIDE DEF e, empty
  <1>3. List(empty) /\ \A b \in ToSet(empty) : b.type # "tool_call_ref"
    BY <1>2, SeqIsList DEF ToSet
  <1>4. EntryOf(e, data)
    BY <1>1, <1>3 DEF EntryOf
  <1> QED
    BY <1>4 DEF e

LEMMA AgentEntry ==
  ASSUME NEW data, NEW meta, NEW content, NEW usage \in Nat, meta.timestamp \in 0 .. MaxTime, List(content),
         meta.sessionId # None,
         \A i \in DOMAIN content : content[i].type = "tool_call_ref" =>
           [message |-> meta.uuid, id |-> content[i].id, name |-> content[i].name] \in CallsOf(data)
  PROVE  EntryOf(AgentMessage(meta, content, usage), data)
  <1> DEFINE e == AgentMessage(meta, content, usage)
  <1>1. e.type = "agent" /\ e.meta = meta /\ e.content = content /\ e.usage = usage
    BY DEF AgentMessage, Entry
  <1> HIDE DEF e
  <1>2. \A b \in ToSet(content) : b.type = "tool_call_ref" =>
          [message |-> meta.uuid, id |-> b.id, name |-> b.name] \in CallsOf(data)
    BY DEF ToSet
  <1>3. EntryOf(e, data)
    BY <1>1, <1>2 DEF EntryOf
  <1> QED
    BY <1>3 DEF e

(* A line of Claude Code.                                                  *)
LEMMA UserEntries ==
  ASSUME NEW t, IsClaudeCode(t, {"user"}), t.timestamp \in 0 .. MaxTime, List(t.content)
  PROVE  AllOf(AdaptUser(t), t)
  <1> DEFINE meta == ConvertTreeNodeMeta(t)
             human == Blocks(t.content, {"text", "image"})
             answers == Blocks(t.content, {"tool_result"})
             r(b) == [status |-> IF b.isError THEN "error" ELSE "success", error |-> b.isError /\ b.isText]
             x(b) == ToolExecution(meta, b.id, None, t.sourceToolAssistantUUID, {r(b)})
             results == [i \in DOMAIN answers |-> x(answers[i])]
             first == IF human = <<>> THEN <<>> ELSE <<HumanMessage(meta, human)>>
  <1>1. AdaptUser(t) = first \o results
    BY DEF AdaptUser, SplitUserContent, Mapped
  <1>2. meta.timestamp \in 0 .. MaxTime /\ meta.uuid = t.uuid
    BY DEF ConvertTreeNodeMeta, TreeNodeMeta
  <1>3. /\ t.uuid \in OtherIds(t)
        /\ \A b \in ToSet(t.content) : b.type = "tool_result" =>
             [message |-> t.sourceToolAssistantUUID, id |-> b.id] \in ResultsOf(t)
    BY DEF OtherIds, ResultsOf, IsClaudeCode
  <1>4. /\ List(human) /\ \A i \in DOMAIN human : human[i].type \in {"text", "image"}
        /\ List(answers) /\ \A i \in DOMAIN answers : answers[i] \in ToSet(t.content) /\ answers[i].type \in {"tool_result"}
    BY BlocksAre
  <1>5. Len(answers) \in Nat /\ DOMAIN answers = 1 .. Len(answers)
    BY <1>4, ListType
  <1>6. \A b : r(b).error => r(b).status = "error"
    OBVIOUS
  <1> HIDE DEF r, human, answers, meta
  <1>7. EntryOf(HumanMessage(meta, human), t)
    BY <1>2, <1>3, <1>4, HumanEntry
  <1>8. AllOf(first, t)
    BY <1>7, AllOfOne, AllOfNone
  <1>9. ASSUME NEW i \in DOMAIN answers PROVE EntryOf(x(answers[i]), t)
    <2> DEFINE b == answers[i]
    <2>1. [message |-> t.sourceToolAssistantUUID, id |-> b.id] \in ResultsOf(t)
      BY <1>3, <1>4
    <2> DEFINE R == {r(b)}
    <2>2. \A y \in R : y.error => y.status = "error"
      BY <1>6
    <2> HIDE DEF b, R
    <2>3. EntryOf(ToolExecution(meta, b.id, None, t.sourceToolAssistantUUID, R), t)
      BY <1>2, <1>3, <2>1, <2>2, ExecutionEntry
    <2> QED
      BY <2>3 DEF b, R
  <1> HIDE DEF x
  <1>10. AllOf(results, t)
    <2>1. results = [i \in 1 .. Len(answers) |-> results[i]] /\ \A i \in 1 .. Len(answers) : EntryOf(results[i], t)
      BY <1>5, <1>9
    <2> HIDE DEF results
    <2> QED
      BY <1>5, <2>1, AllOfEach
  <1> QED
    BY <1>1, <1>8, <1>10, AllOfBoth

LEMMA AssistantEntries ==
  ASSUME NEW t, IsClaudeCode(t, {"assistant"}), t.timestamp \in 0 .. MaxTime, List(t.content),
         t.usage \in Nat, t.sessionId # None
  PROVE  AllOf(AdaptAssistant(t), t)
  <1> DEFINE meta == ConvertTreeNodeMeta(t)
             shown == Blocks(t.content, {"text", "thinking", "tool_use"})
             uses == Blocks(t.content, {"tool_use"})
             c(b) == IF b.type = "tool_use" THEN ToolCallRef(b.id, b.name) ELSE b
             content == [i \in DOMAIN shown |-> c(shown[i])]
             none == {}
             x(b) == ToolExecution(meta, b.id, b.name, t.uuid, none)
             calls == [i \in DOMAIN uses |-> x(uses[i])]
  <1>1. AdaptAssistant(t) = <<AgentMessage(meta, content, t.usage)>> \o calls
    BY DEF AdaptAssistant, Mapped
  <1>2. meta.timestamp \in 0 .. MaxTime /\ meta.uuid = t.uuid /\ meta.sessionId # None
    BY DEF ConvertTreeNodeMeta, TreeNodeMeta
  <1>3. \A b \in ToSet(t.content) : b.type = "tool_use" => [message |-> t.uuid, id |-> b.id, name |-> b.name] \in CallsOf(t)
    BY DEF CallsOf, IsClaudeCode
  <1>4. /\ List(shown) /\ \A i \in DOMAIN shown : shown[i] \in ToSet(t.content) /\ shown[i].type \in {"text", "thinking", "tool_use"}
        /\ List(uses) /\ \A i \in DOMAIN uses : uses[i] \in ToSet(t.content) /\ uses[i].type \in {"tool_use"}
    BY BlocksAre
  <1>5. Len(shown) \in Nat /\ DOMAIN shown = 1 .. Len(shown) /\ Len(uses) \in Nat /\ DOMAIN uses = 1 .. Len(uses)
    BY <1>4, ListType
  <1>6. \A b : IF b.type = "tool_use" THEN c(b).id = b.id /\ c(b).name = b.name ELSE c(b) = b
    BY DEF ToolCallRef
  <1> HIDE DEF c, shown, uses, meta, none
  <1>7. /\ content = [i \in 1 .. Len(shown) |-> content[i]] /\ DOMAIN content = DOMAIN shown
        /\ \A i \in DOMAIN shown : content[i] = c(shown[i])
    BY <1>5
  <1>8. \A i \in DOMAIN content : content[i].type = "tool_call_ref" =>
          [message |-> meta.uuid, id |-> content[i].id, name |-> content[i].name] \in CallsOf(t)
    <2> SUFFICES ASSUME NEW i \in DOMAIN shown, content[i].type = "tool_call_ref"
                 PROVE  [message |-> meta.uuid, id |-> content[i].id, name |-> content[i].name] \in CallsOf(t)
      BY <1>7
    <2> DEFINE b == shown[i]
    <2>1. b \in ToSet(t.content) /\ b.type \in {"text", "thinking", "tool_use"} /\ content[i] = c(b)
      BY <1>4, <1>7
    <2> HIDE DEF b
    <2>2. b.type = "tool_use"
      BY <1>6, <2>1
    <2>3. content[i].id = b.id /\ content[i].name = b.name
      BY <1>6, <2>1, <2>2
    <2> QED
      BY <1>2, <1>3, <2>1, <2>2, <2>3
  <1> HIDE DEF content
  <1>9. List(content)
    BY <1>5, <1>7, ListIs
  <1>10. AllOf(<<AgentMessage(meta, content, t.usage)>>, t)
    BY <1>2, <1>8, <1>9, AgentEntry, AllOfOne
  <1>11. ASSUME NEW i \in DOMAIN uses PROVE EntryOf(x(uses[i]), t)
    <2> DEFINE b == uses[i]
    <2>1. [message |-> t.uuid, id |-> b.id, name |-> b.name] \in CallsOf(t)
      BY <1>3, <1>4
    <2>2. \A y \in none : y.error => y.status = "error"
      BY DEF none
    <2> HIDE DEF b
    <2>3. EntryOf(x(b), t)
      BY <1>2, <2>1, <2>2, ExecutionEntry
    <2> QED
      BY <2>3 DEF b
  <1> HIDE DEF x
  <1>12. AllOf(calls, t)
    <2>1. calls = [i \in 1 .. Len(uses) |-> calls[i]] /\ \A i \in 1 .. Len(uses) : EntryOf(calls[i], t)
      BY <1>5, <1>11
    <2> HIDE DEF calls
    <2> QED
      BY <1>5, <2>1, AllOfEach
  <1> QED
    BY <1>1, <1>10, <1>12, AllOfBoth

LEMMA ClaudeCodeEntries ==
  ASSUME NEW l \in DOMAIN Lines, NEW now \in 0 .. MaxTime, DetectProvider(Lines[l].data) = "claude_code"
  PROVE  AllOf(AdaptClaudeCode(Lines[l].data, now), Lines[l].data)
  <1> DEFINE t == Lines[l].data
  <1>1. /\ IsClaudeCode(t, {"user", "assistant", "system"}) => t.timestamp \in 0 .. MaxTime
        /\ IsClaudeCode(t, {"user", "assistant"}) => List(t.content)
        /\ IsClaudeCode(t, {"assistant"}) => t.usage \in Nat /\ t.sessionId # None
    BY LinesAssumption
  <1>2. now \in 0 .. MaxTime /\ DetectProvider(t) = "claude_code"
    BY DashboardAssumption
  <1> HIDE DEF t
  <1>3. CASE t.type = "user"
    <2>1. IsClaudeCode(t, {"user"}) /\ t.timestamp \in 0 .. MaxTime /\ List(t.content)
      BY <1>1, <1>2, <1>3 DEF IsClaudeCode
    <2>2. AdaptClaudeCode(t, now) = AdaptUser(t)
      BY <1>3 DEF AdaptClaudeCode
    <2> QED
      BY <2>1, <2>2, UserEntries DEF t
  <1>4. CASE t.type = "assistant"
    <2>1. IsClaudeCode(t, {"assistant"}) /\ t.timestamp \in 0 .. MaxTime /\ List(t.content)
          /\ t.usage \in Nat /\ t.sessionId # None
      BY <1>1, <1>2, <1>4 DEF IsClaudeCode
    <2>2. AdaptClaudeCode(t, now) = AdaptAssistant(t)
      BY <1>4 DEF AdaptClaudeCode
    <2> QED
      BY <2>1, <2>2, AssistantEntries DEF t
  <1>5. CASE t.type = "system"
    <2> DEFINE meta == ConvertTreeNodeMeta(t)
    <2>1. t.timestamp \in 0 .. MaxTime /\ t.uuid \in OtherIds(t)
      BY <1>1, <1>2, <1>5 DEF IsClaudeCode, OtherIds
    <2>2. meta.timestamp \in 0 .. MaxTime /\ meta.uuid \in OtherIds(t)
      BY <2>1 DEF ConvertTreeNodeMeta, TreeNodeMeta
    <2>3. AdaptClaudeCode(t, now) = <<SystemMessage(meta, "turn_duration")>>
      BY <1>5 DEF AdaptClaudeCode, AdaptSystem
    <2> HIDE DEF meta
    <2>4. EntryOf(SystemMessage(meta, "turn_duration"), t)
      BY <2>2, SystemEntry
    <2> QED
      BY <2>3, <2>4, AllOfOne DEF t
  <1>6. CASE t.type = "summary"
    <2> DEFINE meta == TreeNodeMeta(t.leafUuid, None, None, now)
    <2>1. meta.timestamp \in 0 .. MaxTime /\ meta.sessionId = None
      BY <1>2 DEF TreeNodeMeta
    <2>2. AdaptClaudeCode(t, now) = <<SystemMessage(meta, "summary")>>
      BY <1>6 DEF AdaptClaudeCode, AdaptSummary
    <2> HIDE DEF meta
    <2>3. EntryOf(SystemMessage(meta, "summary"), t)
      BY <2>1, SystemEntry
    <2> QED
      BY <2>2, <2>3, AllOfOne DEF t
  <1>7. CASE t.type \notin {"user", "assistant", "system", "summary"}
    <2>1. AdaptClaudeCode(t, now) = <<>>
      BY <1>7 DEF AdaptClaudeCode
    <2> QED
      BY <2>1, AllOfNone DEF t
  <1> QED
    BY <1>3, <1>4, <1>5, <1>6, <1>7

(* A line of Gemini, one message after the other.                          *)
GeminiMessage(m, s) ==
  /\ IsGemini(s) /\ ~IsClaudeCode(s, {"user", "assistant", "system"}) /\ s.sessionId # None
  /\ m \in ToSet(s.messages) /\ m.timestamp \in 0 .. MaxTime /\ List(m.content)
  /\ m.type = "gemini" => m.usage \in Nat /\ List(m.toolCalls) /\ \A c \in ToSet(m.toolCalls) : c.timestamp \in 0 .. MaxTime

LEMMA MessageIds ==
  ASSUME NEW s, NEW m, GeminiMessage(m, s)
  PROVE  /\ m.type \in {"user", "info"} => m.id \in OtherIds(s)
         /\ m.type = "gemini" =>
              \A c \in ToSet(m.toolCalls) :
                [message |-> m.id, id |-> c.id, name |-> c.name] \in CallsOf(s) /\ c.id \in OtherIds(s)
  <1>1. /\ IsGemini(s) /\ ~IsClaudeCode(s, {"user", "system"}) /\ ~IsClaudeCode(s, {"assistant"}) /\ m \in ToSet(s.messages)
    BY DEF GeminiMessage, IsClaudeCode
  <1>2. m.type \in {"user", "info"} => m.id \in OtherIds(s)
    BY <1>1 DEF OtherIds
  <1>3. ASSUME m.type = "gemini", NEW c \in ToSet(m.toolCalls)
        PROVE  [message |-> m.id, id |-> c.id, name |-> c.name] \in CallsOf(s) /\ c.id \in OtherIds(s)
    <2> DEFINE M == {x \in ToSet(s.messages) : x.type = "gemini"}
               C(x) == {[message |-> x.id, id |-> d.id, name |-> d.name] : d \in ToSet(x.toolCalls)}
               d == [message |-> m.id, id |-> c.id, name |-> c.name]
    <2>1. CallsOf(s) = UNION {C(x) : x \in M}
      BY <1>1 DEF CallsOf
    <2>2. m \in M /\ d \in C(m)
      BY <1>1, <1>3
    <2> HIDE DEF M, C, d
    <2>3. d \in CallsOf(s)
      BY <2>1, <2>2
    <2>4. d.id = c.id
      BY DEF d
    <2>5. OtherIds(s) = {x.id : x \in {y \in ToSet(s.messages) : y.type \in {"user", "info"}}} \cup {x.id : x \in CallsOf(s)}
      BY <1>1 DEF OtherIds
    <2> QED
      BY <2>3, <2>4, <2>5 DEF d
  <1> QED
    BY <1>2, <1>3

LEMMA GeminiEntries ==
  ASSUME NEW s, NEW m, GeminiMessage(m, s), m.type = "gemini"
  PROVE  AllOf(AdaptGeminiMessage(m, s.sessionId), s)
  <1> DEFINE session == s.sessionId
             meta == TreeNodeMeta(m.id, session, None, m.timestamp)
             thoughts == Blocks(m.content, {"thinking"})
             texts == Blocks(m.content, {"text"})
             uses == m.toolCalls
             refs == [i \in DOMAIN uses |-> ToolCallRef(uses[i].id, uses[i].name)]
             content == thoughts \o texts \o refs
             own(c) == TreeNodeMeta(c.id, session, None, c.timestamp)
             r(c) == [status |-> ConvertToolStatus(c.status), error |-> c.status = "error" /\ c.isText]
             x(c) == ToolExecution(own(c), c.id, c.name, m.id, {r(c)})
             calls == [i \in DOMAIN uses |-> x(uses[i])]
  <1>1. AdaptGeminiMessage(m, session) = <<AgentMessage(meta, content, m.usage)>> \o calls
    BY DEF AdaptGeminiMessage, AdaptToolCall, Mapped
  <1>2. /\ meta.timestamp \in 0 .. MaxTime /\ meta.uuid = m.id /\ meta.sessionId # None
        /\ m.usage \in Nat /\ List(uses) /\ \A c \in ToSet(uses) : c.timestamp \in 0 .. MaxTime
    BY DEF GeminiMessage, TreeNodeMeta
  <1>3. \A c \in ToSet(uses) :
          [message |-> m.id, id |-> c.id, name |-> c.name] \in CallsOf(s) /\ c.id \in OtherIds(s)
    BY MessageIds
  <1>4. /\ List(thoughts) /\ \A i \in DOMAIN thoughts : thoughts[i].type \in {"thinking"}
        /\ List(texts) /\ \A i \in DOMAIN texts : texts[i].type \in {"text"}
    BY BlocksAre DEF GeminiMessage
  <1>5. Len(uses) \in Nat /\ DOMAIN uses = 1 .. Len(uses) /\ \A i \in DOMAIN uses : uses[i] \in ToSet(uses)
    BY <1>2, ListType
  <1>6. \A c : r(c).error => r(c).status = "error"
    BY DEF ConvertToolStatus
  <1>7. \A c : own(c).uuid = c.id /\ own(c).timestamp = c.timestamp
    BY DEF TreeNodeMeta
  <1> HIDE DEF uses, thoughts, texts, meta, r, own
  <1>8. /\ \A i \in DOMAIN uses : refs[i].id = uses[i].id /\ refs[i].name = uses[i].name
        /\ refs = [i \in 1 .. Len(uses) |-> refs[i]] /\ DOMAIN refs = DOMAIN uses
    BY <1>5 DEF ToolCallRef
  <1> HIDE DEF refs
  <1>9. /\ List(content)
        /\ \A i \in DOMAIN content : content[i].type = "tool_call_ref" => \E j \in DOMAIN refs : content[i] = refs[j]
    <2> DEFINE S == ToSet(thoughts) \cup ToSet(texts) \cup ToSet(refs)
    <2>1. List(refs)
      BY <1>5, <1>8, ListIs
    <2>2. thoughts \in Seq(S) /\ texts \in Seq(S) /\ refs \in Seq(S)
      BY <1>4, <2>1 DEF List
    <2>3. content \in Seq(S) /\ \A i \in DOMAIN content : content[i] \in S
      BY <2>2
    <2>4. \A b \in S : b.type = "tool_call_ref" => \E j \in DOMAIN refs : b = refs[j]
      BY <1>4 DEF ToSet
    <2> HIDE DEF S, content
    <2> QED
      BY <2>3, <2>4, SeqIsList
  <1>10. \A i \in DOMAIN content : content[i].type = "tool_call_ref" =>
           [message |-> meta.uuid, id |-> content[i].id, name |-> content[i].name] \in CallsOf(s)
    <2> HIDE DEF content
    <2> SUFFICES ASSUME NEW i \in DOMAIN content, content[i].type = "tool_call_ref"
                 PROVE  [message |-> meta.uuid, id |-> content[i].id, name |-> content[i].name] \in CallsOf(s)
      OBVIOUS
    <2>1. PICK j \in DOMAIN refs : content[i] = refs[j]
      BY <1>9
    <2>2. uses[j] \in ToSet(uses) /\ content[i].id = uses[j].id /\ content[i].name = uses[j].name
      BY <1>5, <1>8, <2>1
    <2> QED
      BY <1>2, <1>3, <2>2
  <1> HIDE DEF content
  <1>11. AllOf(<<AgentMessage(meta, content, m.usage)>>, s)
    BY <1>2, <1>9, <1>10, AgentEntry, AllOfOne
  <1>12. ASSUME NEW i \in DOMAIN uses PROVE EntryOf(x(uses[i]), s)
    <2> DEFINE c == uses[i]
               R == {r(c)}
               mine == own(c)
    <2>1. /\ [message |-> m.id, id |-> c.id, name |-> c.name] \in CallsOf(s)
          /\ mine.uuid \in OtherIds(s) /\ mine.timestamp \in 0 .. MaxTime
      BY <1>2, <1>3, <1>5, <1>7
    <2>2. \A y \in R : y.error => y.status = "error"
      BY <1>6
    <2> HIDE DEF c, R, mine
    <2>3. EntryOf(ToolExecution(mine, c.id, c.name, m.id, R), s)
      BY <2>1, <2>2, ExecutionEntry
    <2> QED
      BY <2>3 DEF c, R, mine
  <1> HIDE DEF x
  <1>13. AllOf(calls, s)
    <2>1. calls = [i \in 1 .. Len(uses) |-> calls[i]] /\ \A i \in 1 .. Len(uses) : EntryOf(calls[i], s)
      BY <1>5, <1>12
    <2> HIDE DEF calls
    <2> QED
      BY <1>5, <2>1, AllOfEach
  <1> QED
    BY <1>1, <1>11, <1>13, AllOfBoth

LEMMA MessageEntries ==
  ASSUME NEW s, NEW m, GeminiMessage(m, s)
  PROVE  AllOf(AdaptMessage(m, s.sessionId), s)
  <1> DEFINE meta == TreeNodeMeta(m.id, s.sessionId, None, m.timestamp)
  <1>1. meta.timestamp \in 0 .. MaxTime /\ meta.uuid = m.id
    BY DEF GeminiMessage, TreeNodeMeta
  <1> HIDE DEF meta
  <1>2. CASE m.type = "user"
    <2> DEFINE content == Blocks(m.content, {"text"})
    <2>1. AdaptMessage(m, s.sessionId) = <<HumanMessage(meta, content)>>
      BY <1>2 DEF AdaptMessage, AdaptUserMessage, meta
    <2>2. List(content) /\ \A i \in DOMAIN content : content[i].type \in {"text"}
      BY BlocksAre DEF GeminiMessage
    <2> HIDE DEF content
    <2>3. EntryOf(HumanMessage(meta, content), s)
      BY <1>1, <1>2, <2>2, MessageIds, HumanEntry
    <2> QED
      BY <2>1, <2>3, AllOfOne
  <1>3. CASE m.type = "gemini"
    BY <1>3, GeminiEntries DEF AdaptMessage
  <1>4. CASE m.type = "info"
    <2>1. AdaptMessage(m, s.sessionId) = <<SystemMessage(meta, "info")>>
      BY <1>4 DEF AdaptMessage, AdaptInfoMessage, meta
    <2>2. EntryOf(SystemMessage(meta, "info"), s)
      BY <1>1, <1>4, MessageIds, SystemEntry
    <2> QED
      BY <2>1, <2>2, AllOfOne
  <1>5. CASE m.type \notin {"user", "gemini", "info"}
    <2>1. AdaptMessage(m, s.sessionId) = <<>>
      BY <1>5 DEF AdaptMessage
    <2> QED
      BY <2>1, AllOfNone
  <1> QED
    BY <1>2, <1>3, <1>4, <1>5

LEMMA SessionEntriesOf ==
  ASSUME NEW s, List(s.messages), \A m \in ToSet(s.messages) : GeminiMessage(m, s)
  PROVE  AllOf(AdaptSession(s), s)
  <1> DEFINE M == s.messages
             N == Len(M)
             seqs == [i \in DOMAIN M |-> AdaptMessage(M[i], s.sessionId)]
             T == UNION {ToSet(AdaptMessage(m, s.sessionId)) : m \in ToSet(M)}
  <1>1. AdaptSession(s) = FlattenSeq(seqs)
    BY DEF AdaptSession, Mapped
  <1>2. N \in Nat /\ DOMAIN M = 1 .. N /\ \A i \in DOMAIN M : M[i] \in ToSet(M)
    BY ListType
  <1>3. \A m \in ToSet(M) : AllOf(AdaptMessage(m, s.sessionId), s)
    BY MessageEntries
  <1>4. \A e \in T : EntryOf(e, s)
    BY <1>3 DEF AllOf, ToSet
  <1>5. \A m \in ToSet(M) : AdaptMessage(m, s.sessionId) \in Seq(T)
    <2> SUFFICES ASSUME NEW m \in ToSet(M) PROVE AdaptMessage(m, s.sessionId) \in Seq(T)
      OBVIOUS
    <2>1. ToSet(AdaptMessage(m, s.sessionId)) \in {ToSet(AdaptMessage(k, s.sessionId)) : k \in ToSet(M)}
      OBVIOUS
    <2>2. ToSet(AdaptMessage(m, s.sessionId)) \subseteq T
      BY <2>1
    <2>3. AdaptMessage(m, s.sessionId) \in Seq(ToSet(AdaptMessage(m, s.sessionId)))
      BY <1>3 DEF AllOf, List
    <2> HIDE DEF T
    <2> QED
      BY <2>2, <2>3
  <1> HIDE DEF T
  <1>6. seqs \in Seq(Seq(T))
    <2>1. \A i \in 1 .. N : AdaptMessage(M[i], s.sessionId) \in Seq(T)
      BY <1>2, <1>5
    <2>2. seqs = [i \in 1 .. N |-> AdaptMessage(M[i], s.sessionId)]
      BY <1>2
    <2> HIDE DEF M, N, seqs
    <2> QED
      BY <1>2, <2>1, <2>2
  <1> HIDE DEF seqs, M
  <1>7. FlattenSeq(seqs) \in Seq(T)
    BY <1>6, FlattenPlaces
  <1>8. List(FlattenSeq(seqs)) /\ \A i \in DOMAIN FlattenSeq(seqs) : FlattenSeq(seqs)[i] \in T
    BY <1>7, SeqIsList
  <1> QED
    BY <1>1, <1>4, <1>8 DEF AllOf

LEMMA ConvertedAt ==
  ASSUME NEW l \in DOMAIN Lines, NEW now \in 0 .. MaxTime
  PROVE  AllOf(Convert(Lines[l].data, now), Lines[l].data)
  <1> DEFINE s == Lines[l].data
  <1>1. CASE DetectProvider(s) = "claude_code"
    <2>1. Convert(s, now) = AdaptClaudeCode(s, now)
      BY <1>1 DEF Convert
    <2> QED
      BY <1>1, <2>1, ClaudeCodeEntries
  <1>2. CASE DetectProvider(s) = "gemini_cli"
    <2>1. Convert(s, now) = AdaptSession(s)
      BY <1>2 DEF Convert
    <2>2. IsGemini(s) /\ ~IsClaudeCode(s, {"user", "assistant", "system"})
      BY <1>2 DEF IsGemini, IsClaudeCode
    <2>3. /\ s.sessionId # None /\ List(s.messages)
          /\ \A m \in ToSet(s.messages) :
               /\ m.timestamp \in 0 .. MaxTime /\ List(m.content)
               /\ m.type = "gemini" =>
                    m.usage \in Nat /\ List(m.toolCalls) /\ \A c \in ToSet(m.toolCalls) : c.timestamp \in 0 .. MaxTime
      BY <2>2, LinesAssumption
    <2> HIDE DEF s
    <2>4. \A m \in ToSet(s.messages) : GeminiMessage(m, s)
      BY <2>2, <2>3 DEF GeminiMessage
    <2>5. AllOf(AdaptSession(s), s)
      BY <2>3, <2>4, SessionEntriesOf
    <2> QED
      BY <2>1, <2>5 DEF s
  <1>3. CASE DetectProvider(s) \notin {"claude_code", "gemini_cli"}
    <2>1. Convert(s, now) = <<>>
      BY <1>3 DEF Convert
    <2> QED
      BY <2>1, AllOfNone
  <1> QED
    BY <1>1, <1>2, <1>3

LEMMA Converted ==
  ASSUME NEW l \in DOMAIN Lines, NEW now \in Times
  PROVE  /\ Len(Convert(Lines[l].data, now)) \in Nat
         /\ DOMAIN Convert(Lines[l].data, now) = 1 .. Len(Convert(Lines[l].data, now))
         /\ \A i \in DOMAIN Convert(Lines[l].data, now) : EntryOf(Convert(Lines[l].data, now)[i], Lines[l].data)
  <1>1. now \in 0 .. MaxTime
    BY DashboardAssumption
  <1>2. AllOf(Convert(Lines[l].data, now), Lines[l].data)
    BY <1>1, ConvertedAt
  <1> QED
    BY <1>2, ListType DEF AllOf
-----------------------------------------------------------------------------
(* The documents: an id for each, and copies of a line without a gap.      *)

Copied(l, now) == {Doc(l, c, i, Convert(Lines[l].data, now)[i]) : c \in Nat, i \in DOMAIN Convert(Lines[l].data, now)}
Written == UNION {Copied(l, now) : l \in DOMAIN Lines, now \in Times}

Unique(D) == \A d, e \in D : d.id = e.id => d = e

Copies(D, l) == {d.id[2] : d \in {e \in D : e.id[1] = l}}

Numbered(D) == \A l \in DOMAIN Lines : \E k \in Nat : Copies(D, l) = 1 .. k

(* What is to be inserted belongs to one copy of a line, the last or the   *)
(* next one.                                                               *)
Queued(D, q) ==
  /\ \A i, j \in DOMAIN q : q[i].id = q[j].id => i = j
  /\ \A i \in DOMAIN q, d \in D : q[i].id # d.id
  /\ \E l \in DOMAIN Lines, c \in Nat \ {0} :
       /\ \A i \in DOMAIN q : q[i].id[1] = l /\ q[i].id[2] = c
       /\ q # <<>> => Copies(D, l) \in {1 .. c, 1 .. (c - 1)}

Filed(D, q) ==
  /\ D \in SUBSET Written /\ IsFiniteSet(D) /\ Unique(D) /\ Numbered(D)
  /\ q \in Seq(Written) /\ (q # <<>> => Queued(D, q))

LEMMA WrittenIs ==
  ASSUME NEW d \in Written
  PROVE  \E l \in DOMAIN Lines, c \in Nat, now \in Times :
           \E i \in DOMAIN Convert(Lines[l].data, now) : d = Doc(l, c, i, Convert(Lines[l].data, now)[i])
  <1>1. PICK l \in DOMAIN Lines, now \in Times :
          d \in Copied(l, now)
    BY DEF Written
  <1> QED
    BY <1>1 DEF Copied

LEMMA WrittenType ==
  ASSUME NEW d \in Written
  PROVE  /\ d.entry.meta.timestamp \in 0 .. MaxTime /\ d.entry.meta.timestamp \in Nat /\ MaxTime \in Nat
         /\ d.id = <<d.id[1], d.id[2], d.id[3]>> /\ d.id[1] \in DOMAIN Lines /\ d.id[2] \in Nat
         /\ EntryOf(d.entry, Lines[d.id[1]].data) /\ d.projectId = Lines[d.id[1]].projectId
  <1>1. PICK l \in DOMAIN Lines, c \in Nat, now \in Times :
          \E i \in DOMAIN Convert(Lines[l].data, now) : d = Doc(l, c, i, Convert(Lines[l].data, now)[i])
    BY WrittenIs
  <1>2. PICK i \in DOMAIN Convert(Lines[l].data, now) : d = Doc(l, c, i, Convert(Lines[l].data, now)[i])
    BY <1>1
  <1>3. d.id = <<l, c, i>> /\ d.entry = Convert(Lines[l].data, now)[i] /\ d.projectId = Lines[l].projectId
    BY <1>2 DEF Doc
  <1>4. EntryOf(d.entry, Lines[l].data) /\ MaxTime \in Nat
    BY <1>3, Converted, DashboardAssumption
  <1>5. d.entry.meta.timestamp \in 0 .. MaxTime
    BY <1>4 DEF EntryOf
  <1> QED
    BY <1>3, <1>4, <1>5

LEMMA SaveFiles ==
  ASSUME NEW l \in DOMAIN Lines, NEW now \in Times, NEW D, Filed(D, <<>>), NEW q,
         q = [i \in DOMAIN Convert(Lines[l].data, now) |-> Doc(l, 1 + Cardinality(Copies(D, l)), i, Convert(Lines[l].data, now)[i])]
  PROVE  Filed(D, q)
  <1> DEFINE s == Convert(Lines[l].data, now)
             c == 1 + Cardinality(Copies(D, l))
  <1>1. PICK k \in Nat : Copies(D, l) = 1 .. k
    BY DEF Filed, Numbered
  <1>2. Cardinality(Copies(D, l)) = k
    BY <1>1, FS_Interval
  <1>3. c \in Nat \ {0} /\ c \notin Copies(D, l) /\ Copies(D, l) = 1 .. (c - 1)
    BY <1>1, <1>2
  <1>4. Len(s) \in Nat /\ DOMAIN s = 1 .. Len(s)
    BY Converted
  <1>13. \A i \in DOMAIN s : Doc(l, c, i, s[i]) \in Written
    <2>1. Copied(l, now) \in {Copied(m, x) : m \in DOMAIN Lines, x \in Times}
      OBVIOUS
    <2>2. c \in Nat
      BY <1>3
    <2> HIDE DEF c
    <2>3. \A i \in DOMAIN s : Doc(l, c, i, s[i]) \in Copied(l, now)
      BY <2>2 DEF Copied
    <2> HIDE DEF s
    <2> QED
      BY <2>1, <2>3 DEF Written
  <1> HIDE DEF s, c
  <1>5. q = [i \in 1 .. Len(s) |-> Doc(l, c, i, s[i])]
    BY <1>4 DEF s, c
  <1>6. \A i \in 1 .. Len(s) : Doc(l, c, i, s[i]) \in Written
    BY <1>4, <1>13
  <1>7. q \in Seq(Written) /\ DOMAIN q = 1 .. Len(s)
    BY <1>4, <1>5, <1>6
  <1>8. \A i \in DOMAIN q : q[i].id = <<l, c, i>>
    BY <1>5 DEF Doc
  <1>9. \A i \in DOMAIN q, d \in D : q[i].id # d.id
    <2> SUFFICES ASSUME NEW i \in DOMAIN q, NEW d \in D, q[i].id = d.id
                 PROVE  FALSE
      OBVIOUS
    <2>1. d.id[1] = l /\ d.id[2] = c
      BY <1>8
    <2>2. c \in Copies(D, l)
      BY <2>1 DEF Copies
    <2> QED
      BY <1>3, <2>2
  <1>10. \A i, j \in DOMAIN q : q[i].id = q[j].id => i = j
    BY <1>8
  <1>11. \A i \in DOMAIN q : q[i].id[1] = l /\ q[i].id[2] = c
    BY <1>8
  <1>12. Queued(D, q)
    BY <1>3, <1>9, <1>10, <1>11 DEF Queued
  <1> QED
    BY <1>7, <1>12 DEF Filed

LEMMA InsertFiles ==
  ASSUME NEW D, NEW q, Filed(D, q), q # <<>>
  PROVE  Filed(D \cup {Head(q)}, Tail(q)) /\ Head(q) \in Written /\ \A d \in D : d.id # Head(q).id
  <1> DEFINE h == Head(q)
             t == Tail(q)
             N == D \cup {h}
  <1>1. q \in Seq(Written) /\ Queued(D, q) /\ D \in SUBSET Written /\ IsFiniteSet(D) /\ Unique(D) /\ Numbered(D)
    BY DEF Filed
  <1>2. h \in Written /\ 1 \in DOMAIN q /\ h = q[1] /\ t \in Seq(Written)
    BY <1>1
  <1>3. \A i \in DOMAIN t : i + 1 \in DOMAIN q /\ i + 1 # 1 /\ i \in Nat /\ t[i] = q[i + 1]
    BY <1>1
  <1>4. PICK l \in DOMAIN Lines, c \in Nat \ {0} :
          /\ \A i \in DOMAIN q : q[i].id[1] = l /\ q[i].id[2] = c
          /\ Copies(D, l) \in {1 .. c, 1 .. (c - 1)}
    BY <1>1 DEF Queued
  <1>5. /\ \A i, j \in DOMAIN q : q[i].id = q[j].id => i = j
        /\ \A i \in DOMAIN q, d \in D : q[i].id # d.id
    BY <1>1 DEF Queued
  <1> HIDE DEF h, t
  <1>6. \A d \in D : d.id # h.id
    BY <1>2, <1>5
  <1>7. Unique(N)
    BY <1>1, <1>6 DEF Unique
  <1>8. h.id[1] = l /\ h.id[2] = c
    BY <1>2, <1>4
  <1>9. Copies(N, l) = Copies(D, l) \cup {c}
    BY <1>8 DEF Copies
  <1>15. (1 .. c) \cup {c} = 1 .. c /\ (1 .. (c - 1)) \cup {c} = 1 .. c
    OBVIOUS
  <1>10. Copies(N, l) = 1 .. c
    BY <1>4, <1>9, <1>15
  <1>11. \A m \in DOMAIN Lines : m # l => Copies(N, m) = Copies(D, m)
    BY <1>8 DEF Copies
  <1>12. Numbered(N)
    BY <1>1, <1>10, <1>11 DEF Numbered
  <1>13. Queued(N, t)
    <2>1. \A i, j \in DOMAIN t : t[i].id = t[j].id => i = j
      <3> SUFFICES ASSUME NEW i \in DOMAIN t, NEW j \in DOMAIN t, t[i].id = t[j].id
                   PROVE  i = j
        OBVIOUS
      <3>1. i + 1 = j + 1 /\ i \in Nat /\ j \in Nat
        BY <1>3, <1>5
      <3> QED
        BY <3>1
    <2>2. \A i \in DOMAIN t, d \in N : t[i].id # d.id
      <3> SUFFICES ASSUME NEW i \in DOMAIN t, NEW d \in N, t[i].id = d.id
                   PROVE  FALSE
        OBVIOUS
      <3>1. t[i] = q[i + 1] /\ i + 1 \in DOMAIN q /\ i + 1 # 1
        BY <1>3
      <3>2. d = h
        BY <1>5, <3>1
      <3> QED
        BY <1>2, <1>5, <3>1, <3>2
    <2>3. \A i \in DOMAIN t : t[i].id[1] = l /\ t[i].id[2] = c
      BY <1>3, <1>4
    <2> QED
      BY <1>10, <2>1, <2>2, <2>3 DEF Queued
  <1>14. IsFiniteSet(N)
    BY <1>1, FS_AddElement
  <1> QED
    BY <1>1, <1>2, <1>6, <1>7, <1>12, <1>13, <1>14 DEF Filed, h, t
-----------------------------------------------------------------------------
(* The keys of a reader are those of the documents it looks at, and what   *)
(* is inserted is added to them, or lets a session come forward.           *)

LEMMA SessionKeys ==
  ASSUME NEW r, r.kind = "session", NEW D \in SUBSET Written, IsFiniteSet(D), Unique(D)
  PROVE  /\ IsKeys(Keys(r, D))
         /\ DOMAIN Keys(r, D) = {d.id : d \in OfSession(D, r.session)}
         /\ \A d \in OfSession(D, r.session) : Keys(r, D)[d.id] = d.entry.meta.timestamp
  <1> DEFINE E == OfSession(D, r.session)
             K == [n \in {d.id : d \in E} |-> (CHOOSE d \in E : d.id = n).entry.meta.timestamp]
             f == [d \in E |-> d.id]
  <1>1. Keys(r, D) = K
    BY DEF Keys
  <1>2. E \in SUBSET D
    BY DEF OfSession
  <1> HIDE DEF E
  <1>3. IsFiniteSet(E)
    BY <1>2, FS_Subset
  <1>4. IsFiniteSet({d.id : d \in E})
    <2>1. DOMAIN f = E /\ {d.id : d \in E} = {f[d] : d \in E}
      OBVIOUS
    <2> HIDE DEF f
    <2> QED
      BY <1>3, <2>1, ImageFinite
  <1>5. ASSUME NEW d \in E PROVE K[d.id] = d.entry.meta.timestamp
    <2>1. \A e \in E : e.id = d.id => e = d
      BY <1>2 DEF Unique
    <2>2. (CHOOSE e \in E : e.id = d.id) = d
      BY <2>1
    <2> QED
      BY <2>2
  <1>6. \A d \in E : d.entry.meta.timestamp \in Int
    BY <1>2, WrittenType
  <1> HIDE DEF K
  <1>7. DOMAIN K = {d.id : d \in E}
    BY DEF K
  <1>8. IsKeys(K)
    BY <1>4, <1>5, <1>6, <1>7 DEF IsKeys
  <1> QED
    BY <1>1, <1>5, <1>7, <1>8 DEF E

InProjects(r, D) == {d \in D : d.projectId \in r.projectIds}
TimesOf(r, D, s) == Timestamps(OfSession(InProjects(r, D), s))

LEMMA SessionsKeys ==
  ASSUME NEW r, r.kind = "sessions", NEW D \in SUBSET Written, IsFiniteSet(D)
  PROVE  /\ IsKeys(Keys(r, D))
         /\ DOMAIN Keys(r, D) = SessionIds(InProjects(r, D)) \ {None}
         /\ \A s \in DOMAIN Keys(r, D) :
              /\ Keys(r, D)[s] = MaxTime - Max(TimesOf(r, D, s))
              /\ Max(TimesOf(r, D, s)) \in TimesOf(r, D, s)
              /\ \A t \in TimesOf(r, D, s) : Max(TimesOf(r, D, s)) >= t
  <1> DEFINE P == InProjects(r, D)
             I == SessionIds(P) \ {None}
             listed == Summaries(P)
             K == [s \in {x.id : x \in listed} |-> MaxTime - (CHOOSE x \in listed : x.id = s).endedAt]
             f == [d \in P |-> d.entry.meta.sessionId]
  <1>1. Keys(r, D) = K
    BY DEF Keys, InProjects
  <1>2. P \in SUBSET D
    BY DEF InProjects
  <1> HIDE DEF P
  <1>3. listed = {SessionSummary(P, s) : s \in I}
    BY DEF Summaries
  <1>4. \A s : SessionSummary(P, s).id = s /\ SessionSummary(P, s).endedAt = Max(TimesOf(r, D, s))
    BY DEF SessionSummary, TimesOf, P
  <1> HIDE DEF listed
  <1>5. {x.id : x \in listed} = I
    <2> HIDE DEF I
    <2> QED
      BY <1>3, <1>4
  <1>6. ASSUME NEW s \in I PROVE (CHOOSE x \in listed : x.id = s).endedAt = Max(TimesOf(r, D, s))
    <2> HIDE DEF I
    <2>1. SessionSummary(P, s) \in listed /\ SessionSummary(P, s).id = s
      BY <1>3, <1>4
    <2>2. \A x \in listed : x.id = s => x = SessionSummary(P, s)
      BY <1>3, <1>4
    <2> QED
      BY <1>4, <2>1, <2>2
  <1>7. DOMAIN K = I /\ \A s \in I : K[s] = MaxTime - Max(TimesOf(r, D, s))
    BY <1>5, <1>6
  <1> HIDE DEF K
  <1>8. ASSUME NEW s \in I
        PROVE  /\ Max(TimesOf(r, D, s)) \in TimesOf(r, D, s) /\ Max(TimesOf(r, D, s)) \in 0 .. MaxTime
               /\ \A t \in TimesOf(r, D, s) : Max(TimesOf(r, D, s)) >= t
    <2>1. TimesOf(r, D, s) = {d.entry.meta.timestamp : d \in {e \in P : e.entry.meta.sessionId = s}}
      BY DEF TimesOf, Timestamps, OfSession, P
    <2>2. TimesOf(r, D, s) \in SUBSET (0 .. MaxTime)
      BY <1>2, <2>1, WrittenType
    <2>3. TimesOf(r, D, s) # {}
      <3>1. PICK d \in P : d.entry.meta.sessionId = s
        BY DEF SessionIds
      <3> QED
        BY <2>1, <3>1
    <2>4. MaxTime \in Nat
      BY DashboardAssumption
    <2> QED
      BY <2>2, <2>3, <2>4, MaxOfTimes
  <1>9. IsFiniteSet(I)
    <2>1. IsFiniteSet(P)
      BY <1>2, FS_Subset
    <2>2. DOMAIN f = P /\ SessionIds(P) = {f[d] : d \in P}
      BY DEF SessionIds
    <2> HIDE DEF f
    <2>3. IsFiniteSet(SessionIds(P))
      BY <2>1, <2>2, ImageFinite
    <2> QED
      BY <2>3, FS_Subset
  <1>10. \A s \in I : K[s] \in Int
    BY <1>7, <1>8, DashboardAssumption
  <1>11. IsKeys(K)
    BY <1>7, <1>9, <1>10 DEF IsKeys
  <1> QED
    BY <1>1, <1>7, <1>8, <1>11 DEF P

LEMMA InsertGrows ==
  ASSUME NEW r, r.kind \in {"session", "sessions"},
         NEW D \in SUBSET Written, IsFiniteSet(D), Unique(D),
         NEW h \in Written, \A d \in D : d.id # h.id
  PROVE  /\ Grown(Keys(r, D), Keys(r, D \cup {h}))
         /\ \A x \in DOMAIN Keys(r, D) : Keys(r, D \cup {h})[x] # Keys(r, D)[x] => r.kind = "sessions"
  <1> DEFINE N == D \cup {h}
             K == Keys(r, D)
             L == Keys(r, N)
  <1>1. N \in SUBSET Written /\ IsFiniteSet(N) /\ Unique(N)
    BY FS_AddElement DEF Unique
  <1> HIDE DEF K, L
  <1>2. CASE r.kind = "session"
    <2>1. OfSession(D, r.session) \in SUBSET OfSession(N, r.session)
      BY DEF OfSession
    <2>2. /\ IsKeys(K) /\ DOMAIN K = {d.id : d \in OfSession(D, r.session)}
          /\ \A d \in OfSession(D, r.session) : K[d.id] = d.entry.meta.timestamp
      BY <1>2, SessionKeys DEF K
    <2>3. /\ IsKeys(L) /\ DOMAIN L = {d.id : d \in OfSession(N, r.session)}
          /\ \A d \in OfSession(N, r.session) : L[d.id] = d.entry.meta.timestamp
      <3> HIDE DEF N
      <3> QED
        BY <1>1, <1>2, SessionKeys DEF L
    <2>4. DOMAIN K \subseteq DOMAIN L
      BY <2>1, <2>2, <2>3
    <2>5. ASSUME NEW x \in DOMAIN K PROVE L[x] = K[x] /\ K[x] \in Int
      <3>1. PICK d \in OfSession(D, r.session) : x = d.id
        BY <2>2
      <3>2. L[d.id] = d.entry.meta.timestamp /\ K[d.id] = d.entry.meta.timestamp
        BY <2>1, <2>2, <2>3
      <3> QED
        BY <2>2, <3>1, <3>2 DEF IsKeys
    <2>10. \A x \in DOMAIN K : L[x] = K[x] /\ L[x] <= K[x]
      BY <2>5
    <2>6. Grown(K, L)
      BY <2>2, <2>3, <2>4, <2>10 DEF Grown
    <2> QED
      BY <2>6, <2>10 DEF K, L
  <1>3. CASE r.kind = "sessions"
    <2>1. InProjects(r, D) \in SUBSET InProjects(r, N)
      BY DEF InProjects
    <2>2. SessionIds(InProjects(r, D)) \subseteq SessionIds(InProjects(r, N))
      BY <2>1 DEF SessionIds
    <2>3. \A s : TimesOf(r, D, s) \subseteq TimesOf(r, N, s)
      BY <2>1 DEF TimesOf, Timestamps, OfSession
    <2>4. /\ IsKeys(K) /\ DOMAIN K = SessionIds(InProjects(r, D)) \ {None}
          /\ \A s \in DOMAIN K : /\ K[s] = MaxTime - Max(TimesOf(r, D, s))
                                 /\ Max(TimesOf(r, D, s)) \in TimesOf(r, D, s)
      BY <1>3, SessionsKeys DEF K
    <2>5. /\ IsKeys(L) /\ DOMAIN L = SessionIds(InProjects(r, N)) \ {None}
          /\ \A s \in DOMAIN L : /\ L[s] = MaxTime - Max(TimesOf(r, N, s))
                                 /\ \A t \in TimesOf(r, N, s) : Max(TimesOf(r, N, s)) >= t
                                 /\ Max(TimesOf(r, N, s)) \in TimesOf(r, N, s)
      <3> HIDE DEF N
      <3> QED
        BY <1>1, <1>3, SessionsKeys DEF L
    <2>6. DOMAIN K \subseteq DOMAIN L
      BY <2>2, <2>4, <2>5
    <2>7. \A s, t : t \in TimesOf(r, N, s) => t \in Nat
      <3> HIDE DEF N
      <3> QED
        BY <1>1, WrittenType DEF TimesOf, Timestamps, OfSession, InProjects
    <2>8. ASSUME NEW s \in DOMAIN K PROVE L[s] <= K[s]
      <3> DEFINE a == Max(TimesOf(r, D, s))
                 b == Max(TimesOf(r, N, s))
      <3>1. K[s] = MaxTime - a /\ L[s] = MaxTime - b /\ a \in TimesOf(r, D, s)
            /\ b \in TimesOf(r, N, s) /\ \A t \in TimesOf(r, N, s) : b >= t
        BY <2>4, <2>5, <2>6
      <3> HIDE DEF a, b
      <3>2. a \in Nat /\ b \in Nat /\ b >= a /\ MaxTime \in Nat
        BY <2>3, <2>7, <3>1, DashboardAssumption
      <3> QED
        BY <3>1, <3>2
    <2>9. Grown(K, L)
      BY <2>4, <2>5, <2>6, <2>8 DEF Grown
    <2> QED
      BY <1>3, <2>9 DEF K, L
  <1> QED
    BY <1>2, <1>3
-----------------------------------------------------------------------------
(* The steps of a reader of all pages. First the keys, which do not depend *)
(* on what it has read.                                                    *)

LEMMA KeysOfSame ==
  ASSUME NEW r, NEW r2, NEW D, r.kind \in {"session", "sessions"}, r2.kind = r.kind,
         r2.session = r.session, r.kind = "sessions" => r2.projectIds = r.projectIds
  PROVE  Keys(r2, D) = Keys(r, D)
  <1> DEFINE F(ids) == LET listed == Summaries({d \in D : d.projectId \in ids})
                       IN [s \in {x.id : x \in listed} |-> MaxTime - (CHOOSE x \in listed : x.id = s).endedAt]
             G(s) == LET E == OfSession(D, s)
                     IN [n \in {d.id : d \in E} |-> (CHOOSE d \in E : d.id = n).entry.meta.timestamp]
  <1>1. ASSUME NEW q, q.kind = "sessions" PROVE Keys(q, D) = F(q.projectIds)
    BY <1>1 DEF Keys
  <1>2. ASSUME NEW q, q.kind = "session" PROVE Keys(q, D) = G(q.session)
    BY <1>2 DEF Keys
  <1> HIDE DEF F, G
  <1> QED
    BY <1>1, <1>2

LEMMA RequestTracks ==
  ASSUME NEW r, NEW K, IsKeys(K), r.step # "find", r.page = 1, r.total = 0, r.start = DOMAIN K,
         r.shown = {}, r.twice = {}, r.moved = {}, r.late = {}
  PROVE  OnTrack(r, K)
  <1>1. Skip(1) = 0 /\ 1 \in Nat \ {0}
    BY SkipStep
  <1>2. \A x \in DOMAIN K : 0 <= Cardinality(Less(K, x))
    BY LessType
  <1>3. Fits(r, K) /\ Behind(r, K) /\ Repeated(r, K)
    BY <1>1 DEF Fits, Behind, Repeated
  <1>4. Ahead(r, K)
    BY <1>1, <1>2 DEF Ahead
  <1> QED
    BY <1>3, <1>4 DEF OnTrack

(* Between two pages: the project is looked up.                            *)
LEMMA LookupTracks ==
  ASSUME NEW r, NEW r2, NEW K, OnTrack(r, K), r2.step # "find",
         r2.kind = r.kind, r2.page = r.page, r2.total = r.total, r2.start = r.start, r2.shown = r.shown,
         r2.twice = r.twice, r2.tied = r.tied, r2.moved = r.moved, r2.late = r.late
  PROVE  OnTrack(r2, K)
  BY DEF OnTrack, Fits, Ahead, Behind, Repeated, Active

LEMMA CountTracks ==
  ASSUME NEW r, NEW r2, NEW K, IsKeys(K), OnTrack(r, K), r2.total = Cardinality(DOMAIN K), r2.late = {},
         r2.kind = r.kind, r2.page = r.page, r2.start = r.start, r2.shown = r.shown,
         r2.twice = r.twice, r2.tied = r.tied, r2.moved = r.moved
  PROVE  OnTrack(r2, K)
  <1>1. Cardinality(DOMAIN K) \in Nat
    BY FS_CardinalityType DEF IsKeys
  <1>2. Fits(r2, K)
    BY <1>1 DEF OnTrack, Fits
  <1>3. Ahead(r2, K) /\ Behind(r2, K) /\ Repeated(r2, K)
    BY DEF OnTrack, Ahead, Behind, Repeated, Active
  <1>4. \A x \in r2.start : Cardinality(Less(K, x)) < r2.total
    BY <1>2, LessType DEF Fits
  <1>5. Counted(r2, K)
    BY <1>4 DEF Counted
  <1> QED
    BY <1>2, <1>3, <1>5 DEF OnTrack

(* What is shown again: something came before it.                          *)
LEMMA ShownAgain ==
  ASSUME NEW r, NEW K, IsKeys(K), OnTrack(r, K), NEW P \in Pages(K, r.page),
         NEW x \in (r.twice \cup (P \cap r.shown)) \ (r.tied \cup Tied(K))
  PROVE  Preceded(K, x, r.moved) \/ (Active(r, x) /\ r.moved # {x})
  <1>1. CASE x \in r.twice
    BY <1>1 DEF OnTrack, Repeated
  <1>2. CASE x \in P /\ x \in r.shown
    <2>1. x \in DOMAIN K /\ r.page \in Nat \ {0} /\ Skip(r.page) \in Nat
      BY <1>2, SkipStep DEF OnTrack, Fits
    <2>2. Cardinality(Less(K, x)) >= Skip(r.page)
      BY <1>2, <2>1, PagePlace
    <2>3. Cardinality(Less(K, x) \ r.moved) < Skip(r.page)
      BY <1>2 DEF OnTrack, Behind
    <2>4. Less(K, x) \ r.moved # Less(K, x)
      <3>1. Cardinality(Less(K, x)) \in Nat
        BY <2>1, LessType
      <3> QED
        BY <2>1, <2>2, <2>3, <3>1
    <2>5. PICK y \in Less(K, x) : y \in r.moved
      BY <2>4
    <2>6. K[y] < K[x] /\ K[y] \in Int /\ K[x] \in Int
      BY <2>1, <2>5 DEF Less, IsKeys
    <2>7. y # x /\ K[y] <= K[x]
      BY <2>6
    <2> QED
      BY <2>5, <2>7 DEF Preceded
  <1> QED
    BY <1>1, <1>2

LEMMA PageTracks ==
  ASSUME NEW r, NEW r2, NEW K, IsKeys(K), OnTrack(r, K), NEW P \in Pages(K, r.page), r2.step # "find",
         r2.page = r.page + 1, r2.shown = r.shown \cup P, r2.twice = r.twice \cup (P \cap r.shown),
         r2.tied = r.tied \cup Tied(K),
         r2.kind = r.kind, r2.total = r.total, r2.start = r.start, r2.moved = r.moved, r2.late = r.late
  PROVE  OnTrack(r2, K)
  <1>1. /\ r.page \in Nat \ {0} /\ Skip(r.page) \in Nat /\ Skip(r2.page) = Skip(r.page) + PageSize
        /\ PageSize \in Nat \ {0} /\ r2.page \in Nat \ {0}
    BY SkipStep, DashboardAssumption DEF OnTrack, Fits
  <1>2. P \subseteq DOMAIN K
    BY DEF Pages, kSubset
  <1>3. \A x \in DOMAIN K \ Tied(K) :
          /\ x \in P => Cardinality(Less(K, x)) < Skip(r.page) + PageSize
          /\ x \notin P => \/ Cardinality(Less(K, x)) < Skip(r.page)
                           \/ Cardinality(Less(K, x)) >= Skip(r.page) + PageSize
    BY <1>1, PagePlace
  <1>4. Fits(r2, K)
    BY <1>1, <1>2 DEF OnTrack, Fits
  <1>5. Ahead(r2, K)
    <2> SUFFICES ASSUME NEW x \in r2.start \ (r2.shown \cup r2.tied), ~Active(r2, x)
                 PROVE  Skip(r2.page) <= Cardinality(Less(K, x))
      BY DEF Ahead
    <2>1. x \in r.start \ (r.shown \cup r.tied) /\ x \notin P /\ x \in DOMAIN K \ Tied(K) /\ ~Active(r, x)
      BY <1>4 DEF Fits, Active
    <2>2. Skip(r.page) <= Cardinality(Less(K, x)) /\ Cardinality(Less(K, x)) \in Nat
      BY <2>1, LessType DEF OnTrack, Ahead
    <2> QED
      BY <1>1, <1>3, <2>1, <2>2
  <1>6. Behind(r2, K)
    <2> SUFFICES ASSUME NEW x \in r2.shown \ r2.tied
                 PROVE  Cardinality(Less(K, x) \ r.moved) < Skip(r.page) + PageSize
      BY <1>1 DEF Behind
    <2>1. x \in DOMAIN K \ Tied(K) /\ x \notin r.tied
      BY <1>4 DEF Fits
    <2>2. /\ IsFiniteSet(Less(K, x)) /\ Cardinality(Less(K, x)) \in Nat
      BY <2>1, LessType
    <2>3. /\ Cardinality(Less(K, x) \ r.moved) \in Nat
          /\ Cardinality(Less(K, x) \ r.moved) <= Cardinality(Less(K, x))
      <3>1. Less(K, x) \ r.moved \in SUBSET Less(K, x)
        OBVIOUS
      <3> QED
        BY <2>2, <3>1, Fewer
    <2>4. CASE x \in P
      BY <1>1, <1>3, <2>1, <2>2, <2>3, <2>4
    <2>5. CASE x \in r.shown
      <3>1. Cardinality(Less(K, x) \ r.moved) < Skip(r.page)
        BY <2>1, <2>5 DEF OnTrack, Behind
      <3> QED
        BY <1>1, <2>3, <3>1
    <2> QED
      BY <2>4, <2>5
  <1>7. Repeated(r2, K)
    <2> SUFFICES ASSUME NEW x \in r2.twice \ r2.tied
                 PROVE  Preceded(K, x, r.moved) \/ (Active(r, x) /\ r.moved # {x})
      BY DEF Repeated, Active
    <2> QED
      BY ShownAgain
  <1> QED
    BY <1>4, <1>5, <1>6, <1>7 DEF OnTrack

(* The last page.                                                          *)
LEMMA LastPageCompletes ==
  ASSUME NEW r, NEW K, IsKeys(K), OnTrack(r, K), r.step = "find", NEW P \in Pages(K, r.page),
         LastPage(PaginationRes(r.page, r.total))
  PROVE  /\ \A x \in r.start \ ((r.shown \cup P) \cup (r.tied \cup Tied(K))) :
              Active(r, x) \/ Preceded(K, x, r.late)
         /\ \A x \in (r.twice \cup (P \cap r.shown)) \ (r.tied \cup Tied(K)) :
              Preceded(K, x, r.moved) \/ (Active(r, x) /\ r.moved # {x})
  <1>1. r.page \in Nat \ {0} /\ Skip(r.page) \in Nat /\ r.total \in Nat /\ PageSize \in Nat
    BY SkipStep, DashboardAssumption DEF OnTrack, Fits
  <1>2. r.total <= Skip(r.page) + PageSize
    BY <1>1, LastPageEnds
  <1>3. ASSUME NEW x \in r.start \ ((r.shown \cup P) \cup (r.tied \cup Tied(K))), ~Active(r, x)
        PROVE  Preceded(K, x, r.late)
    <2>1. x \in r.start \ (r.shown \cup r.tied) /\ x \in DOMAIN K /\ x \notin Tied(K) /\ x \notin P
      BY <1>3 DEF OnTrack, Fits
    <2>2. Skip(r.page) <= Cardinality(Less(K, x)) /\ Cardinality(Less(K, x)) \in Nat
      BY <1>3, <2>1, LessType DEF OnTrack, Ahead
    <2>3. Cardinality(Less(K, x)) >= Skip(r.page) + PageSize
      BY <1>1, <2>1, <2>2, PagePlace
    <2>4. Preceded(K, x, r.late) \/ Cardinality(Less(K, x)) < r.total
      BY <1>3, <2>1 DEF OnTrack, Counted
    <2> QED
      BY <1>1, <1>2, <2>2, <2>3, <2>4
  <1> QED
    BY <1>3, ShownAgain
-----------------------------------------------------------------------------
(* The invariant. A reader that has not been answered is on track with the *)
(* keys as they are, and the projects it looks at are those of the         *)
(* organization, unless they were deleted.                                 *)

Reading(r) == r.kind \in {"session", "sessions"} /\ r.step \notin {"read", "not found"}

Posed(r) ==
  /\ DOMAIN r = {"kind", "step", "session", "projectIds", "earliest", "page", "total",
                 "shown", "twice", "start", "moved", "late", "tied"}
  /\ r.step \in {"meta", "verify"} => r.kind = "session"
  /\ r.step = "projects" => r.kind = "sessions"
  /\ r.step \in {"count", "find"} => r.kind \in {"session", "sessions"}
  /\ r.step \in {"earliest", "stats"} => r.kind = "board"

Scoped(r, P) == Reading(r) /\ r.kind = "sessions" => P \in {r.projectIds, {}}

Served(r, P, D) == Posed(r) /\ Scoped(r, P) /\ (Reading(r) => OnTrack(r, Keys(r, D)))

IInv == Filed(sessions, saving) /\ Served(reader, GetProjectIDsForOrganization, sessions)

LEMMA KeysAre ==
  ASSUME NEW r, r.kind \in {"session", "sessions"}, NEW D, NEW q, Filed(D, q)
  PROVE  IsKeys(Keys(r, D))
  BY SessionKeys, SessionsKeys DEF Filed

LEMMA InitHolds == Init => IInv
  <1> SUFFICES ASSUME Init PROVE IInv
    OBVIOUS
  <1>1. Filed({}, <<>>)
    <2>1. \A l : Copies({}, l) = 1 .. 0
      BY DEF Copies
    <2>2. Numbered({})
      BY <2>1 DEF Numbered
    <2> QED
      BY <2>2, FS_EmptySet DEF Filed, Unique
  <1>2. Posed(reader) /\ ~Reading(reader)
    BY DEF Init, Idle, Posed, Reading
  <1> QED
    BY <1>1, <1>2 DEF Init, IInv, Served, Scoped

LEMMA SaveBatchKeeps == IInv /\ SaveBatch => IInv'
  <1> SUFFICES ASSUME IInv, SaveBatch PROVE IInv'
    OBVIOUS
  <1>1. saving = <<>> /\ Filed(sessions, <<>>)
    BY DEF IInv, SaveBatch
  <1>2. PICK l \in DOMAIN Lines, now \in Times :
          saving' = [i \in DOMAIN Convert(Lines[l].data, now) |->
                       Doc(l, 1 + Cardinality(Copies(sessions, l)), i, Convert(Lines[l].data, now)[i])]
    BY DEF SaveBatch, Copies
  <1>3. Filed(sessions, saving')
    BY <1>1, <1>2, SaveFiles
  <1>4. sessions' = sessions /\ reader' = reader /\ GetProjectIDsForOrganization' = GetProjectIDsForOrganization
    BY DEF SaveBatch, GetProjectIDsForOrganization
  <1> QED
    BY <1>3, <1>4 DEF IInv

LEMMA InsertKeeps == IInv /\ Insert => IInv'
  <1> SUFFICES ASSUME IInv, Insert PROVE IInv'
    OBVIOUS
  <1> DEFINE h == Head(saving)
             P == GetProjectIDsForOrganization
             K == Keys(reader, sessions)
             N == Keys(reader, sessions \cup {h})
  <1>1. saving # <<>> /\ sessions' = sessions \cup {h} /\ saving' = Tail(saving) /\ projects' = projects
    BY DEF Insert
  <1>2. Filed(sessions, saving) /\ Served(reader, P, sessions)
    BY DEF IInv
  <1>3. Filed(sessions', saving') /\ h \in Written /\ \A d \in sessions : d.id # h.id
    BY <1>1, <1>2, InsertFiles
  <1>4. P' = P
    BY <1>1 DEF GetProjectIDsForOrganization
  <1>5. reader' = IF reader.kind = "none" THEN reader
                  ELSE [reader EXCEPT !.moved = @ \cup Placed(K, N), !.late = @ \cup Placed(K, N)]
    BY <1>1 DEF Insert, Placed
  <1>6. CASE reader.kind = "none"
    <2>1. reader' = reader /\ ~Reading(reader)
      BY <1>5, <1>6 DEF Reading
    <2> QED
      BY <1>2, <1>3, <1>4, <2>1 DEF IInv, Served
  <1>7. CASE reader.kind # "none"
    <2> HIDE DEF K, N, P, h
    <2>1. Posed(reader) /\ reader' = [reader EXCEPT !.moved = @ \cup Placed(K, N), !.late = @ \cup Placed(K, N)]
      BY <1>2, <1>5, <1>7 DEF Served
    <2>2. Posed(reader') /\ Noted(reader, reader', Placed(K, N)) /\ reader'.session = reader.session
          /\ reader'.projectIds = reader.projectIds
      BY <2>1 DEF Posed, Noted
    <2>3. Scoped(reader', P)
      BY <1>2, <2>2 DEF Served, Scoped, Reading, Noted
    <2>4. ASSUME Reading(reader') PROVE OnTrack(reader', Keys(reader', sessions'))
      <3>1. Reading(reader) /\ reader.kind \in {"session", "sessions"}
        BY <2>2, <2>4 DEF Reading, Noted
      <3>2. OnTrack(reader, K)
        BY <1>2, <3>1 DEF Served, K
      <3>3. Grown(K, N) /\ \A x \in DOMAIN K : N[x] # K[x] => reader.kind = "sessions"
        BY <1>2, <1>3, <3>1, InsertGrows DEF Filed, K, N
      <3>4. OnTrack(reader', N)
        BY <2>2, <3>2, <3>3, PlacingKeeps
      <3>5. reader'.kind = reader.kind
        BY <2>2 DEF Noted
      <3>6. Keys(reader', sessions') = Keys(reader, sessions')
        BY <2>2, <3>1, <3>5, KeysOfSame
      <3> QED
        BY <1>1, <3>4, <3>6 DEF N
    <2> QED
      BY <1>3, <1>4, <2>2, <2>3, <2>4 DEF IInv, Served, P
  <1> QED
    BY <1>6, <1>7

LEMMA WritersKeep == IInv /\ (InsertError \/ DeleteProjects) => IInv'
  <1> SUFFICES ASSUME IInv, InsertError \/ DeleteProjects PROVE IInv'
    OBVIOUS
  <1>1. CASE InsertError
    <2>1. /\ sessions' = sessions /\ reader' = reader /\ saving' = <<>>
          /\ GetProjectIDsForOrganization' = GetProjectIDsForOrganization
      BY <1>1 DEF InsertError, GetProjectIDsForOrganization
    <2>2. Filed(sessions, <<>>)
      BY DEF IInv, Filed
    <2> QED
      BY <2>1, <2>2 DEF IInv
  <1>2. CASE DeleteProjects
    <2>1. /\ sessions' = sessions /\ reader' = reader /\ saving' = saving
          /\ GetProjectIDsForOrganization' = {}
      BY <1>2 DEF DeleteProjects, GetProjectIDsForOrganization
    <2>2. Scoped(reader, {})
      BY DEF Scoped
    <2> QED
      BY <2>1, <2>2 DEF IInv, Served
  <1> QED
    BY <1>1, <1>2

LEMMA RequestKeeps == IInv /\ Request => IInv'
  <1> SUFFICES ASSUME IInv, Request PROVE IInv'
    OBVIOUS
  <1> DEFINE P == GetProjectIDsForOrganization
             K(r) == DOMAIN Keys(r, sessions)
  <1>1. PICK r \in {GetSessionReq(s) : s \in SessionIds(sessions) \ {None}} \cup {ListSessionsReq, GetFeaturedBoardReq} :
          /\ reader' = [r EXCEPT !.start = K(r)]
          /\ UNCHANGED <<projects, sessions, saving>>
    BY DEF Request, Go
  <1>2. P' = P /\ Filed(sessions', saving') /\ sessions' = sessions
    BY <1>1 DEF IInv, GetProjectIDsForOrganization
  <1> HIDE DEF P, K
  <1>3. /\ \/ r.kind = "session" /\ r.step = "meta"
           \/ r.kind = "sessions" /\ r.step = "projects" /\ r.projectIds = P
           \/ r.kind = "board" /\ r.step = "earliest"
        /\ r.page = 1 /\ r.total = 0 /\ r.shown = {} /\ r.twice = {} /\ r.moved = {} /\ r.late = {}
        /\ DOMAIN r = {"kind", "step", "session", "projectIds", "earliest", "page", "total",
                       "shown", "twice", "start", "moved", "late", "tied"}
    <2>1. ASSUME NEW s, r = GetSessionReq(s) PROVE <1>3
      BY <2>1 DEF GetSessionReq, Idle
    <2>2. CASE r = ListSessionsReq
      BY <2>2 DEF ListSessionsReq, Idle, P
    <2>3. CASE r = GetFeaturedBoardReq
      BY <2>3 DEF GetFeaturedBoardReq, Idle
    <2> QED
      BY <2>1, <2>2, <2>3
  <1>4. /\ Posed(reader') /\ reader'.kind = r.kind /\ reader'.step = r.step /\ reader'.session = r.session
        /\ reader'.projectIds = r.projectIds /\ reader'.start = K(r)
        /\ reader'.page = 1 /\ reader'.total = 0 /\ reader'.shown = {} /\ reader'.twice = {}
        /\ reader'.moved = {} /\ reader'.late = {}
    BY <1>1, <1>3 DEF Posed
  <1>5. Scoped(reader', P)
    BY <1>3, <1>4 DEF Scoped
  <1>6. ASSUME Reading(reader') PROVE OnTrack(reader', Keys(reader', sessions))
    <2>1. r.kind \in {"session", "sessions"} /\ reader'.step # "find"
      BY <1>3, <1>4, <1>6 DEF Reading
    <2>2. Keys(reader', sessions) = Keys(r, sessions)
      BY <1>4, <2>1, KeysOfSame
    <2>3. IsKeys(Keys(r, sessions))
      BY <2>1, KeysAre DEF IInv
    <2>4. reader'.start = DOMAIN Keys(r, sessions)
      BY <1>4 DEF K
    <2> QED
      BY <1>4, <2>1, <2>2, <2>3, <2>4, RequestTracks
  <1> QED
    BY <1>2, <1>4, <1>5, <1>6 DEF IInv, Served, P

(* A lookup changes the step, and the projects of a session's reader.      *)
LEMMA LookupKeeps ==
  ASSUME IInv, NEW r2, Go(r2), Posed(r2), Scoped(r2, GetProjectIDsForOrganization),
         Reading(r2) => Reading(reader) /\ r2.step # "find"
                        /\ (r2.kind = "sessions" => r2.projectIds = reader.projectIds),
         r2.kind = reader.kind, r2.session = reader.session, r2.page = reader.page, r2.total = reader.total,
         r2.start = reader.start, r2.shown = reader.shown, r2.twice = reader.twice, r2.tied = reader.tied,
         r2.moved = reader.moved, r2.late = reader.late
  PROVE  IInv'
  <1>1. /\ reader' = r2 /\ sessions' = sessions /\ saving' = saving
        /\ GetProjectIDsForOrganization' = GetProjectIDsForOrganization
    BY DEF Go, GetProjectIDsForOrganization
  <1>2. ASSUME Reading(r2) PROVE OnTrack(r2, Keys(r2, sessions))
    <2>1. OnTrack(reader, Keys(reader, sessions)) /\ reader.kind \in {"session", "sessions"} /\ r2.step # "find"
      BY <1>2 DEF IInv, Served, Reading
    <2>2. Keys(r2, sessions) = Keys(reader, sessions)
      BY <1>2, <2>1, KeysOfSame
    <2>3. OnTrack(r2, Keys(reader, sessions))
      BY <2>1, LookupTracks
    <2> QED
      BY <2>2, <2>3
  <1> QED
    BY <1>1, <1>2 DEF IInv, Served

LEMMA LookupsKeep == IInv /\ (GetSessionMeta \/ VerifyProject \/ ListProjectIDs) => IInv'
  <1> SUFFICES ASSUME IInv, GetSessionMeta \/ VerifyProject \/ ListProjectIDs PROVE IInv'
    OBVIOUS
  <1> DEFINE P == GetProjectIDsForOrganization
  <1>1. Posed(reader) /\ Scoped(reader, P)
    BY DEF IInv, Served
  <1> HIDE DEF P
  <1>2. CASE GetSessionMeta
    <2>1. PICK d \in OfSession(sessions, reader.session) :
            Go([reader EXCEPT !.projectIds = {d.projectId}, !.step = "verify"])
      BY <1>2 DEF GetSessionMeta
    <2> DEFINE r2 == [reader EXCEPT !.projectIds = {d.projectId}, !.step = "verify"]
    <2>2. reader.step = "meta" /\ reader.kind = "session"
      BY <1>1, <1>2 DEF GetSessionMeta, Posed
    <2>3. /\ Posed(r2) /\ Scoped(r2, P) /\ Reading(reader) /\ r2.step # "find" /\ r2.kind # "sessions"
          /\ r2.kind = reader.kind /\ r2.session = reader.session /\ r2.page = reader.page /\ r2.total = reader.total
          /\ r2.start = reader.start /\ r2.shown = reader.shown /\ r2.twice = reader.twice /\ r2.tied = reader.tied
          /\ r2.moved = reader.moved /\ r2.late = reader.late
      BY <1>1, <2>2 DEF Posed, Scoped, Reading
    <2>4. Go(r2)
      BY <2>1
    <2> HIDE DEF r2
    <2> QED
      BY <2>3, <2>4, LookupKeeps DEF P
  <1>3. CASE VerifyProject
    <2> DEFINE next == IF reader.projectIds \subseteq P THEN "count" ELSE "not found"
               r2 == [reader EXCEPT !.projectIds = {}, !.step = next]
    <2>1. reader.step = "verify" /\ reader.kind = "session"
      BY <1>1, <1>3 DEF VerifyProject, Posed
    <2>2. next \in {"count", "not found"} /\ Go(r2)
      BY <1>3 DEF VerifyProject, P
    <2> HIDE DEF next
    <2>3. /\ Posed(r2) /\ Scoped(r2, P) /\ Reading(reader) /\ r2.step # "find" /\ r2.kind # "sessions"
          /\ r2.kind = reader.kind /\ r2.session = reader.session /\ r2.page = reader.page /\ r2.total = reader.total
          /\ r2.start = reader.start /\ r2.shown = reader.shown /\ r2.twice = reader.twice /\ r2.tied = reader.tied
          /\ r2.moved = reader.moved /\ r2.late = reader.late
      BY <1>1, <2>1, <2>2 DEF Posed, Scoped, Reading
    <2> HIDE DEF r2
    <2> QED
      BY <2>2, <2>3, LookupKeeps DEF P
  <1>4. CASE ListProjectIDs
    <2> DEFINE next == IF P = {} THEN "not found" ELSE "count"
               r2 == [reader EXCEPT !.projectIds = P, !.step = next]
    <2>1. reader.step = "projects" /\ reader.kind = "sessions"
      BY <1>1, <1>4 DEF ListProjectIDs, Posed
    <2>2. next \in {"count", "not found"} /\ (next = "count" => P # {}) /\ Go(r2)
      BY <1>4 DEF ListProjectIDs, P
    <2> HIDE DEF next
    <2>3. /\ Posed(r2) /\ Reading(reader) /\ r2.step = next /\ r2.projectIds = P
          /\ r2.kind = reader.kind /\ r2.session = reader.session /\ r2.page = reader.page /\ r2.total = reader.total
          /\ r2.start = reader.start /\ r2.shown = reader.shown /\ r2.twice = reader.twice /\ r2.tied = reader.tied
          /\ r2.moved = reader.moved /\ r2.late = reader.late
      BY <1>1, <2>1, <2>2 DEF Posed, Reading
    <2>4. P \in {reader.projectIds, {}}
      BY <1>1, <2>1, <2>3 DEF Scoped
    <2> HIDE DEF r2
    <2>5. Scoped(r2, P)
      BY <2>3 DEF Scoped
    <2>6. Reading(r2) => r2.step # "find" /\ r2.projectIds = reader.projectIds
      BY <2>2, <2>3, <2>4 DEF Reading
    <2> QED
      BY <2>2, <2>3, <2>5, <2>6, LookupKeeps DEF P
  <1> QED
    BY <1>2, <1>3, <1>4

LEMMA CountKeeps == IInv /\ Count => IInv'
  <1> SUFFICES ASSUME IInv, Count PROVE IInv'
    OBVIOUS
  <1> DEFINE P == GetProjectIDsForOrganization
             K == Keys(reader, sessions)
             n == Cardinality(DOMAIN K)
  <1>1. /\ Posed(reader) /\ reader.step = "count" /\ reader.kind \in {"session", "sessions"} /\ Reading(reader)
        /\ OnTrack(reader, K) /\ Scoped(reader, P)
    BY DEF IInv, Served, Count, Posed, Reading
  <1>2. /\ reader' = [reader EXCEPT !.total = n, !.late = {}, !.step = "find"]
        /\ sessions' = sessions /\ saving' = saving /\ P' = P
    BY DEF Count, Go, GetProjectIDsForOrganization
  <1>3. IsKeys(K)
    BY <1>1, KeysAre DEF IInv
  <1> HIDE DEF P, K, n
  <1>4. /\ Posed(reader') /\ Scoped(reader', P) /\ reader'.total = n /\ reader'.late = {}
        /\ reader'.projectIds = reader.projectIds
        /\ reader'.kind = reader.kind /\ reader'.session = reader.session /\ reader'.page = reader.page
        /\ reader'.start = reader.start /\ reader'.shown = reader.shown /\ reader'.twice = reader.twice
        /\ reader'.tied = reader.tied /\ reader'.moved = reader.moved
    BY <1>1, <1>2 DEF Posed, Scoped, Reading
  <1>5. OnTrack(reader', K)
    BY <1>1, <1>3, <1>4, CountTracks DEF n
  <1>6. Keys(reader', sessions) = K
    BY <1>1, <1>4, KeysOfSame DEF K
  <1> QED
    BY <1>2, <1>4, <1>5, <1>6 DEF IInv, Served, P

(* A page: it is the last one, or the reader stays on track.               *)
LEMMA FindsPage ==
  ASSUME IInv, Find
  PROVE  \E P \in Pages(Keys(reader, sessions), reader.page) :
           /\ reader.step = "find" /\ reader.kind \in {"session", "sessions"}
           /\ OnTrack(reader, Keys(reader, sessions)) /\ IsKeys(Keys(reader, sessions))
           /\ Posed(reader') /\ Scoped(reader', GetProjectIDsForOrganization)
           /\ reader'.shown = reader.shown \cup P /\ reader'.twice = reader.twice \cup (P \cap reader.shown)
           /\ reader'.tied = reader.tied \cup Tied(Keys(reader, sessions))
           /\ \/ LastPage(PaginationRes(reader.page, reader.total)) /\ reader'.step = "read"
              \/ reader'.page = reader.page + 1 /\ reader'.step \in {"meta", "projects"}
           /\ reader'.kind = reader.kind /\ reader'.session = reader.session
           /\ reader'.projectIds = reader.projectIds /\ reader'.total = reader.total
           /\ reader'.start = reader.start /\ reader'.moved = reader.moved /\ reader'.late = reader.late
  <1> DEFINE K == Keys(reader, sessions)
             last == LastPage(PaginationRes(reader.page, reader.total))
             G == GetProjectIDsForOrganization
             next == IF last THEN "read" ELSE IF reader.kind = "session" THEN "meta" ELSE "projects"
  <1>1. /\ Posed(reader) /\ reader.step = "find" /\ reader.kind \in {"session", "sessions"} /\ Reading(reader)
        /\ OnTrack(reader, K) /\ Scoped(reader, G)
    BY DEF IInv, Served, Find, Posed, Reading
  <1>2. IsKeys(K)
    BY <1>1, KeysAre DEF IInv
  <1>3. PICK P \in Pages(K, reader.page) :
          reader' = [reader EXCEPT !.shown = @ \cup P, !.twice = @ \cup (P \cap reader.shown), !.tied = @ \cup Tied(K),
                                   !.page = IF last THEN @ ELSE @ + 1, !.step = next]
    BY DEF Find, Go
  <1> HIDE DEF K, last, G
  <1>4. /\ reader'.shown = reader.shown \cup P /\ reader'.twice = reader.twice \cup (P \cap reader.shown)
        /\ reader'.tied = reader.tied \cup Tied(K) /\ reader'.step = next
        /\ reader'.page = (IF last THEN reader.page ELSE reader.page + 1)
        /\ reader'.kind = reader.kind /\ reader'.session = reader.session
        /\ reader'.projectIds = reader.projectIds /\ reader'.total = reader.total
        /\ reader'.start = reader.start /\ reader'.moved = reader.moved /\ reader'.late = reader.late
        /\ DOMAIN reader' = DOMAIN reader
    <2> HIDE DEF next
    <2> QED
      BY <1>1, <1>3 DEF Posed
  <1>5. Posed(reader') /\ Scoped(reader', G)
    BY <1>1, <1>4 DEF Posed, Scoped, Reading
  <1>6. \/ last /\ reader'.step = "read"
        \/ reader'.page = reader.page + 1 /\ reader'.step \in {"meta", "projects"}
    BY <1>4
  <1> QED
    BY <1>1, <1>2, <1>4, <1>5, <1>6 DEF K, last, G

LEMMA FindKeeps == IInv /\ Find => IInv'
  <1> SUFFICES ASSUME IInv, Find PROVE IInv'
    OBVIOUS
  <1> DEFINE G == GetProjectIDsForOrganization
             K == Keys(reader, sessions)
  <1>1. sessions' = sessions /\ saving' = saving /\ G' = G
    BY DEF Find, Go, GetProjectIDsForOrganization
  <1> HIDE DEF G, K
  <1>2. PICK P \in Pages(K, reader.page) :
           /\ reader.step = "find" /\ reader.kind \in {"session", "sessions"}
           /\ OnTrack(reader, K) /\ IsKeys(K) /\ Posed(reader') /\ Scoped(reader', G)
           /\ reader'.shown = reader.shown \cup P /\ reader'.twice = reader.twice \cup (P \cap reader.shown)
           /\ reader'.tied = reader.tied \cup Tied(K)
           /\ \/ reader'.step = "read"
              \/ reader'.page = reader.page + 1 /\ reader'.step \in {"meta", "projects"}
           /\ reader'.kind = reader.kind /\ reader'.session = reader.session
           /\ reader'.projectIds = reader.projectIds /\ reader'.total = reader.total
           /\ reader'.start = reader.start /\ reader'.moved = reader.moved /\ reader'.late = reader.late
    BY FindsPage DEF G, K
  <1>3. ASSUME Reading(reader') PROVE OnTrack(reader', Keys(reader', sessions))
    <2>1. reader'.page = reader.page + 1 /\ reader'.step # "find"
      BY <1>2, <1>3 DEF Reading
    <2>2. OnTrack(reader', K)
      BY <1>2, <2>1, PageTracks
    <2>3. Keys(reader', sessions) = K
      BY <1>2, KeysOfSame DEF K
    <2> QED
      BY <2>2, <2>3
  <1> QED
    BY <1>1, <1>2, <1>3 DEF IInv, Served, G

LEMMA BoardKeeps == IInv /\ (GetEarliestProjectForMembers \/ GetFeaturedBoardStats) => IInv'
  <1> SUFFICES ASSUME IInv, GetEarliestProjectForMembers \/ GetFeaturedBoardStats PROVE IInv'
    OBVIOUS
  <1> DEFINE G == GetProjectIDsForOrganization
  <1>1. Posed(reader) /\ reader.kind = "board"
    BY DEF IInv, Served, Posed, GetEarliestProjectForMembers, GetFeaturedBoardStats
  <1>2. sessions' = sessions /\ saving' = saving /\ G' = G
    BY DEF GetEarliestProjectForMembers, GetFeaturedBoardStats, Go, GetProjectIDsForOrganization
  <1>3. \/ reader' = [reader EXCEPT !.step = "read"]
        \/ \E E : reader' = [reader EXCEPT !.earliest = E, !.step = "stats"]
    BY DEF GetEarliestProjectForMembers, GetFeaturedBoardStats, Go
  <1>4. Posed(reader') /\ ~Reading(reader')
    BY <1>1, <1>3 DEF Posed, Reading
  <1> QED
    BY <1>2, <1>4 DEF IInv, Served, Scoped

LEMMA StepKeeps == IInv /\ [Next]_vars => IInv'
  <1>1. IInv /\ UNCHANGED vars => IInv'
    BY DEF IInv, vars, GetProjectIDsForOrganization
  <1> QED
    BY <1>1, SaveBatchKeeps, InsertKeeps, WritersKeep, RequestKeeps, LookupsKeep, CountKeeps, FindKeeps, BoardKeeps DEF Next
-----------------------------------------------------------------------------
(* Whoever reads all pages, of a session or of the list of sessions, is    *)
(* shown everything that was there at first, once, but for what PagesComplete *)
(* excepts: of the loop of useGetSession and GetSession, and of ListSessions. *)
THEOREM PagingComplete == Spec => PagesComplete
  <1> DEFINE Complete ==
        reader.kind \in {"session", "sessions"} /\ reader'.step = "read" =>
          /\ \A x \in reader.start \ (reader'.shown \cup reader'.tied) :
               Active(reader, x) \/ Preceded(Keys(reader, sessions), x, reader.late)
          /\ \A x \in reader'.twice \ reader'.tied :
               \/ Preceded(Keys(reader, sessions), x, reader.moved)
               \/ Active(reader, x) /\ reader.moved # {x}
  <1>1. ASSUME IInv, Next, reader' # reader, reader.kind \in {"session", "sessions"}, reader'.step = "read"
        PROVE  Find
    <2>1. Posed(reader)
      BY <1>1 DEF IInv, Served
    <2>2. ~(SaveBatch \/ InsertError \/ DeleteProjects \/ Request)
      BY <1>1 DEF SaveBatch, InsertError, DeleteProjects, Request
    <2>3. ~Insert
      <3> SUFFICES ASSUME Insert PROVE FALSE
        OBVIOUS
      <3>1. reader.step # "read"
        BY DEF Insert, Open
      <3>2. reader'.step = reader.step
        BY <2>1 DEF Insert, Posed
      <3> QED
        BY <1>1, <3>1, <3>2
    <2>4. ~(GetSessionMeta \/ VerifyProject \/ ListProjectIDs \/ Count)
      BY <1>1, <2>1 DEF GetSessionMeta, VerifyProject, ListProjectIDs, Count, Go, Posed
    <2>5. ~(GetEarliestProjectForMembers \/ GetFeaturedBoardStats)
      BY <1>1, <2>1 DEF GetEarliestProjectForMembers, GetFeaturedBoardStats, Posed
    <2> QED
      BY <1>1, <2>2, <2>3, <2>4, <2>5 DEF Next
  <1>2. IInv /\ [Next]_vars => [Complete]_reader
    <2> SUFFICES ASSUME IInv, Next, reader' # reader, reader.kind \in {"session", "sessions"}, reader'.step = "read"
                 PROVE  Complete
      BY DEF vars
    <2>1. Find
      BY <1>1
    <2>2. PICK P \in Pages(Keys(reader, sessions), reader.page) :
            /\ reader.step = "find" /\ OnTrack(reader, Keys(reader, sessions)) /\ IsKeys(Keys(reader, sessions))
            /\ reader'.shown = reader.shown \cup P /\ reader'.twice = reader.twice \cup (P \cap reader.shown)
            /\ reader'.tied = reader.tied \cup Tied(Keys(reader, sessions))
            /\ LastPage(PaginationRes(reader.page, reader.total))
      BY <2>1, FindsPage
    <2> QED
      BY <2>2, LastPageCompletes
  <1>3. [Complete]_reader => [reader.kind \in {"session", "sessions"} /\ reader'.step = "read" =>
       LET keys == Keys(reader, sessions)
           Active0(x) == reader.kind = "sessions" /\ x \in reader.moved
           Preceded0(x, S) == \E y \in S \ {x} : keys[y] <= keys[x]
       IN /\ \A x \in reader.start \ (reader'.shown \cup reader'.tied) : Active0(x) \/ Preceded0(x, reader.late)
          /\ \A x \in reader'.twice \ reader'.tied :
               Preceded0(x, reader.moved) \/ (Active0(x) /\ reader.moved # {x})]_reader
    BY DEF Active, Preceded
  <1> HIDE DEF Complete
  <1> QED
    BY <1>2, <1>3, InitHolds, StepKeeps, PTL DEF Spec, PagesComplete
-----------------------------------------------------------------------------
(* The views of a moment, as far as they are no sums.                      *)

LEMMA MinOfTimes ==
  ASSUME NEW T \in SUBSET Nat, T # {}
  PROVE  Min(T) \in T /\ \A y \in T : Min(T) <= y
  BY Least DEF Min

(* The sessions of a list, and with them the summaries that belong to none. *)
LEMMA SessionsCount ==
  ASSUME NEW D, IsFiniteSet(D)
  PROVE  /\ IsFiniteSet(Summaries(D)) /\ Cardinality(Summaries(D)) \in Nat
         /\ None \in SessionIds(D) => Cardinality(SessionIds(D)) = Cardinality(Summaries(D)) + 1
         /\ None \notin SessionIds(D) => Cardinality(SessionIds(D)) = Cardinality(Summaries(D))
  <1> DEFINE f == [d \in D |-> d.entry.meta.sessionId]
             I == SessionIds(D) \ {None}
             g == [s \in I |-> SessionSummary(D, s)]
  <1>1. IsFiniteSet(SessionIds(D))
    <2>1. DOMAIN f = D /\ SessionIds(D) = {f[d] : d \in D}
      BY DEF SessionIds
    <2> HIDE DEF f
    <2> QED
      BY <2>1, ImageFinite
  <1>2. IsFiniteSet(I) /\ Cardinality(I) \in Nat
        /\ (None \in SessionIds(D) => Cardinality(SessionIds(D)) = Cardinality(I) + 1)
        /\ (None \notin SessionIds(D) => I = SessionIds(D))
    <2>1. IsFiniteSet(I) /\ Cardinality(I) = IF None \in SessionIds(D) THEN Cardinality(SessionIds(D)) - 1
                                              ELSE Cardinality(SessionIds(D))
      BY <1>1, FS_RemoveElement
    <2>2. Cardinality(I) \in Nat /\ Cardinality(SessionIds(D)) \in Nat
      BY <1>1, <2>1, FS_CardinalityType
    <2>3. None \notin SessionIds(D) => I = SessionIds(D)
      OBVIOUS
    <2> HIDE DEF I
    <2> QED
      BY <2>1, <2>2, <2>3
  <1> HIDE DEF I
  <1>3. DOMAIN g = I /\ Summaries(D) = {g[s] : s \in I}
    BY DEF Summaries, I
  <1>4. \A s \in I : g[s].id = s
    BY DEF SessionSummary
  <1>5. \A s, t \in I : g[s] = g[t] => s = t
    BY <1>4
  <1> HIDE DEF g
  <1>6. IsFiniteSet(Summaries(D)) /\ Cardinality(Summaries(D)) = Cardinality(I)
    BY <1>2, <1>3, <1>5, CountImage
  <1> QED
    BY <1>2, <1>6

LEMMA ProjectsCount ==
  ASSUME IsFiniteSet(GetProjectIDsForOrganization)
  PROVE  /\ IsFiniteSet(ListProjects)
         /\ Cardinality(ListProjects) = Cardinality(GetProjectIDsForOrganization)
  <1> DEFINE P == GetProjectIDsForOrganization
             f == [p \in P |-> ProjectSummary(p, GetProjectStats(p))]
  <1>1. DOMAIN f = P /\ ListProjects = {f[p] : p \in P}
    BY DEF ListProjects
  <1>2. \A p \in P : f[p].id = p
    BY DEF ProjectSummary
  <1>3. \A p, q \in P : f[p] = f[q] => p = q
    BY <1>2
  <1> HIDE DEF f
  <1> QED
    BY <1>1, <1>3, CountImage

(* Some of the latest are as late as any, if there are any to be named.    *)
LEMMA LatestAre ==
  ASSUME NEW S, IsFiniteSet(S), NEW time, NEW T \in Latest(S, time), NEW y \in S, RecentLimit # 0,
         \A x \in S : x[time] \in Int
  PROVE  \E x \in T : x[time] >= y[time]
  <1> DEFINE n == Min({RecentLimit, Cardinality(S)})
  <1>1. Cardinality(S) \in Nat /\ Cardinality(S) # 0 /\ RecentLimit \in Nat
    BY FS_CardinalityType, FS_EmptySet, DashboardAssumption
  <1>2. n \in {RecentLimit, Cardinality(S)}
    BY <1>1, MinOfTwo
  <1> HIDE DEF n
  <1>3. T \in SUBSET S /\ Cardinality(T) = n /\ \A x \in T, z \in S \ T : x[time] >= z[time]
    BY DEF Latest, kSubset, n
  <1>4. T # {}
    BY <1>1, <1>2, <1>3, FS_EmptySet
  <1> QED
    BY <1>3, <1>4

LEMMA OverviewHolds ==
  ASSUME Filed(sessions, saving), projects \in SUBSET DOMAIN Organization
  PROVE  OverviewCounts
  <1> DEFINE P == GetProjectIDsForOrganization
             none == IF None \in SessionIds(Of(P)) THEN 1 ELSE 0
  <1>1. IsFiniteSet(P)
    <2>1. P \in SUBSET DOMAIN Organization
      BY DEF GetProjectIDsForOrganization
    <2> QED
      BY <2>1, FS_Subset, DashboardAssumption
  <1>2. \A Q : Of(Q) \in SUBSET sessions /\ IsFiniteSet(Of(Q)) /\ Of(Q) \in SUBSET Written
    <2>1. \A Q : Of(Q) \in SUBSET sessions
      BY DEF Of
    <2> QED
      BY <2>1, FS_Subset DEF Filed
  <1>3. GetOverviewStats.sessionCount = Cardinality(ListSessions(P)) + none
    <2>1. ListSessions(P) = Summaries(Of(P)) /\ GetOverviewStats.sessionCount = Cardinality(SessionIds(Of(P)))
      BY DEF ListSessions, GetOverviewStats
    <2> HIDE DEF P
    <2> QED
      BY <1>2, <2>1, SessionsCount
  <1>4. GetOverviewStats.projectCount = Cardinality(ListProjects)
    BY <1>1, ProjectsCount DEF GetOverviewStats
  <1>5. ASSUME NEW x \in ListProjects
        PROVE  x.sessionCount - Cardinality(ListSessions({x.id})) \in {0, none}
    <2>4. PICK p \in P : x = ProjectSummary(p, GetProjectStats(p))
      BY DEF ListProjects
    <2>1. x.id = p /\ x.sessionCount = Cardinality(SessionIds(Of({p})))
      BY <2>4 DEF ProjectSummary, GetProjectStats
    <2>2. ListSessions({p}) = Summaries(Of({p}))
      <3>1. {p} \cap P = {p}
        OBVIOUS
      <3> QED
        BY <3>1 DEF ListSessions
    <2>3. None \in SessionIds(Of({p})) => none = 1
      <3>1. Of({p}) \subseteq Of(P)
        BY DEF Of
      <3> QED
        BY <3>1 DEF SessionIds
    <2> HIDE DEF P, none
    <2> QED
      BY <1>2, <2>1, <2>2, <2>3, SessionsCount
  <1>6. ASSUME NEW S \in GetRecentProjects, NEW T \in GetRecentSessions, NEW t \in T
        PROVE  \E x \in S : x.lastActivity >= t.endedAt
    <2> DEFINE D == Of(projects \cap P)
    <2>1. T \in Latest(Summaries(D), "startedAt")
      BY DEF GetRecentSessions, ListSessions
    <2>2. T \in SUBSET Summaries(D) /\ Cardinality(T) = Min({RecentLimit, Cardinality(Summaries(D))})
      BY <2>1 DEF Latest, kSubset
    <2>3. IsFiniteSet(Summaries(D)) /\ Cardinality(Summaries(D)) \in Nat
      BY <1>2, SessionsCount
    <2>4. RecentLimit # 0
      <3>1. IsFiniteSet(T) /\ Cardinality(T) # 0
        BY <2>2, <2>3, FS_Subset, FS_EmptySet
      <3>2. RecentLimit \in Nat
        BY DashboardAssumption
      <3>3. Min({RecentLimit, Cardinality(Summaries(D))}) <= RecentLimit
            /\ Min({RecentLimit, Cardinality(Summaries(D))}) \in {RecentLimit, Cardinality(Summaries(D))}
        BY <2>3, <3>2, MinOfTwo
      <3> HIDE DEF D
      <3>4. Cardinality(T) \in Nat
        BY <3>1, FS_CardinalityType
      <3> QED
        BY <2>2, <3>1, <3>2, <3>3, <3>4
    <2>5. \A d \in sessions : d.entry.meta.timestamp \in 0 .. MaxTime
      BY WrittenType DEF Filed
    <2>16. t \in Summaries(D)
      BY <2>2
    <2>6. PICK s \in SessionIds(D) : t.endedAt = Max(Timestamps(OfSession(D, s)))
      <3> HIDE DEF D
      <3>1. PICK s \in SessionIds(D) \ {None} : t = SessionSummary(D, s)
        BY <2>16 DEF Summaries
      <3>2. t.endedAt = Max(Timestamps(OfSession(D, s)))
        BY <3>1 DEF SessionSummary
      <3> QED
        BY <3>2
    <2>7. PICK d \in D : t.endedAt = d.entry.meta.timestamp
      <3>1. Timestamps(OfSession(D, s)) \in SUBSET (0 .. MaxTime)
        BY <1>2, <2>5 DEF Timestamps, OfSession
      <3>2. Timestamps(OfSession(D, s)) # {}
        BY DEF SessionIds, Timestamps, OfSession
      <3>3. t.endedAt \in Timestamps(OfSession(D, s))
        BY <2>6, <3>1, <3>2, MaxOfTimes, DashboardAssumption
      <3> QED
        BY <3>3 DEF Timestamps, OfSession
    <2>8. \A p : Of({p}) # {} =>
            /\ GetProjectStats(p).lastActivity \in Nat
            /\ \A e \in Of({p}) : GetProjectStats(p).lastActivity >= e.entry.meta.timestamp
      <3> SUFFICES ASSUME NEW p, Of({p}) # {}
                   PROVE  /\ GetProjectStats(p).lastActivity \in Nat
                          /\ \A e \in Of({p}) : GetProjectStats(p).lastActivity >= e.entry.meta.timestamp
        OBVIOUS
      <3>1. GetProjectStats(p).lastActivity = Max(Timestamps(Of({p})))
        BY DEF GetProjectStats
      <3>2. Timestamps(Of({p})) \in SUBSET (0 .. MaxTime) /\ Timestamps(Of({p})) # {}
            /\ \A e \in Of({p}) : e.entry.meta.timestamp \in Timestamps(Of({p}))
        BY <1>2, <2>5 DEF Timestamps
      <3>3. Max(Timestamps(Of({p}))) \in 0 .. MaxTime
            /\ \A y \in Timestamps(Of({p})) : Max(Timestamps(Of({p}))) >= y
        BY <3>2, MaxOfTimes, DashboardAssumption
      <3>4. MaxTime \in Nat
        BY DashboardAssumption
      <3>5. Max(Timestamps(Of({p}))) \in Nat
        BY <3>3, <3>4
      <3> QED
        BY <3>1, <3>2, <3>3, <3>5
    <2>9. \A x \in ListProjects : x.lastActivity \in Int
      <3> SUFFICES ASSUME NEW p \in P PROVE GetProjectStats(p).lastActivity \in Int
        BY DEF ListProjects, ProjectSummary
      <3>1. Of({p}) = {} => GetProjectStats(p).lastActivity = 0
        BY DEF GetProjectStats
      <3> QED
        BY <2>8, <3>1
    <2>10. d \in sessions /\ d.projectId \in P /\ d \in Of({d.projectId})
      BY DEF Of
    <2> DEFINE y == ProjectSummary(d.projectId, GetProjectStats(d.projectId))
    <2>11. y \in ListProjects /\ y.lastActivity >= d.entry.meta.timestamp
      <3>1. y \in ListProjects /\ y.lastActivity = GetProjectStats(d.projectId).lastActivity
        BY <2>10 DEF ListProjects, ProjectSummary
      <3> QED
        BY <2>8, <2>10, <3>1
    <2> HIDE DEF y, D, P
    <2>12. IsFiniteSet(ListProjects)
      BY <1>1, ProjectsCount DEF P
    <2>13. PICK x \in S : x.lastActivity >= y.lastActivity
      BY <2>4, <2>9, <2>11, <2>12, LatestAre DEF GetRecentProjects
    <2>14. x \in ListProjects
      BY DEF GetRecentProjects, Latest, kSubset
    <2>15. x.lastActivity >= t.endedAt
      <3>1. x.lastActivity \in Int /\ y.lastActivity \in Int /\ d.entry.meta.timestamp \in Int
        BY <2>5, <2>9, <2>10, <2>11, <2>14
      <3> QED
        BY <2>7, <2>11, <2>13, <3>1
    <2> QED
      BY <2>15
  <1> QED
    BY <1>3, <1>4, <1>5, <1>6 DEF OverviewCounts

(* The first and the last of a whole are those of its parts.               *)
Parts(T, A, f, M, N) ==
  /\ T \in SUBSET (0 .. MaxTime) /\ T # {} /\ DOMAIN f = A
  /\ \A a \in A : f[a] \in SUBSET T /\ f[a] # {}
  /\ \A t \in T : \E a \in A : t \in f[a]
  /\ M = {Min(f[a]) : a \in A} /\ N = {Max(f[a]) : a \in A}

LEMMA FirstAndLast ==
  ASSUME NEW T, NEW A, NEW f, NEW M, NEW N, Parts(T, A, f, M, N)
  PROVE  Min(T) = Min(M) /\ Max(T) = Max(N)
  <1>0. /\ T \in SUBSET (0 .. MaxTime) /\ T # {} /\ DOMAIN f = A
        /\ \A a \in A : f[a] \in SUBSET T /\ f[a] # {}
        /\ \A t \in T : \E a \in A : t \in f[a]
        /\ M = {Min(f[a]) : a \in A} /\ N = {Max(f[a]) : a \in A}
    BY DEF Parts
  <1>1. MaxTime \in Nat /\ \A t \in T : t \in Nat
    BY <1>0, DashboardAssumption
  <1>2. ASSUME NEW a \in A
        PROVE  /\ Min(f[a]) \in f[a] /\ \A t \in f[a] : Min(f[a]) <= t
               /\ Max(f[a]) \in f[a] /\ \A t \in f[a] : Max(f[a]) >= t
    <2>1. f[a] \in SUBSET (0 .. MaxTime) /\ f[a] \in SUBSET Nat /\ f[a] # {}
      BY <1>0, <1>1
    <2> QED
      BY <1>1, <2>1, MinOfTimes, MaxOfTimes
  <1>3. M \in SUBSET T /\ N \in SUBSET T /\ M # {} /\ N # {}
    <2>1. \A a \in A : Min(f[a]) \in T /\ Max(f[a]) \in T
      BY <1>0, <1>2
    <2>2. PICK a \in A : TRUE
      BY <1>0
    <2>3. Min(f[a]) \in M /\ Max(f[a]) \in N
      BY <1>0
    <2> QED
      BY <1>0, <2>1, <2>3
  <1>4. \A t \in T : (\E m \in M : m <= t) /\ (\E n \in N : n >= t)
    BY <1>0, <1>2
  <1>5. M \in SUBSET Nat /\ N \in SUBSET (0 .. MaxTime) /\ T \in SUBSET Nat
    BY <1>0, <1>1, <1>3
  <1>6. Min(T) = Min(M)
    <2>1. Min(T) \in T /\ (\A t \in T : Min(T) <= t) /\ Min(M) \in M /\ \A m \in M : Min(M) <= m
      BY <1>0, <1>3, <1>5, MinOfTimes
    <2>2. Min(M) \in Nat /\ Min(T) \in Nat /\ Min(T) <= Min(M)
      BY <1>3, <1>5, <2>1
    <2>3. PICK m \in M : m <= Min(T)
      BY <1>4, <2>1
    <2>4. m \in Nat /\ Min(M) <= m
      BY <1>5, <2>1
    <2> QED
      BY <2>2, <2>3, <2>4
  <1>7. Max(T) = Max(N)
    <2>1. Max(T) \in T /\ (\A t \in T : Max(T) >= t) /\ Max(N) \in N /\ \A n \in N : Max(N) >= n
      BY <1>0, <1>1, <1>3, <1>5, MaxOfTimes
    <2>2. Max(N) \in Nat /\ Max(T) \in Nat /\ Max(T) >= Max(N)
      BY <1>3, <1>5, <2>1
    <2>3. PICK n \in N : n >= Max(T)
      BY <1>4, <2>1
    <2>4. n \in Nat /\ Max(N) >= n
      BY <1>3, <1>5, <2>1
    <2> QED
      BY <2>2, <2>3, <2>4
  <1> QED
    BY <1>6, <1>7

(* A session is listed as what is found of it.                             *)
LEMMA OneProject ==
  ASSUME Filed(sessions, saving), NEW x \in OfOneProject
  PROVE  x = SessionSummary(sessions, x.id) /\ OfSession(sessions, x.id) # {}
  <1> DEFINE D == Of(projects \cap GetProjectIDsForOrganization)
             E == OfSession(sessions, x.id)
  <1>1. x \in Summaries(D) /\ Cardinality({d.projectId : d \in E}) = 1
    BY DEF OfOneProject, ListSessions
  <1>2. PICK s \in SessionIds(D) : x = SessionSummary(D, s)
    BY <1>1 DEF Summaries
  <1>3. x.id = s
    BY <1>2 DEF SessionSummary
  <1>4. IsFiniteSet({d.projectId : d \in E})
    <2> DEFINE h == [d \in E |-> d.projectId]
    <2>1. E \in SUBSET sessions
      BY DEF OfSession
    <2>2. IsFiniteSet(E)
      BY <2>1, FS_Subset DEF Filed
    <2>3. DOMAIN h = E /\ {d.projectId : d \in E} = {h[d] : d \in E}
      OBVIOUS
    <2> HIDE DEF h, E
    <2> QED
      BY <2>2, <2>3, ImageFinite
  <1>5. PICK q : {d.projectId : d \in E} = {q}
    BY <1>1, <1>4, FS_Singleton
  <1>6. \A d \in E : d.projectId = q
    BY <1>5
  <1>7. PICK d \in D : d.entry.meta.sessionId = s
    BY DEF SessionIds
  <1>8. d \in E /\ d.projectId \in projects \cap GetProjectIDsForOrganization
    BY <1>3, <1>7 DEF Of, OfSession
  <1>9. OfSession(D, s) = E
    BY <1>3, <1>6, <1>8 DEF Of, OfSession
  <1>10. OfSession(D, s) = OfSession(sessions, s)
    BY <1>3, <1>9
  <1> QED
    BY <1>2, <1>3, <1>8, <1>10 DEF SessionSummary

LEMMA DetailHolds ==
  ASSUME Filed(sessions, saving)
  PROVE  DetailCounts
  <1> SUFFICES ASSUME NEW x \in OfOneProject
               PROVE  LET detail == SessionDetail(x.id, Agents(x.id))
                          segments == GetSessionSegments(x.id)
                      IN /\ \A field \in {"id", "usage", "startedAt", "endedAt"} : detail[field] = x[field]
                         /\ detail.totalCount = x.messageCount
                         /\ x.startedAt = Min({g.startTime : g \in segments}) /\ x.endedAt = Max({g.endTime : g \in segments})
                         /\ \A g \in segments : SessionDetail(x.id, {g.id}).totalCount = g.messageCount
    BY DEF DetailCounts
  <1> DEFINE s == x.id
             E == OfSession(sessions, s)
             A == Agents(s)
             f == [a \in A |-> Timestamps(SessionEntries(s, {a}))]
  <1>3. x = SessionSummary(sessions, s) /\ E # {}
    BY OneProject
  <1>4. /\ x.id = s /\ x.usage = Usage(E) /\ x.startedAt = Min(Timestamps(E)) /\ x.endedAt = Max(Timestamps(E))
        /\ x.messageCount = Cardinality(E)
    BY <1>3 DEF SessionSummary
  <1>5. SessionEntries(s, A) = E
    BY DEF SessionEntries, Agents
  <1>6. \A F : /\ SessionDetail(s, F).id = s /\ SessionDetail(s, F).usage = Usage(E)
               /\ SessionDetail(s, F).startedAt = Min(Timestamps(E)) /\ SessionDetail(s, F).endedAt = Max(Timestamps(E))
               /\ SessionDetail(s, F).totalCount = Cardinality(SessionEntries(s, F))
    BY DEF SessionDetail
  <1>7. \A a : /\ SessionSegment(s, a).id = a
               /\ SessionSegment(s, a).messageCount = Cardinality(SessionEntries(s, {a}))
               /\ SessionSegment(s, a).startTime = Min(Timestamps(SessionEntries(s, {a})))
               /\ SessionSegment(s, a).endTime = Max(Timestamps(SessionEntries(s, {a})))
    BY DEF SessionSegment
  <1> DEFINE M == {Min(f[a]) : a \in A}
             N == {Max(f[a]) : a \in A}
  <1>8. Min(Timestamps(E)) = Min(M) /\ Max(Timestamps(E)) = Max(N)
    <2>1. Timestamps(E) \in SUBSET (0 .. MaxTime)
      BY WrittenType DEF Filed, Timestamps, OfSession
    <2>2. Timestamps(E) # {}
      BY <1>3 DEF Timestamps
    <2>3. ASSUME NEW a \in A PROVE f[a] \in SUBSET Timestamps(E) /\ f[a] # {}
      <3>1. PICK d \in E : AgentOf(d) = a
        BY DEF Agents
      <3>2. d \in SessionEntries(s, {a}) /\ SessionEntries(s, {a}) \subseteq E
        BY <3>1 DEF SessionEntries
      <3> QED
        BY <3>2 DEF Timestamps
    <2>4. ASSUME NEW t \in Timestamps(E) PROVE \E a \in A : t \in f[a]
      <3>1. PICK d \in E : d.entry.meta.timestamp = t
        BY DEF Timestamps
      <3>2. AgentOf(d) \in A /\ d \in SessionEntries(s, {AgentOf(d)})
        BY DEF Agents, SessionEntries
      <3> QED
        BY <3>1, <3>2 DEF Timestamps
    <2>5. DOMAIN f = A
      OBVIOUS
    <2> HIDE DEF f, A, E
    <2>6. M = {Min(f[a]) : a \in A} /\ N = {Max(f[a]) : a \in A}
      OBVIOUS
    <2> DEFINE T == Timestamps(E)
    <2>7. /\ T \in SUBSET (0 .. MaxTime) /\ T # {}
          /\ \A a \in A : f[a] \in SUBSET T /\ f[a] # {}
          /\ \A t \in T : \E a \in A : t \in f[a]
      BY <2>1, <2>2, <2>3, <2>4
    <2> HIDE DEF M, N, T
    <2>8. Parts(T, A, f, M, N)
      BY <2>5, <2>6, <2>7 DEF Parts
    <2>9. Min(T) = Min(M) /\ Max(T) = Max(N)
      BY <2>8, FirstAndLast
    <2> QED
      BY <2>9 DEF T
  <1>9. \A a \in A : f[a] = Timestamps(SessionEntries(s, {a}))
    OBVIOUS
  <1> HIDE DEF s, E, A, f
  <1> DEFINE segments == {SessionSegment(s, a) : a \in A}
  <1>10. GetSessionSegments(s) = segments /\ Agents(s) = A
    BY DEF GetSessionSegments, A, s
  <1>11. {g.startTime : g \in segments} = M /\ {g.endTime : g \in segments} = N
    <2>1. \A a \in A : SessionSegment(s, a).startTime = Min(f[a]) /\ SessionSegment(s, a).endTime = Max(f[a])
      BY <1>7, <1>9
    <2>2. {g.startTime : g \in segments} = {SessionSegment(s, a).startTime : a \in A}
          /\ {g.endTime : g \in segments} = {SessionSegment(s, a).endTime : a \in A}
      OBVIOUS
    <2> QED
      BY <2>1, <2>2
  <1>12. \A g \in segments : SessionDetail(s, {g.id}).totalCount = g.messageCount
    BY <1>6, <1>7
  <1> HIDE DEF segments, M, N
  <1>13. SessionDetail(s, A).totalCount = x.messageCount
    BY <1>4, <1>5, <1>6
  <1>14. \A field \in {"id", "usage", "startedAt", "endedAt"} : SessionDetail(s, A)[field] = x[field]
    BY <1>4, <1>6
  <1> QED
    BY <1>4, <1>8, <1>10, <1>11, <1>12, <1>13, <1>14
-----------------------------------------------------------------------------
(* The sums of the views.                                                  *)
LEMMA SumIs ==
  ASSUME NEW S, IsFiniteSet(S), NEW w, \A x \in S : w[x] \in Int, NEW it, Adds(it, w, S)
  PROVE  it[S] = Total(w, S)
  <1> DEFINE v == [x \in S |-> w[x]]
  <1>1. v \in [S -> Int] /\ \A x \in S : w[x] = v[x]
    OBVIOUS
  <1> HIDE DEF v
  <1>2. PICK g \in [SUBSET S -> Int] : Adds(g, v, S) /\ Total(v, S) = g[S]
    BY <1>1, TotalAdds
  <1>3. it[S] = g[S]
    BY <1>1, <1>2, AddsAgree
  <1>4. Total(w, S) = Total(v, S)
    BY <1>1, TotalSame
  <1> QED
    BY <1>2, <1>3, <1>4

LEMMA SumExists ==
  ASSUME NEW S, IsFiniteSet(S), NEW w, \A x \in S : w[x] \in Int
  PROVE  \E g : Adds(g, w, S)
  <1> DEFINE v == [x \in S |-> w[x]]
  <1>1. v \in [S -> Int] /\ \A x \in S : w[x] = v[x]
    OBVIOUS
  <1> HIDE DEF v
  <1>2. PICK g \in [SUBSET S -> Int] : Adds(g, v, S)
    BY <1>1, AddsExists
  <1>3. \A T \in SUBSET S : T # {} => w[Pick(T)] = v[Pick(T)]
    BY <1>1, PickIn
  <1>4. Adds(g, w, S)
    BY <1>2, <1>3 DEF Adds
  <1> QED
    BY <1>4

LEMMA UsageIs ==
  ASSUME NEW D, IsFiniteSet(D), NEW w, \A d \in D : w[d] \in Int /\ w[d] = d.entry.usage
  PROVE  Usage(D) = Total(w, D)
  <1> DEFINE P(g) == g = [T \in SUBSET D |-> IF T = {} THEN 0 ELSE Pick(T).entry.usage + g[T \ {Pick(T)}]]
             it == CHOOSE g : P(g)
  <1>1. Usage(D) = it[D]
    BY DEF Usage, MapThenSumSet, MapThenFoldSet, Pick
  <1>2. \A T \in SUBSET D : T # {} => w[Pick(T)] = Pick(T).entry.usage
    BY PickIn
  <1>3. \A g : P(g) <=> Adds(g, w, D)
    BY <1>2 DEF Adds
  <1> HIDE DEF P
  <1>4. Adds(it, w, D)
    BY <1>3, SumExists
  <1> HIDE DEF it
  <1> QED
    BY <1>1, <1>4, SumIs

LEMMA UsagesAre ==
  ASSUME NEW S, IsFiniteSet(S), NEW w, \A x \in S : w[x] \in Int /\ w[x] = x.usage
  PROVE  MapThenSumSet(LAMBDA x : x.usage, S) = Total(w, S)
  <1> DEFINE P(g) == g = [T \in SUBSET S |-> IF T = {} THEN 0 ELSE Pick(T).usage + g[T \ {Pick(T)}]]
             it == CHOOSE g : P(g)
  <1>1. MapThenSumSet(LAMBDA x : x.usage, S) = it[S]
    BY DEF MapThenSumSet, MapThenFoldSet, Pick
  <1>2. \A T \in SUBSET S : T # {} => w[Pick(T)] = Pick(T).usage
    BY PickIn
  <1>3. \A g : P(g) <=> Adds(g, w, S)
    BY <1>2 DEF Adds
  <1> HIDE DEF P
  <1>4. Adds(it, w, S)
    BY <1>3, SumExists
  <1> HIDE DEF it
  <1> QED
    BY <1>1, <1>4, SumIs

LEMMA MessageCountsAre ==
  ASSUME NEW S, IsFiniteSet(S), NEW w, \A x \in S : w[x] \in Int /\ w[x] = x.messageCount
  PROVE  MapThenSumSet(LAMBDA g : g.messageCount, S) = Total(w, S)
  <1> DEFINE P(g) == g = [T \in SUBSET S |-> IF T = {} THEN 0 ELSE Pick(T).messageCount + g[T \ {Pick(T)}]]
             it == CHOOSE g : P(g)
  <1>1. MapThenSumSet(LAMBDA g : g.messageCount, S) = it[S]
    BY DEF MapThenSumSet, MapThenFoldSet, Pick
  <1>2. \A T \in SUBSET S : T # {} => w[Pick(T)] = Pick(T).messageCount
    BY PickIn
  <1>3. \A g : P(g) <=> Adds(g, w, S)
    BY <1>2 DEF Adds
  <1> HIDE DEF P
  <1>4. Adds(it, w, S)
    BY <1>3, SumExists
  <1> HIDE DEF it
  <1> QED
    BY <1>1, <1>4, SumIs

LEMMA CallsInAre ==
  ASSUME NEW D, IsFiniteSet(D), NEW n, NEW w, \A d \in D : w[d] \in Int /\ w[d] = Cardinality(References(d, n))
  PROVE  CallsIn(D, n) = Total(w, D)
  <1> DEFINE P(g) == g = [T \in SUBSET D |-> IF T = {} THEN 0 ELSE Cardinality(References(Pick(T), n)) + g[T \ {Pick(T)}]]
             it == CHOOSE g : P(g)
  <1>1. CallsIn(D, n) = it[D]
    BY DEF CallsIn, MapThenSumSet, MapThenFoldSet, Pick
  <1>2. \A T \in SUBSET D : T # {} => w[Pick(T)] = Cardinality(References(Pick(T), n))
    BY PickIn
  <1>3. \A g : P(g) <=> Adds(g, w, D)
    BY <1>2 DEF Adds
  <1> HIDE DEF P
  <1>4. Adds(it, w, D)
    BY <1>3, SumExists
  <1> HIDE DEF it
  <1> QED
    BY <1>1, <1>4, SumIs

LEMMA EntryUsage ==
  ASSUME NEW d \in Written
  PROVE  /\ d.entry.usage \in Int
         /\ d.entry.usage # 0 => d.entry.type = "agent" /\ d.entry.meta.sessionId # None
  <1>1. EntryOf(d.entry, Lines[d.id[1]].data)
    BY WrittenType
  <1>2. d.entry.usage \in Nat /\ (d.entry.usage # 0 => d.entry.type = "agent" /\ d.entry.meta.sessionId # None)
    BY <1>1 DEF EntryOf
  <1> QED
    BY <1>2

LEMMA UsageType ==
  ASSUME NEW D \in SUBSET Written, IsFiniteSet(D)
  PROVE  Usage(D) \in Int
  <1> DEFINE w == [d \in D |-> d.entry.usage]
  <1>1. \A d \in D : w[d] \in Int /\ w[d] = d.entry.usage
    BY EntryUsage
  <1> HIDE DEF w
  <1> QED
    BY <1>1, UsageIs, TotalInt

(* Every token is used in a session.                                       *)
LEMMA SessionsAddUp ==
  ASSUME NEW D \in SUBSET Written, IsFiniteSet(D)
  PROVE  Usage(D) = MapThenSumSet(LAMBDA x : x.usage, Summaries(D))
  <1> DEFINE w == [d \in D |-> d.entry.usage]
             f == [d \in D |-> d.entry.meta.sessionId]
             R == {d \in D : f[d] # None}
             I == SessionIds(D) \ {None}
             v == [s \in I |-> Total(w, Fibre(R, f, s))]
             g == [s \in I |-> SessionSummary(D, s)]
             K == Summaries(D)
             u == [x \in K |-> x.usage]
  <1>1. \A d \in D : w[d] \in Int /\ w[d] = d.entry.usage /\ (w[d] # 0 => f[d] # None)
    BY EntryUsage
  <1>2. R \in SUBSET D /\ IsFiniteSet(R) /\ \A d \in R : f[d] \in I
    <2>1. R \in SUBSET D /\ \A d \in R : f[d] \in I
      BY DEF SessionIds
    <2> HIDE DEF R
    <2> QED
      BY <2>1, FS_Subset
  <1>3. \A s \in I : Fibre(R, f, s) = OfSession(D, s) /\ OfSession(D, s) \in SUBSET D
    BY DEF Fibre, OfSession
  <1>4. IsFiniteSet(I) /\ IsFiniteSet(K)
    <2>1. IsFiniteSet(K)
      BY SessionsCount
    <2>2. DOMAIN f = D /\ SessionIds(D) = {f[d] : d \in D}
      BY DEF SessionIds
    <2> HIDE DEF f
    <2>3. IsFiniteSet(SessionIds(D))
      BY <2>2, ImageFinite
    <2> QED
      BY <2>1, <2>3, FS_Subset
  <1>5. \A s \in I : v[s] = Total(w, Fibre(R, f, s))
    OBVIOUS
  <1>6. K = {g[s] : s \in I} /\ \A s \in I : g[s].id = s /\ g[s].usage = Usage(OfSession(D, s))
    BY DEF Summaries, SessionSummary
  <1>7. \A x \in K : u[x] = x.usage
    OBVIOUS
  <1>8. \A d \in D \ R : w[d] = 0
    BY <1>1
  <1> HIDE DEF w, f, R, I, v, g, K, u
  <1>9. Usage(D) = Total(w, D) /\ Total(w, D) = Total(w, R)
    BY <1>1, <1>2, <1>8, UsageIs, TotalZeros
  <1>10. Total(w, R) = Total(v, I)
    BY <1>1, <1>2, <1>4, <1>5, TotalParts
  <1>11. ASSUME NEW s \in I PROVE v[s] = Usage(OfSession(D, s)) /\ v[s] \in Int
    <2> DEFINE E == OfSession(D, s)
    <2>1. E \in SUBSET D /\ IsFiniteSet(E) /\ Fibre(R, f, s) = E
      BY <1>3, FS_Subset
    <2> HIDE DEF E
    <2>2. \A d \in E : w[d] \in Int /\ w[d] = d.entry.usage
      BY <1>1, <2>1
    <2>3. Usage(E) = Total(w, E) /\ Total(w, E) \in Int
      BY <2>1, <2>2, UsageIs, TotalInt
    <2> QED
      BY <1>5, <2>1, <2>3 DEF E
  <1>12. \A s \in I : u[g[s]] = v[s] /\ v[s] \in Int
    BY <1>6, <1>7, <1>11
  <1>13. \A s, t \in I : g[s] = g[t] => s = t
    BY <1>6
  <1>14. Total(v, I) = Total(u, K)
    BY <1>4, <1>6, <1>12, <1>13, TotalRenamed, SMTT(30)
  <1>15. \A x \in K : u[x] \in Int /\ u[x] = x.usage
    BY <1>6, <1>7, <1>12
  <1>16. MapThenSumSet(LAMBDA x : x.usage, K) = Total(u, K)
    BY <1>4, <1>15, UsagesAre
  <1> QED
    BY <1>9, <1>10, <1>14, <1>16 DEF K

LEMMA OverviewAdds ==
  ASSUME Filed(sessions, saving), projects \in SUBSET DOMAIN Organization
  PROVE  OverviewAddsUp
  <1> DEFINE P == GetProjectIDsForOrganization
             D == Of(P)
             w == [d \in D |-> d.entry.usage]
             f == [d \in D |-> d.projectId]
             v == [p \in P |-> Total(w, Fibre(D, f, p))]
             g == [p \in P |-> ProjectSummary(p, GetProjectStats(p))]
             K == ListProjects
             u == [x \in K |-> x.usage]
  <1>1. \A Q : Of(Q) \in SUBSET sessions /\ IsFiniteSet(Of(Q)) /\ Of(Q) \in SUBSET Written
    <2>1. \A Q : Of(Q) \in SUBSET sessions
      BY DEF Of
    <2> QED
      BY <2>1, FS_Subset DEF Filed
  <1>2. IsFiniteSet(P) /\ IsFiniteSet(K)
    <2>1. P \in SUBSET DOMAIN Organization
      BY DEF GetProjectIDsForOrganization
    <2>2. IsFiniteSet(P)
      BY <2>1, FS_Subset, DashboardAssumption
    <2> QED
      BY <2>2, ProjectsCount
  <1>3. GetOverviewStats.totalUsage = Usage(D) /\ ListSessions(P) = Summaries(D)
    BY DEF GetOverviewStats, ListSessions
  <1>4. \A p \in P : ListSessions({p}) = Summaries(Of({p}))
    <2>1. \A p \in P : {p} \cap P = {p}
      OBVIOUS
    <2> QED
      BY <2>1 DEF ListSessions
  <1>5. K = {g[p] : p \in P} /\ \A p \in P : g[p].id = p /\ g[p].usage = Usage(Of({p}))
    BY DEF ListProjects, ProjectSummary, GetProjectStats
  <1>6. \A d \in D : w[d] \in Int /\ w[d] = d.entry.usage /\ f[d] \in P
    <2>1. \A d \in D : f[d] \in P
      BY DEF Of
    <2>2. \A d \in D : w[d] \in Int /\ w[d] = d.entry.usage
      BY <1>1, EntryUsage
    <2> QED
      BY <2>1, <2>2
  <1>7. \A p \in P : Fibre(D, f, p) = Of({p}) /\ Of({p}) \in SUBSET D
    BY DEF Fibre, Of
  <1>8. /\ \A p \in P : v[p] = Total(w, Fibre(D, f, p))
        /\ \A x \in K : u[x] = x.usage
    OBVIOUS
  <1>9. ASSUME NEW x \in K, NEW y \in GetProject(x.id)
        PROVE  y.usage = MapThenSumSet(LAMBDA z : z.usage, ListSessions({x.id}))
    <2>1. PICK p \in P : x = g[p]
      BY <1>5
    <2>2. x.id = p
      BY <1>5, <2>1
    <2>3. y = ProjectDetail(p, GetProjectStats(p))
      BY <2>2 DEF GetProject
    <2>4. y.usage = Usage(Of({p}))
      BY <2>3 DEF ProjectDetail, GetProjectStats
    <2>5. Usage(Of({p})) = MapThenSumSet(LAMBDA z : z.usage, Summaries(Of({p})))
      BY <1>1, SessionsAddUp
    <2> QED
      BY <1>4, <2>2, <2>4, <2>5
  <1>10. IsFiniteSet(D) /\ D \in SUBSET Written
    BY <1>1
  <1> HIDE DEF P, D, w, f, v, g, K, u
  <1>11. Usage(D) = Total(w, D) /\ Total(w, D) = Total(v, P)
    <2>1. /\ \A d \in D : w[d] \in Int /\ w[d] = d.entry.usage
          /\ \A d \in D : w[d] \in Int
          /\ \A d \in D : f[d] \in P
      BY <1>6
    <2>2. Usage(D) = Total(w, D)
      BY <1>10, <2>1, UsageIs
    <2>3. Total(w, D) = Total(v, P)
      BY <1>2, <1>8, <1>10, <2>1, TotalParts
    <2> QED
      BY <2>2, <2>3
  <1>12. ASSUME NEW p \in P PROVE v[p] = Usage(Of({p})) /\ v[p] \in Int
    <2> DEFINE E == Of({p})
    <2>1. E \in SUBSET D /\ IsFiniteSet(E) /\ Fibre(D, f, p) = E
      BY <1>1, <1>7
    <2> HIDE DEF E
    <2>2. \A d \in E : w[d] \in Int /\ w[d] = d.entry.usage
      BY <1>6, <2>1
    <2>3. Usage(E) = Total(w, E) /\ Total(w, E) \in Int
      BY <2>1, <2>2, UsageIs, TotalInt
    <2> QED
      BY <1>8, <2>1, <2>3 DEF E
  <1>13. \A p \in P : u[g[p]] = v[p] /\ v[p] \in Int
    BY <1>5, <1>8, <1>12
  <1>14. \A p, q \in P : g[p] = g[q] => p = q
    BY <1>5
  <1>15. Total(v, P) = Total(u, K)
    BY <1>2, <1>5, <1>13, <1>14, TotalRenamed, SMTT(30)
  <1>16. \A x \in K : u[x] \in Int /\ u[x] = x.usage
    BY <1>5, <1>8, <1>13
  <1>17. MapThenSumSet(LAMBDA x : x.usage, K) = Total(u, K)
    BY <1>2, <1>16, UsagesAre
  <1>18. GetOverviewStats.totalUsage = MapThenSumSet(LAMBDA x : x.usage, K)
    BY <1>3, <1>11, <1>15, <1>17
  <1>19. GetOverviewStats.totalUsage = MapThenSumSet(LAMBDA x : x.usage, ListSessions(P))
    BY <1>3, <1>10, SessionsAddUp
  <1> QED
    BY <1>9, <1>18, <1>19 DEF OverviewAddsUp, P, K

LEMMA DetailAdds ==
  ASSUME Filed(sessions, saving)
  PROVE  DetailAddsUp
  <1> SUFFICES ASSUME NEW x \in OfOneProject
               PROVE  x.messageCount = MapThenSumSet(LAMBDA g : g.messageCount, GetSessionSegments(x.id))
    BY DEF DetailAddsUp
  <1> DEFINE s == x.id
             E == OfSession(sessions, s)
             A == Agents(s)
             w == [d \in E |-> 1]
             f == [d \in E |-> AgentOf(d)]
             v == [a \in A |-> Total(w, Fibre(E, f, a))]
             g == [a \in A |-> SessionSegment(s, a)]
             K == GetSessionSegments(s)
             u == [y \in K |-> y.messageCount]
  <1>1. x.messageCount = Cardinality(E)
    BY OneProject DEF SessionSummary
  <1>2. IsFiniteSet(E)
    <2>1. E \in SUBSET sessions
      BY DEF OfSession
    <2> QED
      BY <2>1, FS_Subset DEF Filed
  <1>3. A = {f[d] : d \in E} /\ DOMAIN f = E
    BY DEF Agents
  <1>4. K = {g[a] : a \in A} /\ DOMAIN g = A
    BY DEF GetSessionSegments
  <1>5. \A a \in A : g[a].id = a /\ g[a].messageCount = Cardinality(SessionEntries(s, {a}))
    BY DEF SessionSegment
  <1>6. \A a \in A : Fibre(E, f, a) = SessionEntries(s, {a}) /\ SessionEntries(s, {a}) \in SUBSET E
    BY DEF Fibre, SessionEntries
  <1>7. /\ \A d \in E : w[d] = 1
        /\ \A a \in A : v[a] = Total(w, Fibre(E, f, a))
        /\ \A y \in K : u[y] = y.messageCount
    OBVIOUS
  <1> HIDE DEF s, E, A, w, f, v, g, K, u
  <1>8. IsFiniteSet(A) /\ IsFiniteSet(K)
    BY <1>2, <1>3, <1>4, ImageFinite
  <1>9. Total(w, E) = Cardinality(E) /\ Total(w, E) = Total(v, A)
    <2>1. \A d \in E : w[d] \in Int /\ f[d] \in A
      BY <1>3, <1>7
    <2> QED
      BY <1>2, <1>7, <1>8, <2>1, TotalOnes, TotalParts
  <1>10. ASSUME NEW a \in A PROVE v[a] = Cardinality(SessionEntries(s, {a})) /\ v[a] \in Int
    <2> DEFINE F == SessionEntries(s, {a})
    <2>1. F \in SUBSET E /\ IsFiniteSet(F) /\ Fibre(E, f, a) = F
      BY <1>2, <1>6, FS_Subset
    <2> HIDE DEF F
    <2>2. Total(w, F) = Cardinality(F) /\ Cardinality(F) \in Nat
      BY <1>7, <2>1, TotalOnes, FS_CardinalityType
    <2> QED
      BY <1>7, <2>1, <2>2 DEF F
  <1>11. \A a \in A : u[g[a]] = v[a] /\ v[a] \in Int
    BY <1>4, <1>5, <1>7, <1>10
  <1>12. \A a, b \in A : g[a] = g[b] => a = b
    BY <1>5
  <1>13. Total(v, A) = Total(u, K)
    BY <1>4, <1>8, <1>11, <1>12, TotalRenamed
  <1>14. \A y \in K : u[y] \in Int /\ u[y] = y.messageCount
    BY <1>4, <1>7, <1>11
  <1>15. MapThenSumSet(LAMBDA y : y.messageCount, K) = Total(u, K)
    BY <1>8, <1>14, MessageCountsAre
  <1> QED
    BY <1>1, <1>9, <1>13, <1>15 DEF K, s
-----------------------------------------------------------------------------
(* A session in the order of its times has all its entries, and no others. *)
First(E) == CHOOSE d \in E : \A e \in E : d.entry.meta.timestamp <= e.entry.meta.timestamp

LEMMA FirstIn ==
  ASSUME NEW E \in SUBSET Written, E # {}
  PROVE  First(E) \in E
  <1> DEFINE T == Timestamps(E)
  <1>1. T \in SUBSET Nat /\ T # {}
    BY WrittenType DEF Timestamps
  <1>2. PICK t \in T : \A y \in T : t <= y
    BY <1>1, Least
  <1>3. PICK d \in E : t = d.entry.meta.timestamp
    BY DEF Timestamps
  <1>4. \A e \in E : d.entry.meta.timestamp <= e.entry.meta.timestamp
    BY <1>2, <1>3 DEF Timestamps
  <1> QED
    BY <1>4 DEF First

LEMMA ByTimeHasAll ==
  ASSUME NEW D \in SUBSET Written, IsFiniteSet(D)
  PROVE  ByTime(D) \in Seq(D) /\ ToSet(ByTime(D)) = D
  <1> DEFINE V == Seq(D)
             empty == <<>>
             step == [x \in D \X V |-> <<x[1]>> \o x[2]]
             pick == [E \in SUBSET D |-> First(E)]
             Is(g) == g = [E \in SUBSET D |-> IF E = {} THEN <<>> ELSE <<First(E)>> \o g[E \ {First(E)}]]
             it == CHOOSE g : Is(g)
  <1>1. ByTime(D) = it[D]
    BY DEF ByTime, First
  <1>2. empty \in V /\ step \in [D \X V -> V]
    OBVIOUS
  <1>3. \A E \in SUBSET D : pick[E] = First(E) /\ (E # {} => First(E) \in E /\ pick[E] \in E)
    BY FirstIn
  <1>4. \A d \in D, s \in V : step[<<d, s>>] = <<d>> \o s
    OBVIOUS
  <1> HIDE DEF step, V, empty, pick
  <1>5. PICK g \in [SUBSET D -> V] : OverSubsets(g, D, empty, step, pick)
    BY <1>2, <1>3, SubsetRecursion
  <1>6. \A E \in SUBSET D : g[E] = IF E = {} THEN <<>> ELSE <<First(E)>> \o g[E \ {First(E)}]
    <2> SUFFICES ASSUME NEW E \in SUBSET D
                 PROVE  g[E] = IF E = {} THEN <<>> ELSE <<First(E)>> \o g[E \ {First(E)}]
      OBVIOUS
    <2>1. g[E] = IF E = {} THEN empty ELSE step[<<pick[E], g[E \ {pick[E]}]>>]
      BY <1>5 DEF OverSubsets
    <2>2. CASE E = {}
      BY <2>1, <2>2 DEF empty
    <2>3. CASE E # {}
      <3>1. First(E) \in D /\ pick[E] = First(E) /\ g[E \ {First(E)}] \in V
        BY <1>3, <2>3
      <3> QED
        BY <1>4, <2>1, <2>3, <3>1
    <2> QED
      BY <2>2, <2>3
  <1>7. Is(g)
    BY <1>6
  <1>8. Is(it)
    BY <1>7
  <1>9. \A E \in SUBSET D : it[E] = IF E = {} THEN <<>> ELSE <<First(E)>> \o it[E \ {First(E)}]
    BY <1>8
  <1> HIDE DEF it, Is
  <1> DEFINE F == {E \in SUBSET D : it[E] \in Seq(D) /\ ToSet(it[E]) = E}
  <1>10. {} \in F
    <2>1. it[{}] = empty
      BY <1>9 DEF empty
    <2>2. empty \in Seq(D) /\ DOMAIN empty = {}
      BY DEF empty
    <2>3. ToSet(empty) = {}
      BY <2>2 DEF ToSet
    <2> QED
      BY <2>1, <2>2, <2>3
  <1>11. ASSUME NEW E \in SUBSET D, E # {}, \A x \in E : E \ {x} \in F
         PROVE  E \in F
    <2> DEFINE x == First(E)
               s == it[E \ {x}]
    <2>1. x \in E /\ it[E] = <<x>> \o s
      BY <1>3, <1>9, <1>11
    <2>2. s \in Seq(D) /\ ToSet(s) = E \ {x}
      BY <1>11, <2>1
    <2> HIDE DEF x, s
    <2> DEFINE t == <<x>> \o s
    <2>3. t \in Seq(D) /\ t[1] = x /\ DOMAIN s = 1 .. Len(s) /\ Len(s) \in Nat /\ DOMAIN t = 1 .. (1 + Len(s))
          /\ (\A i \in 1 .. Len(s) : t[i + 1] = s[i])
      BY <2>1, <2>2
    <2> HIDE DEF t
    <2>4. \A y \in E : \E i \in DOMAIN t : y = t[i]
      <3> SUFFICES ASSUME NEW y \in E PROVE \E i \in DOMAIN t : y = t[i]
        OBVIOUS
      <3>1. CASE y = x
        BY <2>3, <3>1
      <3>2. CASE y # x
        <4>1. PICK i \in DOMAIN s : y = s[i]
          BY <2>2, <3>2 DEF ToSet
        <4>2. i + 1 \in DOMAIN t /\ t[i + 1] = s[i]
          BY <2>3
        <4> QED
          BY <4>1, <4>2
      <3> QED
        BY <3>1, <3>2
    <2>5. \A i \in DOMAIN t : t[i] \in E
      <3> SUFFICES ASSUME NEW i \in DOMAIN t, i # 1 PROVE t[i] \in E
        BY <2>1, <2>3
      <3>1. i - 1 \in 1 .. Len(s) /\ (i - 1) + 1 = i
        BY <2>3
      <3> DEFINE k == i - 1
      <3>2. k \in DOMAIN s /\ t[k + 1] = s[k] /\ k + 1 = i
        BY <2>3, <3>1
      <3>3. s[k] \in E
        BY <2>2, <3>2 DEF ToSet
      <3> QED
        BY <3>2, <3>3
    <2>6. ToSet(t) = E
      BY <2>4, <2>5 DEF ToSet
    <2> QED
      BY <2>1, <2>3, <2>6 DEF t
  <1> HIDE DEF F
  <1>12. D \in F
    BY <1>10, <1>11, SubsetInduction
  <1> QED
    BY <1>1, <1>12 DEF F

(* What an entry is sent as.                                               *)
LEMMA SentAs ==
  ASSUME NEW e, e.type \in {"human", "agent", "tool_execution", "system"}
  PROVE  /\ ToProtoSession(e).type = e.type
         /\ e.type = "tool_execution" =>
              LET t == ToProtoSession(e).data
              IN /\ t.id = e.id /\ t.toolName = e.toolName /\ t.sourceAgentUuid = e.source
                 /\ t.metadata.uuid = e.meta.uuid
                 /\ t.result = {ToolResult(r.status, r.error) : r \in e.result}
  BY DEF ToProtoSession, Session, ToProtoToolExecution, ToolExecutionData, ToProtoTreeNodeMeta, Metadata

LEMMA ParsedError ==
  ASSUME NEW s
  PROVE  /\ DOMAIN ParseMessageContent(s) =
              {"type", "uuid", "timestamp", "content", "parentToolUseId", "toolName", "isError"}
         /\ ParseMessageContent(s).isError =>
              s.type = "tool_execution" /\ ParseMessageContent(s).parentToolUseId = s.data.id /\ Failed(s.data.result)
  <1> DEFINE p == ParseMessageContent(s)
             base(type) == ParsedMessage(s, type)
  <1>1. \A type : /\ DOMAIN base(type) = {"type", "uuid", "timestamp", "content", "parentToolUseId", "toolName", "isError"}
                  /\ base(type).isError = FALSE
    BY DEF ParsedMessage
  <1> HIDE DEF base
  <1>2. CASE s.type = "human"
    <2>1. \E c : p = [base("user") EXCEPT !.content = c]
      BY <1>2 DEF ParseMessageContent, base
    <2> QED
      BY <1>1, <2>1
  <1>3. CASE s.type = "agent"
    <2>1. \E c : p = [base("assistant") EXCEPT !.content = c]
      BY <1>3 DEF ParseMessageContent, base
    <2> QED
      BY <1>1, <2>1
  <1>4. CASE s.type = "tool_execution" /\ s.data.result # {}
    <2>1. p = [base("tool_result") EXCEPT !.parentToolUseId = s.data.id, !.toolName = s.data.toolName,
                                          !.isError = Failed(s.data.result)]
      BY <1>4 DEF ParseMessageContent, base
    <2>2. DOMAIN p = DOMAIN base("tool_result") /\ p.parentToolUseId = s.data.id /\ p.isError = Failed(s.data.result)
      BY <1>1, <2>1
    <2> QED
      BY <1>1, <1>4, <2>2
  <1>5. CASE ~(s.type = "human" \/ s.type = "agent" \/ (s.type = "tool_execution" /\ s.data.result # {}))
    <2>1. p = base("system")
      BY <1>5 DEF ParseMessageContent, base
    <2> QED
      BY <1>1, <2>1
  <1> QED
    BY <1>2, <1>3, <1>4, <1>5

(* What a chat shows as failed is an entry that did.                       *)
LEMMA ChatErrors ==
  ASSUME NEW S, NEW shown \in Seq(S), NEW m \in ToSet(Chat(shown)), m.isError
  PROVE  \E i \in DOMAIN shown :
           shown[i].type = "tool_execution" /\ m.parentToolUseId = shown[i].data.id /\ Failed(shown[i].data.result)
  <1> DEFINE P == {i \in DOMAIN shown : shown[i].type = "system" => shown[i].data.subtype \notin {"turn_duration", "file_snapshot"}}
             kept == Kept(shown, P)
             parsed == [i \in DOMAIN kept |-> ParseMessageContent(kept[i])]
             calls == ExtractToolCalls(shown)
             enriched == [i \in DOMAIN parsed |->
                            IF parsed[i].type = "tool_result" /\ parsed[i].parentToolUseId \in DOMAIN calls
                            THEN [parsed[i] EXCEPT !.toolName = calls[parsed[i].parentToolUseId].name] ELSE parsed[i]]
  <1>1. Chat(shown) = enriched
    BY DEF Chat, EnrichToolResultMessages, Mapped, FilterSessionsForChat
  <1> HIDE DEF P, calls
  <1>2. PICK f : Draws(kept, f, shown, P \cap DOMAIN shown)
    BY KeptPlaces
  <1> HIDE DEF kept
  <1>3. PICK i \in DOMAIN kept : m = enriched[i]
    BY <1>1 DEF ToSet
  <1> DEFINE p == ParseMessageContent(kept[i])
  <1>4. m = p \/ \E n : m = [p EXCEPT !.toolName = n]
    BY <1>3
  <1>5. DOMAIN p = {"type", "uuid", "timestamp", "content", "parentToolUseId", "toolName", "isError"}
    BY ParsedError
  <1> HIDE DEF p
  <1>6. m.isError = p.isError /\ m.parentToolUseId = p.parentToolUseId
    BY <1>4, <1>5
  <1>7. kept[i].type = "tool_execution" /\ p.parentToolUseId = kept[i].data.id /\ Failed(kept[i].data.result)
    BY <1>6, ParsedError DEF p
  <1>8. f[i] \in DOMAIN shown /\ kept[i] = shown[f[i]]
    BY <1>2 DEF Draws
  <1> QED
    BY <1>6, <1>7, <1>8

(* A call is told by the last entry for it.                                *)
LEMMA CallIs ==
  ASSUME NEW S, NEW shown \in Seq(S), NEW id \in DOMAIN ExtractToolCalls(shown)
  PROVE  \E i \in DOMAIN shown :
           /\ shown[i].type = "tool_execution" /\ shown[i].data.id = id
           /\ ExtractToolCalls(shown)[id].name = shown[i].data.toolName
           /\ ExtractToolCalls(shown)[id].sourceMessageUuid =
                IF shown[i].data.sourceAgentUuid = None THEN shown[i].data.metadata.uuid ELSE shown[i].data.sourceAgentUuid
  <1> DEFINE Tools == {i \in DOMAIN shown : shown[i].type = "tool_execution"}
             T == {i \in Tools : shown[i].data.id = id}
             last == CHOOSE i \in Tools : shown[i].data.id = id /\ \A j \in Tools : shown[j].data.id = id => j <= i
  <1>1. Len(shown) \in Nat /\ DOMAIN shown = 1 .. Len(shown)
    OBVIOUS
  <1>2. T # {}
    BY DEF ExtractToolCalls
  <1>3. T \in SUBSET (0 .. Len(shown))
    BY <1>1
  <1>4. Max(T) \in T /\ \A y \in T : Max(T) >= y
    <2> HIDE DEF T
    <2> QED
      BY <1>1, <1>2, <1>3, MaxOfTimes
  <1>5. Max(T) \in Tools /\ shown[Max(T)].data.id = id /\ \A j \in Tools : shown[j].data.id = id => j <= Max(T)
    <2> DEFINE n == Max(T)
    <2>1. n \in T /\ \A y \in T : n >= y
      BY <1>4
    <2>2. n \in Int /\ \A j \in T : j \in Int
      BY <1>1, <2>1
    <2> HIDE DEF n
    <2>3. \A j \in T : j <= n
      BY <2>1, <2>2
    <2> QED
      BY <2>1, <2>3 DEF n
  <1>6. last \in Tools /\ shown[last].data.id = id
    BY <1>5
  <1>7. /\ ExtractToolCalls(shown)[id].name = shown[last].data.toolName
        /\ ExtractToolCalls(shown)[id].sourceMessageUuid =
             IF shown[last].data.sourceAgentUuid = None THEN shown[last].data.metadata.uuid
             ELSE shown[last].data.sourceAgentUuid
    BY DEF ExtractToolCalls
  <1> HIDE DEF last
  <1> QED
    BY <1>6, <1>7

LEMMA PanelIs ==
  ASSUME NEW E \in SUBSET Written, IsFiniteSet(E), NEW shown, shown = [i \in DOMAIN ByTime(E) |-> ToProtoSession(ByTime(E)[i].entry)]
  PROVE  /\ shown \in Seq(ToSet(shown))
         /\ \A i \in DOMAIN shown : \E d \in E : shown[i] = ToProtoSession(d.entry)
  <1> DEFINE s == ByTime(E)
  <1>1. s \in Seq(E)
    BY ByTimeHasAll
  <1> HIDE DEF s
  <1>2. Len(s) \in Nat /\ DOMAIN s = 1 .. Len(s) /\ \A i \in DOMAIN s : s[i] \in E
    BY <1>1
  <1>3. shown = [i \in 1 .. Len(s) |-> ToProtoSession(s[i].entry)]
    BY <1>2 DEF s
  <1>4. shown = [i \in 1 .. Len(s) |-> shown[i]] /\ \A i \in 1 .. Len(s) : shown[i] = ToProtoSession(s[i].entry)
    BY <1>3
  <1>5. List(shown) /\ DOMAIN shown = 1 .. Len(s)
    BY <1>2, <1>4, ListIs
  <1> QED
    BY <1>2, <1>4, <1>5 DEF List

(* An entry for a call, and the message that made it.                      *)
LEMMA CallMade ==
  ASSUME NEW d \in Written, NEW b \in ToSet(d.entry.content), b.type = "tool_call_ref",
         NEW x \in Written, x.entry.type = "tool_execution", x.entry.id = b.id
  PROVE  /\ x.entry.source = d.entry.meta.uuid /\ x.entry.source # None
         /\ x.entry.toolName = b.name \/ x.entry.toolName = None
  <1> DEFINE l == d.id[1]
             k == x.id[1]
             c == [message |-> d.entry.meta.uuid, id |-> b.id, name |-> b.name]
  <1>1. l \in DOMAIN Lines /\ k \in DOMAIN Lines /\ EntryOf(d.entry, Lines[l].data) /\ EntryOf(x.entry, Lines[k].data)
    BY WrittenType
  <1>2. c \in CallsOf(Lines[l].data)
    BY <1>1 DEF EntryOf
  <1>3. \/ [message |-> x.entry.source, id |-> x.entry.id, name |-> x.entry.toolName] \in CallsOf(Lines[k].data)
        \/ x.entry.toolName = None /\ [message |-> x.entry.source, id |-> x.entry.id] \in ResultsOf(Lines[k].data)
    BY <1>1 DEF EntryOf
  <1>4. /\ c.message # None
        /\ \A e \in CallsOf(Lines[k].data) : e.id = c.id => e = c
        /\ \A r \in ResultsOf(Lines[k].data) : r.id = c.id => r.message = c.message
    BY <1>1, <1>2, CallsAssumption
  <1>5. c.message = d.entry.meta.uuid /\ c.id = b.id /\ c.name = b.name
    OBVIOUS
  <1> HIDE DEF c, l, k
  <1>6. CASE [message |-> x.entry.source, id |-> x.entry.id, name |-> x.entry.toolName] \in CallsOf(Lines[k].data)
    <2> DEFINE e == [message |-> x.entry.source, id |-> x.entry.id, name |-> x.entry.toolName]
    <2>1. e.id = x.entry.id /\ e.message = x.entry.source /\ e.name = x.entry.toolName /\ e \in CallsOf(Lines[k].data)
      BY <1>6
    <2> HIDE DEF e
    <2>2. e = c
      BY <1>4, <1>5, <2>1
    <2> QED
      BY <1>4, <1>5, <2>1, <2>2
  <1>7. CASE x.entry.toolName = None /\ [message |-> x.entry.source, id |-> x.entry.id] \in ResultsOf(Lines[k].data)
    <2> DEFINE r == [message |-> x.entry.source, id |-> x.entry.id]
    <2>1. r.id = x.entry.id /\ r.message = x.entry.source /\ r \in ResultsOf(Lines[k].data)
      BY <1>7
    <2> HIDE DEF r
    <2> QED
      BY <1>4, <1>5, <1>7, <2>1
  <1> QED
    BY <1>3, <1>6, <1>7

(* What has the id of a message that made a call is it, or is for a call   *)
(* that it made.                                                           *)
LEMMA MessageOfCall ==
  ASSUME NEW d \in Written, NEW b \in ToSet(d.entry.content), b.type = "tool_call_ref",
         NEW e \in Written, e.entry.meta.uuid = d.entry.meta.uuid, e.entry.meta.sessionId # None
  PROVE  e.entry.type = "agent" \/ e.entry.source = d.entry.meta.uuid
  <1> DEFINE l == d.id[1]
             k == e.id[1]
             c == [message |-> d.entry.meta.uuid, id |-> b.id, name |-> b.name]
  <1>1. l \in DOMAIN Lines /\ k \in DOMAIN Lines /\ EntryOf(d.entry, Lines[l].data) /\ EntryOf(e.entry, Lines[k].data)
    BY WrittenType
  <1>2. c \in CallsOf(Lines[l].data) /\ c.message = d.entry.meta.uuid
    BY <1>1 DEF EntryOf
  <1> HIDE DEF c
  <1>3. e.entry.meta.uuid \notin OtherIds(Lines[k].data)
    BY <1>1, <1>2, CallsAssumption
  <1>4. e.entry.type = "agent" \/ e.entry.source = e.entry.meta.uuid \/ e.entry.meta.uuid \in OtherIds(Lines[k].data)
    BY <1>1 DEF EntryOf
  <1> QED
    BY <1>3, <1>4

LEMMA CallsAreLinked ==
  ASSUME Filed(sessions, saving)
  PROVE  CallsLinked
  <1> SUFFICES ASSUME NEW s \in SessionIds(Of(GetProjectIDsForOrganization)) \ {None}, NEW agent \in Agents(s)
               PROVE  LET entries == SessionEntries(s, {agent})
                          shown == SessionDetailPanel(s, agent)
                          calls == ExtractToolCalls(shown)
                          Executions(id) == {e \in entries : e.entry.type = "tool_execution" /\ e.entry.id = id}
                      IN /\ \A d \in entries : \A b \in ToSet(Blocks(d.entry.content, {"tool_call_ref"})) :
                              b.id \in DOMAIN calls =>
                                /\ calls[b.id].sourceMessageUuid = d.entry.meta.uuid
                                /\ \A e \in GetMessage(s, d.entry.meta.uuid) : e.entry.type = "agent" \/ e.entry.source = d.entry.meta.uuid
                                /\ calls[b.id].name = b.name \/ \E e \in Executions(b.id) : e.entry.toolName = None
                         /\ \A m \in ToSet(Chat(shown)) :
                              m.isError => \E e \in Executions(m.parentToolUseId) : \E r \in e.entry.result : r.status = "error"
    BY DEF CallsLinked
  <1> DEFINE E == SessionEntries(s, {agent})
             shown == SessionDetailPanel(s, agent)
             calls == ExtractToolCalls(shown)
             X(id) == {e \in E : e.entry.type = "tool_execution" /\ e.entry.id = id}
  <1>1. E \in SUBSET Written /\ IsFiniteSet(E)
    <2>1. E \in SUBSET sessions
      BY DEF SessionEntries, OfSession
    <2> HIDE DEF E
    <2> QED
      BY <2>1, FS_Subset DEF Filed
  <1>2. shown \in Seq(ToSet(shown)) /\ \A i \in DOMAIN shown : \E d \in E : shown[i] = ToProtoSession(d.entry)
    <2>1. shown = [i \in DOMAIN ByTime(E) |-> ToProtoSession(ByTime(E)[i].entry)]
      BY DEF SessionDetailPanel
    <2> HIDE DEF E, shown
    <2> QED
      BY <1>1, <2>1, PanelIs
  <1>3. \A e \in Written :
          /\ e.entry.type \in {"human", "agent", "tool_execution", "system"}
          /\ List(e.entry.content)
          /\ e.entry.type = "tool_execution" => \A r \in e.entry.result : r.error => r.status = "error"
    <2> SUFFICES ASSUME NEW e \in Written
                 PROVE  /\ e.entry.type \in {"human", "agent", "tool_execution", "system"}
                        /\ List(e.entry.content)
                        /\ e.entry.type = "tool_execution" => \A r \in e.entry.result : r.error => r.status = "error"
      OBVIOUS
    <2>1. EntryOf(e.entry, Lines[e.id[1]].data)
      BY WrittenType
    <2> QED
      BY <2>1 DEF EntryOf
  <1> HIDE DEF E, shown, calls
  <1>4. ASSUME NEW i \in DOMAIN shown, shown[i].type = "tool_execution"
        PROVE  \E x \in E : /\ x.entry.type = "tool_execution" /\ shown[i].data.id = x.entry.id
                            /\ shown[i].data.toolName = x.entry.toolName /\ shown[i].data.sourceAgentUuid = x.entry.source
                            /\ Failed(shown[i].data.result) => \E r \in x.entry.result : r.status = "error"
    <2>1. PICK x \in E : shown[i] = ToProtoSession(x.entry)
      BY <1>2
    <2>2. x \in Written /\ x.entry.type \in {"human", "agent", "tool_execution", "system"}
      BY <1>1, <1>3
    <2>3. x.entry.type = "tool_execution"
      BY <1>4, <2>1, <2>2, SentAs
    <2>4. /\ shown[i].data.id = x.entry.id /\ shown[i].data.toolName = x.entry.toolName
          /\ shown[i].data.sourceAgentUuid = x.entry.source
          /\ shown[i].data.result = {ToolResult(r.status, r.error) : r \in x.entry.result}
      BY <2>1, <2>2, <2>3, SentAs
    <2>5. Failed(shown[i].data.result) => \E r \in x.entry.result : r.error
      BY <2>4 DEF Failed, ToolResult
    <2> QED
      BY <1>3, <2>2, <2>3, <2>4, <2>5
  <1>5. ASSUME NEW d \in E, NEW b \in ToSet(Blocks(d.entry.content, {"tool_call_ref"})), b.id \in DOMAIN calls
        PROVE  /\ calls[b.id].sourceMessageUuid = d.entry.meta.uuid
               /\ \A e \in GetMessage(s, d.entry.meta.uuid) : e.entry.type = "agent" \/ e.entry.source = d.entry.meta.uuid
               /\ calls[b.id].name = b.name \/ \E e \in X(b.id) : e.entry.toolName = None
    <2>1. d \in Written /\ b \in ToSet(d.entry.content) /\ b.type = "tool_call_ref"
      <3>1. d \in Written /\ List(d.entry.content)
        BY <1>1, <1>3
      <3>2. PICK i \in DOMAIN Blocks(d.entry.content, {"tool_call_ref"}) : b = Blocks(d.entry.content, {"tool_call_ref"})[i]
        BY <1>5 DEF ToSet
      <3>3. b \in ToSet(d.entry.content) /\ b.type \in {"tool_call_ref"}
        BY <3>1, <3>2, BlocksAre
      <3> QED
        BY <3>1, <3>3
    <2>2. PICK i \in DOMAIN shown :
            /\ shown[i].type = "tool_execution" /\ shown[i].data.id = b.id
            /\ calls[b.id].name = shown[i].data.toolName
            /\ calls[b.id].sourceMessageUuid =
                 IF shown[i].data.sourceAgentUuid = None THEN shown[i].data.metadata.uuid ELSE shown[i].data.sourceAgentUuid
      BY <1>2, <1>5, CallIs DEF calls
    <2>3. PICK x \in E : /\ x.entry.type = "tool_execution" /\ shown[i].data.id = x.entry.id
                         /\ shown[i].data.toolName = x.entry.toolName /\ shown[i].data.sourceAgentUuid = x.entry.source
      BY <1>4, <2>2
    <2>4. x \in Written /\ x.entry.id = b.id
      BY <1>1, <2>2, <2>3
    <2>5. /\ x.entry.source = d.entry.meta.uuid /\ x.entry.source # None
          /\ x.entry.toolName = b.name \/ x.entry.toolName = None
      BY <2>1, <2>3, <2>4, CallMade
    <2>6. calls[b.id].sourceMessageUuid = d.entry.meta.uuid
      BY <2>2, <2>3, <2>5
    <2>7. calls[b.id].name = b.name \/ \E e \in X(b.id) : e.entry.toolName = None
      BY <2>2, <2>3, <2>4, <2>5
    <2>8. ASSUME NEW e \in GetMessage(s, d.entry.meta.uuid)
          PROVE  e.entry.type = "agent" \/ e.entry.source = d.entry.meta.uuid
      <3>1. e \in sessions /\ e.entry.meta.sessionId = s /\ e.entry.meta.uuid = d.entry.meta.uuid
        BY DEF GetMessage, OfSession, Of
      <3>2. e \in Written /\ e.entry.meta.sessionId # None
        BY <3>1 DEF Filed
      <3> QED
        BY <2>1, <3>1, <3>2, MessageOfCall
    <2> QED
      BY <2>6, <2>7, <2>8
  <1>6. ASSUME NEW m \in ToSet(Chat(shown)), m.isError
        PROVE  \E e \in X(m.parentToolUseId) : \E r \in e.entry.result : r.status = "error"
    <2>1. PICK i \in DOMAIN shown :
            shown[i].type = "tool_execution" /\ m.parentToolUseId = shown[i].data.id /\ Failed(shown[i].data.result)
      BY <1>2, <1>6, ChatErrors
    <2>2. PICK x \in E : /\ x.entry.type = "tool_execution" /\ shown[i].data.id = x.entry.id
                         /\ \E r \in x.entry.result : r.status = "error"
      BY <1>4, <2>1
    <2> QED
      BY <2>1, <2>2
  <1> QED
    BY <1>5, <1>6 DEF E, shown, calls
-----------------------------------------------------------------------------
(* At every moment, the overview counts what the lists count and adds up   *)
(* what they add up, the detail of a session says what its summary and its *)
(* parts say, and the chat links every call of a tool to its message: of   *)
(* GetOverviewStats, ListProjects, ListSessions, GetSession and            *)
(* parse-content.ts.                                                       *)
THEOREM ViewsAlways ==
  Spec => [](OverviewCounts /\ OverviewAddsUp /\ DetailCounts /\ DetailAddsUp /\ CallsLinked)
  <1> DEFINE Registered == projects \in SUBSET DOMAIN Organization
             Views == OverviewCounts /\ OverviewAddsUp /\ DetailCounts /\ DetailAddsUp /\ CallsLinked
  <1>1. Init => Registered
    BY DEF Init
  <1>2. Registered /\ [Next]_vars => Registered'
    BY DEF Next, vars, SaveBatch, Insert, InsertError, DeleteProjects, Request, GetSessionMeta, VerifyProject,
           ListProjectIDs, Count, Find, GetEarliestProjectForMembers, GetFeaturedBoardStats, Go
  <1>3. IInv /\ Registered => Views
    BY OverviewHolds, OverviewAdds, DetailHolds, DetailAdds, CallsAreLinked DEF IInv
  <1> HIDE DEF Registered, Views
  <1>4. Spec => []Views
    BY <1>1, <1>2, <1>3, InitHolds, StepKeeps, PTL DEF Spec
  <1> QED
    BY <1>4, PTL DEF Views

(* So they do while nobody reads, which is what ViewsAgree says.           *)
THEOREM ViewsTrue == Spec => []ViewsAgree
  <1>1. OverviewCounts /\ OverviewAddsUp /\ DetailCounts /\ DetailAddsUp /\ CallsLinked => ViewsAgree
    BY DEF ViewsAgree
  <1> QED
    BY <1>1, ViewsAlways, PTL
-----------------------------------------------------------------------------
(* What is counted of the calls of tools: a line has an entry for every    *)
(* call its messages refer to, under the same name.                        *)

(* The calls a sequence of entries refers to, and those it has entries of. *)
RefsOf(e, n) == {i \in DOMAIN e.content : e.content[i].type = "tool_call_ref" /\ e.content[i].name = n}
RefCount(e, n) == Cardinality(RefsOf(e, n))
ExecCount(e, n) == IF e.type = "tool_execution" /\ e.toolName = n THEN 1 ELSE 0

Even(s, n) ==
  Total([i \in DOMAIN s |-> ExecCount(s[i], n)], DOMAIN s) = Total([i \in DOMAIN s |-> RefCount(s[i], n)], DOMAIN s)

LEMMA FlattenEven ==
  ASSUME NEW S, NEW seqs \in Seq(Seq(S)), NEW n, \A e \in S : RefCount(e, n) \in Nat,
         \A k \in DOMAIN seqs : Even(seqs[k], n)
  PROVE  Even(FlattenSeq(seqs), n)
  <1> DEFINE F == FlattenSeq(seqs)
             w == [e \in S |-> ExecCount(e, n)]
             r == [e \in S |-> RefCount(e, n)]
             v == [k \in DOMAIN seqs |-> Along(w, seqs[k])]
  <1>1. w \in [S -> Int] /\ r \in [S -> Int]
    BY DEF ExecCount
  <1>2. ASSUME NEW s \in Seq(S)
        PROVE  /\ Along(w, s) = Total([i \in DOMAIN s |-> ExecCount(s[i], n)], DOMAIN s)
               /\ Along(r, s) = Total([i \in DOMAIN s |-> RefCount(s[i], n)], DOMAIN s)
    <2>1. \A i \in DOMAIN s : w[s[i]] = ExecCount(s[i], n) /\ r[s[i]] = RefCount(s[i], n)
      OBVIOUS
    <2> HIDE DEF w, r
    <2> QED
      BY <2>1 DEF Along
  <1>3. F \in Seq(S)
    BY FlattenPlaces
  <1>4. \A k \in DOMAIN seqs : seqs[k] \in Seq(S)
    OBVIOUS
  <1> HIDE DEF F, w, r
  <1>5. \A k \in DOMAIN seqs : v[k] = Along(w, seqs[k]) /\ v[k] = Along(r, seqs[k])
    BY <1>2, <1>4 DEF Even
  <1> HIDE DEF v
  <1>6. Strung(S, seqs, w, v) /\ Strung(S, seqs, r, v)
    BY <1>1, <1>5 DEF Strung
  <1>7. Along(w, F) = Total(v, DOMAIN seqs) /\ Along(r, F) = Total(v, DOMAIN seqs)
    BY <1>6, FlattenTotal DEF F
  <1> QED
    BY <1>2, <1>3, <1>7 DEF Even, F

LEMMA ListFinite ==
  ASSUME NEW s, List(s)
  PROVE  IsFiniteSet(DOMAIN s)
  BY ListType, FS_Interval

LEMMA CountType ==
  ASSUME NEW e, List(e.content), NEW n
  PROVE  IsFiniteSet(RefsOf(e, n)) /\ RefCount(e, n) \in Nat
  <1>1. RefsOf(e, n) \in SUBSET (DOMAIN e.content)
    BY DEF RefsOf
  <1>2. IsFiniteSet(RefsOf(e, n))
    BY <1>1, ListFinite, FS_Subset
  <1> QED
    BY <1>2, FS_CardinalityType DEF RefCount

(* Where there are no calls.                                               *)
LEMMA NoCalls ==
  ASSUME NEW s, IsFiniteSet(DOMAIN s), NEW n, \A i \in DOMAIN s : ExecCount(s[i], n) = 0 /\ RefsOf(s[i], n) = {}
  PROVE  Even(s, n)
  <1> DEFINE D == DOMAIN s
             x == [i \in D |-> ExecCount(s[i], n)]
             r == [i \in D |-> RefCount(s[i], n)]
  <1>1. \A i \in D : x[i] = r[i] /\ r[i] \in Int
    BY FS_EmptySet DEF RefCount
  <1>2. IsFiniteSet(D)
    OBVIOUS
  <1>3. Even(s, n) <=> Total(x, D) = Total(r, D)
    BY DEF Even
  <1> HIDE DEF x, r, D
  <1> QED
    BY <1>1, <1>2, <1>3, TotalAlike

LEMMA NoCallsIn ==
  ASSUME NEW s, NEW data, AllOf(s, data), CallsOf(data) = {}, NEW n, n # None
  PROVE  Even(s, n)
  <1>1. IsFiniteSet(DOMAIN s)
    BY ListFinite DEF AllOf
  <1>2. ASSUME NEW i \in DOMAIN s PROVE ExecCount(s[i], n) = 0 /\ RefsOf(s[i], n) = {}
    <2>1. EntryOf(s[i], data)
      BY DEF AllOf
    <2>2. s[i].type = "tool_execution" => s[i].toolName = None
      BY <2>1 DEF EntryOf
    <2>3. \A j \in DOMAIN s[i].content : s[i].content[j].type # "tool_call_ref"
      BY <2>1 DEF EntryOf, ToSet
    <2> QED
      BY <2>2, <2>3 DEF ExecCount, RefsOf
  <1> QED
    BY <1>1, <1>2, NoCalls

(* A message, and after it an entry for each of the calls it makes.        *)
Calling(a, calls, n) ==
  /\ a.type = "agent" /\ List(a.content) /\ List(calls)
  /\ \A i \in DOMAIN calls : calls[i].type = "tool_execution" /\ \A m : RefsOf(calls[i], m) = {}
  /\ RefCount(a, n) = Cardinality({i \in DOMAIN calls : calls[i].toolName = n})

LEMMA MessageWithCalls ==
  ASSUME NEW a, NEW calls, NEW n, Calling(a, calls, n)
  PROVE  Even(<<a>> \o calls, n)
  <1> DEFINE s == <<a>> \o calls
             D == DOMAIN s
             x == [i \in D |-> ExecCount(s[i], n)]
             r == [i \in D |-> RefCount(s[i], n)]
             C == {i \in DOMAIN calls : calls[i].toolName = n}
             next == [i \in C |-> i + 1]
             X == {next[i] : i \in C}
  <1>1. /\ a.type = "agent" /\ List(a.content) /\ List(calls)
        /\ \A i \in DOMAIN calls : calls[i].type = "tool_execution" /\ RefsOf(calls[i], n) = {}
        /\ RefCount(a, n) = Cardinality(C)
    BY DEF Calling
  <1>2. Even(s, n) <=> Total(x, D) = Total(r, D)
    BY DEF Even
  <1>3. Len(calls) \in Nat /\ DOMAIN calls = 1 .. Len(calls)
    BY <1>1, ListType
  <1>4. /\ D = 1 .. (1 + Len(calls)) /\ s[1] = a /\ \A i \in DOMAIN calls : i + 1 \in D /\ s[i + 1] = calls[i]
    <2> DEFINE S == ToSet(calls) \cup {a}
    <2>1. calls \in Seq(S) /\ a \in S
      BY <1>1 DEF List
    <2> HIDE DEF S
    <2> QED
      BY <1>3, <2>1
  <1>5. \A i \in D : x[i] = ExecCount(s[i], n) /\ r[i] = RefCount(s[i], n)
    OBVIOUS
  <1>6. \A i \in D : i # 1 => i - 1 \in DOMAIN calls /\ (i - 1) + 1 = i
    BY <1>3, <1>4
  <1>7. IsFiniteSet(D)
    BY <1>3, <1>4, FS_Interval
  <1>8. DOMAIN next = C /\ \A i, j \in C : next[i] = next[j] => i = j
    BY <1>3
  <1>9. IsFiniteSet(C)
    <2>1. C \in SUBSET (DOMAIN calls)
      OBVIOUS
    <2> QED
      BY <1>1, <2>1, ListFinite, FS_Subset
  <1>10. \A i \in C : next[i] = i + 1 /\ i \in DOMAIN calls /\ calls[i].toolName = n
    OBVIOUS
  <1>11. \A i \in DOMAIN calls : calls[i].toolName = n => i \in C
    OBVIOUS
  <1> HIDE DEF s, D, x, r, C, next
  <1>12. ASSUME NEW i \in D, i # 1
         PROVE  r[i] = 0 /\ x[i] \in {0, 1} /\ (x[i] = 1 <=> i \in X)
    <2> DEFINE j == i - 1
    <2>1. j \in DOMAIN calls /\ j + 1 = i
      BY <1>6, <1>12
    <2> HIDE DEF j
    <2>2. s[i] = calls[j]
      BY <1>4, <2>1
    <2>3. r[i] = 0 /\ x[i] = IF calls[j].toolName = n THEN 1 ELSE 0
      BY <1>1, <1>5, <2>1, <2>2, FS_EmptySet DEF RefCount, ExecCount
    <2>4. i \in X => calls[j].toolName = n
      <3> SUFFICES ASSUME NEW k \in C, i = next[k] PROVE calls[j].toolName = n
        OBVIOUS
      <3>1. k \in DOMAIN calls /\ k + 1 = i /\ calls[k].toolName = n
        BY <1>10
      <3>2. k = j
        BY <1>3, <2>1, <3>1
      <3> QED
        BY <3>1, <3>2
    <2>5. calls[j].toolName = n => i \in X
      BY <1>10, <1>11, <2>1
    <2> QED
      BY <2>3, <2>4, <2>5
  <1>13. x[1] = 0 /\ 1 \in D /\ 1 \notin X
    <2>1. 1 \in D
      BY <1>3, <1>4
    <2>2. x[1] = 0
      BY <1>1, <1>4, <1>5, <2>1 DEF ExecCount
    <2>3. 1 \notin X
      BY <1>3, <1>10
    <2> QED
      BY <2>1, <2>2, <2>3
  <1>14. X \in SUBSET D
    BY <1>4, <1>10
  <1>15. IsFiniteSet(X) /\ Cardinality(X) = Cardinality(C)
    BY <1>8, <1>9, CountImage
  <1>16. (\A i \in X : x[i] = 1) /\ \A i \in D \ X : x[i] = 0
    BY <1>12, <1>13, <1>14
  <1> HIDE DEF X
  <1>17. Total(x, D) = Cardinality(C)
    <2>1. \A i \in X : x[i] \in Int
      BY <1>16
    <2>2. Total(x, D) = Total(x, X)
      BY <1>7, <1>14, <1>16, <2>1, TotalZeros
    <2>3. Total(x, X) = Cardinality(X)
      BY <1>15, <1>16, TotalOnes
    <2> QED
      BY <1>15, <2>2, <2>3
  <1>18. r[1] = RefCount(a, n) /\ r[1] \in Int
    BY <1>1, <1>4, <1>5, <1>13, CountType
  <1>19. Total(r, D) = RefCount(a, n)
    <2> DEFINE R == {1}
    <2>1. R \in SUBSET D /\ (\A i \in R : r[i] \in Int) /\ \A i \in D \ R : r[i] = 0
      BY <1>12, <1>13, <1>18
    <2> HIDE DEF R
    <2>2. Total(r, D) = Total(r, R)
      BY <1>7, <2>1, TotalZeros
    <2>3. Total(r, {1}) = r[1]
      BY <1>18, TotalOne
    <2> QED
      BY <1>18, <2>2, <2>3 DEF R
  <1> QED
    BY <1>1, <1>2, <1>17, <1>19 DEF s

(* What is kept of a content is as often of a type and a name as the content. *)
Places(s, type, n) == {i \in DOMAIN s : s[i].type = type /\ s[i].name = n}

LEMMA BlocksCount ==
  ASSUME NEW content, List(content), NEW types, NEW type \in types, NEW n
  PROVE  Cardinality(Places(Blocks(content, types), type, n)) = Cardinality(Places(content, type, n))
  <1> DEFINE P == {i \in DOMAIN content : content[i].type \in types}
             out == Kept(content, P)
             A == Places(out, type, n)
             B == Places(content, type, n)
  <1>1. content \in Seq(ToSet(content))
    BY DEF List
  <1>2. out \in Seq(ToSet(content)) /\ \E f : Draws(out, f, content, P \cap DOMAIN content)
    <2> HIDE DEF P
    <2> QED
      BY <1>1, KeptPlaces
  <1>3. PICK f : Draws(out, f, content, P \cap DOMAIN content)
    BY <1>2
  <1>4. Blocks(content, types) = out
    BY DEF Blocks
  <1>5. B \in SUBSET (P \cap DOMAIN content)
    BY DEF Places
  <1>6. IsFiniteSet(DOMAIN out)
    BY <1>2, SeqIsList, ListFinite
  <1> HIDE DEF out
  <1>7. A \in SUBSET (DOMAIN out)
    BY DEF Places
  <1>8. \A i \in A : f[i] \in B
    BY <1>3 DEF Draws, Places
  <1>9. \A p \in B : \E i \in A : f[i] = p
    BY <1>3, <1>5 DEF Draws, Places
  <1>10. \A i, j \in A : f[i] = f[j] => i = j
    BY <1>3, <1>7 DEF Draws
  <1> DEFINE g == [i \in A |-> f[i]]
  <1>11. DOMAIN g = A /\ B = {g[i] : i \in A} /\ \A i, j \in A : g[i] = g[j] => i = j
    BY <1>8, <1>9, <1>10
  <1>12. IsFiniteSet(A)
    BY <1>6, <1>7, FS_Subset
  <1> HIDE DEF A, B, g
  <1>13. Cardinality(B) = Cardinality(A)
    BY <1>11, <1>12, CountImage
  <1> QED
    BY <1>4, <1>13 DEF A, B

LEMMA AssistantEven ==
  ASSUME NEW t, List(t.content), NEW n
  PROVE  Even(AdaptAssistant(t), n)
  <1> DEFINE meta == ConvertTreeNodeMeta(t)
             shown == Blocks(t.content, {"text", "thinking", "tool_use"})
             uses == Blocks(t.content, {"tool_use"})
             c(b) == IF b.type = "tool_use" THEN ToolCallRef(b.id, b.name) ELSE b
             content == [i \in DOMAIN shown |-> c(shown[i])]
             x(b) == ToolExecution(meta, b.id, b.name, t.uuid, {})
             calls == [i \in DOMAIN uses |-> x(uses[i])]
             a == AgentMessage(meta, content, t.usage)
  <1>1. AdaptAssistant(t) = <<a>> \o calls
    BY DEF AdaptAssistant, Mapped
  <1>2. /\ List(shown) /\ \A i \in DOMAIN shown : shown[i].type \in {"text", "thinking", "tool_use"}
        /\ List(uses) /\ \A i \in DOMAIN uses : uses[i].type \in {"tool_use"}
    BY BlocksAre
  <1>3. Len(shown) \in Nat /\ DOMAIN shown = 1 .. Len(shown) /\ Len(uses) \in Nat /\ DOMAIN uses = 1 .. Len(uses)
    BY <1>2, ListType
  <1>4. \A b : IF b.type = "tool_use" THEN c(b).type = "tool_call_ref" /\ c(b).name = b.name ELSE c(b) = b
    BY DEF ToolCallRef
  <1>5. a.type = "agent" /\ a.content = content
    BY DEF AgentMessage, Entry
  <1>6. \A b : x(b).type = "tool_execution" /\ x(b).toolName = b.name /\ x(b).content = <<>>
    BY DEF ToolExecution, Entry
  <1>7. /\ Cardinality(Places(shown, "tool_use", n)) = Cardinality(Places(t.content, "tool_use", n))
        /\ Cardinality(Places(uses, "tool_use", n)) = Cardinality(Places(t.content, "tool_use", n))
    BY BlocksCount
  <1> HIDE DEF c, x, shown, uses, meta, a
  <1>8. /\ content = [i \in 1 .. Len(shown) |-> content[i]] /\ DOMAIN content = DOMAIN shown
        /\ \A i \in DOMAIN shown : content[i] = c(shown[i])
        /\ calls = [i \in 1 .. Len(uses) |-> calls[i]] /\ DOMAIN calls = DOMAIN uses
        /\ \A i \in DOMAIN uses : calls[i] = x(uses[i])
    BY <1>3
  <1> HIDE DEF content, calls
  <1>9. List(content) /\ List(calls)
    BY <1>3, <1>8, ListIs
  <1>10. RefsOf(a, n) = Places(shown, "tool_use", n)
    <2>1. ASSUME NEW i \in DOMAIN shown
          PROVE  content[i].type = "tool_call_ref" /\ content[i].name = n <=> shown[i].type = "tool_use" /\ shown[i].name = n
      <3> DEFINE b == shown[i]
      <3>1. content[i] = c(b) /\ b.type \in {"text", "thinking", "tool_use"}
        BY <1>2, <1>8
      <3> HIDE DEF b
      <3>2. CASE b.type = "tool_use"
        <4>1. c(b).type = "tool_call_ref" /\ c(b).name = b.name
          BY <1>4, <3>2
        <4> QED
          BY <3>1, <3>2, <4>1 DEF b
      <3>3. CASE b.type # "tool_use"
        <4>1. c(b) = b
          BY <1>4, <3>3
        <4> QED
          BY <3>1, <3>3, <4>1 DEF b
      <3> QED
        BY <3>2, <3>3
    <2> QED
      BY <1>5, <1>8, <2>1 DEF RefsOf, Places
  <1>14. ASSUME NEW i \in DOMAIN uses
         PROVE  calls[i].toolName = uses[i].name /\ calls[i].type = "tool_execution" /\ \A m : RefsOf(calls[i], m) = {}
    <2> DEFINE e == x(uses[i])
    <2>1. calls[i] = e
      BY <1>8
    <2>2. e.type = "tool_execution" /\ e.toolName = uses[i].name /\ e.content = <<>>
      BY <1>6
    <2> HIDE DEF e
    <2>3. \A m : RefsOf(e, m) = {}
      BY <2>2 DEF RefsOf
    <2> QED
      BY <2>1, <2>2, <2>3
  <1>15. DOMAIN calls = DOMAIN uses
    BY <1>8
  <1>11. {i \in DOMAIN calls : calls[i].toolName = n} = Places(uses, "tool_use", n)
    BY <1>2, <1>14, <1>15 DEF Places
  <1>12. \A i \in DOMAIN calls : calls[i].type = "tool_execution" /\ \A m : RefsOf(calls[i], m) = {}
    BY <1>14, <1>15
  <1>13. Calling(a, calls, n)
    BY <1>5, <1>7, <1>9, <1>10, <1>11, <1>12 DEF Calling, RefCount
  <1> QED
    BY <1>1, <1>13, MessageWithCalls

LEMMA GeminiEven ==
  ASSUME NEW m, List(m.content), List(m.toolCalls), NEW session, NEW n
  PROVE  Even(AdaptGeminiMessage(m, session), n)
  <1> DEFINE meta == TreeNodeMeta(m.id, session, None, m.timestamp)
             thoughts == Blocks(m.content, {"thinking"})
             texts == Blocks(m.content, {"text"})
             before == thoughts \o texts
             uses == m.toolCalls
             refs == [i \in DOMAIN uses |-> ToolCallRef(uses[i].id, uses[i].name)]
             content == before \o refs
             x(c) == AdaptToolCall(c, m, session)
             calls == [i \in DOMAIN uses |-> x(uses[i])]
             a == AgentMessage(meta, content, m.usage)
             C == {i \in DOMAIN uses : uses[i].name = n}
             place == [i \in C |-> Len(before) + i]
  <1>1. AdaptGeminiMessage(m, session) = <<a>> \o calls
    BY DEF AdaptGeminiMessage, Mapped
  <1>2. /\ List(thoughts) /\ \A i \in DOMAIN thoughts : thoughts[i].type \in {"thinking"}
        /\ List(texts) /\ \A i \in DOMAIN texts : texts[i].type \in {"text"}
    BY BlocksAre
  <1>3. Len(uses) \in Nat /\ DOMAIN uses = 1 .. Len(uses) /\ IsFiniteSet(DOMAIN uses)
    BY ListType, ListFinite
  <1>4. a.type = "agent" /\ a.content = content
    BY DEF AgentMessage, Entry
  <1>5. \A c : x(c).type = "tool_execution" /\ x(c).toolName = c.name /\ x(c).content = <<>>
    BY DEF AdaptToolCall, ToolExecution, Entry
  <1> HIDE DEF a, x, meta, thoughts, texts
  <1>6. /\ List(before) /\ Len(before) \in Nat /\ DOMAIN before = 1 .. Len(before)
        /\ \A i \in DOMAIN before : before[i].type # "tool_call_ref"
    <2> DEFINE S == ToSet(thoughts) \cup ToSet(texts)
    <2>1. thoughts \in Seq(S) /\ texts \in Seq(S)
      BY <1>2 DEF List
    <2>2. \A b \in S : b.type # "tool_call_ref"
      BY <1>2 DEF ToSet
    <2>3. before \in Seq(S) /\ \A i \in DOMAIN before : before[i] \in S
      BY <2>1
    <2> HIDE DEF S, before
    <2> QED
      BY <2>2, <2>3, SeqIsList, ListType
  <1> HIDE DEF before, uses
  <1>7. /\ refs = [i \in 1 .. Len(uses) |-> refs[i]] /\ DOMAIN refs = DOMAIN uses
        /\ \A i \in DOMAIN uses : refs[i].type = "tool_call_ref" /\ refs[i].name = uses[i].name
        /\ calls = [i \in 1 .. Len(uses) |-> calls[i]] /\ DOMAIN calls = DOMAIN uses
        /\ \A i \in DOMAIN uses : calls[i] = x(uses[i])
    BY <1>3 DEF ToolCallRef
  <1> HIDE DEF refs, calls
  <1>8. List(refs) /\ List(calls)
    BY <1>3, <1>7, ListIs
  <1>9. /\ List(content) /\ DOMAIN content = 1 .. (Len(before) + Len(uses))
        /\ \A i \in DOMAIN before : content[i] = before[i]
        /\ \A i \in DOMAIN uses : content[Len(before) + i] = refs[i]
    <2> DEFINE S == ToSet(before) \cup ToSet(refs)
    <2>1. before \in Seq(S) /\ refs \in Seq(S)
      BY <1>6, <1>8 DEF List
    <2>2. Len(refs) = Len(uses)
      BY <1>3, <1>7, ListIs
    <2> HIDE DEF S
    <2>3. content \in Seq(S)
      BY <2>1
    <2>4. List(content)
      BY <2>3, SeqIsList
    <2> QED
      BY <1>3, <1>6, <2>1, <2>2, <2>4, SMTT(30)
  <1>10. \A i \in C : i \in DOMAIN uses /\ uses[i].name = n /\ place[i] = Len(before) + i
    OBVIOUS
  <1>11. \A i \in DOMAIN uses : uses[i].name = n => i \in C
    OBVIOUS
  <1>12. DOMAIN place = C /\ \A i, j \in C : place[i] = place[j] => i = j
    BY <1>3, <1>6
  <1>13. IsFiniteSet(C)
    <2>1. C \in SUBSET DOMAIN uses
      OBVIOUS
    <2> QED
      BY <1>3, <2>1, FS_Subset
  <1> HIDE DEF content, C, place
  <1>14. RefsOf(a, n) = {place[i] : i \in C}
    <2>1. ASSUME NEW k \in RefsOf(a, n) PROVE \E i \in C : k = place[i]
      <3>1. k \in 1 .. (Len(before) + Len(uses)) /\ content[k].type = "tool_call_ref" /\ content[k].name = n
        BY <1>4, <1>9 DEF RefsOf
      <3>2. k \notin DOMAIN before
        BY <1>6, <1>9, <3>1
      <3> DEFINE i == k - Len(before)
      <3>3. i \in DOMAIN uses /\ Len(before) + i = k
        BY <1>3, <1>6, <3>1, <3>2
      <3> HIDE DEF i
      <3>4. uses[i].name = n
        BY <1>7, <1>9, <3>1, <3>3
      <3> QED
        BY <1>10, <1>11, <3>3, <3>4
    <2>2. ASSUME NEW i \in C PROVE place[i] \in RefsOf(a, n)
      <3>1. i \in DOMAIN uses /\ uses[i].name = n /\ place[i] = Len(before) + i
        BY <1>10
      <3>4. content[Len(before) + i] = refs[i]
        BY <1>9, <3>1
      <3>5. refs[i].type = "tool_call_ref" /\ refs[i].name = n
        BY <1>7, <3>1
      <3>2. content[place[i]].type = "tool_call_ref" /\ content[place[i]].name = n
        BY <3>1, <3>4, <3>5
      <3>3. place[i] \in DOMAIN content
        BY <1>3, <1>6, <1>9, <3>1
      <3> QED
        BY <1>4, <3>2, <3>3 DEF RefsOf
    <2> QED
      BY <2>1, <2>2
  <1>15. RefCount(a, n) = Cardinality(C)
    BY <1>12, <1>13, <1>14, CountImage DEF RefCount
  <1>19. ASSUME NEW i \in DOMAIN uses
         PROVE  calls[i].toolName = uses[i].name /\ calls[i].type = "tool_execution" /\ \A k : RefsOf(calls[i], k) = {}
    <2> DEFINE e == x(uses[i])
    <2>1. calls[i] = e
      BY <1>7
    <2>2. e.type = "tool_execution" /\ e.toolName = uses[i].name /\ e.content = <<>>
      BY <1>5
    <2> HIDE DEF e
    <2>3. \A k : RefsOf(e, k) = {}
      BY <2>2 DEF RefsOf
    <2> QED
      BY <2>1, <2>2, <2>3
  <1>20. DOMAIN calls = DOMAIN uses
    BY <1>7
  <1>16. {i \in DOMAIN calls : calls[i].toolName = n} = C
    BY <1>10, <1>11, <1>19, <1>20
  <1>17. \A i \in DOMAIN calls : calls[i].type = "tool_execution" /\ \A k : RefsOf(calls[i], k) = {}
    BY <1>19, <1>20
  <1>18. Calling(a, calls, n)
    BY <1>4, <1>8, <1>9, <1>15, <1>16, <1>17 DEF Calling
  <1> QED
    BY <1>1, <1>18, MessageWithCalls

LEMMA OneWithoutCalls ==
  ASSUME NEW e, e.type \in {"human", "system"}, List(e.content),
         \A i \in DOMAIN e.content : e.content[i].type # "tool_call_ref", NEW n
  PROVE  Even(<<e>>, n)
  <1>1. DOMAIN <<e>> = {1} /\ <<e>>[1] = e
    OBVIOUS
  <1>2. ExecCount(e, n) = 0 /\ RefsOf(e, n) = {}
    BY DEF ExecCount, RefsOf
  <1>3. IsFiniteSet({1})
    BY FS_Singleton
  <1> DEFINE s == <<e>>
  <1>4. IsFiniteSet(DOMAIN s) /\ \A i \in DOMAIN s : ExecCount(s[i], n) = 0 /\ RefsOf(s[i], n) = {}
    BY <1>1, <1>2, <1>3
  <1> HIDE DEF s
  <1>5. Even(s, n)
    BY <1>4, NoCalls
  <1> QED
    BY <1>5 DEF s

LEMMA NothingIsEven ==
  ASSUME NEW n
  PROVE  Even(<<>>, n)
  <1> DEFINE s == <<>>
  <1>1. DOMAIN s = {}
    OBVIOUS
  <1> HIDE DEF s
  <1>2. Even(s, n)
    BY <1>1, FS_EmptySet, NoCalls
  <1> QED
    BY <1>2 DEF s

LEMMA EmptyIsList == List(<<>>) /\ DOMAIN <<>> = {}
  <1> DEFINE s == <<>>
  <1>1. s \in Seq({}) /\ DOMAIN s = {}
    OBVIOUS
  <1> HIDE DEF s
  <1>2. List(s) /\ DOMAIN s = {}
    BY <1>1, SeqIsList
  <1> QED
    BY <1>2 DEF s

LEMMA MessageEven ==
  ASSUME NEW s, NEW m, GeminiMessage(m, s), NEW n
  PROVE  Even(AdaptMessage(m, s.sessionId), n)
  <1> DEFINE meta == TreeNodeMeta(m.id, s.sessionId, None, m.timestamp)
  <1>1. List(m.content) /\ (m.type = "gemini" => List(m.toolCalls))
    BY DEF GeminiMessage
  <1>2. CASE m.type = "user"
    <2> DEFINE content == Blocks(m.content, {"text"})
               e == HumanMessage(meta, content)
    <2>1. AdaptMessage(m, s.sessionId) = <<e>>
      BY <1>2 DEF AdaptMessage, AdaptUserMessage
    <2>2. List(content) /\ \A i \in DOMAIN content : content[i].type \in {"text"}
      BY <1>1, BlocksAre
    <2>3. e.type = "human" /\ e.content = content
      BY DEF HumanMessage, Entry
    <2> HIDE DEF content, e
    <2> QED
      BY <2>1, <2>2, <2>3, OneWithoutCalls
  <1>3. CASE m.type = "gemini"
    BY <1>1, <1>3, GeminiEven DEF AdaptMessage
  <1>4. CASE m.type = "info"
    <2> DEFINE e == SystemMessage(meta, "info")
    <2>1. AdaptMessage(m, s.sessionId) = <<e>>
      BY <1>4 DEF AdaptMessage, AdaptInfoMessage
    <2>2. e.type = "system" /\ e.content = <<>>
      BY DEF SystemMessage, Entry
    <2> HIDE DEF e
    <2>3. List(e.content) /\ DOMAIN e.content = {}
      BY <2>2, EmptyIsList
    <2> QED
      BY <2>1, <2>2, <2>3, OneWithoutCalls
  <1>5. CASE m.type \notin {"user", "gemini", "info"}
    <2>1. AdaptMessage(m, s.sessionId) = <<>>
      BY <1>5 DEF AdaptMessage
    <2> QED
      BY <2>1, NothingIsEven
  <1> QED
    BY <1>2, <1>3, <1>4, <1>5

LEMMA SessionEven ==
  ASSUME NEW s, List(s.messages), \A m \in ToSet(s.messages) : GeminiMessage(m, s), NEW n
  PROVE  Even(AdaptSession(s), n)
  <1> DEFINE M == s.messages
             N == Len(M)
             seqs == [i \in DOMAIN M |-> AdaptMessage(M[i], s.sessionId)]
             T == UNION {ToSet(AdaptMessage(m, s.sessionId)) : m \in ToSet(M)}
  <1>1. AdaptSession(s) = FlattenSeq(seqs)
    BY DEF AdaptSession, Mapped
  <1>2. N \in Nat /\ DOMAIN M = 1 .. N /\ \A i \in DOMAIN M : M[i] \in ToSet(M)
    BY ListType
  <1>3. \A m \in ToSet(M) : AllOf(AdaptMessage(m, s.sessionId), s) /\ Even(AdaptMessage(m, s.sessionId), n)
    BY MessageEntries, MessageEven
  <1>4. \A e \in T : RefCount(e, n) \in Nat
    <2>1. \A e \in T : EntryOf(e, s)
      BY <1>3 DEF AllOf, ToSet
    <2> HIDE DEF T
    <2>2. \A e \in T : List(e.content)
      BY <2>1 DEF EntryOf
    <2> QED
      BY <2>2, CountType
  <1>5. \A m \in ToSet(M) : AdaptMessage(m, s.sessionId) \in Seq(T)
    <2> SUFFICES ASSUME NEW m \in ToSet(M) PROVE AdaptMessage(m, s.sessionId) \in Seq(T)
      OBVIOUS
    <2>1. ToSet(AdaptMessage(m, s.sessionId)) \in {ToSet(AdaptMessage(k, s.sessionId)) : k \in ToSet(M)}
      OBVIOUS
    <2>2. ToSet(AdaptMessage(m, s.sessionId)) \subseteq T
      BY <2>1
    <2>3. AdaptMessage(m, s.sessionId) \in Seq(ToSet(AdaptMessage(m, s.sessionId)))
      BY <1>3 DEF AllOf, List
    <2> HIDE DEF T
    <2> QED
      BY <2>2, <2>3
  <1> HIDE DEF T
  <1>6. seqs \in Seq(Seq(T)) /\ DOMAIN seqs = DOMAIN M
    <2>1. \A i \in 1 .. N : AdaptMessage(M[i], s.sessionId) \in Seq(T)
      BY <1>2, <1>5
    <2>2. seqs = [i \in 1 .. N |-> AdaptMessage(M[i], s.sessionId)]
      BY <1>2
    <2> HIDE DEF M, N, seqs
    <2> QED
      BY <1>2, <2>1, <2>2
  <1>7. \A k \in DOMAIN seqs : Even(seqs[k], n)
    BY <1>2, <1>3
  <1> HIDE DEF seqs, M
  <1>8. Even(FlattenSeq(seqs), n)
    BY <1>4, <1>6, <1>7, FlattenEven
  <1> QED
    BY <1>1, <1>8

(* A line has an entry for each call its messages make.                    *)
LEMMA LineEven ==
  ASSUME NEW l \in DOMAIN Lines, NEW n, n # None
  PROVE  Even(Convert(Lines[l].data, 0), n)
  <1> DEFINE s == Lines[l].data
  <1>1. AllOf(Convert(s, 0), s)
    <2>1. 0 \in 0 .. MaxTime
      BY DashboardAssumption
    <2> QED
      BY <2>1, ConvertedAt
  <1>2. CASE IsClaudeCode(s, {"assistant"})
    <2>1. Convert(s, 0) = AdaptAssistant(s)
      BY <1>2 DEF IsClaudeCode, Convert, AdaptClaudeCode
    <2>2. IsClaudeCode(s, {"user", "assistant"})
      BY <1>2 DEF IsClaudeCode
    <2>3. List(s.content)
      BY <2>2, LinesAssumption
    <2> QED
      BY <2>1, <2>3, AssistantEven
  <1>3. CASE IsGemini(s)
    <2>1. Convert(s, 0) = AdaptSession(s) /\ ~IsClaudeCode(s, {"user", "assistant", "system"})
      BY <1>3 DEF IsGemini, IsClaudeCode, Convert
    <2>3. /\ s.sessionId # None /\ List(s.messages)
          /\ \A m \in ToSet(s.messages) :
               /\ m.timestamp \in 0 .. MaxTime /\ List(m.content)
               /\ m.type = "gemini" =>
                    m.usage \in Nat /\ List(m.toolCalls) /\ \A c \in ToSet(m.toolCalls) : c.timestamp \in 0 .. MaxTime
      BY <1>3, LinesAssumption
    <2> HIDE DEF s
    <2>4. \A m \in ToSet(s.messages) : GeminiMessage(m, s)
      BY <1>3, <2>1, <2>3 DEF GeminiMessage
    <2>5. Even(AdaptSession(s), n)
      BY <2>3, <2>4, SessionEven
    <2> QED
      BY <2>1, <2>5 DEF s
  <1>4. CASE ~IsClaudeCode(s, {"assistant"}) /\ ~IsGemini(s)
    <2>1. CallsOf(s) = {}
      BY <1>4 DEF CallsOf
    <2> HIDE DEF s
    <2> QED
      BY <1>1, <2>1, NoCallsIn DEF s
  <1> QED
    BY <1>2, <1>3, <1>4

(* What a line becomes depends on the time of its conversion only for a    *)
(* summary, which has no calls.                                            *)
LEMMA ConvertAlike ==
  ASSUME NEW data, NEW now, NEW n
  PROVE  /\ DOMAIN Convert(data, now) = DOMAIN Convert(data, 0)
         /\ \A i \in DOMAIN Convert(data, now) :
              /\ ExecCount(Convert(data, now)[i], n) = ExecCount(Convert(data, 0)[i], n)
              /\ RefCount(Convert(data, now)[i], n) = RefCount(Convert(data, 0)[i], n)
  <1>1. CASE DetectProvider(data) = "claude_code" /\ data.type = "summary"
    <2> DEFINE e(t) == SystemMessage(TreeNodeMeta(data.leafUuid, None, None, t), "summary")
    <2>1. \A t : Convert(data, t) = <<e(t)>>
      BY <1>1 DEF Convert, AdaptClaudeCode, AdaptSummary
    <2>2. \A t : e(t).type = "system" /\ e(t).content = <<>>
      BY DEF SystemMessage, Entry
    <2> HIDE DEF e
    <2>3. \A t : ExecCount(e(t), n) = 0 /\ RefsOf(e(t), n) = {}
      BY <2>2 DEF ExecCount, RefsOf
    <2>4. ExecCount(e(now), n) = ExecCount(e(0), n) /\ RefCount(e(now), n) = RefCount(e(0), n)
      BY <2>3 DEF RefCount
    <2>5. \A t : DOMAIN Convert(data, t) = {1} /\ Convert(data, t)[1] = e(t)
      BY <2>1
    <2> QED
      BY <2>4, <2>5
  <1>2. CASE ~(DetectProvider(data) = "claude_code" /\ data.type = "summary")
    <2>1. Convert(data, now) = Convert(data, 0)
      BY <1>2 DEF Convert, AdaptClaudeCode
    <2> QED
      BY <2>1
  <1> QED
    BY <1>1, <1>2

(* An entry of a copy of a line counts what it counts in the line.         *)
LEMMA WrittenCounts ==
  ASSUME NEW d \in Written, NEW n
  PROVE  LET s == Convert(Lines[d.id[1]].data, 0)
         IN /\ d.id[3] \in DOMAIN s /\ List(d.entry.content)
            /\ ExecCount(d.entry, n) = ExecCount(s[d.id[3]], n) /\ RefCount(d.entry, n) = RefCount(s[d.id[3]], n)
  <1>1. PICK l \in DOMAIN Lines, c \in Nat, now \in Times :
          \E i \in DOMAIN Convert(Lines[l].data, now) : d = Doc(l, c, i, Convert(Lines[l].data, now)[i])
    BY WrittenIs
  <1>2. PICK i \in DOMAIN Convert(Lines[l].data, now) : d = Doc(l, c, i, Convert(Lines[l].data, now)[i])
    BY <1>1
  <1>3. d.id[1] = l /\ d.id[3] = i /\ d.entry = Convert(Lines[l].data, now)[i]
    BY <1>2 DEF Doc
  <1>4. List(d.entry.content)
    <2>1. EntryOf(d.entry, Lines[d.id[1]].data)
      BY WrittenType
    <2> QED
      BY <2>1 DEF EntryOf
  <1> DEFINE data == Lines[l].data
  <1> HIDE DEF data
  <1>5. /\ DOMAIN Convert(data, now) = DOMAIN Convert(data, 0)
        /\ \A j \in DOMAIN Convert(data, now) :
             /\ ExecCount(Convert(data, now)[j], n) = ExecCount(Convert(data, 0)[j], n)
             /\ RefCount(Convert(data, now)[j], n) = RefCount(Convert(data, 0)[j], n)
    BY ConvertAlike
  <1>6. i \in DOMAIN Convert(data, now)
    BY DEF data
  <1> QED
    BY <1>3, <1>4, <1>5, <1>6 DEF data

OfLine(D, d0, n, X, x, r) ==
  /\ D \in SUBSET Written /\ IsFiniteSet(D) /\ Unique(D) /\ d0 \in D /\ WholeLine(d0, D) /\ n # None
  /\ X = {d \in D : d.id[1] = d0.id[1] /\ d.id[2] = d0.id[2]}
  /\ \A d \in X : x[d] = ExecCount(d.entry, n) /\ r[d] = RefCount(d.entry, n)

LEMMA LineCounted ==
  ASSUME NEW D, NEW d0, NEW n, NEW X, NEW x, NEW r, OfLine(D, d0, n, X, x, r)
  PROVE  Total(x, X) = Total(r, X)
  <1> DEFINE l == d0.id[1]
             c == d0.id[2]
             s == Convert(Lines[l].data, 0)
             K == DOMAIN s
             g == [d \in X |-> d.id[3]]
             y == [i \in K |-> ExecCount(s[i], n)]
             z == [i \in K |-> RefCount(s[i], n)]
  <1>0. /\ D \in SUBSET Written /\ IsFiniteSet(D) /\ Unique(D) /\ d0 \in D /\ WholeLine(d0, D) /\ n # None
        /\ X = {d \in D : d.id[1] = d0.id[1] /\ d.id[2] = d0.id[2]}
        /\ \A d \in X : x[d] = ExecCount(d.entry, n) /\ r[d] = RefCount(d.entry, n)
    BY DEF OfLine
  <1>1. l \in DOMAIN Lines
    BY <1>0, WrittenType
  <1>2. Total(y, K) = Total(z, K)
    <2> HIDE DEF l, s
    <2>1. n # None
      BY <1>0
    <2>2. Even(Convert(Lines[l].data, 0), n)
      BY <1>1, <2>1, LineEven
    <2>3. s = Convert(Lines[l].data, 0)
      BY DEF s
    <2>4. Even(s, n)
      BY <2>2, <2>3
    <2> QED
      BY <2>4 DEF Even
  <1>3. \A i \in K : \E e \in D : e.id = <<l, c, i>>
    BY <1>0 DEF WholeLine
  <1>4. ASSUME NEW d \in X
        PROVE  /\ g[d] \in K /\ d.id = <<l, c, g[d]>> /\ x[d] = y[g[d]] /\ r[d] = z[g[d]]
               /\ x[d] \in Int /\ r[d] \in Int
    <2>1. d \in Written /\ d.id[1] = l /\ d.id[2] = c /\ d.id = <<d.id[1], d.id[2], d.id[3]>>
      BY <1>0, WrittenType
    <2>2. /\ d.id[3] \in K /\ List(d.entry.content)
          /\ ExecCount(d.entry, n) = ExecCount(s[d.id[3]], n) /\ RefCount(d.entry, n) = RefCount(s[d.id[3]], n)
      BY <2>1, WrittenCounts
    <2>3. ExecCount(d.entry, n) \in Int /\ RefCount(d.entry, n) \in Int
      BY <2>2, CountType DEF ExecCount
    <2> QED
      BY <1>0, <2>1, <2>2, <2>3
  <1>5. \A i \in K : \E d \in X : g[d] = i
    <2> SUFFICES ASSUME NEW i \in K PROVE \E d \in X : g[d] = i
      OBVIOUS
    <2>1. PICK e \in D : e.id = <<l, c, i>>
      BY <1>3
    <2>2. e.id[1] = l /\ e.id[2] = c /\ e.id[3] = i
      BY <2>1
    <2> QED
      BY <1>0, <2>1, <2>2
  <1>6. IsFiniteSet(X) /\ X \in SUBSET D
    BY <1>0, FS_Subset
  <1> HIDE DEF l, c, K, g, y, z
  <1>7. K = {g[d] : d \in X}
    BY <1>4, <1>5
  <1>8. ASSUME NEW d \in X, NEW e \in X, g[d] = g[e] PROVE d = e
    <2>1. d.id = e.id
      BY <1>4, <1>8
    <2> QED
      BY <1>0, <1>6, <2>1 DEF Unique
  <1>9. /\ \A d \in X : x[d] \in Int
        /\ \A d \in X : r[d] \in Int
        /\ \A d \in X : y[g[d]] = x[d]
        /\ \A d \in X : z[g[d]] = r[d]
    BY <1>4
  <1>10. Total(x, X) = Total(y, K)
    BY <1>6, <1>7, <1>8, <1>9, TotalRenamed
  <1>11. Total(r, X) = Total(z, K)
    BY <1>6, <1>7, <1>8, <1>9, TotalRenamed
  <1> QED
    BY <1>2, <1>10, <1>11

LEMMA CallsCounted ==
  ASSUME NEW D \in SUBSET Written, IsFiniteSet(D), Unique(D), \A d \in D : WholeLine(d, D), NEW n, n # None
  PROVE  Cardinality({d \in Entries(D, "tool_execution") : d.entry.toolName = n}) = CallsIn(D, n)
  <1> DEFINE x == [d \in D |-> ExecCount(d.entry, n)]
             r == [d \in D |-> RefCount(d.entry, n)]
             part == [d \in D |-> <<d.id[1], d.id[2]>>]
             K == {part[d] : d \in D}
             u == [k \in K |-> Total(x, Fibre(D, part, k))]
             E == {d \in Entries(D, "tool_execution") : d.entry.toolName = n}
  <1>1. \A d \in D : x[d] = ExecCount(d.entry, n) /\ r[d] = RefCount(d.entry, n) /\ part[d] = <<d.id[1], d.id[2]>>
    OBVIOUS
  <1>2. \A d \in D : r[d] \in Int /\ x[d] \in Int
    BY WrittenCounts, CountType DEF ExecCount
  <1>3. IsFiniteSet(K)
    <2>1. DOMAIN part = D /\ K = {part[d] : d \in D}
      OBVIOUS
    <2> HIDE DEF part, K
    <2> QED
      BY <2>1, ImageFinite
  <1>4. E \in SUBSET D /\ (\A d \in E : x[d] = 1) /\ \A d \in D \ E : x[d] = 0
    BY DEF Entries, ExecCount
  <1>5. \A d \in D : part[d] \in K
    OBVIOUS
  <1>6. \A k \in K : \E d \in D : k = part[d]
    OBVIOUS
  <1>7. \A k \in K : u[k] = Total(x, Fibre(D, part, k))
    OBVIOUS
  <1> HIDE DEF x, r, part, K, u, E
  <1>8. ASSUME NEW k \in K PROVE u[k] = Total(r, Fibre(D, part, k))
    <2>1. PICK d0 \in D : k = part[d0]
      BY <1>6
    <2> DEFINE X == Fibre(D, part, k)
    <2>2. X = {d \in D : d.id[1] = d0.id[1] /\ d.id[2] = d0.id[2]}
      BY <1>1, <2>1 DEF Fibre
    <2>3. \A d \in X : x[d] = ExecCount(d.entry, n) /\ r[d] = RefCount(d.entry, n)
      BY <1>1, <2>2
    <2> HIDE DEF X
    <2>4. OfLine(D, d0, n, X, x, r)
      BY <2>2, <2>3 DEF OfLine
    <2>5. Total(x, X) = Total(r, X)
      BY <2>4, LineCounted
    <2> QED
      BY <1>7, <2>5 DEF X
  <1>9. Total(x, D) = Total(u, K)
    BY <1>2, <1>3, <1>5, <1>7, TotalParts
  <1>10. Total(r, D) = Total(u, K)
    BY <1>2, <1>3, <1>5, <1>8, TotalParts
  <1>11. Total(x, D) = Cardinality(E)
    <2>1. IsFiniteSet(E) /\ \A d \in E : x[d] \in Int
      BY <1>2, <1>4, FS_Subset
    <2>2. Total(x, D) = Total(x, E)
      BY <1>4, <2>1, TotalZeros
    <2>3. Total(x, E) = Cardinality(E)
      BY <1>4, <2>1, TotalOnes
    <2> QED
      BY <2>2, <2>3
  <1>12. CallsIn(D, n) = Total(r, D)
    <2>1. \A d \in D : References(d, n) = RefsOf(d.entry, n)
      BY DEF References, RefsOf
    <2>2. \A d \in D : r[d] \in Int /\ r[d] = Cardinality(References(d, n))
      BY <1>1, <1>2, <2>1 DEF RefCount
    <2> QED
      BY <2>2, CallsInAre
  <1> QED
    BY <1>9, <1>10, <1>11, <1>12 DEF E
-----------------------------------------------------------------------------
(* The featured board. The projects of the organization are all registered *)
(* or all deleted, and what a reader's choice of projects did not take into *)
(* account has come since.                                                 *)

OfOrg == {p \in DOMAIN Organization : Organization[p] = Org}

Preceding(D, u, p) == {d \in D : d.userId = u /\ Organization[d.projectId] = Org /\ RegisteredAt[d.projectId] < RegisteredAt[p]}

Chosen(r, D) ==
  r.kind = "board" /\ r.step = "stats" =>
    \A x \in r.earliest : Organization[x[2]] = Org /\ \A d \in Preceding(D, x[1], x[2]) : d.id \in r.moved

BoardInv == GetProjectIDsForOrganization \in {{}, OfOrg} /\ Chosen(reader, sessions)

LEMMA BoardInit == Init => BoardInv
  BY DEF Init, BoardInv, GetProjectIDsForOrganization, OfOrg, Chosen, Idle

LEMMA InsertNotes == IInv /\ BoardInv /\ Insert => BoardInv'
  <1> SUFFICES ASSUME IInv, BoardInv, Insert PROVE BoardInv'
    OBVIOUS
  <1> DEFINE h == Head(saving)
             K == Keys(reader, sessions)
             N == Keys(reader, sessions')
             placed == {x \in DOMAIN N : x \notin DOMAIN K \/ N[x] # K[x]}
  <1>1. /\ saving # <<>> /\ sessions' = sessions \cup {h} /\ projects' = projects
        /\ reader' = IF reader.kind = "none" THEN reader
                     ELSE [reader EXCEPT !.moved = @ \cup placed, !.late = @ \cup placed]
    BY DEF Insert
  <1>2. GetProjectIDsForOrganization' \in {{}, OfOrg}
    BY <1>1 DEF BoardInv, GetProjectIDsForOrganization
  <1>3. \A d \in sessions : d.id # h.id
    BY <1>1, InsertFiles DEF IInv
  <1>4. Posed(reader) /\ Chosen(reader, sessions)
    BY DEF IInv, Served, BoardInv
  <1> HIDE DEF h
  <1>5. reader.kind = "board" => h.id \in placed
    <2> SUFFICES ASSUME reader.kind = "board" PROVE h.id \in placed
      OBVIOUS
    <2>1. \A D : DOMAIN Keys(reader, D) = {d.id : d \in D}
      BY DEF Keys
    <2>2. DOMAIN K = {d.id : d \in sessions} /\ DOMAIN N = {d.id : d \in sessions'}
      BY <2>1
    <2> QED
      BY <1>1, <1>3, <2>2
  <1> HIDE DEF K, N, placed
  <1>6. ASSUME reader'.kind = "board", reader'.step = "stats"
        PROVE  \A x \in reader'.earliest :
                 Organization[x[2]] = Org /\ \A d \in Preceding(sessions', x[1], x[2]) : d.id \in reader'.moved
    <2>1. /\ reader.kind = "board" /\ reader.step = "stats" /\ reader'.earliest = reader.earliest
          /\ reader'.moved = reader.moved \cup placed
      BY <1>1, <1>4, <1>6 DEF Posed
    <2> SUFFICES ASSUME NEW x \in reader.earliest
                 PROVE  Organization[x[2]] = Org /\ \A d \in Preceding(sessions', x[1], x[2]) : d.id \in reader'.moved
      BY <2>1
    <2>2. Organization[x[2]] = Org /\ \A d \in Preceding(sessions, x[1], x[2]) : d.id \in reader.moved
      BY <1>4, <2>1 DEF Chosen
    <2>3. ASSUME NEW d \in Preceding(sessions', x[1], x[2]) PROVE d.id \in reader'.moved
      <3>1. d = h \/ d \in Preceding(sessions, x[1], x[2])
        BY <1>1 DEF Preceding
      <3> QED
        BY <1>5, <2>1, <2>2, <3>1
    <2> QED
      BY <2>2, <2>3
  <1> QED
    BY <1>2, <1>6 DEF BoardInv, Chosen

LEMMA ChoiceKeeps == IInv /\ BoardInv /\ GetEarliestProjectForMembers => BoardInv'
  <1> SUFFICES ASSUME IInv, BoardInv, GetEarliestProjectForMembers PROVE BoardInv'
    OBVIOUS
  <1>1. PICK f \in [{u \in Members : ProjectsOf(u) # {}} -> projects] :
          /\ \A u \in DOMAIN f : f[u] \in Earliest(u)
          /\ Go([reader EXCEPT !.earliest = {<<u, f[u]>> : u \in DOMAIN f}, !.step = "stats"])
    BY DEF GetEarliestProjectForMembers
  <1>2. Posed(reader) /\ sessions \in SUBSET Written /\ GetProjectIDsForOrganization \in {{}, OfOrg}
    BY DEF IInv, Served, Filed, BoardInv
  <1>3. /\ reader' = [reader EXCEPT !.earliest = {<<u, f[u]>> : u \in DOMAIN f}, !.step = "stats"]
        /\ sessions' = sessions /\ projects' = projects
    BY <1>1 DEF Go
  <1>4. reader'.earliest = {<<u, f[u]>> : u \in DOMAIN f}
    BY <1>2, <1>3 DEF Posed
  <1>5. ASSUME NEW u \in DOMAIN f, NEW d \in Preceding(sessions, u, f[u]) PROVE FALSE
    <2>1. f[u] \in Earliest(u)
      BY <1>1
    <2>2. f[u] \in GetProjectIDsForOrganization /\ \A q \in ProjectsOf(u) : RegisteredAt[f[u]] <= RegisteredAt[q]
      BY <2>1 DEF Earliest, ProjectsOf
    <2>3. GetProjectIDsForOrganization = OfOrg
      BY <1>2, <2>2
    <2>4. /\ d \in sessions /\ d.userId = u /\ Organization[d.projectId] = Org
          /\ RegisteredAt[d.projectId] < RegisteredAt[f[u]]
      BY DEF Preceding
    <2>5. d.projectId \in DOMAIN Organization
      <3>1. d.id[1] \in DOMAIN Lines /\ d.projectId = Lines[d.id[1]].projectId
        BY <1>2, <2>4, WrittenType
      <3> QED
        BY <3>1, LinesAssumption
    <2>6. d.projectId \in ProjectsOf(u)
      BY <2>3, <2>4, <2>5 DEF ProjectsOf, OfOrg
    <2>7. RegisteredAt[d.projectId] \in Nat /\ RegisteredAt[f[u]] \in Nat
      BY <2>2, <2>3, <2>5, DashboardAssumption DEF OfOrg
    <2> QED
      BY <2>2, <2>4, <2>6, <2>7
  <1>6. \A u \in DOMAIN f : Organization[f[u]] = Org
    BY <1>1 DEF Earliest, ProjectsOf, GetProjectIDsForOrganization
  <1>7. Chosen(reader', sessions)
    <2> SUFFICES ASSUME NEW x \in reader'.earliest
                 PROVE  Organization[x[2]] = Org /\ \A d \in Preceding(sessions, x[1], x[2]) : d.id \in reader'.moved
      BY DEF Chosen
    <2>1. PICK u \in DOMAIN f : x = <<u, f[u]>>
      BY <1>4
    <2>2. x[1] = u /\ x[2] = f[u]
      BY <2>1
    <2> QED
      BY <1>5, <1>6, <2>2
  <1> QED
    BY <1>2, <1>3, <1>7 DEF BoardInv, GetProjectIDsForOrganization

LEMMA OthersKeepBoard ==
  IInv /\ BoardInv /\ [SaveBatch \/ InsertError \/ DeleteProjects \/ Request \/ GetSessionMeta \/ VerifyProject
                       \/ ListProjectIDs \/ Count \/ Find \/ GetFeaturedBoardStats]_vars => BoardInv'
  <1> SUFFICES ASSUME IInv, BoardInv,
                      [SaveBatch \/ InsertError \/ DeleteProjects \/ Request \/ GetSessionMeta \/ VerifyProject
                       \/ ListProjectIDs \/ Count \/ Find \/ GetFeaturedBoardStats]_vars
               PROVE  BoardInv'
    OBVIOUS
  <1> DEFINE G == GetProjectIDsForOrganization
  <1>1. Posed(reader) /\ G \in {{}, OfOrg} /\ Chosen(reader, sessions)
    BY DEF IInv, Served, BoardInv
  <1>2. sessions' = sessions /\ G' \in {G, {}}
    BY DEF vars, SaveBatch, InsertError, DeleteProjects, Request, GetSessionMeta, VerifyProject, ListProjectIDs, Count, Find,
           GetFeaturedBoardStats, Go, GetProjectIDsForOrganization
  <1>3. CASE reader' = reader
    BY <1>1, <1>2, <1>3 DEF BoardInv
  <1>4. CASE Request
    <2>1. PICK r \in {GetSessionReq(s) : s \in SessionIds(sessions) \ {None}} \cup {ListSessionsReq, GetFeaturedBoardReq} :
            reader' = [r EXCEPT !.start = DOMAIN Keys(r, sessions)]
      BY <1>4 DEF Request, Go
    <2>2. reader'.step # "stats"
      BY <2>1 DEF GetSessionReq, ListSessionsReq, GetFeaturedBoardReq, Idle
    <2> QED
      BY <1>1, <1>2, <2>2 DEF BoardInv, Chosen
  <1>5. CASE GetSessionMeta \/ VerifyProject \/ ListProjectIDs \/ Count \/ Find \/ GetFeaturedBoardStats
    <2>1. reader'.step # "stats"
      BY <1>1, <1>5 DEF Posed, GetSessionMeta, VerifyProject, ListProjectIDs, Count, Find, GetFeaturedBoardStats, Go
    <2> QED
      BY <1>1, <1>2, <2>1 DEF BoardInv, Chosen
  <1> QED
    BY <1>3, <1>4, <1>5 DEF vars, SaveBatch, InsertError, DeleteProjects

LEMMA BoardSteps == IInv /\ BoardInv /\ [Next]_vars => BoardInv'
  BY InsertNotes, ChoiceKeeps, OthersKeepBoard DEF Next

(* Only messages of agents have a usage.                                   *)
LEMMA AgentUsage ==
  ASSUME NEW D \in SUBSET Written, IsFiniteSet(D)
  PROVE  Usage(Entries(D, "agent")) = Usage(D)
  <1> DEFINE w == [d \in D |-> d.entry.usage]
             A == Entries(D, "agent")
  <1>1. \A d \in D : w[d] \in Int /\ w[d] = d.entry.usage /\ (w[d] # 0 => d.entry.type = "agent")
    BY EntryUsage
  <1>2. A \in SUBSET D /\ \A d \in D : d.entry.type = "agent" => d \in A
    BY DEF Entries
  <1>3. IsFiniteSet(A)
    BY <1>2, FS_Subset
  <1> HIDE DEF w, A
  <1>4. (\A d \in A : w[d] \in Int /\ w[d] = d.entry.usage) /\ (\A d \in A : w[d] \in Int) /\ \A d \in D \ A : w[d] = 0
    BY <1>1, <1>2
  <1>5. Total(w, D) = Total(w, A)
    BY <1>2, <1>4, TotalZeros
  <1>6. Usage(D) = Total(w, D)
    BY <1>1, UsageIs
  <1>7. Usage(A) = Total(w, A)
    BY <1>3, <1>4, UsageIs
  <1> QED
    BY <1>5, <1>6, <1>7 DEF A

(* What a card counts, where no other card names a project of its member.  *)
Own(D, c) == {d \in D : d.userId = c.userId /\ d.projectId = c.projectId /\ d.entry.meta.timestamp >= Since}
Elsewhere(D, C, c) ==
  {d \in D : d.userId = c.userId /\ d.projectId # c.projectId /\ \E other \in C : other.projectId = d.projectId}

LEMMA CardCounts ==
  ASSUME NEW D, NEW q, Filed(D, q), NEW u, NEW p, NEW M,
         {d \in M : d.userId = u} = Own(D, FeaturedMember(u, p, M))
  PROVE  LET c == FeaturedMember(u, p, M)
         IN /\ c.promptCount = Cardinality(Entries(Own(D, c), "human")) /\ c.usage = Usage(Own(D, c))
            /\ (\A d \in Own(D, c) : WholeLine(d, Own(D, c))) =>
                 \A x \in c.toolCalls : x.toolName # None => x.count = CallsIn(Own(D, c), x.toolName)
  <1> DEFINE c == FeaturedMember(u, p, M)
             O == Own(D, c)
  <1>1. /\ c.promptCount = Cardinality(Entries(O, "human"))
        /\ c.usage = Usage(Entries(O, "agent"))
        /\ c.toolCalls =
             {ToolCallSummary(n, Cardinality({d \in Entries(O, "tool_execution") : d.entry.toolName = n})) : n \in ToolNames(O)}
    <2> DEFINE E == {d \in M : d.userId = u}
    <2>1. /\ c.promptCount = Cardinality(Entries(E, "human")) /\ c.usage = Usage(Entries(E, "agent"))
          /\ c.toolCalls =
               {ToolCallSummary(n, Cardinality({d \in Entries(E, "tool_execution") : d.entry.toolName = n})) : n \in ToolNames(E)}
      BY DEF FeaturedMember
    <2>2. E = O
      OBVIOUS
    <2> HIDE DEF E, O, c
    <2> QED
      BY <2>1, <2>2
  <1>2. O \in SUBSET D
    BY DEF Own
  <1> HIDE DEF O, c
  <1>3. O \in SUBSET Written /\ IsFiniteSet(O) /\ Unique(O)
    <2>1. D \in SUBSET Written /\ IsFiniteSet(D) /\ Unique(D)
      BY DEF Filed
    <2> QED
      BY <1>2, <2>1, FS_Subset DEF Unique
  <1>4. c.usage = Usage(O)
    BY <1>1, <1>3, AgentUsage
  <1>5. ASSUME \A d \in O : WholeLine(d, O), NEW x \in c.toolCalls, x.toolName # None
        PROVE  x.count = CallsIn(O, x.toolName)
    <2>1. PICK n : x = ToolCallSummary(n, Cardinality({d \in Entries(O, "tool_execution") : d.entry.toolName = n}))
      BY <1>1
    <2>2. x.toolName = n /\ x.count = Cardinality({d \in Entries(O, "tool_execution") : d.entry.toolName = n})
      BY <2>1 DEF ToolCallSummary
    <2>3. n # None
      BY <1>5, <2>2
    <2>4. Cardinality({d \in Entries(O, "tool_execution") : d.entry.toolName = n}) = CallsIn(O, n)
      BY <1>3, <1>5, <2>3, CallsCounted
    <2> QED
      BY <2>2, <2>4
  <1> QED
    BY <1>1, <1>4, <1>5 DEF O, c

(* A card is as CardsTrue says.                                            *)
LEMMA CardIs ==
  ASSUME IInv, BoardInv, GetFeaturedBoardStats, NEW c \in cards'
  PROVE  /\ Organization[c.projectId] = Org
         /\ \A d \in Preceding(sessions, c.userId, c.projectId) : d.id \in reader.moved
         /\ Elsewhere(sessions, cards', c) = {} =>
              /\ c.promptCount = Cardinality(Entries(Own(sessions, c), "human")) /\ c.usage = Usage(Own(sessions, c))
              /\ (\A d \in Own(sessions, c) : WholeLine(d, Own(sessions, c))) =>
                   \A x \in c.toolCalls : x.toolName # None => x.count = CallsIn(Own(sessions, c), x.toolName)
  <1> DEFINE E == reader.earliest
             M == {d \in sessions : /\ \E x \in E : x[2] = d.projectId
                                    /\ \E x \in E : x[1] = d.userId
                                    /\ d.entry.meta.timestamp >= Since}
  <1>1. cards' = {FeaturedMember(x[1], x[2], M) : x \in E} /\ reader.step = "stats"
    BY DEF GetFeaturedBoardStats
  <1>2. Posed(reader) /\ Chosen(reader, sessions) /\ Filed(sessions, saving)
    BY DEF IInv, Served, BoardInv
  <1>3. reader.kind = "board"
    BY <1>1, <1>2 DEF Posed
  <1>4. PICK x \in E : c = FeaturedMember(x[1], x[2], M)
    BY <1>1
  <1>5. \A u, p, D : FeaturedMember(u, p, D).userId = u /\ FeaturedMember(u, p, D).projectId = p
    BY DEF FeaturedMember
  <1>6. c.userId = x[1] /\ c.projectId = x[2]
    BY <1>4, <1>5
  <1>7. \A y \in E : \E other \in cards' : other.projectId = y[2]
    <2> SUFFICES ASSUME NEW y \in E PROVE \E other \in cards' : other.projectId = y[2]
      OBVIOUS
    <2>1. FeaturedMember(y[1], y[2], M) \in cards'
      BY <1>1
    <2> QED
      BY <1>5, <2>1
  <1>8. Organization[c.projectId] = Org /\ \A d \in Preceding(sessions, c.userId, c.projectId) : d.id \in reader.moved
    BY <1>1, <1>2, <1>3, <1>4, <1>6 DEF Chosen
  <1>9. ASSUME Elsewhere(sessions, cards', c) = {} PROVE {d \in M : d.userId = x[1]} = Own(sessions, c)
    <2>1. ASSUME NEW d \in M, d.userId = x[1] PROVE d \in Own(sessions, c)
      <3>1. d \in sessions /\ d.entry.meta.timestamp >= Since
        BY <2>1
      <3>2. PICK y \in E : y[2] = d.projectId
        BY <2>1
      <3>3. \E other \in cards' : other.projectId = d.projectId
        BY <1>7, <3>2
      <3>4. d.projectId = c.projectId
        BY <1>6, <1>9, <2>1, <3>1, <3>3 DEF Elsewhere
      <3> QED
        BY <1>6, <2>1, <3>1, <3>4 DEF Own
    <2>2. ASSUME NEW d \in Own(sessions, c) PROVE d \in M /\ d.userId = x[1]
      BY <1>4, <1>6 DEF Own
    <2> QED
      BY <2>1, <2>2
  <1> HIDE DEF M
  <1>10. ASSUME Elsewhere(sessions, cards', c) = {}
         PROVE  /\ c.promptCount = Cardinality(Entries(Own(sessions, c), "human")) /\ c.usage = Usage(Own(sessions, c))
                /\ (\A d \in Own(sessions, c) : WholeLine(d, Own(sessions, c))) =>
                     \A y \in c.toolCalls : y.toolName # None => y.count = CallsIn(Own(sessions, c), y.toolName)
    BY <1>2, <1>4, <1>9, <1>10, CardCounts
  <1> QED
    BY <1>8, <1>10

(* Every card names a project of the organization, the first registered    *)
(* that its member had worked in when the projects were chosen, and counts *)
(* the member's prompts, tokens and calls in it, but for what CardsTrue    *)
(* excepts: of GetFeaturedBoardStats and GetEarliestProjectForMembers.     *)
THEOREM CardsAreTrue == Spec => CardsTrue
  <1> DEFINE CardTrue(c) ==
        LET own == {d \in sessions : d.userId = c.userId /\ d.projectId = c.projectId /\ d.entry.meta.timestamp >= Since}
            elsewhere == {d \in sessions : /\ d.userId = c.userId /\ d.projectId # c.projectId
                                           /\ \E other \in cards' : other.projectId = d.projectId}
            earlier == {d \in sessions : /\ d.userId = c.userId /\ Organization[d.projectId] = Org
                                         /\ RegisteredAt[d.projectId] < RegisteredAt[c.projectId]}
        IN /\ Organization[c.projectId] = Org
           /\ \A d \in earlier : d.id \in reader.moved
           /\ elsewhere = {} =>
                /\ c.promptCount = Cardinality(Entries(own, "human")) /\ c.usage = Usage(own)
                /\ (\A d \in own : WholeLine(d, own)) =>
                     \A x \in c.toolCalls : x.toolName # None => x.count = CallsIn(own, x.toolName)
             True == \A c \in cards' \ cards : CardTrue(c)
  <1>1. IInv /\ BoardInv /\ [Next]_vars => [True]_vars
    <2> SUFFICES ASSUME IInv, BoardInv, Next, NEW c \in cards' \ cards PROVE CardTrue(c)
      BY DEF True
    <2>1. GetFeaturedBoardStats
      BY DEF Next, SaveBatch, Insert, InsertError, DeleteProjects, Request, GetSessionMeta, VerifyProject, ListProjectIDs,
             Count, Find, GetEarliestProjectForMembers, Go
    <2> QED
      BY <2>1, CardIs DEF Own, Elsewhere, Preceding
  <1> HIDE DEF True
  <1>2. Spec => [][True]_vars
    BY <1>1, InitHolds, StepKeeps, BoardInit, BoardSteps, PTL DEF Spec
  <1> QED
    BY <1>2, PTL DEF True, CardsTrue
=============================================================================
