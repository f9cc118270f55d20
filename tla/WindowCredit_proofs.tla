------------------------- MODULE WindowCredit_proofs -------------------------
(***************************************************************************)
(* Theorems about WindowCredit, for any panes and any sizes of a coherent  *)
(* window: the books of a connection balance at both ends, and a daemon    *)
(* that honours its window is dropped for less than a chunk.               *)
(*                                                                         *)
(* The sizes are those of CreditAssumption, and the streams are finitely   *)
(* many, because the books sum over them.  A sum is a fold, which the      *)
(* library defines by a recursive function that CHOOSE takes: first such a *)
(* function is shown to exist, by the least size at which it would not,    *)
(* then that the order of the members does not matter, and then what is    *)
(* needed of sums: one changed, one added and none.                        *)
(***************************************************************************)
EXTENDS WindowCredit, FiniteSetTheorems, SequenceTheorems, WellFoundedInduction, TLAPS

-----------------------------------------------------------------------------
\* Sums.

\* A set of naturals that has a member has a least one.
LEMMA Least ==
  ASSUME NEW T, T \subseteq Nat, T # {}
  PROVE  \E x \in T : \A y \in T : x <= y
<1> DEFINE R == OpToRel(<, Nat)
<1>1. IsWellFoundedOn(R, Nat)
  BY NatLessThanWellFounded
<1>2. \A x, y \in Nat : <<y, x>> \in R <=> y < x
  BY Zenon DEF OpToRel
<1> HIDE DEF R
<1>3. PICK x \in T : \A y \in T : ~ (<<y, x>> \in R)
  BY <1>1, WFMin
<1>4. \A y \in T : x <= y
  <2> TAKE y \in T
  <2>1. ~ (y < x)
    BY <1>2, <1>3
  <2> QED
    BY <2>1
<1> QED
  BY <1>4

\* Of some finite sets one is smallest.
LEMMA Smallest ==
  ASSUME NEW S, IsFiniteSet(S), NEW T, T \subseteq SUBSET S, T # {}
  PROVE  \E s \in T : \A t \in T : Cardinality(s) <= Cardinality(t)
<1> DEFINE Sizes == {Cardinality(t) : t \in T}
<1>1. \A t \in T : Cardinality(t) \in Nat
  BY FS_Subset, FS_CardinalityType
<1>2. Sizes \subseteq Nat /\ Sizes # {}
  BY <1>1
<1>3. \A t \in T : Cardinality(t) \in Sizes
  OBVIOUS
<1>4. \A n \in Sizes : \E t \in T : n = Cardinality(t)
  OBVIOUS
<1> HIDE DEF Sizes
<1>5. PICK n \in Sizes : \A k \in Sizes : n <= k
  BY <1>2, Least
<1>6. PICK s \in T : n = Cardinality(s)
  BY <1>4
<1> QED
  BY <1>3, <1>5, <1>6

\* Taking a member away leaves a smaller subset.
LEMMA Taken ==
  ASSUME NEW S, IsFiniteSet(S), NEW s \in SUBSET S, NEW x \in s
  PROVE  /\ IsFiniteSet(s) /\ Cardinality(s) \in Nat
         /\ s \ {x} \in SUBSET S
         /\ Cardinality(s \ {x}) \in Nat /\ Cardinality(s \ {x}) = Cardinality(s) - 1
<1>1. IsFiniteSet(s)
  BY FS_Subset
<1>2. IsFiniteSet(s \ {x}) /\ Cardinality(s \ {x}) = Cardinality(s) - 1
  BY <1>1, FS_RemoveElement
<1> QED
  BY <1>1, <1>2, FS_CardinalityType

Chosen(s) == CHOOSE x \in s : TRUE

\* What the fold of a sum goes through: members are taken as CHOOSE has them.
Walks(w, f, S) ==
  w = [s \in S |-> IF s = {} THEN 0 ELSE f[Chosen(s)] + w[s \ {Chosen(s)}]]

Walk(f, S) == CHOOSE w : Walks(w, f, S)

LEMMA WalkExists ==
  ASSUME NEW f, NEW S, IsFiniteSet(S)
  PROVE  \E w : Walks(w, f, SUBSET S)
<1> DEFINE Upto(n) == {s \in SUBSET S : Cardinality(s) <= n}
           T == {n \in Nat : ~ \E w : Walks(w, f, Upto(n))}
<1>1. Cardinality(S) \in Nat /\ SUBSET S = Upto(Cardinality(S))
  <2>1. Cardinality(S) \in Nat
    BY FS_CardinalityType
  <2>2. \A s \in SUBSET S : Cardinality(s) <= Cardinality(S)
    BY FS_Subset
  <2> QED
    BY <2>1, <2>2
<1>2. T = {}
  <2> SUFFICES ASSUME T # {} PROVE FALSE
    OBVIOUS
  <2>1. PICK m \in T : \A k \in T : m <= k
    <3>1. T \subseteq Nat
      OBVIOUS
    <3> HIDE DEF T
    <3> QED
      BY <3>1, Least
  <2>2. m \in Nat /\ ~ \E w : Walks(w, f, Upto(m))
    BY <2>1
  <2>3. CASE m = 0
    <3>1. \A s \in Upto(0) : s = {}
      <4> TAKE s \in Upto(0)
      <4>1. IsFiniteSet(s) /\ Cardinality(s) \in Nat /\ Cardinality(s) <= 0
        BY FS_Subset, FS_CardinalityType
      <4> QED
        BY <4>1, FS_EmptySet
    <3> DEFINE w == [s \in Upto(0) |-> 0]
    <3>2. Walks(w, f, Upto(0))
      BY <3>1 DEF Walks
    <3> QED
      BY <2>2, <2>3, <3>2
  <2>4. CASE m # 0
    <3>1. m - 1 \in Nat /\ m - 1 \notin T
      <4> HIDE DEF T
      <4> QED
        BY <2>1, <2>2, <2>4
    <3>2. PICK h : Walks(h, f, Upto(m - 1))
      BY <3>1
    <3> DEFINE w == [s \in Upto(m) |-> IF s = {} THEN 0 ELSE f[Chosen(s)] + h[s \ {Chosen(s)}]]
    <3>3. \A s \in Upto(m) : s # {} => s \ {Chosen(s)} \in Upto(m - 1) /\ s \ {Chosen(s)} \in Upto(m)
      <4> TAKE s \in Upto(m)
      <4> HAVE s # {}
      <4>1. Chosen(s) \in s
        BY DEF Chosen
      <4> QED
        BY <2>2, <4>1, Taken
    <3>4. \A s \in Upto(m - 1) : s \in Upto(m) /\ w[s] = h[s]
      <4> TAKE s \in Upto(m - 1)
      <4>1. Cardinality(s) \in Nat
        BY FS_Subset, FS_CardinalityType
      <4>2. s \in Upto(m)
        BY <2>2, <4>1
      <4>3. h[s] = IF s = {} THEN 0 ELSE f[Chosen(s)] + h[s \ {Chosen(s)}]
        BY <3>2 DEF Walks
      <4> QED
        BY <4>2, <4>3
    <3>5. \A s \in Upto(m) :
            w[s] = IF s = {} THEN 0 ELSE f[Chosen(s)] + w[s \ {Chosen(s)}]
      BY <3>3, <3>4
    <3>6. w = [s \in Upto(m) |-> w[s]]
      OBVIOUS
    <3> HIDE DEF w, Upto
    <3>7. Walks(w, f, Upto(m))
      BY <3>5, <3>6 DEF Walks
    <3> QED
      BY <2>2, <3>7
  <2> QED
    BY <2>3, <2>4
<1> QED
  BY <1>1, <1>2

\* The walk over the subsets of a finite set, a member at a time.
Stepwise(w, f, S) ==
  /\ w[{}] = 0
  /\ \A s \in SUBSET S : s # {} => Chosen(s) \in s /\ w[s] = f[Chosen(s)] + w[s \ {Chosen(s)}]

LEMMA WalkSteps ==
  ASSUME NEW f, NEW S, IsFiniteSet(S)
  PROVE  Stepwise(Walk(f, SUBSET S), f, S)
<1> DEFINE w == Walk(f, SUBSET S)
<1>1. Walks(w, f, SUBSET S)
  <2>1. \E v : Walks(v, f, SUBSET S)
    BY WalkExists
  <2> QED
    BY <2>1 DEF Walk
<1> HIDE DEF w
<1>2. \A s \in SUBSET S : w[s] = IF s = {} THEN 0 ELSE f[Chosen(s)] + w[s \ {Chosen(s)}]
  BY <1>1 DEF Walks
<1>3. \A s \in SUBSET S : s # {} => Chosen(s) \in s
  BY DEF Chosen
<1>4. w[{}] = 0
  BY <1>2
<1>5. \A s \in SUBSET S : s # {} => w[s] = f[Chosen(s)] + w[s \ {Chosen(s)}]
  BY <1>2
<1>6. Stepwise(w, f, S)
  BY <1>3, <1>4, <1>5 DEF Stepwise
<1> QED
  BY <1>6 DEF w

LEMMA SumIsWalk ==
  ASSUME NEW f
  PROVE  SumFunction(f) = Walk(f, SUBSET DOMAIN f)[DOMAIN f]
BY Zenon DEF SumFunction, SumFunctionOnSet, FoldFunctionOnSet, MapThenFoldSet, Walk, Walks, Chosen

\* Two walks agree where the functions do.
LEMMA WalksAgree ==
  ASSUME NEW f, NEW g, NEW S, NEW R, IsFiniteSet(S), IsFiniteSet(R),
         NEW s \in SUBSET S, s \in SUBSET R, \A x \in s : f[x] = g[x]
  PROVE  Walk(f, SUBSET S)[s] = Walk(g, SUBSET R)[s]
<1> DEFINE v == Walk(f, SUBSET S)
           w == Walk(g, SUBSET R)
           T == {t \in SUBSET s : v[t] # w[t]}
<1>1. Stepwise(v, f, S) /\ Stepwise(w, g, R)
  BY WalkSteps
<1>2. IsFiniteSet(s)
  BY FS_Subset
<1> HIDE DEF v, w
<1>3. T = {}
  <2> SUFFICES ASSUME T # {} PROVE FALSE
    OBVIOUS
  <2>1. PICK t \in T : \A u \in T : Cardinality(t) <= Cardinality(u)
    <3>1. T \subseteq SUBSET s
      OBVIOUS
    <3> HIDE DEF T
    <3> QED
      BY <1>2, <3>1, Smallest
  <2>2. t \in SUBSET s /\ v[t] # w[t] /\ t # {}
    BY <1>1, <2>1 DEF Stepwise
  <2> DEFINE a == Chosen(t)
  <2>3. a \in t /\ v[t] = f[a] + v[t \ {a}] /\ w[t] = g[a] + w[t \ {a}]
    BY <1>1, <2>2 DEF Stepwise
  <2> HIDE DEF a
  <2>4. /\ t \ {a} \in SUBSET s
        /\ Cardinality(t \ {a}) \in Nat /\ Cardinality(t) \in Nat
        /\ Cardinality(t \ {a}) = Cardinality(t) - 1
    BY <1>2, <2>2, <2>3, Taken
  <2>5. t \ {a} \notin T
    BY <2>1, <2>4
  <2>6. v[t \ {a}] = w[t \ {a}]
    BY <2>4, <2>5
  <2>7. f[a] = g[a]
    BY <2>2, <2>3
  <2> QED
    BY <2>2, <2>3, <2>6, <2>7
<1>4. v[s] = w[s]
  BY <1>3
<1> QED
  BY <1>4 DEF v, w

\* A walk over naturals ends at a natural.
LEMMA WalkTyped ==
  ASSUME NEW S, IsFiniteSet(S), NEW f \in [S -> Nat], NEW s \in SUBSET S
  PROVE  Walk(f, SUBSET S)[s] \in Nat
<1> DEFINE w == Walk(f, SUBSET S)
           T == {t \in SUBSET S : w[t] \notin Nat}
<1>1. Stepwise(w, f, S)
  BY WalkSteps
<1> HIDE DEF w
<1>2. T = {}
  <2> SUFFICES ASSUME T # {} PROVE FALSE
    OBVIOUS
  <2>1. PICK t \in T : \A u \in T : Cardinality(t) <= Cardinality(u)
    <3>1. T \subseteq SUBSET S
      OBVIOUS
    <3> HIDE DEF T
    <3> QED
      BY <3>1, Smallest
  <2>2. t \in SUBSET S /\ w[t] \notin Nat
    BY <2>1
  <2>3. t # {}
    <3>1. w[{}] \in Nat
      BY <1>1 DEF Stepwise
    <3> QED
      BY <2>2, <3>1
  <2> DEFINE a == Chosen(t)
  <2>4. a \in t /\ w[t] = f[a] + w[t \ {a}]
    BY <1>1, <2>2, <2>3 DEF Stepwise
  <2> HIDE DEF a
  <2>5. /\ t \ {a} \in SUBSET S
        /\ Cardinality(t \ {a}) \in Nat /\ Cardinality(t) \in Nat
        /\ Cardinality(t \ {a}) = Cardinality(t) - 1
    BY <2>2, <2>4, Taken
  <2>6. t \ {a} \notin T
    BY <2>1, <2>5
  <2>7. w[t \ {a}] \in Nat /\ f[a] \in Nat
    BY <2>2, <2>4, <2>5, <2>6
  <2> QED
    BY <2>2, <2>4, <2>7
<1>3. w[s] \in Nat
  BY <1>2
<1> QED
  BY <1>3 DEF w

\* Any member of a set may go first.
LEMMA WalkOrder ==
  ASSUME NEW S, IsFiniteSet(S), NEW f \in [S -> Nat], NEW s \in SUBSET S, NEW z \in s
  PROVE  Walk(f, SUBSET S)[s] = f[z] + Walk(f, SUBSET S)[s \ {z}]
<1> DEFINE w == Walk(f, SUBSET S)
           Good(t) == \A x \in t : w[t] = f[x] + w[t \ {x}]
           T == {t \in SUBSET S : ~ Good(t)}
<1>1. Stepwise(w, f, S)
  BY WalkSteps
<1>2. \A t \in SUBSET S : w[t] \in Nat
  BY WalkTyped
<1> HIDE DEF w
<1>3. T = {}
  <2> SUFFICES ASSUME T # {} PROVE FALSE
    OBVIOUS
  <2>1. PICK t \in T : \A u \in T : Cardinality(t) <= Cardinality(u)
    <3>1. T \subseteq SUBSET S
      OBVIOUS
    <3> HIDE DEF T
    <3> QED
      BY <3>1, Smallest
  <2>2. t \in SUBSET S /\ ~ Good(t)
    BY <2>1
  <2>3. PICK x \in t : w[t] # f[x] + w[t \ {x}]
    BY <2>2
  <2> DEFINE a == Chosen(t)
  <2>4. a \in t /\ w[t] = f[a] + w[t \ {a}]
    BY <1>1, <2>2, <2>3 DEF Stepwise
  <2> HIDE DEF a
  <2>5. a # x
    BY <2>3, <2>4
  <2>6. ASSUME NEW y \in t
        PROVE  Good(t \ {y})
    <3>1. /\ t \ {y} \in SUBSET S
          /\ Cardinality(t \ {y}) \in Nat /\ Cardinality(t) \in Nat
          /\ Cardinality(t \ {y}) = Cardinality(t) - 1
      BY <2>2, Taken
    <3>2. t \ {y} \notin T
      BY <2>1, <3>1
    <3> QED
      BY <3>1, <3>2
  <2> DEFINE rest == (t \ {a}) \ {x}
  <2>7. w[t \ {a}] = f[x] + w[rest]
    BY <2>3, <2>4, <2>5, <2>6
  <2>8. w[t \ {x}] = f[a] + w[rest]
    <3>1. (t \ {x}) \ {a} = rest
      OBVIOUS
    <3>2. w[t \ {x}] = f[a] + w[(t \ {x}) \ {a}]
      BY <2>3, <2>4, <2>5, <2>6
    <3> QED
      BY <3>1, <3>2
  <2>9. f[a] \in Nat /\ f[x] \in Nat /\ w[rest] \in Nat
    <3>1. rest \in SUBSET S
      BY <2>2
    <3> QED
      BY <1>2, <2>2, <2>3, <2>4, <3>1
  <2> HIDE DEF rest
  <2>10. f[a] + (f[x] + w[rest]) = f[x] + (f[a] + w[rest])
    BY <2>9
  <2> QED
    BY <2>3, <2>4, <2>7, <2>8, <2>10
<1>4. Good(s)
  BY <1>3
<1> QED
  BY <1>4 DEF w

\* What a sum is made of: nothing, or one member and the rest.
LEMMA SumOfNothing ==
  ASSUME NEW f, DOMAIN f = {}
  PROVE  SumFunction(f) = 0
BY SumIsWalk, WalkSteps, FS_EmptySet DEF Stepwise

LEMMA SumOf ==
  ASSUME NEW S, IsFiniteSet(S), NEW f \in [S -> Nat], NEW x \in S
  PROVE  /\ SumFunction(f) \in Nat
         /\ SumFunction([y \in S \ {x} |-> f[y]]) \in Nat
         /\ SumFunction(f) = f[x] + SumFunction([y \in S \ {x} |-> f[y]])
<1> DEFINE R == S \ {x}
           g == [y \in R |-> f[y]]
<1>1. IsFiniteSet(R) /\ g \in [R -> Nat] /\ R \in SUBSET S /\ \A y \in R : f[y] = g[y]
  BY FS_Subset
<1>2. SumFunction(f) = Walk(f, SUBSET S)[S] /\ SumFunction(g) = Walk(g, SUBSET R)[R]
  BY SumIsWalk
<1>3. Walk(f, SUBSET S)[S] = f[x] + Walk(f, SUBSET S)[R]
  <2>1. S \in SUBSET S
    OBVIOUS
  <2>2. ASSUME NEW s \in SUBSET S, NEW y \in s
        PROVE  Walk(f, SUBSET S)[s] = f[y] + Walk(f, SUBSET S)[s \ {y}]
    BY WalkOrder
  <2> QED
    BY <2>1, <2>2
<1> HIDE DEF g, R
<1>4. Walk(f, SUBSET S)[R] = Walk(g, SUBSET R)[R]
  BY <1>1, WalksAgree
<1>5. Walk(f, SUBSET S)[S] \in Nat /\ Walk(g, SUBSET R)[R] \in Nat
  BY <1>1, WalkTyped
<1>6. /\ SumFunction(f) \in Nat /\ SumFunction(g) \in Nat
      /\ SumFunction(f) = f[x] + SumFunction(g)
  BY <1>2, <1>3, <1>4, <1>5
<1> QED
  BY <1>6 DEF g, R

LEMMA SumTyped ==
  ASSUME NEW S, IsFiniteSet(S), NEW f \in [S -> Nat]
  PROVE  SumFunction(f) \in Nat
<1>1. SumFunction(f) = Walk(f, SUBSET S)[S]
  BY SumIsWalk
<1>2. S \in SUBSET S
  OBVIOUS
<1>3. Walk(f, SUBSET S)[S] \in Nat
  BY <1>2, WalkTyped
<1> QED
  BY <1>1, <1>3

\* One summand changes, or joins.
Summable(f) == IsFiniteSet(DOMAIN f) /\ f \in [DOMAIN f -> Nat]

LEMMA SumChanges ==
  ASSUME NEW f, NEW g, NEW x, Summable(f), Summable(g),
         DOMAIN g = DOMAIN f, x \in DOMAIN f, \A y \in DOMAIN f : y # x => f[y] = g[y]
  PROVE  /\ SumFunction(f) \in Nat /\ SumFunction(g) \in Nat
         /\ SumFunction(g) + f[x] = SumFunction(f) + g[x]
<1> DEFINE S == DOMAIN f
           rest == SumFunction([y \in S \ {x} |-> f[y]])
<1>1. IsFiniteSet(S) /\ f \in [S -> Nat] /\ g \in [S -> Nat] /\ x \in S
  BY DEF Summable
<1>2. [y \in S \ {x} |-> f[y]] = [y \in S \ {x} |-> g[y]]
  OBVIOUS
<1>3. SumFunction(f) \in Nat /\ rest \in Nat /\ SumFunction(f) = f[x] + rest
  BY <1>1, SumOf
<1>4. SumFunction(g) \in Nat /\ SumFunction(g) = g[x] + SumFunction([y \in S \ {x} |-> g[y]])
  BY <1>1, SumOf
<1>5. SumFunction(g) = g[x] + rest
  BY <1>2, <1>4
<1>6. f[x] \in Nat /\ g[x] \in Nat
  BY <1>1
<1> HIDE DEF rest
<1> QED
  BY <1>3, <1>4, <1>5, <1>6

LEMMA SumGrows ==
  ASSUME NEW f, NEW g, NEW x, Summable(f), Summable(g),
         DOMAIN g = DOMAIN f \cup {x}, x \notin DOMAIN f, \A y \in DOMAIN f : f[y] = g[y]
  PROVE  /\ SumFunction(f) \in Nat /\ SumFunction(g) \in Nat
         /\ SumFunction(g) = SumFunction(f) + g[x]
<1> DEFINE S == DOMAIN f
           R == DOMAIN g
<1>1. IsFiniteSet(R) /\ g \in [R -> Nat] /\ x \in R /\ R \ {x} = S
  BY DEF Summable
<1>2. f = [y \in S |-> g[y]]
  BY DEF Summable
<1>3. SumFunction(g) \in Nat /\ SumFunction(g) = g[x] + SumFunction([y \in R \ {x} |-> g[y]])
  BY <1>1, SumOf
<1>4. SumFunction(g) = g[x] + SumFunction(f)
  BY <1>1, <1>2, <1>3
<1>5. SumFunction(f) \in Nat /\ g[x] \in Nat
  BY <1>1, SumTyped DEF Summable
<1> QED
  BY <1>3, <1>4, <1>5

LEMMA SumAtLeast ==
  ASSUME NEW f, NEW x \in DOMAIN f, Summable(f)
  PROVE  f[x] <= SumFunction(f)
<1> DEFINE S == DOMAIN f
           rest == SumFunction([y \in S \ {x} |-> f[y]])
<1>1. IsFiniteSet(S) /\ f \in [S -> Nat] /\ x \in S
  BY DEF Summable
<1>2. SumFunction(f) \in Nat /\ rest \in Nat /\ SumFunction(f) = f[x] + rest
  BY <1>1, SumOf
<1>3. f[x] \in Nat
  BY <1>1
<1> HIDE DEF rest
<1> QED
  BY <1>2, <1>3

LEMMA SumOfZeros ==
  ASSUME NEW S, IsFiniteSet(S), NEW f, DOMAIN f = S, \A x \in S : f[x] = 0
  PROVE  SumFunction(f) = 0
<1> DEFINE w == Walk(f, SUBSET S)
           T == {t \in SUBSET S : w[t] # 0}
<1>1. Stepwise(w, f, S)
  BY WalkSteps
<1>2. SumFunction(f) = w[S]
  BY SumIsWalk
<1> HIDE DEF w
<1>3. T = {}
  <2> SUFFICES ASSUME T # {} PROVE FALSE
    OBVIOUS
  <2>1. PICK t \in T : \A u \in T : Cardinality(t) <= Cardinality(u)
    <3>1. T \subseteq SUBSET S
      OBVIOUS
    <3> HIDE DEF T
    <3> QED
      BY <3>1, Smallest
  <2>2. t \in SUBSET S /\ w[t] # 0
    BY <2>1
  <2>3. t # {}
    BY <1>1, <2>2 DEF Stepwise
  <2> DEFINE a == Chosen(t)
  <2>4. a \in t /\ w[t] = f[a] + w[t \ {a}]
    BY <1>1, <2>2, <2>3 DEF Stepwise
  <2> HIDE DEF a
  <2>5. /\ t \ {a} \in SUBSET S
        /\ Cardinality(t \ {a}) \in Nat /\ Cardinality(t) \in Nat
        /\ Cardinality(t \ {a}) = Cardinality(t) - 1
    BY <2>2, <2>4, Taken
  <2>6. t \ {a} \notin T
    BY <2>1, <2>5
  <2>7. w[t \ {a}] = 0 /\ f[a] = 0
    BY <2>2, <2>4, <2>5, <2>6
  <2> QED
    BY <2>2, <2>4, <2>7
<1> QED
  BY <1>2, <1>3

-----------------------------------------------------------------------------
\* What a sequence of frames, or of signals, carries.

Measured(M)       == \A m \in M : m.bytes \in Nat
Share(m, kind, s) == IF m.kind = kind /\ m.stream = s THEN m.bytes ELSE 0
Shares(fs, kind, s) == [i \in DOMAIN fs |-> Share(fs[i], kind, s)]

LEMMA BytesAreShares ==
  ASSUME NEW fs, NEW kind, NEW s
  PROVE  Bytes(fs, kind, s) = SumFunction(Shares(fs, kind, s))
BY DEF Bytes, Shares, Share

LEMMA SharesTyped ==
  ASSUME NEW M, Measured(M), NEW fs \in Seq(M), NEW kind, NEW s
  PROVE  /\ DOMAIN Shares(fs, kind, s) = 1..Len(fs)
         /\ Summable(Shares(fs, kind, s))
         /\ SumFunction(Shares(fs, kind, s)) \in Nat
<1> DEFINE f == Shares(fs, kind, s)
<1>1. DOMAIN fs = 1..Len(fs) /\ Len(fs) \in Nat /\ DOMAIN f = 1..Len(fs)
  BY DEF Shares
<1>2. IsFiniteSet(DOMAIN f)
  BY <1>1, FS_Interval
<1>3. \A i \in DOMAIN fs : fs[i] \in M /\ Share(fs[i], kind, s) \in Nat
  BY DEF Measured, Share
<1>4. f \in [DOMAIN f -> Nat]
  BY <1>1, <1>3 DEF Shares
<1> HIDE DEF f
<1>5. SumFunction(f) \in Nat
  BY <1>2, <1>4, SumTyped
<1>6. Summable(f)
  BY <1>2, <1>4 DEF Summable
<1> QED
  BY <1>1, <1>5, <1>6 DEF f

LEMMA BytesTyped ==
  ASSUME NEW M, Measured(M), NEW fs \in Seq(M), NEW kind, NEW s
  PROVE  Bytes(fs, kind, s) \in Nat
BY SharesTyped, BytesAreShares

LEMMA BytesOfNothing ==
  ASSUME NEW kind, NEW s
  PROVE  Bytes(<<>>, kind, s) = 0
<1>1. DOMAIN Shares(<<>>, kind, s) = {}
  BY DEF Shares
<1> QED
  BY <1>1, SumOfNothing, BytesAreShares

LEMMA BytesAppend ==
  ASSUME NEW M, Measured(M), NEW fs \in Seq(M), NEW m \in M, NEW kind, NEW s
  PROVE  /\ Bytes(Append(fs, m), kind, s) = Bytes(fs, kind, s) + Share(m, kind, s)
         /\ Share(m, kind, s) \in Nat /\ Bytes(fs, kind, s) \in Nat
<1> DEFINE x == Len(fs) + 1
           f == Shares(fs, kind, s)
           g == Shares(Append(fs, m), kind, s)
<1>1. Append(fs, m) \in Seq(M) /\ Len(Append(fs, m)) = Len(fs) + 1 /\ Len(fs) \in Nat
  OBVIOUS
<1>2. DOMAIN f = 1..Len(fs) /\ DOMAIN g = 1..(Len(fs) + 1) /\ Summable(f) /\ Summable(g)
  BY <1>1, SharesTyped
<1>3. DOMAIN g = DOMAIN f \cup {x} /\ x \notin DOMAIN f
  BY <1>1, <1>2
<1>4. (\A i \in DOMAIN f : f[i] = g[i]) /\ g[x] = Share(m, kind, s)
  <2>1. (\A i \in 1..Len(fs) : Append(fs, m)[i] = fs[i]) /\ Append(fs, m)[Len(fs) + 1] = m
    OBVIOUS
  <2> QED
    BY <1>1, <1>2, <2>1 DEF Shares
<1>5. Share(m, kind, s) \in Nat
  BY DEF Measured, Share
<1>6. Bytes(Append(fs, m), kind, s) = SumFunction(g) /\ Bytes(fs, kind, s) = SumFunction(f)
  BY BytesAreShares
<1> HIDE DEF x, f, g
<1>7. SumFunction(f) \in Nat /\ SumFunction(g) = SumFunction(f) + g[x]
  BY <1>2, <1>3, <1>4, SumGrows
<1> QED
  BY <1>4, <1>5, <1>6, <1>7

LEMMA BytesConcat ==
  ASSUME NEW M, Measured(M), NEW fs \in Seq(M), NEW gs \in Seq(M), NEW kind, NEW s
  PROVE  Bytes(fs \o gs, kind, s) = Bytes(fs, kind, s) + Bytes(gs, kind, s)
<1> DEFINE Splits(t) == Bytes(fs \o t, kind, s) = Bytes(fs, kind, s) + Bytes(t, kind, s)
           T == {n \in Nat : \E t \in Seq(M) : Len(t) = n /\ ~ Splits(t)}
<1>1. T = {}
  <2> SUFFICES ASSUME T # {} PROVE FALSE
    OBVIOUS
  <2>1. PICK n \in T : \A k \in T : n <= k
    <3>1. T \subseteq Nat
      OBVIOUS
    <3> HIDE DEF T
    <3> QED
      BY <3>1, Least
  <2>2. PICK t \in Seq(M) : Len(t) = n /\ ~ Splits(t)
    BY <2>1
  <2>3. CASE t = <<>>
    <3>1. fs \o <<>> = fs /\ Bytes(fs, kind, s) \in Nat
      BY BytesTyped
    <3> QED
      BY <2>2, <2>3, <3>1, BytesOfNothing
  <2>4. CASE t # <<>>
    <3>0. PICK u \in Seq(M), m \in M : t = Append(u, m)
      BY <2>4, SequenceEmptyOrAppend
    <3>1. Len(u) = Len(t) - 1
      BY <3>0
    <3>2. n \in Nat /\ Len(u) \in Nat /\ Len(u) < n
      BY <2>2, <3>1
    <3>3. Len(u) \notin T
      <4> HIDE DEF T
      <4> QED
        BY <2>1, <3>2
    <3>4. Splits(u)
      BY <3>1, <3>2, <3>3
    <3>5. fs \o u \in Seq(M) /\ fs \o t = Append(fs \o u, m)
      BY <3>0
    <3>6. /\ Bytes(Append(fs \o u, m), kind, s) = Bytes(fs \o u, kind, s) + Share(m, kind, s)
          /\ Share(m, kind, s) \in Nat
      <4> DEFINE c == fs \o u
      <4>1. c \in Seq(M)
        BY <3>5
      <4> HIDE DEF c
      <4>2. Bytes(Append(c, m), kind, s) = Bytes(c, kind, s) + Share(m, kind, s) /\ Share(m, kind, s) \in Nat
        BY <4>1, BytesAppend
      <4> QED
        BY <4>2 DEF c
    <3>7. /\ Bytes(Append(u, m), kind, s) = Bytes(u, kind, s) + Share(m, kind, s)
          /\ Bytes(u, kind, s) \in Nat
      BY BytesAppend
    <3>8. Bytes(fs, kind, s) \in Nat
      BY BytesTyped
    <3> QED
      BY <2>2, <3>0, <3>4, <3>5, <3>6, <3>7, <3>8
  <2> QED
    BY <2>3, <2>4
<1>2. Splits(gs)
  BY <1>1
<1> QED
  BY <1>2

LEMMA BytesSplit ==
  ASSUME NEW M, Measured(M), NEW fs \in Seq(M), NEW n \in 1..Len(fs), NEW kind, NEW s
  PROVE  /\ SubSeq(fs, 1, n) \in Seq(M) /\ SubSeq(fs, n + 1, Len(fs)) \in Seq(M)
         /\ Bytes(fs, kind, s) = Bytes(SubSeq(fs, 1, n), kind, s)
                                   + Bytes(SubSeq(fs, n + 1, Len(fs)), kind, s)
<1> DEFINE a == SubSeq(fs, 1, n)
           b == SubSeq(fs, n + 1, Len(fs))
<1>1. a \in Seq(M) /\ b \in Seq(M) /\ fs = a \o b
  OBVIOUS
<1> HIDE DEF a, b
<1>2. Bytes(a \o b, kind, s) = Bytes(a, kind, s) + Bytes(b, kind, s)
  BY <1>1, BytesConcat
<1>3. Bytes(fs, kind, s) = Bytes(a, kind, s) + Bytes(b, kind, s)
  BY <1>1, <1>2
<1> QED
  BY <1>1, <1>3 DEF a, b

LEMMA BytesTail ==
  ASSUME NEW M, Measured(M), NEW fs \in Seq(M), fs # <<>>, NEW kind, NEW s
  PROVE  /\ Head(fs) \in M /\ Tail(fs) \in Seq(M)
         /\ Share(Head(fs), kind, s) \in Nat /\ Bytes(Tail(fs), kind, s) \in Nat
         /\ Bytes(fs, kind, s) = Share(Head(fs), kind, s) + Bytes(Tail(fs), kind, s)
<1> DEFINE a == Append(<<>>, Head(fs))
           b == Tail(fs)
<1>1. Head(fs) \in M /\ b \in Seq(M) /\ a \in Seq(M) /\ <<>> \in Seq(M)
  OBVIOUS
<1>2. fs = a \o b
  OBVIOUS
<1>3. Bytes(a, kind, s) = Bytes(<<>>, kind, s) + Share(Head(fs), kind, s) /\ Share(Head(fs), kind, s) \in Nat
  <2> DEFINE e == <<>>
             h == Head(fs)
  <2>1. e \in Seq(M) /\ h \in M
    BY <1>1
  <2> HIDE DEF e, h
  <2>2. Bytes(Append(e, h), kind, s) = Bytes(e, kind, s) + Share(h, kind, s) /\ Share(h, kind, s) \in Nat
    BY <2>1, BytesAppend
  <2> QED
    BY <2>2 DEF e, h
<1>4. Bytes(b, kind, s) \in Nat
  BY <1>1, BytesTyped
<1> HIDE DEF a, b
<1>5. Bytes(a \o b, kind, s) = Bytes(a, kind, s) + Bytes(b, kind, s)
  BY <1>1, BytesConcat
<1>6. Bytes(fs, kind, s) = Share(Head(fs), kind, s) + Bytes(b, kind, s)
  BY <1>2, <1>3, <1>4, <1>5, BytesOfNothing
<1> QED
  BY <1>1, <1>3, <1>4, <1>6 DEF b

-----------------------------------------------------------------------------
\* The inductive invariant.

Entry == [credit : Nat, unrendered : Nat, ungranted : Nat]

\* A window is in one of its three places.
Whole(e) == e \in Entry /\ e.credit + e.unrendered + e.ungranted = Initial

Unrendered(book) == [s \in DOMAIN book |-> book[s].unrendered]

\* The ledger: the type of it, and LedgerBalances and SharedBudgetBalances.
LedgerOK ==
  /\ DOMAIN ledger \subseteq Streams
  /\ ledger = [s \in DOMAIN ledger |-> ledger[s]]
  /\ \A s \in DOMAIN ledger : Whole(ledger[s])
  /\ total \in Nat /\ totalUngranted \in Nat
  /\ total + totalUngranted + SumFunction(Unrendered(ledger)) = TotalInitial

\* The type of everything else.
PlainOK ==
  /\ allowance \in [Streams -> (1 - Chunk)..Maximum]
  /\ written \in [Streams -> Nat] /\ exits \in [Streams -> Nat] /\ charged \in [Streams -> Nat]
  /\ gone \subseteq Streams
  /\ wire \in Seq(Frame) /\ buffer \in Seq(Frame) /\ signals \in Seq(Signal)
  /\ acking \in [Streams -> Nat]
  /\ reader \in {"top", "read", "decode"} \/ Dropped
  /\ pane \in [Streams -> {"shown", "forgotten", "posted", "detached", "closed"}]
  /\ inFlight \in [Streams -> Nat] /\ pending \in [Streams -> Nat]
  /\ idleAcks \subseteq {s \in Streams : pending[s] > 0}
  /\ reconnects \in 0..MaxReconnects

\* What was read is routed to the last frame before the next read.
BufferIsRead == reader \in {"top", "read"} => buffer = <<>>

\* The reader hears of a detach once the table has forgotten the stream.
DetachIsTold ==
  \A k \in DOMAIN signals :
    signals[k].kind = "detach" => pane[signals[k].stream] \notin {"shown", "forgotten"}

\* What the daemon promises is never more than the ledger has and exit frames took.
NeverOverdrawn ==
  \A s \in Streams :
    Attached(s) /\ ~Dropped => Promised(s) <= Book(s).credit + charged[s]

\* The webview's own count, and its reports, are of frames it was delivered.
Claimed(s) == inFlight[s] + pending[s] + Bytes(signals, "rendered", s)

NothingMadeUp ==
  reconnects = 0 => \A s \in Streams : Attached(s) => Claimed(s) <= Book(s).unrendered

CreditInv ==
  /\ PlainOK /\ LedgerOK /\ BufferIsRead /\ DetachIsTold
  /\ MirrorAgrees /\ NeverOverdrawn /\ NothingMadeUp /\ HonestDaemonIsKept

-----------------------------------------------------------------------------
\* The ledger.

LEMMA MinOfTwo ==
  ASSUME NEW a \in Int, NEW b \in Int
  PROVE  Min({a, b}) = IF a <= b THEN a ELSE b
<1>1. \E x \in {a, b} : \A y \in {a, b} : x <= y
  OBVIOUS
<1>2. Min({a, b}) \in {a, b} /\ \A y \in {a, b} : Min({a, b}) <= y
  BY <1>1 DEF Min
<1> QED
  BY <1>2

LEMMA FramesMeasured == Measured(Frame) /\ Measured(Signal)
BY DEF Measured, Frame, Signal

LEMMA ConstantsTyped ==
  /\ {ExitBytes, Initial, Maximum, TotalInitial, TotalMax, AckBatch, Chunk} \subseteq Nat \ {0}
  /\ Initial <= Maximum /\ TotalInitial <= TotalMax /\ Initial <= TotalInitial /\ MaxReconnects \in Nat
BY CreditAssumption DEF Coherent

LEMMA BooksWhole ==
  ASSUME LedgerOK, NEW s \in Streams
  PROVE  Whole(Book(s)) /\ (s \notin DOMAIN ledger => Book(s).unrendered = 0 /\ Book(s).ungranted = 0)
<1>1. Whole(Fresh) /\ Fresh.unrendered = 0 /\ Fresh.ungranted = 0
  BY ConstantsTyped DEF Whole, Fresh, Entry
<1> QED
  BY <1>1 DEF LedgerOK, Book

\* The entry of one stream is replaced, or made.
Enters(x, e) == ledger' = [s \in DOMAIN ledger \cup {x} |-> IF s = x THEN e ELSE ledger[s]]

LEMMA EntersBook ==
  ASSUME NEW x, NEW e, Enters(x, e), NEW s
  PROVE  /\ DOMAIN ledger' = DOMAIN ledger \cup {x}
         /\ Book(s)' = IF s = x THEN e ELSE Book(s)
BY DEF Enters, Book, Fresh

\* The sum goes up and down with the entry.
LEMMA UnrenderedMoves ==
  ASSUME LedgerOK, NEW x \in Streams, NEW e, Whole(e), NEW book,
         book = [s \in DOMAIN ledger \cup {x} |-> IF s = x THEN e ELSE ledger[s]]
  PROVE  /\ SumFunction(Unrendered(ledger)) \in Nat /\ SumFunction(Unrendered(book)) \in Nat
         /\ SumFunction(Unrendered(book)) + Book(x).unrendered
              = SumFunction(Unrendered(ledger)) + e.unrendered
<1> DEFINE f == Unrendered(ledger)
           g == Unrendered(book)
<1>1. DOMAIN f = DOMAIN ledger /\ DOMAIN g = DOMAIN ledger \cup {x}
  BY DEF Unrendered
<1>2. \A y \in DOMAIN f : f[y] \in Nat /\ f[y] = Book(y).unrendered /\ (y # x => f[y] = g[y])
  BY DEF Unrendered, LedgerOK, Whole, Entry, Book
<1>3. g[x] = e.unrendered /\ g[x] \in Nat
  BY DEF Unrendered, Whole, Entry
<1>4. Summable(f)
  <2>1. f = [s \in DOMAIN ledger |-> ledger[s].unrendered]
    BY DEF Unrendered
  <2>2. f \in [DOMAIN f -> Nat]
    BY <1>1, <1>2, <2>1
  <2>3. IsFiniteSet(DOMAIN f)
    BY <1>1, CreditAssumption, FS_Subset DEF LedgerOK
  <2> QED
    BY <2>2, <2>3 DEF Summable
<1>5. Summable(g)
  <2>1. g = [s \in DOMAIN ledger \cup {x} |-> book[s].unrendered]
    BY DEF Unrendered
  <2>2. g \in [DOMAIN g -> Nat]
    BY <1>1, <1>2, <1>3, <2>1
  <2>3. IsFiniteSet(DOMAIN g)
    <3>1. DOMAIN g \subseteq Streams
      BY <1>1 DEF LedgerOK
    <3> QED
      BY <3>1, CreditAssumption, FS_Subset
  <2> QED
    BY <2>2, <2>3 DEF Summable
<1> HIDE DEF f, g
<1>6. CASE x \in DOMAIN ledger
  <2>1. SumFunction(f) \in Nat /\ SumFunction(g) \in Nat /\ SumFunction(g) + f[x] = SumFunction(f) + g[x]
    BY <1>1, <1>2, <1>4, <1>5, <1>6, SumChanges
  <2> QED
    BY <1>1, <1>2, <1>3, <1>6, <2>1 DEF f, g
<1>7. CASE x \notin DOMAIN ledger
  <2>0. DOMAIN g = DOMAIN f \cup {x} /\ x \notin DOMAIN f /\ \A y \in DOMAIN f : f[y] = g[y]
    BY <1>1, <1>2, <1>7
  <2>1. SumFunction(f) \in Nat /\ SumFunction(g) \in Nat /\ SumFunction(g) = SumFunction(f) + g[x]
    BY <2>0, <1>4, <1>5, SumGrows
  <2>2. Book(x).unrendered = 0
    BY <1>7, BooksWhole
  <2> QED
    BY <1>3, <2>1, <2>2 DEF f, g
<1> QED
  BY <1>6, <1>7

LEMMA EntersKeeps ==
  ASSUME LedgerOK, NEW x \in Streams, NEW e, Whole(e), Enters(x, e),
         total' \in Nat, totalUngranted' \in Nat,
         total' + totalUngranted' + e.unrendered = total + totalUngranted + Book(x).unrendered
  PROVE  LedgerOK'
<1>1. /\ SumFunction(Unrendered(ledger)) \in Nat /\ SumFunction(Unrendered(ledger')) \in Nat
      /\ SumFunction(Unrendered(ledger')) + Book(x).unrendered
           = SumFunction(Unrendered(ledger)) + e.unrendered
  BY UnrenderedMoves DEF Enters
<1>2. e.unrendered \in Nat /\ Book(x).unrendered \in Nat
  BY BooksWhole DEF Whole, Entry
<1>3. total' + totalUngranted' + SumFunction(Unrendered(ledger')) = TotalInitial
  BY <1>1, <1>2 DEF LedgerOK
<1>4. /\ DOMAIN ledger' \subseteq Streams
      /\ ledger' = [s \in DOMAIN ledger' |-> ledger'[s]]
      /\ \A s \in DOMAIN ledger' : Whole(ledger'[s])
  BY DEF LedgerOK, Enters
<1> QED
  BY <1>3, <1>4 DEF LedgerOK, Whole, Entry

\* A frame is charged to the stream's window and to the shared budget.
Charged(s, n) == [Book(s) EXCEPT !.credit = @ - n, !.unrendered = @ + n]

LEMMA ChargedCredit ==
  ASSUME LedgerOK, NEW s \in Streams, NEW n
  PROVE  Charged(s, n).credit = Book(s).credit - n
<1> DEFINE b == Book(s)
<1>1. b \in Entry
  BY BooksWhole DEF Whole
<1>2. Charged(s, n) = [b EXCEPT !.credit = @ - n, !.unrendered = @ + n]
  BY DEF Charged
<1> HIDE DEF b
<1>3. Charged(s, n).credit = b.credit - n
  BY <1>1, <1>2 DEF Entry
<1> QED
  BY <1>3 DEF b

LEMMA DeliverEffect ==
  ASSUME LedgerOK, PlainOK, Deliver
  PROVE  LET f == Head(buffer) IN
         /\ f \in Frame /\ Attached(f.stream)
         /\ f.bytes <= Book(f.stream).credit
         /\ Whole(Charged(f.stream, f.bytes))
         /\ Enters(f.stream, Charged(f.stream, f.bytes))
         /\ LedgerOK'
<1> DEFINE f == Head(buffer)
           s == f.stream
           n == f.bytes
           e == Charged(s, n)
<1>1. f \in Frame /\ s \in Streams /\ n \in Nat /\ Attached(s) /\ Receive(f) /\ totalUngranted' = totalUngranted
  <2>1. buffer \in Seq(Frame) /\ buffer # <<>>
    BY DEF Deliver, PlainOK
  <2>2. f \in Frame
    BY <2>1
  <2> QED
    BY <2>2 DEF Deliver, Frame
<1> HIDE DEF f
<1>2. Opened(s) = [t \in DOMAIN ledger \cup {s} |-> IF t = s THEN Book(s) ELSE ledger[t]]
  BY DEF Opened, Book, LedgerOK
<1>3. Whole(Book(s))
  BY <1>1, BooksWhole
<1>4. n <= Book(s).credit /\ n <= total
  <2>1. n <= Min({Book(s).credit, total})
    BY <1>1, <1>2 DEF Receive, Available
  <2>2. Book(s).credit \in Nat /\ total \in Nat
    BY <1>3 DEF Whole, Entry, LedgerOK
  <2> QED
    BY <1>1, <2>1, <2>2, MinOfTwo
<1>5. Enters(s, e) /\ total' = total - n
  BY <1>1, <1>2 DEF Receive, Enters, Charged
<1>6. Whole(e) /\ e.unrendered = Book(s).unrendered + n
  <2> DEFINE b == Book(s)
  <2>1. b \in Entry /\ b.credit + b.unrendered + b.ungranted = Initial /\ n <= b.credit /\ n \in Nat
    BY <1>1, <1>3, <1>4 DEF Whole
  <2>2. e = [b EXCEPT !.credit = @ - n, !.unrendered = @ + n]
    BY DEF Charged
  <2> HIDE DEF b, e, n
  <2>3. /\ e = [credit |-> b.credit - n, unrendered |-> b.unrendered + n, ungranted |-> b.ungranted]
        /\ {b.credit, b.unrendered, b.ungranted} \subseteq Nat
    BY <2>1, <2>2 DEF Entry
  <2> QED
    BY <2>1, <2>3, ConstantsTyped DEF Whole, Entry, b
<1>7. LedgerOK'
  <2>1. total' \in Nat /\ totalUngranted' \in Nat /\ Book(s).unrendered \in Nat
    BY <1>1, <1>3, <1>4, <1>5 DEF LedgerOK, Whole, Entry
  <2>2. total' + totalUngranted' + e.unrendered = total + totalUngranted + Book(s).unrendered
    BY <1>1, <1>3, <1>4, <1>5, <1>6 DEF LedgerOK, Whole, Entry
  <2> HIDE DEF e, s, n
  <2>3. s \in Streams
    BY <1>1
  <2> QED
    BY <1>5, <1>6, <2>1, <2>2, <2>3, EntersKeeps
<1> QED
  BY <1>1, <1>4, <1>5, <1>6, <1>7 DEF f

\* What is acked and given back is never cut by the window: it was granted once.
LEMMA NothingIsCut ==
  ASSUME LedgerOK
  PROVE  /\ \A s \in DOMAIN ledger : Drained(s) = ledger[s].ungranted
         /\ SumFunction(Unrendered(ledger)) \in Nat
         /\ \A n \in Nat : n <= totalUngranted + SumFunction(Unrendered(ledger)) => Restored(n) = n
<1>1. ASSUME NEW s \in DOMAIN ledger
      PROVE  Drained(s) = ledger[s].ungranted
  <2> DEFINE c == ledger[s].credit
             u == ledger[s].ungranted
  <2>1. c \in Nat /\ u \in Nat /\ c + u <= Maximum /\ Maximum \in Nat
    BY ConstantsTyped DEF LedgerOK, Whole, Entry
  <2> HIDE DEF c, u
  <2>2. Min({c, Maximum}) = c
    BY <2>1, MinOfTwo
  <2>3. Min({u, Maximum - c}) = u
    BY <2>1, MinOfTwo
  <2> QED
    BY <2>2, <2>3 DEF Drained, c, u
<1>2. SumFunction(Unrendered(ledger)) \in Nat
  <2> DEFINE f == Unrendered(ledger)
  <2>1. f = [s \in DOMAIN ledger |-> ledger[s].unrendered]
    BY DEF Unrendered
  <2>2. f \in [DOMAIN ledger -> Nat]
    BY <2>1 DEF LedgerOK, Whole, Entry
  <2>3. IsFiniteSet(DOMAIN ledger)
    BY CreditAssumption, FS_Subset DEF LedgerOK
  <2> HIDE DEF f
  <2>4. SumFunction(f) \in Nat
    BY <2>2, <2>3, SumTyped
  <2> QED
    BY <2>4 DEF f
<1>3. ASSUME NEW n \in Nat, n <= totalUngranted + SumFunction(Unrendered(ledger))
      PROVE  Restored(n) = n
  <2>1. total \in Nat /\ TotalMax \in Nat /\ total + n <= TotalMax
    BY <1>2, <1>3, ConstantsTyped DEF LedgerOK
  <2>2. Min({total, TotalMax}) = total
    BY <2>1, MinOfTwo
  <2>3. Min({n, TotalMax - total}) = n
    BY <2>1, MinOfTwo
  <2> QED
    BY <2>2, <2>3 DEF Restored
<1> QED
  BY <1>1, <1>2, <1>3

LEMMA UnrenderedIn ==
  ASSUME LedgerOK, NEW s \in Streams
  PROVE  Book(s).unrendered \in Nat /\ Book(s).unrendered <= SumFunction(Unrendered(ledger))
<1> DEFINE f == Unrendered(ledger)
<1>1. f = [t \in DOMAIN ledger |-> ledger[t].unrendered]
  BY DEF Unrendered
<1>2. SumFunction(f) \in Nat
  BY NothingIsCut
<1>3. Book(s).unrendered \in Nat
  BY BooksWhole DEF Whole, Entry
<1>4. Summable(f)
  <2>1. f \in [DOMAIN f -> Nat] /\ DOMAIN f = DOMAIN ledger
    BY <1>1 DEF LedgerOK, Whole, Entry
  <2>2. IsFiniteSet(DOMAIN f)
    BY <2>1, CreditAssumption, FS_Subset DEF LedgerOK
  <2> QED
    BY <2>1, <2>2 DEF Summable
<1>5. DOMAIN f = DOMAIN ledger /\ \A t \in DOMAIN ledger : f[t] = Book(t).unrendered
  BY <1>1 DEF Book
<1> HIDE DEF f
<1>6. CASE s \in DOMAIN ledger
  BY <1>3, <1>4, <1>5, <1>6, SumAtLeast DEF f
<1>7. CASE s \notin DOMAIN ledger
  BY <1>2, <1>7, BooksWhole DEF f
<1> QED
  BY <1>6, <1>7

LEMMA DetachEffect ==
  ASSUME LedgerOK, NEW x \in Streams, ApplyDetach(x)
  PROVE  /\ x \notin DOMAIN ledger'
         /\ \A s \in Streams \ {x} : (s \in DOMAIN ledger' <=> s \in DOMAIN ledger) /\ Book(s)' = Book(s)
         /\ UNCHANGED <<charged, acking, reader>>
         /\ LedgerOK'
<1>1. CASE x \notin DOMAIN ledger
  BY <1>1 DEF ApplyDetach, Book, LedgerOK
<1>2. CASE x \in DOMAIN ledger
  <2> DEFINE f == Unrendered(ledger')
             g == Unrendered(ledger)
  <2>1. /\ ledger' = [s \in DOMAIN ledger \ {x} |-> ledger[s]]
        /\ total' = Min({TotalMax, total + ledger[x].unrendered})
        /\ UNCHANGED <<totalUngranted, charged, acking, reader>>
    BY <1>2 DEF ApplyDetach, Restrict
  <2>2. \A s \in DOMAIN ledger : ledger[s].unrendered \in Nat
    BY DEF LedgerOK, Whole, Entry
  <2>3. /\ f = [s \in DOMAIN ledger \ {x} |-> ledger[s].unrendered]
        /\ g = [s \in DOMAIN ledger |-> ledger[s].unrendered]
    BY <2>1 DEF Unrendered
  <2>4. Summable(f) /\ Summable(g)
    <3>1. IsFiniteSet(DOMAIN f) /\ IsFiniteSet(DOMAIN g)
      BY <2>3, CreditAssumption, FS_Subset DEF LedgerOK
    <3>2. f \in [DOMAIN f -> Nat] /\ g \in [DOMAIN g -> Nat]
      BY <2>2, <2>3
    <3> QED
      BY <3>1, <3>2 DEF Summable
  <2>5. DOMAIN g = DOMAIN f \cup {x} /\ x \notin DOMAIN f /\ \A y \in DOMAIN f : f[y] = g[y]
    BY <1>2, <2>3
  <2>6. g[x] = ledger[x].unrendered
    BY <1>2, <2>3
  <2> HIDE DEF f, g
  <2>7. SumFunction(f) \in Nat /\ SumFunction(g) \in Nat /\ SumFunction(g) = SumFunction(f) + g[x]
    BY <2>4, <2>5, SumGrows
  <2>8. total + totalUngranted + SumFunction(g) = TotalInitial /\ total \in Nat /\ totalUngranted \in Nat
    BY DEF LedgerOK, g
  <2>9. total' = total + ledger[x].unrendered
    <3>1. total + ledger[x].unrendered \in Nat /\ total + ledger[x].unrendered <= TotalMax /\ TotalMax \in Nat
      BY <1>2, <2>2, <2>6, <2>7, <2>8, ConstantsTyped
    <3> QED
      BY <2>1, <3>1, MinOfTwo
  <2>10. total' + totalUngranted' + SumFunction(f) = TotalInitial /\ total' \in Nat /\ totalUngranted' \in Nat
    <3>1. totalUngranted' = totalUngranted
      BY <2>1
    <3>2. ledger[x].unrendered \in Nat
      BY <1>2, <2>2
    <3> QED
      BY ONLY <2>6, <2>7, <2>8, <2>9, <3>1, <3>2
  <2>11. LedgerOK'
    BY <2>1, <2>10 DEF LedgerOK, Whole, Entry, f
  <2> QED
    BY <2>1, <2>11 DEF Book
<1> QED
  BY <1>1, <1>2

\* An ack that is sent, or batched.
Credited(s, n, g) == [Book(s) EXCEPT !.credit = @ + g, !.unrendered = @ - n, !.ungranted = @ + n - g]

Phantom(s, n) ==
  /\ UNCHANGED <<ledgerVars, acking>>
  /\ reader' = reader \/ (reader' = "phantom_ack" /\ Attached(s) /\ n > Book(s).unrendered)

Acks(s, n, g) ==
  /\ Attached(s)
  /\ n <= Book(s).unrendered
  /\ Enters(s, Credited(s, n, g))
  /\ acking' = [t \in Streams |-> IF t = s THEN acking[t] + g ELSE acking[t]]
  /\ UNCHANGED <<charged, reader>>

LEMMA CreditedWhole ==
  ASSUME NEW s, Whole(Book(s)), NEW n \in Nat, n <= Book(s).unrendered,
         NEW g \in Nat, g <= Book(s).ungranted + n
  PROVE  /\ Whole(Credited(s, n, g))
         /\ Credited(s, n, g) = [credit |-> Book(s).credit + g, unrendered |-> Book(s).unrendered - n,
                                 ungranted |-> Book(s).ungranted + n - g]
<1> DEFINE b == Book(s)
           e == Credited(s, n, g)
<1>1. b \in Entry /\ b.credit + b.unrendered + b.ungranted = Initial
  BY DEF Whole
<1>2. e = [b EXCEPT !.credit = @ + g, !.unrendered = @ - n, !.ungranted = @ + n - g]
  BY DEF Credited
<1>3. n <= b.unrendered /\ g <= b.ungranted + n
  OBVIOUS
<1> HIDE DEF b, e
<1>4. /\ e = [credit |-> b.credit + g, unrendered |-> b.unrendered - n, ungranted |-> b.ungranted + n - g]
      /\ {b.credit, b.unrendered, b.ungranted} \subseteq Nat
  BY <1>1, <1>2 DEF Entry
<1> QED
  BY <1>1, <1>3, <1>4, ConstantsTyped DEF Whole, Entry, b, e

LEMMA RenderedEffect ==
  ASSUME LedgerOK, acking \in [Streams -> Nat], NEW x \in Streams, NEW n \in Nat, ApplyRendered(x, n)
  PROVE  /\ LedgerOK'
         /\ Phantom(x, n) \/ \E g \in 0..(Book(x).ungranted + n) : Acks(x, n, g)
<1> DEFINE book  == IF Routed(x) THEN Opened(x) ELSE ledger
           batch == book[x].ungranted + n
           room  == Maximum - Min({book[x].credit, Maximum})
           spent == [book EXCEPT ![x].unrendered = @ - n]
           b     == Book(x)
           was   == [t \in DOMAIN ledger \cup {x} |-> IF t = x THEN b ELSE ledger[t]]
<1>1. \/ /\ x \in DOMAIN book => n > book[x].unrendered
         /\ reader' = IF x \in DOMAIN book THEN "phantom_ack" ELSE reader
         /\ UNCHANGED <<ledgerVars, acking>>
      \/ /\ x \in DOMAIN book /\ n <= book[x].unrendered /\ batch < AckBatch
         /\ ledger' = [spent EXCEPT ![x].ungranted = batch]
         /\ totalUngranted' = totalUngranted + n
         /\ UNCHANGED <<total, charged, acking, reader>>
      \/ /\ x \in DOMAIN book /\ n <= book[x].unrendered /\ batch >= AckBatch
         /\ ledger' = [spent EXCEPT ![x].ungranted = 0, ![x].credit = @ + Min({batch, room})]
         /\ total' = total + Restored(totalUngranted + n)
         /\ totalUngranted' = 0
         /\ acking' = [acking EXCEPT ![x] = @ + Min({batch, room})]
         /\ UNCHANGED <<charged, reader>>
  BY Zenon DEF ApplyRendered
<1>2. x \in DOMAIN book <=> Attached(x)
  BY DEF Attached, Opened
<1>3. Attached(x) => book = was /\ book[x] = b
  <2>1. Opened(x) = was
    BY DEF Opened, Book, LedgerOK
  <2>2. x \in DOMAIN ledger => ledger = was
    BY DEF Book, LedgerOK
  <2>3. was[x] = b
    OBVIOUS
  <2> HIDE DEF was, b
  <2> QED
    BY <2>1, <2>2, <2>3 DEF Attached
<1>4a. b \in Entry
  BY BooksWhole DEF Whole
<1>4. /\ Whole(b) /\ b.credit + b.unrendered + b.ungranted = Initial
      /\ {b.credit, b.unrendered, b.ungranted} \subseteq Nat
  BY BooksWhole DEF Whole, Entry
<1>5. ASSUME n <= b.unrendered
      PROVE  Restored(totalUngranted + n) = totalUngranted + n
  BY <1>4, <1>5, NothingIsCut, UnrenderedIn DEF LedgerOK
<1>6. ASSUME n <= b.unrendered, NEW g \in 0..(b.ungranted + n), Enters(x, Credited(x, n, g)),
             total' \in Nat, totalUngranted' \in Nat, total' + totalUngranted' = total + totalUngranted + n
      PROVE  LedgerOK'
  <2> DEFINE e == Credited(x, n, g)
  <2>1. Whole(e) /\ e.unrendered = b.unrendered - n
    <3>1. g \in Nat /\ g <= Book(x).ungranted + n /\ n <= Book(x).unrendered
      BY <1>4, <1>6
    <3> QED
      BY <1>4, <3>1, CreditedWhole
  <2>2. Enters(x, e)
    BY <1>6
  <2> HIDE DEF e
  <2>3. total' + totalUngranted' + e.unrendered = total + totalUngranted + Book(x).unrendered
    BY <1>4, <1>6, <2>1 DEF LedgerOK
  <2> QED
    BY <1>6, <2>1, <2>2, <2>3, EntersKeeps
<1> HIDE DEF book
<1>7. CASE /\ x \in DOMAIN book => n > book[x].unrendered
           /\ reader' = IF x \in DOMAIN book THEN "phantom_ack" ELSE reader
           /\ UNCHANGED <<ledgerVars, acking>>
  <2>1. LedgerOK'
    BY <1>7 DEF LedgerOK, ledgerVars
  <2>2. Phantom(x, n)
    BY <1>2, <1>3, <1>7 DEF Phantom
  <2> QED
    BY <2>1, <2>2
<1>8. CASE /\ x \in DOMAIN book /\ n <= book[x].unrendered /\ batch < AckBatch
           /\ ledger' = [spent EXCEPT ![x].ungranted = batch]
           /\ totalUngranted' = totalUngranted + n
           /\ UNCHANGED <<total, charged, acking, reader>>
  <2>1. Attached(x) /\ book = was /\ book[x] = b /\ n <= b.unrendered
    BY <1>2, <1>3, <1>8
  <2>2. ledger' = [t \in DOMAIN ledger \cup {x} |->
                    IF t = x THEN [b EXCEPT !.unrendered = @ - n, !.ungranted = b.ungranted + n] ELSE ledger[t]]
    BY <1>8, <2>1
  <2>3. [b EXCEPT !.unrendered = @ - n, !.ungranted = b.ungranted + n] = Credited(x, n, 0)
    <3>1. 0 \in Nat /\ 0 <= Book(x).ungranted + n
      BY <1>4
    <3>2. Credited(x, n, 0) = [credit |-> Book(x).credit + 0, unrendered |-> Book(x).unrendered - n,
                               ungranted |-> Book(x).ungranted + n - 0]
      BY <1>4, <2>1, <3>1, CreditedWhole
    <3>3. b.credit + 0 = b.credit /\ b.ungranted + n - 0 = b.ungranted + n
      BY <1>4
    <3> DEFINE e == [b EXCEPT !.unrendered = @ - n, !.ungranted = b.ungranted + n]
    <3>4. e = [b EXCEPT !.unrendered = @ - n, !.ungranted = b.ungranted + n]
      OBVIOUS
    <3>5. Credited(x, n, 0) = [credit |-> b.credit, unrendered |-> b.unrendered - n, ungranted |-> b.ungranted + n]
      BY <3>2, <3>3
    <3> HIDE DEF e, b
    <3>6. e = [credit |-> b.credit, unrendered |-> b.unrendered - n, ungranted |-> b.ungranted + n]
      BY <1>4a, <3>4 DEF Entry
    <3> QED
      BY <3>5, <3>6 DEF e
  <2>4. Enters(x, Credited(x, n, 0))
    BY <2>2, <2>3 DEF Enters
  <2>5. acking' = [t \in Streams |-> IF t = x THEN acking[t] + 0 ELSE acking[t]]
    BY <1>8
  <2>6. Acks(x, n, 0)
    <3>1. UNCHANGED <<charged, reader>>
      BY <1>8
    <3>2. n <= Book(x).unrendered
      BY <2>1
    <3> QED
      BY ONLY <2>1, <2>4, <2>5, <3>1, <3>2 DEF Acks
  <2>7. 0 \in 0..(b.ungranted + n)
    BY <1>4
  <2>8. LedgerOK'
    <3>1. total' \in Nat /\ totalUngranted' \in Nat /\ total' + totalUngranted' = total + totalUngranted + n
      BY <1>8 DEF LedgerOK
    <3> QED
      BY <1>6, <2>1, <2>4, <2>7, <3>1
  <2> QED
    BY <2>6, <2>7, <2>8
<1>9. CASE /\ x \in DOMAIN book /\ n <= book[x].unrendered /\ batch >= AckBatch
           /\ ledger' = [spent EXCEPT ![x].ungranted = 0, ![x].credit = @ + Min({batch, room})]
           /\ total' = total + Restored(totalUngranted + n)
           /\ totalUngranted' = 0
           /\ acking' = [acking EXCEPT ![x] = @ + Min({batch, room})]
           /\ UNCHANGED <<charged, reader>>
  <2> DEFINE g == b.ungranted + n
  <2>1. Attached(x) /\ book = was /\ book[x] = b /\ n <= b.unrendered
    BY <1>2, <1>3, <1>9
  <2>2. g \in Nat /\ Min({batch, room}) = g
    <3>1. batch = g /\ room = Maximum - Min({b.credit, Maximum})
      BY <2>1
    <3> HIDE DEF b, batch, room
    <3>2. g \in Nat /\ Maximum \in Nat /\ b.credit \in Nat /\ g <= Maximum - b.credit
      BY <1>4, <2>1, ConstantsTyped
    <3> HIDE DEF g
    <3>3. Min({b.credit, Maximum}) = b.credit
      BY <3>2, MinOfTwo
    <3>4. Min({g, Maximum - b.credit}) = g
      BY <3>2, MinOfTwo
    <3> QED
      BY <3>1, <3>2, <3>3, <3>4
  <2>3. ledger' = [t \in DOMAIN ledger \cup {x} |->
                    IF t = x THEN [b EXCEPT !.unrendered = @ - n, !.ungranted = 0, !.credit = @ + g] ELSE ledger[t]]
    <3> DEFINE D == DOMAIN ledger \cup {x}
               h == [b EXCEPT !.unrendered = @ - n]
               l == spent
    <3>1. ledger' = [l EXCEPT ![x].ungranted = 0, ![x].credit = @ + g]
      BY <1>9, <2>2
    <3>2. l = [t \in D |-> IF t = x THEN h ELSE ledger[t]]
      BY <2>1
    <3>3. [h EXCEPT !.ungranted = 0, !.credit = @ + g]
            = [b EXCEPT !.unrendered = @ - n, !.ungranted = 0, !.credit = @ + g]
      <4> HIDE DEF b, g
      <4> QED
        BY <1>4a DEF Entry
    <3>4. x \in D
      OBVIOUS
    <3> HIDE DEF h, l, g, b, D, spent
    <3>5. ledger' = [t \in D |-> IF t = x THEN [h EXCEPT !.ungranted = 0, !.credit = @ + g] ELSE ledger[t]]
      BY <3>1, <3>2, <3>4
    <3> QED
      BY <3>3, <3>5 DEF D
  <2>4. [b EXCEPT !.unrendered = @ - n, !.ungranted = 0, !.credit = @ + g] = Credited(x, n, g)
    <3>1. g \in Nat /\ g <= Book(x).ungranted + n /\ n <= Book(x).unrendered
      BY <2>1, <2>2
    <3>2. Credited(x, n, g) = [credit |-> Book(x).credit + g, unrendered |-> Book(x).unrendered - n,
                               ungranted |-> Book(x).ungranted + n - g]
      <4> HIDE DEF g
      <4> QED
        BY <1>4, <3>1, CreditedWhole
    <3>3. b.ungranted + n - g = 0
      BY <1>4
    <3> DEFINE e == [b EXCEPT !.unrendered = @ - n, !.ungranted = 0, !.credit = @ + g]
    <3>4. e = [b EXCEPT !.unrendered = @ - n, !.ungranted = 0, !.credit = @ + g]
      OBVIOUS
    <3>5. Credited(x, n, g) = [credit |-> b.credit + g, unrendered |-> b.unrendered - n, ungranted |-> 0]
      BY <3>2, <3>3
    <3> HIDE DEF e, b, g
    <3>6. e = [credit |-> b.credit + g, unrendered |-> b.unrendered - n, ungranted |-> 0]
      BY <1>4a, <3>4 DEF Entry
    <3> QED
      BY <3>5, <3>6 DEF e
  <2>5. Enters(x, Credited(x, n, g))
    BY <2>3, <2>4 DEF Enters
  <2>6. acking' = [t \in Streams |-> IF t = x THEN acking[t] + g ELSE acking[t]]
    BY <1>9, <2>2
  <2>7. Acks(x, n, g)
    BY <1>9, <2>1, <2>5, <2>6 DEF Acks
  <2>8. total' = total + totalUngranted + n
    BY <1>5, <1>9, <2>1 DEF LedgerOK
  <2>9. total' \in Nat /\ totalUngranted' \in Nat /\ total' + totalUngranted' = total + totalUngranted + n
    BY <1>9, <2>8 DEF LedgerOK
  <2>10. g \in 0..(b.ungranted + n)
    BY <2>2
  <2>11. LedgerOK'
    BY <1>6, <2>1, <2>5, <2>9, <2>10
  <2> QED
    BY <2>7, <2>10, <2>11
<1> QED
  BY <1>1, <1>7, <1>8, <1>9

LEMMA FlushEffect ==
  ASSUME LedgerOK, acking \in [Streams -> Nat], FlushAcks
  PROVE  /\ LedgerOK'
         /\ DOMAIN ledger' = DOMAIN ledger
         /\ \A s \in Streams :
              /\ Book(s)'.credit = Book(s).credit + Book(s).ungranted
              /\ Book(s)'.unrendered = Book(s).unrendered
              /\ acking'[s] = acking[s] + Book(s).ungranted
         /\ acking' \in [Streams -> Nat]
<1>1. ledger' = [s \in DOMAIN ledger |->
                  [ledger[s] EXCEPT !.credit = @ + ledger[s].ungranted, !.ungranted = 0]]
  BY NothingIsCut DEF FlushAcks
<1>2. \A s \in DOMAIN ledger :
        /\ ledger'[s].credit = ledger[s].credit + ledger[s].ungranted
        /\ ledger'[s].unrendered = ledger[s].unrendered
        /\ Whole(ledger'[s])
  <2> TAKE s \in DOMAIN ledger
  <2> DEFINE b == ledger[s]
             e == ledger'[s]
  <2>1. e = [b EXCEPT !.credit = @ + b.ungranted, !.ungranted = 0]
    BY <1>1
  <2>2. b \in Entry /\ b.credit + b.unrendered + b.ungranted = Initial
    BY DEF LedgerOK, Whole
  <2> HIDE DEF b, e
  <2>3. /\ e = [credit |-> b.credit + b.ungranted, unrendered |-> b.unrendered, ungranted |-> 0]
        /\ {b.credit, b.unrendered, b.ungranted} \subseteq Nat
    BY <2>1, <2>2 DEF Entry
  <2>4. e.credit = b.credit + b.ungranted /\ e.unrendered = b.unrendered /\ Whole(e)
    BY <2>2, <2>3 DEF Whole, Entry
  <2> QED
    BY <2>4 DEF b, e
<1>3. Unrendered(ledger') = Unrendered(ledger)
  <2>1. DOMAIN ledger' = DOMAIN ledger
    BY <1>1
  <2> QED
    BY <1>2, <2>1 DEF Unrendered
<1>4. total' + totalUngranted' = total + totalUngranted /\ total' \in Nat /\ totalUngranted' \in Nat
  <2>1. Restored(totalUngranted) = totalUngranted
    BY NothingIsCut DEF LedgerOK
  <2>2. UNCHANGED <<total, totalUngranted>> \/ (total' = total + Restored(totalUngranted) /\ totalUngranted' = 0)
    BY Zenon DEF FlushAcks
  <2>3. total \in Nat /\ totalUngranted \in Nat
    BY DEF LedgerOK
  <2> QED
    BY <2>1, <2>2, <2>3
<1>5. LedgerOK'
  <2>1. total' + totalUngranted' + SumFunction(Unrendered(ledger')) = TotalInitial
    BY <1>3, <1>4 DEF LedgerOK
  <2>2. /\ DOMAIN ledger' = DOMAIN ledger
        /\ ledger' = [s \in DOMAIN ledger' |-> ledger'[s]]
        /\ \A s \in DOMAIN ledger' : Whole(ledger'[s])
    BY <1>1, <1>2
  <2> QED
    BY <1>4, <2>1, <2>2 DEF LedgerOK, Whole, Entry
<1>6. ASSUME NEW s \in Streams
      PROVE  /\ Book(s)'.credit = Book(s).credit + Book(s).ungranted
             /\ Book(s)'.unrendered = Book(s).unrendered
             /\ acking'[s] = acking[s] + Book(s).ungranted
             /\ acking'[s] \in Nat
  <2>1. acking'[s] = acking[s] + IF s \in Owing THEN Drained(s) ELSE 0
    BY DEF FlushAcks
  <2>2. CASE s \in DOMAIN ledger
    <3>1. Book(s) = ledger[s] /\ Book(s)' = ledger'[s]
      BY <1>1, <2>2 DEF Book
    <3>2. Drained(s) = ledger[s].ungranted /\ ledger[s].ungranted \in Nat
      BY <2>2, NothingIsCut DEF LedgerOK, Whole, Entry
    <3> QED
      BY <1>2, <2>1, <2>2, <3>1, <3>2 DEF Owing
  <2>3. CASE s \notin DOMAIN ledger
    <3>1. Book(s) = Fresh /\ Book(s)' = Fresh /\ s \notin Owing
      BY <1>1, <2>3 DEF Book, Owing, Fresh
    <3>2. Fresh.credit \in Nat /\ Fresh.ungranted = 0
      BY ConstantsTyped DEF Fresh
    <3> QED
      BY <2>1, <3>1, <3>2
  <2> QED
    BY <2>2, <2>3
<1>7. acking' \in [Streams -> Nat]
  <2>1. acking' = [s \in Streams |-> acking'[s]]
    BY DEF FlushAcks
  <2> QED
    BY <1>6, <2>1
<1> QED
  BY <1>1, <1>5, <1>6, <1>7

LEMMA NewBooks ==
  /\ SumFunction(Unrendered([s \in {} |-> 0])) = 0
  /\ TotalInitial \in Nat
<1> DEFINE f == Unrendered([s \in {} |-> 0])
<1>1. DOMAIN f = {}
  BY DEF Unrendered
<1> HIDE DEF f
<1>2. SumFunction(f) = 0
  BY <1>1, SumOfNothing
<1> QED
  BY <1>2, ConstantsTyped DEF f

LEMMA ReconnectEffect ==
  ASSUME Reconnect
  PROVE  LedgerOK' /\ \A s \in Streams : Book(s)' = Fresh
<1>1. ledger' = [s \in {} |-> 0] /\ total' = TotalInitial /\ totalUngranted' = 0
  BY DEF Reconnect
<1>2. DOMAIN ledger' = {}
  BY <1>1
<1>3. total' + totalUngranted' + SumFunction(Unrendered(ledger')) = TotalInitial
  BY <1>1, NewBooks
<1>4. ledger' = [s \in DOMAIN ledger' |-> ledger'[s]]
  BY <1>1
<1> QED
  BY <1>1, <1>2, <1>3, <1>4, NewBooks DEF LedgerOK, Book, Fresh

\* A signal that is taken is the first of the inbox.
LEMMA FirstSignal ==
  ASSUME PlainOK, TakeSignal
  PROVE  /\ Head(signals) \in Signal /\ signals' = Tail(signals) /\ signals # <<>>
         /\ Head(signals).stream \in Streams /\ Head(signals).bytes \in Nat
         /\ \/ Head(signals).kind = "detach" /\ ApplyDetach(Head(signals).stream)
            \/ Head(signals).kind = "rendered" /\ ApplyRendered(Head(signals).stream, Head(signals).bytes)
<1>1. signals \in Seq(Signal) /\ signals # <<>> /\ signals' = Tail(signals)
  BY DEF PlainOK, TakeSignal
<1>2. Head(signals) \in Signal
  BY <1>1
<1>3. IF Head(signals).kind = "detach" THEN ApplyDetach(Head(signals).stream)
                               ELSE ApplyRendered(Head(signals).stream, Head(signals).bytes)
  BY Zenon DEF TakeSignal
<1>4. /\ Head(signals).stream \in Streams /\ Head(signals).bytes \in Nat
      /\ Head(signals).kind \in {"rendered", "detach"}
  BY <1>2 DEF Signal
<1> QED
  BY <1>1, <1>2, <1>3, <1>4

LEMMA LedgerKept ==
  ASSUME LedgerOK, PlainOK, Next
  PROVE  LedgerOK'
<1>1. CASE UNCHANGED ledgerVars
  BY <1>1 DEF LedgerOK, ledgerVars
<1>2. CASE TakeSignal
  BY <1>2, FirstSignal, DetachEffect, RenderedEffect DEF PlainOK
<1>3. CASE Flush
  BY <1>3, FlushEffect DEF Flush, PlainOK
<1>4. CASE Deliver
  BY <1>4, DeliverEffect
<1>5. CASE Reconnect
  BY <1>5, ReconnectEffect
<1>6. CASE Resume \/ Read \/ Discard \/ Drop \/ NextPass
  BY <1>1, <1>6 DEF Resume, Read, Discard, Drop, NextPass, ledgerVars
<1>7. ASSUME NEW s \in Streams,
             \/ \E n \in 1..Chunk : Send(s, n)
             \/ SendExit(s) \/ ApplyAck(s)
             \/ Forget(s) \/ PostDetach(s) \/ DaemonDetaches(s)
             \/ Render(s) \/ IdleAck(s) \/ CloseSurface(s)
      PROVE  LedgerOK'
  BY <1>1, <1>7 DEF Send, SendExit, ApplyAck, Forget, PostDetach, DaemonDetaches, Render, IdleAck,
                    CloseSurface, ledgerVars
<1> QED
  BY <1>2, <1>3, <1>4, <1>5, <1>6, <1>7 DEF Next, Reader

LEMMA PlainKept ==
  ASSUME LedgerOK, PlainOK, Next
  PROVE  PlainOK'
<1> USE DEF Dropped, daemonVars, ledgerVars, webVars
<1>1. ASSUME NEW s \in Streams, NEW n \in 1..Chunk, Send(s, n)
      PROVE  PlainOK'
  <2>1. [stream |-> s, kind |-> "output", bytes |-> n] \in Frame
    BY DEF Frame, Kinds
  <2>2. wire' \in Seq(Frame)
    BY <1>1, <2>1 DEF Send, PlainOK
  <2>3. allowance' \in [Streams -> (1 - Chunk)..Maximum]
    <3>1. allowance \in [Streams -> (1 - Chunk)..Maximum] /\ allowance[s] > 0
      BY <1>1 DEF Send, PlainOK
    <3>2. allowance[s] - n \in (1 - Chunk)..Maximum
      BY <3>1, ConstantsTyped
    <3> QED
      BY <1>1, <3>1, <3>2 DEF Send
  <2>4. written' \in [Streams -> Nat] /\ exits' \in [Streams -> Nat] /\ charged' \in [Streams -> Nat]
    <3>1. /\ written' = [written EXCEPT ![s] = @ + n] /\ UNCHANGED <<exits, charged>>
          /\ written \in [Streams -> Nat] /\ exits \in [Streams -> Nat] /\ charged \in [Streams -> Nat]
      BY <1>1 DEF Send, PlainOK
    <3> QED
      BY ONLY <3>1, ConstantsTyped, n \in 1..Chunk
  <2>5. UNCHANGED <<gone, acking, buffer, reader, signals, pane, inFlight, pending, idleAcks, reconnects>>
    BY <1>1 DEF Send
  <2> QED
    BY ONLY PlainOK, <2>2, <2>3, <2>4, <2>5 DEF PlainOK, Dropped
<1>2. ASSUME NEW s \in Streams, SendExit(s)
      PROVE  PlainOK'
  <2>1. [stream |-> s, kind |-> "exit", bytes |-> ExitBytes] \in Frame
    BY ConstantsTyped DEF Frame, Kinds
  <2>2. wire' \in Seq(Frame)
    BY <1>2, <2>1 DEF SendExit, PlainOK
  <2>3. written' \in [Streams -> Nat] /\ exits' \in [Streams -> Nat] /\ charged' \in [Streams -> Nat]
    <3>1. /\ exits' = [exits EXCEPT ![s] = @ + 1] /\ UNCHANGED <<written, charged>>
          /\ written \in [Streams -> Nat] /\ exits \in [Streams -> Nat] /\ charged \in [Streams -> Nat]
      BY <1>2 DEF SendExit, PlainOK
    <3> QED
      BY ONLY <3>1
  <2>4. UNCHANGED <<allowance, gone, acking, buffer, reader, signals, pane, inFlight, pending, idleAcks, reconnects>>
    BY <1>2 DEF SendExit
  <2> QED
    BY ONLY PlainOK, <2>2, <2>3, <2>4 DEF PlainOK, Dropped
<1>3. ASSUME NEW s \in Streams, ApplyAck(s)
      PROVE  PlainOK'
  <2>1. allowance[s] \in (1 - Chunk)..Maximum /\ acking[s] \in Nat /\ Maximum \in Nat /\ Chunk \in Nat \ {0}
    BY ConstantsTyped DEF PlainOK
  <2>2. Min({Maximum, allowance[s] + acking[s]}) \in (1 - Chunk)..Maximum
    <3> DEFINE c == allowance[s] + acking[s]
    <3>1. c \in Int /\ c >= 1 - Chunk /\ Maximum >= 1 - Chunk
      BY <2>1
    <3> HIDE DEF c
    <3>2. Min({Maximum, c}) = IF Maximum <= c THEN Maximum ELSE c
      BY <2>1, <3>1, MinOfTwo
    <3>3. Min({Maximum, c}) \in (1 - Chunk)..Maximum
      BY <2>1, <3>1, <3>2
    <3> QED
      BY <3>3 DEF c
  <2>3. allowance' \in [Streams -> (1 - Chunk)..Maximum]
    BY <1>3, <2>2 DEF ApplyAck, PlainOK
  <2>4. acking' \in [Streams -> Nat]
    BY <1>3 DEF ApplyAck, PlainOK
  <2> QED
    BY <1>3, <2>3, <2>4 DEF ApplyAck, PlainOK
<1>4. CASE TakeSignal
  <2>1. signals' \in Seq(Signal)
    <3>1. signals \in Seq(Signal) /\ signals # <<>> /\ signals' = Tail(signals)
      BY <1>4 DEF TakeSignal, PlainOK
    <3> QED
      BY <3>1
  <2>2. acking' \in [Streams -> Nat] /\ reader' \in {"top", "phantom_ack"} /\ UNCHANGED charged
    <3> DEFINE x == Head(signals).stream
               n == Head(signals).bytes
    <3>0. acking \in [Streams -> Nat] /\ reader = "top"
      BY <1>4 DEF PlainOK, TakeSignal
    <3>1. x \in Streams /\ n \in Nat /\ (ApplyDetach(x) \/ ApplyRendered(x, n))
      BY <1>4, FirstSignal
    <3>2. ASSUME ApplyDetach(x)
          PROVE  acking' \in [Streams -> Nat] /\ reader' = "top" /\ UNCHANGED charged
      BY <3>0, <3>2 DEF ApplyDetach
    <3>3. ASSUME Phantom(x, n)
          PROVE  acking' \in [Streams -> Nat] /\ reader' \in {"top", "phantom_ack"} /\ UNCHANGED charged
      BY <3>0, <3>3 DEF Phantom
    <3>4. ASSUME NEW g \in 0..(Book(x).ungranted + n), Acks(x, n, g)
          PROVE  acking' \in [Streams -> Nat] /\ reader' = "top" /\ UNCHANGED charged
      <4>1. g \in Nat
        BY <3>1, <3>4, BooksWhole DEF Whole, Entry
      <4> QED
        BY <3>0, <3>4, <4>1 DEF Acks
    <3> HIDE DEF x, n
    <3> QED
      BY <3>0, <3>1, <3>2, <3>3, <3>4, RenderedEffect
  <2> QED
    BY <1>4, <2>1, <2>2 DEF TakeSignal, PlainOK
<1>5. CASE Flush
  BY <1>5, FlushEffect DEF Flush, FlushAcks, PlainOK
<1>6. CASE Resume \/ NextPass \/ Drop
  BY <1>6 DEF Resume, NextPass, Drop, PlainOK
<1>7. CASE Read
  <2>1. PICK n \in 1..Len(wire) : /\ buffer' = SubSeq(wire, 1, n) /\ wire' = SubSeq(wire, n + 1, Len(wire))
                                  /\ reader' = "decode"
                                  /\ UNCHANGED <<daemonVars, acking, signals, ledgerVars, pane, webVars>>
    BY <1>7 DEF Read
  <2>2. wire \in Seq(Frame)
    BY DEF PlainOK
  <2>3. buffer' \in Seq(Frame) /\ wire' \in Seq(Frame)
    BY <2>1, <2>2
  <2> QED
    BY <2>1, <2>3 DEF PlainOK
<1>8. CASE Deliver \/ Discard
  <2>1. buffer \in Seq(Frame) /\ buffer # <<>> /\ buffer' = Tail(buffer)
    BY <1>8 DEF Deliver, Discard, PlainOK
  <2>2. buffer' \in Seq(Frame) /\ Head(buffer) \in Frame
    BY <2>1
  <2>3. Head(buffer).stream \in Streams /\ Head(buffer).bytes \in Nat
    BY <2>2 DEF Frame
  <2>4. inFlight' \in [Streams -> Nat]
    <3> DEFINE x == Head(buffer).stream
               n == Head(buffer).bytes
    <3>1. inFlight' = inFlight \/ inFlight' = [inFlight EXCEPT ![x] = @ + n]
      BY <1>8 DEF Deliver, Discard
    <3>2. inFlight \in [Streams -> Nat] /\ x \in Streams /\ n \in Nat
      BY <2>3 DEF PlainOK
    <3> HIDE DEF x, n
    <3> QED
      BY <3>1, <3>2
  <2>7. charged' \in [Streams -> Nat]
    <3> DEFINE x == Head(buffer).stream
               n == Head(buffer).bytes
    <3>1. charged' = charged \/ charged' = [charged EXCEPT ![x] = @ + n]
      BY <1>8 DEF Deliver, Discard
    <3>2. charged \in [Streams -> Nat] /\ x \in Streams /\ n \in Nat
      BY <2>3 DEF PlainOK
    <3> HIDE DEF x, n
    <3> QED
      BY <3>1, <3>2
  <2>5. reader = "decode" /\ reader' = reader
    BY <1>8 DEF Deliver, Discard
  <2>6. /\ UNCHANGED <<daemonVars, wire, acking, signals, pane, pending, idleAcks, reconnects>>
    BY <1>8 DEF Deliver, Discard
  <2> QED
    BY <2>2, <2>4, <2>5, <2>6, <2>7 DEF PlainOK
<1>9. ASSUME NEW s \in Streams, Forget(s) \/ DaemonDetaches(s)
      PROVE  PlainOK'
  <2>1. pane' = [pane EXCEPT ![s] = "forgotten"] \/ pane' = [pane EXCEPT ![s] = "detached"]
    BY <1>9 DEF Forget, DaemonDetaches, PaneGoes
  <2>2. gone' = gone \/ gone' = gone \cup {s}
    BY <1>9 DEF Forget, DaemonDetaches
  <2>3. acking' = acking \/ acking' = [acking EXCEPT ![s] = 0]
    BY <1>9 DEF Forget, DaemonDetaches
  <2>4. UNCHANGED <<allowance, written, exits, charged, wire, buffer, reader, signals, webVars>>
    BY <1>9 DEF Forget, DaemonDetaches
  <2>5. pane' \in [Streams -> {"shown", "forgotten", "posted", "detached", "closed"}]
    BY <2>1 DEF PlainOK
  <2>6. acking' \in [Streams -> Nat] /\ gone' \subseteq Streams
    <3>1. acking \in [Streams -> Nat] /\ gone \subseteq Streams
      BY DEF PlainOK
    <3> QED
      BY <2>2, <2>3, <3>1
  <2> QED
    BY <2>4, <2>5, <2>6 DEF PlainOK
<1>10. ASSUME NEW s \in Streams, PostDetach(s)
      PROVE  PlainOK'
  <2>1. [kind |-> "detach", stream |-> s, bytes |-> 0] \in Signal
    BY DEF Signal
  <2>2. signals' \in Seq(Signal)
    BY <1>10, <2>1 DEF PostDetach, PlainOK
  <2> QED
    BY <1>10, <2>2 DEF PostDetach, PaneGoes, PlainOK
<1>11. ASSUME NEW s \in Streams, NEW n \in Nat, Report(s, n)
       PROVE  signals' \in Seq(Signal)
  <2>1. [kind |-> "rendered", stream |-> s, bytes |-> n] \in Signal
    BY DEF Signal
  <2> QED
    BY <1>11, <2>1 DEF Report, PlainOK
<1>12. ASSUME NEW s \in Streams, Render(s)
       PROVE  PlainOK'
  <2> DEFINE batch == pending[s] + inFlight[s]
  <2>1. inFlight \in [Streams -> Nat] /\ pending \in [Streams -> Nat] /\ batch \in Nat \ {0}
    BY <1>12 DEF PlainOK, Render
  <2>2. \/ Report(s, batch) /\ pending' = [pending EXCEPT ![s] = 0] /\ idleAcks' = idleAcks \ {s}
        \/ pending' = [pending EXCEPT ![s] = batch] /\ idleAcks' = idleAcks \cup {s} /\ UNCHANGED signals
    BY <1>12 DEF Render
  <2>3. inFlight' = [inFlight EXCEPT ![s] = 0]
        /\ UNCHANGED <<daemonVars, wire, acking, buffer, reader, ledgerVars, pane, reconnects>>
    BY <1>12 DEF Render
  <2> HIDE DEF batch
  <2>4. signals' \in Seq(Signal)
    BY <1>11, <2>1, <2>2 DEF PlainOK
  <2>5. inFlight' \in [Streams -> Nat] /\ pending' \in [Streams -> Nat]
    BY <2>1, <2>2, <2>3
  <2>6. idleAcks' \subseteq {t \in Streams : pending'[t] > 0}
    <3>1. idleAcks \subseteq {t \in Streams : pending[t] > 0}
      BY DEF PlainOK
    <3>2. ASSUME NEW t \in idleAcks'
          PROVE  t \in Streams /\ pending'[t] > 0
      <4>1. CASE pending' = [pending EXCEPT ![s] = 0] /\ idleAcks' = idleAcks \ {s}
        <5>1. t \in idleAcks /\ t # s
          BY <3>2, <4>1
        <5> QED
          BY <2>1, <3>1, <4>1, <5>1
      <4>2. CASE pending' = [pending EXCEPT ![s] = batch] /\ idleAcks' = idleAcks \cup {s}
        <5>1. t \in idleAcks \/ t = s
          BY <3>2, <4>2
        <5>2. t \in Streams
          BY <3>1, <5>1
        <5>3. pending'[t] = IF t = s THEN batch ELSE pending[t]
          BY <2>1, <4>2, <5>2
        <5> QED
          BY <2>1, <3>1, <5>1, <5>2, <5>3
      <4> QED
        BY <2>2, <4>1, <4>2
    <3> QED
      BY <3>2
  <2> QED
    BY <2>3, <2>4, <2>5, <2>6 DEF PlainOK
<1>13. ASSUME NEW s \in Streams, IdleAck(s) \/ CloseSurface(s)
       PROVE  PlainOK'
  <2>1. inFlight \in [Streams -> Nat] /\ pending \in [Streams -> Nat]
    BY DEF PlainOK
  <2>2. /\ Report(s, pending[s]) \/ UNCHANGED signals
        /\ pending' = [pending EXCEPT ![s] = 0] /\ idleAcks' = idleAcks \ {s}
    BY <1>13 DEF IdleAck, CloseSurface
  <2>3. inFlight' = inFlight \/ inFlight' = [inFlight EXCEPT ![s] = 0]
    BY <1>13 DEF IdleAck, CloseSurface
  <2>4. UNCHANGED <<daemonVars, wire, acking, buffer, reader, ledgerVars, reconnects>>
    BY <1>13 DEF IdleAck, CloseSurface
  <2>5. pane' = pane \/ pane' = [pane EXCEPT ![s] = "closed"]
    BY <1>13 DEF IdleAck, CloseSurface, PaneGoes
  <2>6. signals' \in Seq(Signal)
    BY <1>11, <2>1, <2>2 DEF PlainOK
  <2>7. inFlight' \in [Streams -> Nat] /\ pending' \in [Streams -> Nat]
    BY <2>1, <2>2, <2>3
  <2>8. idleAcks' \subseteq {t \in Streams : pending'[t] > 0}
    BY <2>1, <2>2 DEF PlainOK
  <2>9. pane' \in [Streams -> {"shown", "forgotten", "posted", "detached", "closed"}]
    BY <2>5 DEF PlainOK
  <2> QED
    BY <2>4, <2>6, <2>7, <2>8, <2>9 DEF PlainOK
<1>14. CASE Reconnect
  <2>1. reconnects' \in 0..MaxReconnects
    BY <1>14, ConstantsTyped DEF Reconnect, PlainOK
  <2>2. allowance' \in [Streams -> (1 - Chunk)..Maximum]
    BY <1>14, ConstantsTyped DEF Reconnect
  <2> QED
    BY <1>14, <2>1, <2>2 DEF Reconnect, Zero, PlainOK
<1> QED
  BY <1>1, <1>2, <1>3, <1>4, <1>5, <1>6, <1>7, <1>8, <1>9, <1>10, <1>12, <1>13, <1>14 DEF Next, Reader

-----------------------------------------------------------------------------
\* What is on the way.

LEMMA BufferKept ==
  ASSUME BufferIsRead, Next
  PROVE  BufferIsRead'
<1>1. CASE UNCHANGED <<buffer, reader>> \/ reader' \notin {"top", "read"} \/ buffer' = <<>>
  BY <1>1 DEF BufferIsRead
<1>2. CASE TakeSignal \/ Flush \/ Resume
  <2>1. reader \in {"top", "read"} /\ UNCHANGED buffer
    BY <1>2 DEF TakeSignal, Flush, Resume
  <2> QED
    BY <2>1 DEF BufferIsRead
<1>3. CASE Read \/ Deliver \/ Discard \/ Drop \/ NextPass \/ Reconnect
  BY <1>1, <1>3 DEF Read, Deliver, Discard, Drop, NextPass, Reconnect
<1>4. ASSUME NEW s \in Streams,
             \/ \E n \in 1..Chunk : Send(s, n)
             \/ SendExit(s) \/ ApplyAck(s)
             \/ Forget(s) \/ PostDetach(s) \/ DaemonDetaches(s)
             \/ Render(s) \/ IdleAck(s) \/ CloseSurface(s)
      PROVE  BufferIsRead'
  BY <1>1, <1>4 DEF Send, SendExit, ApplyAck, Forget, PostDetach, DaemonDetaches, Render, IdleAck,
                    CloseSurface
<1> QED
  BY <1>2, <1>3, <1>4 DEF Next, Reader

\* No pane is shown again once it is closing.
LEMMA DetachKept ==
  ASSUME PlainOK, DetachIsTold, Next
  PROVE  DetachIsTold'
<1>0. signals \in Seq(Signal) /\ pane \in [Streams -> {"shown", "forgotten", "posted", "detached", "closed"}]
  BY DEF PlainOK
<1>a. \A k \in DOMAIN signals : signals[k].stream \in Streams
  <2>1. \A k \in DOMAIN signals : signals[k] \in Signal
    BY <1>0
  <2> QED
    BY <2>1 DEF Signal
<1>1. CASE UNCHANGED <<signals, pane>>
  BY <1>1 DEF DetachIsTold
<1>2. ASSUME NEW m \in Signal, signals' = Append(signals, m) \/ UNCHANGED signals,
             \A s \in Streams : pane[s] \notin {"shown", "forgotten"} => pane'[s] \notin {"shown", "forgotten"},
             m.kind = "detach" => pane'[m.stream] \notin {"shown", "forgotten"}
      PROVE  DetachIsTold'
  <2>1. CASE UNCHANGED signals
    BY <1>a, <1>2, <2>1 DEF DetachIsTold
  <2>2. CASE signals' = Append(signals, m)
    <3>1. /\ DOMAIN signals' = 1..(Len(signals) + 1) /\ DOMAIN signals = 1..Len(signals)
          /\ signals'[Len(signals) + 1] = m /\ \A i \in DOMAIN signals : signals'[i] = signals[i]
      BY <1>0, <2>2
    <3> SUFFICES ASSUME NEW k \in DOMAIN signals', signals'[k].kind = "detach"
                 PROVE  pane'[signals'[k].stream] \notin {"shown", "forgotten"}
      BY DEF DetachIsTold
    <3>3. CASE k \in DOMAIN signals
      BY <1>a, <1>2, <3>1, <3>3 DEF DetachIsTold
    <3>4. CASE k = Len(signals) + 1
      BY <1>2, <3>1, <3>4
    <3> QED
      BY <1>0, <3>1, <3>3, <3>4
  <2> QED
    BY <1>2, <2>1, <2>2
<1>3. CASE TakeSignal
  <2>1. signals # <<>> /\ signals' = Tail(signals) /\ UNCHANGED pane
    BY <1>3 DEF TakeSignal
  <2>2. \A j \in DOMAIN signals' : j + 1 \in DOMAIN signals /\ signals'[j] = signals[j + 1]
    BY <1>0, <2>1
  <2> QED
    BY <2>1, <2>2 DEF DetachIsTold
<1>4. ASSUME NEW s \in Streams, NEW n \in Nat, Report(s, n) \/ UNCHANGED signals,
             pane' = pane \/ pane' = [pane EXCEPT ![s] = "closed"]
      PROVE  DetachIsTold'
  <2> DEFINE m == [kind |-> "rendered", stream |-> s, bytes |-> n]
  <2>1. m \in Signal /\ m.kind # "detach"
    BY DEF Signal
  <2>2. signals' = Append(signals, m) \/ UNCHANGED signals
    BY <1>4 DEF Report
  <2>3. \A t \in Streams : pane[t] \notin {"shown", "forgotten"} => pane'[t] \notin {"shown", "forgotten"}
    BY <1>0, <1>4
  <2> HIDE DEF m
  <2> QED
    BY <1>2, <2>1, <2>2, <2>3
<1>5. ASSUME NEW s \in Streams, Render(s) \/ IdleAck(s) \/ CloseSurface(s)
      PROVE  DetachIsTold'
  <2>1. pending[s] \in Nat /\ pending[s] + inFlight[s] \in Nat
    BY DEF PlainOK
  <2>2. CASE Render(s)
    <3>1. (Report(s, pending[s] + inFlight[s]) \/ UNCHANGED signals) /\ UNCHANGED pane
      BY <2>2 DEF Render
    <3> QED
      BY <1>4, <2>1, <3>1
  <2>3. CASE IdleAck(s) \/ CloseSurface(s)
    <3>1. /\ Report(s, pending[s]) \/ UNCHANGED signals
          /\ pane' = pane \/ pane' = [pane EXCEPT ![s] = "closed"]
      BY <2>3 DEF IdleAck, CloseSurface, PaneGoes
    <3> QED
      BY <1>4, <2>1, <3>1
  <2> QED
    BY <1>5, <2>2, <2>3
<1>6. ASSUME NEW s \in Streams, PostDetach(s)
      PROVE  DetachIsTold'
  <2> DEFINE m == [kind |-> "detach", stream |-> s, bytes |-> 0]
  <2>1. m \in Signal /\ m.stream = s
    BY DEF Signal
  <2>2. signals' = Append(signals, m) /\ pane' = [pane EXCEPT ![s] = "posted"]
    BY <1>6 DEF PostDetach, PaneGoes
  <2>3. /\ pane'[s] \notin {"shown", "forgotten"}
        /\ \A t \in Streams : pane[t] \notin {"shown", "forgotten"} => pane'[t] \notin {"shown", "forgotten"}
    BY <1>0, <2>2
  <2> HIDE DEF m
  <2> QED
    BY <1>2, <2>1, <2>2, <2>3
<1>7. ASSUME NEW s \in Streams, Forget(s) \/ DaemonDetaches(s)
      PROVE  DetachIsTold'
  <2>1. UNCHANGED signals
    BY <1>7 DEF Forget, DaemonDetaches
  <2>2. \A t \in Streams : pane[t] \notin {"shown", "forgotten"} => pane'[t] \notin {"shown", "forgotten"}
    <3>1. \/ pane[s] = "shown" /\ pane' = [pane EXCEPT ![s] = "forgotten"]
          \/ pane[s] = "posted" /\ pane' = [pane EXCEPT ![s] = "detached"]
      BY <1>7 DEF Forget, DaemonDetaches, PaneGoes
    <3> QED
      BY <1>0, <3>1
  <2> QED
    BY <1>a, <2>1, <2>2 DEF DetachIsTold
<1>8. CASE Reconnect
  BY <1>8 DEF Reconnect, DetachIsTold
<1>9. CASE Flush \/ Resume \/ Read \/ Deliver \/ Discard \/ Drop \/ NextPass
  BY <1>1, <1>9 DEF Flush, Resume, Read, Deliver, Discard, Drop, NextPass
<1>10. ASSUME NEW s \in Streams, (\E n \in 1..Chunk : Send(s, n)) \/ SendExit(s) \/ ApplyAck(s)
       PROVE  DetachIsTold'
  BY <1>1, <1>10 DEF Send, SendExit, ApplyAck
<1> QED
  BY <1>3, <1>5, <1>6, <1>7, <1>8, <1>9, <1>10 DEF Next, Reader

-----------------------------------------------------------------------------
\* The ledger against the daemon.

LEMMA ComingTyped ==
  ASSUME PlainOK, NEW s
  PROVE  Coming(s) \in Nat
<1>1. wire \in Seq(Frame) /\ buffer \in Seq(Frame)
  BY DEF PlainOK
<1>2. Bytes(buffer, "output", s) \in Nat /\ Bytes(wire, "output", s) \in Nat
  BY <1>1, FramesMeasured, BytesTyped
<1> QED
  BY <1>2 DEF Coming

LEMMA ComingAppends ==
  ASSUME PlainOK, NEW f \in Frame, wire' = Append(wire, f), UNCHANGED buffer, NEW s
  PROVE  Share(f, "output", s) \in Nat /\ Coming(s)' = Coming(s) + Share(f, "output", s)
<1>1. wire \in Seq(Frame) /\ buffer \in Seq(Frame)
  BY DEF PlainOK
<1>2. /\ Bytes(Append(wire, f), "output", s) = Bytes(wire, "output", s) + Share(f, "output", s)
      /\ Share(f, "output", s) \in Nat /\ Bytes(wire, "output", s) \in Nat
  BY <1>1, FramesMeasured, BytesAppend
<1>3. Bytes(buffer, "output", s) \in Nat
  BY <1>1, FramesMeasured, BytesTyped
<1>4. Coming(s)' = Bytes(buffer, "output", s) + Bytes(Append(wire, f), "output", s)
  BY DEF Coming
<1> QED
  BY <1>2, <1>3, <1>4 DEF Coming

LEMMA ComingRead ==
  ASSUME PlainOK, BufferIsRead, Read, NEW s
  PROVE  Coming(s)' = Coming(s)
<1>1. wire \in Seq(Frame) /\ buffer = <<>>
  BY DEF PlainOK, BufferIsRead, Read
<1>2. PICK n \in 1..Len(wire) : buffer' = SubSeq(wire, 1, n) /\ wire' = SubSeq(wire, n + 1, Len(wire))
  BY DEF Read
<1>3. Bytes(wire, "output", s) = Bytes(buffer', "output", s) + Bytes(wire', "output", s)
  <2>1. Bytes(wire, "output", s) = Bytes(SubSeq(wire, 1, n), "output", s)
                                     + Bytes(SubSeq(wire, n + 1, Len(wire)), "output", s)
    BY <1>1, FramesMeasured, BytesSplit
  <2> QED
    BY <1>2, <2>1
<1>4. Bytes(wire, "output", s) \in Nat
  BY <1>1, FramesMeasured, BytesTyped
<1>5. Bytes(buffer, "output", s) = 0
  BY <1>1, BytesOfNothing
<1>6. Coming(s)' = Bytes(buffer', "output", s) + Bytes(wire', "output", s)
  BY DEF Coming
<1> QED
  BY <1>3, <1>4, <1>5, <1>6 DEF Coming

LEMMA ComingTail ==
  ASSUME PlainOK, buffer # <<>>, buffer' = Tail(buffer), UNCHANGED wire, NEW s
  PROVE  /\ Share(Head(buffer), "output", s) \in Nat /\ Coming(s)' \in Nat
         /\ Coming(s) = Coming(s)' + Share(Head(buffer), "output", s)
<1>1. wire \in Seq(Frame) /\ buffer \in Seq(Frame)
  BY DEF PlainOK
<1>2. /\ Share(Head(buffer), "output", s) \in Nat /\ Bytes(Tail(buffer), "output", s) \in Nat
      /\ Bytes(buffer, "output", s) = Share(Head(buffer), "output", s) + Bytes(Tail(buffer), "output", s)
  BY <1>1, FramesMeasured, BytesTail
<1>3. Bytes(wire, "output", s) \in Nat
  BY <1>1, FramesMeasured, BytesTyped
<1>4. Coming(s)' = Bytes(Tail(buffer), "output", s) + Bytes(wire, "output", s)
  BY DEF Coming
<1> QED
  BY <1>2, <1>3, <1>4 DEF Coming

\* MirrorAgrees and NeverOverdrawn, of one stream.
FlowOK(s) ==
  /\ s \notin gone /\ Routed(s) /\ ~Dropped => Book(s).credit <= Promised(s)
  /\ Attached(s) /\ ~Dropped => Promised(s) <= Book(s).credit + charged[s]

\* A step that gives the stream's window as much as it promises, exit frames
\* taking g of it.
Steady(s, k, g) ==
  /\ Book(s)'.credit = Book(s).credit + k - g
  /\ charged'[s] = charged[s] + g
  /\ Promised(s)' = Promised(s) + k
  /\ Attached(s)' => Attached(s)

\* What a step never takes back.
Onward == (\A s \in Streams : Routed(s)' => Routed(s)) /\ gone \subseteq gone' /\ (Dropped => Dropped')

LEMMA FlowTyped ==
  ASSUME PlainOK, LedgerOK, NEW s \in Streams
  PROVE  /\ Book(s).credit \in Nat /\ Promised(s) \in Int /\ Coming(s) \in Nat
         /\ allowance[s] \in Int /\ acking[s] \in Nat /\ charged[s] \in Nat
<1>1. Book(s).credit \in Nat
  BY BooksWhole DEF Whole, Entry
<1>2. allowance[s] \in Int /\ acking[s] \in Nat /\ charged[s] \in Nat
  BY ConstantsTyped DEF PlainOK
<1>3. Coming(s) \in Nat
  BY ComingTyped
<1> QED
  BY <1>1, <1>2, <1>3 DEF Promised

LEMMA FlowOfEach ==
  PlainOK /\ LedgerOK => (MirrorAgrees /\ NeverOverdrawn <=> \A s \in Streams : FlowOK(s))
<1> SUFFICES ASSUME PlainOK, LedgerOK
             PROVE  MirrorAgrees /\ NeverOverdrawn <=> \A s \in Streams : FlowOK(s)
  OBVIOUS
<1>1. ASSUME NEW s \in Streams
      PROVE  Promised(s) \in Book(s).credit..(Book(s).credit + charged[s])
               <=> Book(s).credit <= Promised(s) /\ Promised(s) <= Book(s).credit + charged[s]
  <2>1. Book(s).credit \in Nat /\ Promised(s) \in Int /\ charged[s] \in Nat
    BY FlowTyped
  <2> QED
    BY <2>1
<1>2. \A s \in Streams : Routed(s) => Attached(s)
  BY DEF Attached
<1> QED
  BY <1>1, <1>2 DEF MirrorAgrees, NeverOverdrawn, FlowOK

LEMMA SteadyFlow ==
  ASSUME PlainOK, LedgerOK, NEW s \in Streams, NEW k \in Int, NEW g \in Nat,
         FlowOK(s), Steady(s, k, g), Onward
  PROVE  FlowOK(s)'
<1>1. Book(s).credit \in Nat /\ Promised(s) \in Int /\ charged[s] \in Nat
  BY FlowTyped
<1>2. s \notin gone' => s \notin gone
  BY DEF Onward
<1>3. /\ Routed(s)' => Routed(s)
      /\ Dropped => Dropped'
  BY DEF Onward
<1>4. s \notin gone' /\ Routed(s)' /\ ~Dropped' => Book(s)'.credit <= Promised(s)'
  BY <1>1, <1>2, <1>3 DEF FlowOK, Steady
<1>5. Attached(s)' /\ ~Dropped' => Promised(s)' <= Book(s)'.credit + charged'[s]
  BY <1>1, <1>2, <1>3 DEF FlowOK, Steady
<1> QED
  BY <1>4, <1>5 DEF FlowOK

\* Every step but a reconnection goes onward.
LEMMA NextIsOnward ==
  ASSUME PlainOK, Next, ~ Reconnect
  PROVE  Onward
<1>1. ASSUME UNCHANGED pane, UNCHANGED gone, UNCHANGED reader \/ reader \in {"top", "read", "decode"}
      PROVE  Onward
  BY <1>1 DEF Onward, Routed, Dropped
<1>2. ASSUME NEW s \in Streams, UNCHANGED reader, gone' = gone \/ gone' = gone \cup {s},
             pane' = pane \/ \E to \in {"forgotten", "posted", "detached", "closed"} : pane' = [pane EXCEPT ![s] = to]
      PROVE  Onward
  <2>1. pane \in [Streams -> {"shown", "forgotten", "posted", "detached", "closed"}]
    BY DEF PlainOK
  <2>2. \A t \in Streams : pane'[t] = "shown" => pane[t] = "shown"
    BY <1>2, <2>1
  <2>3. gone \subseteq gone'
    BY <1>2
  <2> QED
    BY <1>2, <2>2, <2>3 DEF Onward, Routed, Dropped
<1>3. CASE Reader
  <2>1. UNCHANGED <<pane, gone>> /\ reader \in {"top", "read", "decode"}
    BY <1>3 DEF Reader, TakeSignal, Flush, Resume, Read, Deliver, Discard, Drop, NextPass, daemonVars
  <2> QED
    BY <1>1, <2>1
<1>4. ASSUME NEW s \in Streams,
             \/ \E n \in 1..Chunk : Send(s, n)
             \/ SendExit(s) \/ ApplyAck(s)
             \/ Forget(s) \/ PostDetach(s) \/ DaemonDetaches(s)
             \/ Render(s) \/ IdleAck(s) \/ CloseSurface(s)
      PROVE  Onward
  <2>1. UNCHANGED reader /\ (gone' = gone \/ gone' = gone \cup {s})
    BY <1>4 DEF Send, SendExit, ApplyAck, Forget, PostDetach, DaemonDetaches, Render, IdleAck,
                CloseSurface, daemonVars
  <2>2. pane' = pane \/ \E to \in {"forgotten", "posted", "detached", "closed"} : pane' = [pane EXCEPT ![s] = to]
    BY <1>4 DEF Send, SendExit, ApplyAck, Forget, PostDetach, DaemonDetaches, Render, IdleAck,
                CloseSurface, PaneGoes
  <2> QED
    BY <1>2, <2>1, <2>2
<1> QED
  BY <1>3, <1>4 DEF Next

\* The books of the stream, and what is promised it, move by as much.
LEMMA MovesFlow ==
  ASSUME PlainOK, LedgerOK, NEW s \in Streams, FlowOK(s), Next, ~ Reconnect, NEW k \in Int,
         Book(s)'.credit = Book(s).credit + k,
         allowance'[s] + acking'[s] + Coming(s)' = Promised(s) + k,
         UNCHANGED charged \/ charged'[s] = charged[s],
         Attached(s)' => Attached(s)
  PROVE  FlowOK(s)'
<1>1. Promised(s)' = allowance'[s] + acking'[s] + Coming(s)'
  BY DEF Promised
<1>2. Book(s).credit + k - 0 = Book(s).credit + k /\ charged[s] + 0 = charged[s]
  BY FlowTyped
<1>3. Steady(s, k, 0)
  BY <1>1, <1>2 DEF Steady
<1>4. 0 \in Nat /\ Onward
  BY NextIsOnward
<1> QED
  BY <1>3, <1>4, SteadyFlow

LEMMA BookKept ==
  ASSUME LedgerOK, UNCHANGED ledger, NEW s \in Streams
  PROVE  Book(s)' = Book(s) /\ (s \in DOMAIN ledger' <=> s \in DOMAIN ledger)
BY DEF Book, Fresh

LEMMA FlowKept ==
  ASSUME PlainOK, LedgerOK, BufferIsRead, DetachIsTold, Next, NEW s \in Streams, FlowOK(s)
  PROVE  FlowOK(s)'
<1>0. /\ Book(s).credit \in Nat /\ Promised(s) \in Int /\ Coming(s) \in Nat
      /\ allowance[s] \in Int /\ acking[s] \in Nat /\ charged[s] \in Nat
      /\ Promised(s) = allowance[s] + acking[s] + Coming(s)
      /\ wire \in Seq(Frame) /\ buffer \in Seq(Frame)
  BY FlowTyped DEF Promised, PlainOK
<1>1. CASE Reconnect
  <2>1. Book(s)' = Fresh /\ Fresh.credit = Initial
    BY <1>1, ReconnectEffect DEF Fresh
  <2>2. allowance'[s] = Initial /\ acking'[s] = 0 /\ buffer' = <<>> /\ wire' = <<>>
    BY <1>1 DEF Reconnect, Zero
  <2>3. Coming(s)' = 0
    <3>1. Bytes(<<>>, "output", s) = 0
      BY BytesOfNothing
    <3>2. Coming(s)' = Bytes(buffer', "output", s) + Bytes(wire', "output", s)
      BY DEF Coming
    <3> QED
      BY <2>2, <3>1, <3>2
  <2>4. Promised(s)' = Initial
    BY <2>2, <2>3, ConstantsTyped DEF Promised
  <2>5. Book(s)'.credit = Initial /\ charged'[s] = 0 /\ Initial \in Nat
    BY <1>1, <2>1, ConstantsTyped DEF Reconnect, Zero
  <2> QED
    BY <2>4, <2>5 DEF FlowOK
<1> SUFFICES ASSUME ~ Reconnect PROVE FlowOK(s)'
  BY <1>1
<1>2. Onward
  BY NextIsOnward
<1>3. ASSUME UNCHANGED ledger
      PROVE  Book(s)' = Book(s) /\ (Attached(s)' => Attached(s))
  BY <1>2, <1>3, BookKept DEF Attached, Onward
<1>4. ASSUME UNCHANGED <<ledger, charged, allowance, acking>>, Coming(s)' = Coming(s)
      PROVE  FlowOK(s)'
  <2>1. /\ Book(s)'.credit = Book(s).credit + 0
        /\ allowance'[s] + acking'[s] + Coming(s)' = Promised(s) + 0
        /\ Attached(s)' => Attached(s)
    BY <1>0, <1>3, <1>4
  <2> QED
    BY <1>4, <2>1, MovesFlow
<1>5. ASSUME UNCHANGED <<ledger, charged, allowance, acking, wire, buffer>>
      PROVE  FlowOK(s)'
  BY <1>4, <1>5 DEF Coming
<1>6. CASE Resume \/ Drop \/ NextPass
  BY <1>5, <1>6 DEF Resume, Drop, NextPass, daemonVars, ledgerVars
<1>7. ASSUME NEW x \in Streams, Forget(x) \/ PostDetach(x) \/ Render(x) \/ IdleAck(x) \/ CloseSurface(x)
      PROVE  FlowOK(s)'
  BY <1>5, <1>7 DEF Forget, PostDetach, Render, IdleAck, CloseSurface, daemonVars, ledgerVars
<1>8. ASSUME NEW x \in Streams, SendExit(x)
      PROVE  FlowOK(s)'
  <2> DEFINE f == [stream |-> x, kind |-> "exit", bytes |-> ExitBytes]
  <2>1. f \in Frame
    BY ConstantsTyped DEF Frame, Kinds
  <2>2. wire' = Append(wire, f) /\ UNCHANGED <<ledger, charged, allowance, acking, buffer>>
    BY <1>8 DEF SendExit, ledgerVars
  <2>3. Share(f, "output", s) = 0
    BY DEF Share
  <2> HIDE DEF f
  <2>4. Coming(s)' = Coming(s)
    BY <1>0, <2>1, <2>2, <2>3, ComingAppends
  <2> QED
    BY <1>4, <2>2, <2>4
<1>9. ASSUME NEW x \in Streams, NEW n \in 1..Chunk, Send(x, n)
      PROVE  FlowOK(s)'
  <2> DEFINE f == [stream |-> x, kind |-> "output", bytes |-> n]
  <2>1. f \in Frame
    BY DEF Frame, Kinds
  <2>2. wire' = Append(wire, f) /\ UNCHANGED <<ledger, charged, acking, buffer>> /\ x \notin gone
        /\ allowance' = [allowance EXCEPT ![x] = @ - n]
    BY <1>9 DEF Send, ledgerVars
  <2>3. Share(f, "output", s) = IF s = x THEN n ELSE 0
    BY DEF Share
  <2> HIDE DEF f
  <2>4. Coming(s)' = Coming(s) + Share(f, "output", s)
    BY <2>1, <2>2, ComingAppends
  <2>5. allowance'[s] = allowance[s] - Share(f, "output", s)
    <3>1. allowance \in [Streams -> (1 - Chunk)..Maximum]
      BY DEF PlainOK
    <3>2. allowance'[s] = IF s = x THEN allowance[s] - n ELSE allowance[s]
      BY <2>2, <3>1
    <3> QED
      BY <1>0, <2>3, <3>2
  <2>6. /\ Book(s)'.credit = Book(s).credit + 0
        /\ allowance'[s] + acking'[s] + Coming(s)' = Promised(s) + 0
        /\ Attached(s)' => Attached(s)
    <3>1. Book(s)'.credit = Book(s).credit + 0 /\ (Attached(s)' => Attached(s))
      BY <1>0, <1>3, <2>2
    <3>2. allowance'[s] + acking'[s] + Coming(s)' = Promised(s) + 0
      BY <1>0, <2>2, <2>3, <2>4, <2>5
    <3> QED
      BY <3>1, <3>2
  <2> QED
    BY <2>2, <2>6, MovesFlow
<1>10. ASSUME NEW x \in Streams, ApplyAck(x)
       PROVE  FlowOK(s)'
  <2>1. /\ UNCHANGED <<ledger, charged, wire, buffer, gone, pane, reader>>
        /\ acking' = [acking EXCEPT ![x] = 0]
        /\ allowance' = [allowance EXCEPT ![x] = Min({Maximum, @ + acking[x]})]
    BY <1>10 DEF ApplyAck, ledgerVars
  <2>2. Coming(s)' = Coming(s) /\ Book(s)' = Book(s) /\ (Attached(s)' <=> Attached(s))
    BY <2>1, BookKept DEF Coming, Attached, Routed
  <2>3. CASE s # x
    <3>1. allowance'[s] = allowance[s] /\ acking'[s] = acking[s]
      BY <2>1, <2>3 DEF PlainOK
    <3>2. /\ Book(s)'.credit = Book(s).credit + 0
          /\ allowance'[s] + acking'[s] + Coming(s)' = Promised(s) + 0
          /\ Attached(s)' => Attached(s)
      BY <1>0, <2>2, <3>1
    <3> QED
      BY <2>1, <3>2, MovesFlow
  <2>4. CASE s = x
    <3> DEFINE a == allowance[s] + acking[s]
    <3>1. a \in Int /\ Maximum \in Nat
      BY <1>0, ConstantsTyped
    <3>2. allowance'[s] = Min({Maximum, a}) /\ acking'[s] = 0
      BY <2>1, <2>4 DEF PlainOK
    <3>3. Min({Maximum, a}) = IF Maximum <= a THEN Maximum ELSE a
      BY <3>1, MinOfTwo
    <3>4. Book(s).credit <= Maximum
      BY BooksWhole, ConstantsTyped DEF Whole, Entry
    <3>5. Promised(s) = a + Coming(s)
      BY <1>0
    <3>6. Promised(s)' = allowance'[s] + Coming(s)
      BY <1>0, <2>2, <3>1, <3>2, <3>3 DEF Promised
    <3> HIDE DEF a
    <3>7. Promised(s)' <= Promised(s) /\ (Promised(s)' = Promised(s) \/ Promised(s)' >= Maximum)
          /\ Promised(s)' \in Int
      <4>1. Coming(s) \in Nat /\ allowance'[s] = IF Maximum <= a THEN Maximum ELSE a
        BY <1>0, <3>2, <3>3
      <4>2. CASE Maximum <= a
        BY <3>1, <3>5, <3>6, <4>1, <4>2
      <4>3. CASE ~ (Maximum <= a)
        BY <3>1, <3>5, <3>6, <4>1, <4>3
      <4> QED
        BY <4>2, <4>3
    <3>8. UNCHANGED <<gone, reader>> /\ (Routed(s)' <=> Routed(s)) /\ (Dropped' <=> Dropped)
      BY <2>1 DEF Routed, Dropped
    <3>9. s \notin gone /\ Routed(s) /\ ~Dropped => Book(s).credit <= Promised(s)'
      BY <1>0, <3>1, <3>4, <3>7 DEF FlowOK
    <3>10. Attached(s) /\ ~Dropped => Promised(s)' <= Book(s).credit + charged'[s]
      BY <1>0, <2>1, <3>7 DEF FlowOK
    <3> QED
      BY <2>2, <3>8, <3>9, <3>10 DEF FlowOK
  <2> QED
    BY <2>3, <2>4
<1>11. ASSUME NEW x \in Streams, DaemonDetaches(x)
       PROVE  FlowOK(s)'
  <2>1. /\ UNCHANGED <<ledger, charged, wire, buffer, allowance, reader>>
        /\ acking' = [acking EXCEPT ![x] = 0]
        /\ gone' = gone \cup {x}
    BY <1>11 DEF DaemonDetaches, ledgerVars
  <2>2. Coming(s)' = Coming(s) /\ Book(s)' = Book(s) /\ (Attached(s)' => Attached(s))
    BY <1>3, <2>1 DEF Coming
  <2>3. CASE s # x
    <3>1. allowance'[s] = allowance[s] /\ acking'[s] = acking[s]
      BY <2>1, <2>3 DEF PlainOK
    <3>2. /\ Book(s)'.credit = Book(s).credit + 0
          /\ allowance'[s] + acking'[s] + Coming(s)' = Promised(s) + 0
          /\ Attached(s)' => Attached(s)
      BY <1>0, <2>2, <3>1
    <3> QED
      BY <2>1, <3>2, MovesFlow
  <2>4. CASE s = x
    <3>1. acking'[s] = 0 /\ allowance'[s] = allowance[s] /\ s \in gone'
      BY <2>1, <2>4 DEF PlainOK
    <3>2. Promised(s)' = allowance[s] + 0 + Coming(s)
      BY <2>2, <3>1 DEF Promised
    <3>3. Promised(s)' <= Promised(s) /\ Promised(s)' \in Int
      BY <1>0, <3>2
    <3>4. Dropped' <=> Dropped
      BY <2>1 DEF Dropped
    <3>5. Attached(s) /\ ~Dropped => Promised(s)' <= Book(s).credit + charged'[s]
      BY <1>0, <2>1, <3>3 DEF FlowOK
    <3> QED
      <4>1. Attached(s)' /\ ~Dropped' => Promised(s)' <= Book(s)'.credit + charged'[s]
        BY <2>2, <3>4, <3>5
      <4> QED
        BY <3>1, <4>1 DEF FlowOK
  <2> QED
    BY <2>3, <2>4
<1>12. CASE Read
  <2>1. Coming(s)' = Coming(s)
    BY <1>12, ComingRead
  <2>2. UNCHANGED <<ledger, charged, allowance, acking>>
    BY <1>12 DEF Read, daemonVars, ledgerVars
  <2> QED
    BY <1>4, <2>1, <2>2
<1>13. CASE Flush
  <2>1. /\ Book(s)'.credit = Book(s).credit + Book(s).ungranted
        /\ acking'[s] = acking[s] + Book(s).ungranted
        /\ DOMAIN ledger' = DOMAIN ledger
    BY <1>13, FlushEffect DEF Flush, PlainOK
  <2>2. UNCHANGED <<charged, allowance, wire, buffer, pane>>
    BY <1>13 DEF Flush, FlushAcks, daemonVars
  <2>3. Book(s).ungranted \in Nat
    BY BooksWhole DEF Whole, Entry
  <2>4. Coming(s)' = Coming(s) /\ (Attached(s)' => Attached(s))
    BY <2>1, <2>2 DEF Coming, Attached, Routed
  <2>5. allowance'[s] + acking'[s] + Coming(s)' = Promised(s) + Book(s).ungranted
    <3>1. allowance'[s] = allowance[s] /\ acking'[s] = acking[s] + Book(s).ungranted
      BY <2>1, <2>2
    <3> QED
      BY <1>0, <2>3, <2>4, <3>1
  <2> QED
    BY <2>1, <2>2, <2>3, <2>4, <2>5, MovesFlow
<1>14. CASE Deliver \/ Discard
  <2> DEFINE f == Head(buffer)
             x == f.stream
             n == Share(f, "output", s)
  <2>1. f \in Frame /\ x \in Streams /\ f.kind \in Kinds /\ f.bytes \in Nat
    <3>1. f \in Frame
      BY <1>0, <1>14 DEF Deliver, Discard
    <3> QED
      BY <3>1 DEF Frame
  <2>2. n \in Nat /\ Coming(s)' \in Nat /\ Coming(s) = Coming(s)' + n
    BY <1>14, ComingTail DEF Deliver, Discard
  <2>3. UNCHANGED <<allowance, acking, pane, gone>>
    BY <1>14 DEF Deliver, Discard, daemonVars
  <2>4. allowance'[s] + acking'[s] + Coming(s)' = Promised(s) + (0 - n)
    BY <1>0, <2>2, <2>3
  <2>5. s # x \/ f.kind = "output" \/ Discard => charged'[s] = charged[s]
    <3>1. UNCHANGED charged \/ charged' = [charged EXCEPT ![x] = @ + f.bytes]
      BY <1>14 DEF Deliver, Discard, ledgerVars
    <3>2. f.kind = "output" \/ Discard => UNCHANGED charged
      BY <1>14 DEF Deliver, Discard, ledgerVars
    <3>3. charged \in [Streams -> Nat]
      BY DEF PlainOK
    <3> HIDE DEF f, x
    <3> QED
      BY <3>1, <3>2, <3>3
  <2>6. s # x => n = 0
    BY DEF Share
  <2>7. CASE Discard
    <3>1. UNCHANGED <<ledger, charged>> /\ ~ Attached(x)
      BY <2>7 DEF Discard, ledgerVars
    <3>2. CASE s = x
      BY <1>3, <3>1, <3>2 DEF FlowOK, Attached
    <3>3. CASE s # x
      BY <1>4, <1>0, <2>2, <2>3, <2>6, <3>1, <3>3
    <3> QED
      BY <3>2, <3>3
  <2>8. CASE Deliver
    <3>1. Attached(x) /\ Enters(x, Charged(x, f.bytes)) /\ Whole(Charged(x, f.bytes))
      BY <2>8, DeliverEffect
    <3>2. DOMAIN ledger' = DOMAIN ledger \cup {x} /\ Book(s)' = IF s = x THEN Charged(x, f.bytes) ELSE Book(s)
      <4> DEFINE e == Charged(x, f.bytes)
                 y == x
      <4>1. Enters(y, e)
        BY <3>1
      <4> HIDE DEF e, y
      <4>2. DOMAIN ledger' = DOMAIN ledger \cup {y} /\ Book(s)' = IF s = y THEN e ELSE Book(s)
        BY <4>1, EntersBook
      <4> QED
        BY <4>2 DEF e, y
    <3>3. Attached(s)' => Attached(s)
      BY <2>3, <3>1, <3>2 DEF Attached, Routed
    <3>4. CASE s # x
      <4>1. Book(s)'.credit = Book(s).credit + (0 - n)
        BY <1>0, <2>6, <3>2, <3>4
      <4> HIDE DEF n
      <4> QED
        BY <2>2, <2>4, <2>5, <3>3, <3>4, <4>1, MovesFlow
    <3>5. CASE s = x /\ f.kind = "output"
      <4>1. n = f.bytes
        BY <3>5 DEF Share
      <4>2. Book(s)'.credit = Book(s).credit - f.bytes
        BY <3>2, <3>5, ChargedCredit
      <4>3. Book(s)'.credit = Book(s).credit + (0 - n)
        BY <1>0, <2>1, <4>1, <4>2
      <4> HIDE DEF n
      <4> QED
        BY <2>2, <2>4, <2>5, <3>3, <3>5, <4>3, MovesFlow
    <3>6. CASE s = x /\ f.kind # "output"
      <4>1. n = 0
        BY <3>6 DEF Share
      <4>2. charged'[s] = charged[s] + f.bytes
        <5>1. charged' = [charged EXCEPT ![x] = @ + f.bytes]
          BY <2>8, <3>6 DEF Deliver
        <5>2. charged \in [Streams -> Nat]
          BY DEF PlainOK
        <5> QED
          BY <3>6, <5>1, <5>2
      <4>3. Book(s)'.credit = Book(s).credit - f.bytes
        BY <3>2, <3>6, ChargedCredit
      <4>4. Book(s)'.credit = Book(s).credit + 0 - f.bytes
        BY <1>0, <2>1, <4>3
      <4>5. Promised(s)' = Promised(s) + 0
        BY <1>0, <2>2, <2>4, <4>1 DEF Promised
      <4>6. Steady(s, 0, f.bytes)
        BY <3>3, <4>2, <4>4, <4>5 DEF Steady
      <4> QED
        BY <1>2, <2>1, <4>6, SteadyFlow
    <3> QED
      BY <3>4, <3>5, <3>6
  <2> QED
    BY <1>14, <2>7, <2>8
<1>15. CASE TakeSignal
  <2> DEFINE x == Head(signals).stream
             n == Head(signals).bytes
  <2>1. /\ x \in Streams /\ n \in Nat /\ signals # <<>>
        /\ \/ Head(signals).kind = "detach" /\ ApplyDetach(x)
           \/ ApplyRendered(x, n)
    BY <1>15, FirstSignal
  <2>2. UNCHANGED <<allowance, wire, buffer, pane, gone>>
    BY <1>15 DEF TakeSignal, daemonVars
  <2>3. Coming(s)' = Coming(s)
    BY <2>2 DEF Coming
  <2>4. CASE Head(signals).kind = "detach" /\ ApplyDetach(x)
    <3>1. pane[x] \notin {"shown", "forgotten"}
      <4>1. 1 \in DOMAIN signals /\ signals[1] = Head(signals)
        BY <2>1 DEF PlainOK
      <4> QED
        BY <2>4, <4>1 DEF DetachIsTold
    <3>2. /\ x \notin DOMAIN ledger' /\ UNCHANGED <<acking, charged>>
          /\ s # x => (s \in DOMAIN ledger' <=> s \in DOMAIN ledger) /\ Book(s)' = Book(s)
      BY <2>1, <2>4, DetachEffect
    <3>3. CASE s = x
      <4>1. ~ Attached(s)' /\ ~ Routed(s)'
        BY <2>2, <3>1, <3>2, <3>3 DEF Attached, Routed
      <4> QED
        BY <4>1 DEF FlowOK
    <3>4. CASE s # x
      <4>1. /\ Book(s)'.credit = Book(s).credit + 0
            /\ allowance'[s] + acking'[s] + Coming(s)' = Promised(s) + 0
            /\ Attached(s)' => Attached(s)
        BY <1>0, <2>2, <2>3, <3>2, <3>4 DEF Attached, Routed
      <4> QED
        BY <2>3, <3>2, <4>1, MovesFlow
    <3> QED
      BY <3>3, <3>4
  <2>5. CASE Phantom(x, n)
    <3>1. UNCHANGED <<ledger, charged, acking>>
      BY <2>5 DEF Phantom, ledgerVars
    <3> QED
      BY <1>5, <2>2, <3>1
  <2>6. ASSUME NEW g \in 0..(Book(x).ungranted + n), Acks(x, n, g)
        PROVE  FlowOK(s)'
    <3> DEFINE e == Credited(x, n, g)
    <3>1. Whole(Book(x)) /\ g \in Nat /\ g <= Book(x).ungranted + n /\ n <= Book(x).unrendered
      <4>1. Whole(Book(x)) /\ Book(x).ungranted \in Nat
        BY <2>1, BooksWhole DEF Whole, Entry
      <4> HIDE DEF n
      <4> QED
        BY <2>1, <2>6, <4>1 DEF Acks
    <3>2. e.credit = Book(x).credit + g
      <4>1. e = [credit |-> Book(x).credit + g, unrendered |-> Book(x).unrendered - n,
                 ungranted |-> Book(x).ungranted + n - g]
        <5> HIDE DEF x, n
        <5> QED
          BY <2>1, <3>1, CreditedWhole
      <4> HIDE DEF e
      <4> QED
        BY <4>1
    <3>3. /\ Attached(x) /\ Enters(x, e) /\ UNCHANGED charged
          /\ acking'[s] = acking[s] + IF s = x THEN g ELSE 0
      BY <1>0, <2>6, <3>1 DEF Acks
    <3> HIDE DEF e, x, n
    <3>4. DOMAIN ledger' = DOMAIN ledger \cup {x} /\ Book(s)' = IF s = x THEN e ELSE Book(s)
      BY <3>3, EntersBook
    <3>5. Attached(s)' => Attached(s)
      BY <2>2, <3>3, <3>4 DEF Attached, Routed
    <3> DEFINE k == IF s = x THEN g ELSE 0
    <3>6. k \in Int
      BY <3>1
    <3>7. Book(s)'.credit = Book(s).credit + k
      BY <1>0, <3>2, <3>4
    <3>8. allowance'[s] + acking'[s] + Coming(s)' = Promised(s) + k
      <4>1. allowance'[s] = allowance[s] /\ acking'[s] = acking[s] + k
        BY <2>2, <3>3
      <4> HIDE DEF k
      <4> QED
        BY <1>0, <2>3, <3>6, <4>1
    <3> HIDE DEF k
    <3> QED
      BY <2>3, <3>3, <3>5, <3>6, <3>7, <3>8, MovesFlow
  <2>7. acking \in [Streams -> Nat]
    BY DEF PlainOK
  <2> HIDE DEF x, n
  <2> QED
    BY <2>1, <2>4, <2>5, <2>6, <2>7, RenderedEffect
<1> QED
  BY <1>6, <1>7, <1>8, <1>9, <1>10, <1>11, <1>12, <1>13, <1>14, <1>15 DEF Next, Reader

-----------------------------------------------------------------------------
\* The webview's claims.

ClaimOK(s) == reconnects = 0 /\ Attached(s) => Claimed(s) <= Book(s).unrendered

LEMMA ClaimOfEach == NothingMadeUp <=> \A s \in Streams : ClaimOK(s)
BY DEF NothingMadeUp, ClaimOK

LEMMA ClaimTyped ==
  ASSUME PlainOK, LedgerOK, NEW s \in Streams
  PROVE  /\ signals \in Seq(Signal)
         /\ inFlight[s] \in Nat /\ pending[s] \in Nat /\ Bytes(signals, "rendered", s) \in Nat
         /\ Claimed(s) \in Nat /\ Book(s).unrendered \in Nat
<1>1. signals \in Seq(Signal) /\ inFlight[s] \in Nat /\ pending[s] \in Nat
  BY DEF PlainOK
<1>2. Bytes(signals, "rendered", s) \in Nat
  BY <1>1, FramesMeasured, BytesTyped
<1>3. Book(s).unrendered \in Nat
  BY BooksWhole DEF Whole, Entry
<1> QED
  BY <1>1, <1>2, <1>3 DEF Claimed

LEMMA ClaimAppends ==
  ASSUME PlainOK, NEW m \in Signal, signals' = Append(signals, m), NEW s
  PROVE  Bytes(signals', "rendered", s) = Bytes(signals, "rendered", s) + Share(m, "rendered", s)
<1>1. signals \in Seq(Signal)
  BY DEF PlainOK
<1>2. Bytes(Append(signals, m), "rendered", s) = Bytes(signals, "rendered", s) + Share(m, "rendered", s)
  BY <1>1, FramesMeasured, BytesAppend
<1> QED
  BY <1>2

\* What is taken from the inbox was claimed.
LEMMA ClaimTaken ==
  ASSUME PlainOK, TakeSignal, NEW s
  PROVE  /\ Share(Head(signals), "rendered", s) \in Nat /\ Bytes(signals', "rendered", s) \in Nat
         /\ Bytes(signals, "rendered", s)
              = Share(Head(signals), "rendered", s) + Bytes(signals', "rendered", s)
<1>1. signals \in Seq(Signal) /\ signals # <<>> /\ signals' = Tail(signals)
  BY DEF PlainOK, TakeSignal
<1>2. /\ Share(Head(signals), "rendered", s) \in Nat /\ Bytes(Tail(signals), "rendered", s) \in Nat
      /\ Bytes(signals, "rendered", s)
           = Share(Head(signals), "rendered", s) + Bytes(Tail(signals), "rendered", s)
  BY <1>1, FramesMeasured, BytesTail
<1> QED
  BY <1>1, <1>2

LEMMA ClaimKept ==
  ASSUME PlainOK, LedgerOK, DetachIsTold, Next, NEW s \in Streams, ClaimOK(s)
  PROVE  ClaimOK(s)'
<1>0. /\ signals \in Seq(Signal)
      /\ inFlight[s] \in Nat /\ pending[s] \in Nat /\ Bytes(signals, "rendered", s) \in Nat
      /\ Claimed(s) \in Nat /\ Book(s).unrendered \in Nat
      /\ Claimed(s) = inFlight[s] + pending[s] + Bytes(signals, "rendered", s)
      /\ Claimed(s)' = inFlight'[s] + pending'[s] + Bytes(signals', "rendered", s)
      /\ reconnects \in Nat
  <2>1. reconnects \in Nat
    BY ConstantsTyped DEF PlainOK
  <2>2. Claimed(s)' = inFlight'[s] + pending'[s] + Bytes(signals', "rendered", s)
    BY DEF Claimed
  <2>3. Claimed(s) = inFlight[s] + pending[s] + Bytes(signals, "rendered", s)
    BY DEF Claimed
  <2> QED
    BY <2>1, <2>2, <2>3, ClaimTyped
<1>1. CASE Reconnect
  <2>1. reconnects' # 0
    BY <1>0, <1>1 DEF Reconnect
  <2> QED
    BY <2>1 DEF ClaimOK
<1> SUFFICES ASSUME ~ Reconnect PROVE ClaimOK(s)'
  BY <1>1
<1>2. Onward
  BY NextIsOnward
<1>3. ASSUME UNCHANGED ledger
      PROVE  Book(s)' = Book(s) /\ (Attached(s)' => Attached(s))
  BY <1>2, <1>3, BookKept DEF Attached, Onward
<1>4. ASSUME UNCHANGED <<ledger, reconnects>>, Claimed(s)' <= Claimed(s), Claimed(s)' \in Int
      PROVE  ClaimOK(s)'
  BY <1>0, <1>3, <1>4 DEF ClaimOK
<1>5. ASSUME UNCHANGED <<ledger, reconnects, inFlight, pending, signals>>
      PROVE  ClaimOK(s)'
  BY <1>0, <1>4, <1>5
<1>6. CASE Resume \/ Read \/ Discard \/ Drop \/ NextPass
  BY <1>5, <1>6 DEF Resume, Read, Discard, Drop, NextPass, ledgerVars, webVars
<1>7. ASSUME NEW x \in Streams,
             (\E n \in 1..Chunk : Send(x, n)) \/ SendExit(x) \/ ApplyAck(x) \/ Forget(x) \/ DaemonDetaches(x)
      PROVE  ClaimOK(s)'
  BY <1>5, <1>7 DEF Send, SendExit, ApplyAck, Forget, DaemonDetaches, ledgerVars, webVars
<1>8. ASSUME NEW x \in Streams, NEW n \in Nat, Report(x, n)
      PROVE  Bytes(signals', "rendered", s) = Bytes(signals, "rendered", s) + IF s = x THEN n ELSE 0
  <2> DEFINE m == [kind |-> "rendered", stream |-> x, bytes |-> n]
  <2>1. m \in Signal /\ Share(m, "rendered", s) = IF s = x THEN n ELSE 0
    BY DEF Signal, Share
  <2>2. signals' = Append(signals, m)
    BY <1>8 DEF Report
  <2> HIDE DEF m
  <2>3. Bytes(signals', "rendered", s) = Bytes(signals, "rendered", s) + Share(m, "rendered", s)
    BY <2>1, <2>2, ClaimAppends
  <2> QED
    BY <2>1, <2>3
<1>9. ASSUME NEW x \in Streams, PostDetach(x)
      PROVE  ClaimOK(s)'
  <2> DEFINE m == [kind |-> "detach", stream |-> x, bytes |-> 0]
  <2>1. m \in Signal /\ Share(m, "rendered", s) = 0
    BY DEF Signal, Share
  <2>2. signals' = Append(signals, m) /\ UNCHANGED <<ledger, reconnects, inFlight, pending>>
    BY <1>9 DEF PostDetach, ledgerVars, webVars
  <2> HIDE DEF m
  <2>3. Bytes(signals', "rendered", s) = Bytes(signals, "rendered", s) + Share(m, "rendered", s)
    BY <2>1, <2>2, ClaimAppends
  <2>4. Claimed(s)' = Claimed(s)
    BY <1>0, <2>1, <2>2, <2>3
  <2> QED
    BY <1>0, <1>4, <2>2, <2>4
<1>10. ASSUME NEW x \in Streams, Render(x)
       PROVE  ClaimOK(s)'
  <2> DEFINE batch == pending[x] + inFlight[x]
  <2>0. inFlight \in [Streams -> Nat] /\ pending \in [Streams -> Nat]
    BY DEF PlainOK
  <2>1. inFlight \in [Streams -> Nat] /\ pending \in [Streams -> Nat] /\ batch \in Nat
    BY <2>0
  <2>2. \/ Report(x, batch) /\ pending' = [pending EXCEPT ![x] = 0]
        \/ pending' = [pending EXCEPT ![x] = batch] /\ UNCHANGED signals
    BY <1>10 DEF Render
  <2>3. inFlight' = [inFlight EXCEPT ![x] = 0] /\ UNCHANGED <<ledger, reconnects>>
    BY <1>10 DEF Render, ledgerVars
  <2>4. s = x => batch = pending[s] + inFlight[s]
    OBVIOUS
  <2> HIDE DEF batch
  <2>5. inFlight'[s] = IF s = x THEN 0 ELSE inFlight[s]
    BY <2>1, <2>3
  <2>6. CASE Report(x, batch) /\ pending' = [pending EXCEPT ![x] = 0]
    <3>1. pending'[s] = IF s = x THEN 0 ELSE pending[s]
      BY <2>1, <2>6
    <3>2. Bytes(signals', "rendered", s) = Bytes(signals, "rendered", s) + IF s = x THEN batch ELSE 0
      BY <1>8, <2>1, <2>6
    <3>3. Claimed(s)' = Claimed(s)
      BY <1>0, <2>1, <2>4, <2>5, <3>1, <3>2
    <3> QED
      BY <1>0, <1>4, <2>3, <3>3
  <2>7. CASE pending' = [pending EXCEPT ![x] = batch] /\ UNCHANGED signals
    <3>1. pending'[s] = IF s = x THEN batch ELSE pending[s]
      BY <2>1, <2>7
    <3>2. Claimed(s)' = Claimed(s)
      BY <1>0, <2>4, <2>5, <2>7, <3>1
    <3> QED
      BY <1>0, <1>4, <2>3, <3>2
  <2> QED
    BY <2>2, <2>6, <2>7
<1>11. ASSUME NEW x \in Streams, IdleAck(x) \/ CloseSurface(x)
       PROVE  ClaimOK(s)'
  <2>1. inFlight \in [Streams -> Nat] /\ pending \in [Streams -> Nat] /\ pending[x] \in Nat
    BY DEF PlainOK
  <2>2. (Report(x, pending[x]) \/ UNCHANGED signals) /\ pending' = [pending EXCEPT ![x] = 0]
    BY <1>11 DEF IdleAck, CloseSurface
  <2>3. (inFlight' = inFlight \/ inFlight' = [inFlight EXCEPT ![x] = 0]) /\ UNCHANGED <<ledger, reconnects>>
    BY <1>11 DEF IdleAck, CloseSurface, ledgerVars
  <2>4. inFlight'[s] \in Nat /\ inFlight'[s] <= inFlight[s]
    BY <1>0, <2>1, <2>3
  <2>5. pending'[s] = IF s = x THEN 0 ELSE pending[s]
    BY <2>1, <2>2
  <2>6. \/ Bytes(signals', "rendered", s) = Bytes(signals, "rendered", s) + IF s = x THEN pending[x] ELSE 0
        \/ Bytes(signals', "rendered", s) = Bytes(signals, "rendered", s)
    BY <1>8, <2>1, <2>2
  <2>7. Claimed(s)' <= Claimed(s) /\ Claimed(s)' \in Int
    BY <1>0, <2>1, <2>4, <2>5, <2>6
  <2> QED
    BY <1>4, <2>3, <2>7
<1>12. CASE Flush
  <2>1. Book(s)'.unrendered = Book(s).unrendered /\ DOMAIN ledger' = DOMAIN ledger
    BY <1>12, FlushEffect DEF Flush, PlainOK
  <2>2. UNCHANGED <<pane, inFlight, pending, signals, reconnects>>
    BY <1>12 DEF Flush, webVars
  <2>3. Claimed(s)' = Claimed(s) /\ (Attached(s)' => Attached(s))
    BY <1>0, <2>1, <2>2 DEF Attached, Routed
  <2> QED
    BY <2>1, <2>2, <2>3 DEF ClaimOK
<1>13. CASE Deliver
  <2> DEFINE f == Head(buffer)
             x == f.stream
             n == f.bytes
             e == Charged(x, n)
  <2>1. f \in Frame /\ Attached(x) /\ Enters(x, e)
    BY <1>13, DeliverEffect
  <2>2. x \in Streams /\ n \in Nat
    BY <2>1 DEF Frame
  <2>3. DOMAIN ledger' = DOMAIN ledger \cup {x} /\ Book(s)' = IF s = x THEN e ELSE Book(s)
    <3> HIDE DEF x, e
    <3> QED
      BY <2>1, EntersBook
  <2>4. UNCHANGED <<pane, pending, signals, reconnects>>
        /\ inFlight' = IF f.kind = "output" THEN [inFlight EXCEPT ![x] = @ + n] ELSE inFlight
    BY <1>13 DEF Deliver
  <2>5. Attached(s)' => Attached(s)
    BY <2>1, <2>3, <2>4 DEF Attached, Routed
  <2>6. s = x => e.unrendered = Book(s).unrendered + n
    <3> DEFINE b == Book(x)
    <3>1. b \in Entry
      BY <2>2, BooksWhole DEF Whole
    <3>2. e = [b EXCEPT !.credit = @ - n, !.unrendered = @ + n]
      BY DEF Charged
    <3> HIDE DEF b, e, n
    <3>3. e.unrendered = b.unrendered + n
      BY <3>1, <3>2 DEF Entry
    <3> QED
      BY <3>3 DEF b
  <2> HIDE DEF f, x, n, e
  <2>7. inFlight'[s] \in Nat /\ inFlight'[s] <= inFlight[s] + IF s = x THEN n ELSE 0
    <3>1. inFlight \in [Streams -> Nat]
      BY DEF PlainOK
    <3> QED
      BY <2>2, <2>4, <3>1
  <2>8. /\ Claimed(s)' <= Claimed(s) + IF s = x THEN n ELSE 0
        /\ Claimed(s)' \in Int
    BY <1>0, <2>2, <2>4, <2>7
  <2>9. Book(s)'.unrendered = Book(s).unrendered + IF s = x THEN n ELSE 0
    BY <1>0, <2>3, <2>6
  <2> QED
    BY <1>0, <2>2, <2>4, <2>5, <2>8, <2>9 DEF ClaimOK
<1>14. CASE TakeSignal
  <2> DEFINE m == Head(signals)
             x == m.stream
             n == m.bytes
  <2>1. /\ x \in Streams /\ n \in Nat /\ signals # <<>>
        /\ \/ m.kind = "detach" /\ ApplyDetach(x)
           \/ m.kind = "rendered" /\ ApplyRendered(x, n)
    BY <1>14, FirstSignal
  <2>2. UNCHANGED <<pane, inFlight, pending, reconnects>>
    BY <1>14 DEF TakeSignal, webVars
  <2>3. /\ Share(m, "rendered", s) \in Nat /\ Bytes(signals', "rendered", s) \in Nat
        /\ Bytes(signals, "rendered", s) = Share(m, "rendered", s) + Bytes(signals', "rendered", s)
    BY <1>14, ClaimTaken
  <2>4. m.kind = "rendered" => Share(m, "rendered", s) = IF s = x THEN n ELSE 0
    BY DEF Share
  <2>5. CASE m.kind = "detach" /\ ApplyDetach(x)
    <3>1. pane[x] \notin {"shown", "forgotten"}
      <4>1. 1 \in DOMAIN signals /\ signals[1] = m
        BY <1>0, <2>1
      <4> QED
        BY <2>5, <4>1 DEF DetachIsTold
    <3>2. /\ x \notin DOMAIN ledger'
          /\ s # x => (s \in DOMAIN ledger' <=> s \in DOMAIN ledger) /\ Book(s)' = Book(s)
      BY <2>1, <2>5, DetachEffect
    <3>3. CASE s = x
      <4>1. ~ Attached(s)'
        BY <2>2, <3>1, <3>2, <3>3 DEF Attached, Routed
      <4> QED
        BY <4>1 DEF ClaimOK
    <3>4. CASE s # x
      <4>1. Attached(s)' => Attached(s)
        BY <2>2, <3>2, <3>4 DEF Attached, Routed
      <4>2. Claimed(s)' <= Claimed(s) /\ Claimed(s)' \in Int
        BY <1>0, <2>2, <2>3
      <4> QED
        BY <1>0, <2>2, <3>2, <3>4, <4>1, <4>2 DEF ClaimOK
    <3> QED
      BY <3>3, <3>4
  <2>6. CASE m.kind = "rendered" /\ Phantom(x, n)
    <3>1. UNCHANGED ledger
      BY <2>6 DEF Phantom, ledgerVars
    <3>2. Claimed(s)' <= Claimed(s) /\ Claimed(s)' \in Int
      BY <1>0, <2>2, <2>3
    <3> QED
      BY <1>4, <2>2, <3>1, <3>2
  <2>7. ASSUME m.kind = "rendered", NEW g \in 0..(Book(x).ungranted + n), Acks(x, n, g)
        PROVE  ClaimOK(s)'
    <3> DEFINE e == Credited(x, n, g)
    <3>1. Whole(Book(x)) /\ g \in Nat /\ g <= Book(x).ungranted + n /\ n <= Book(x).unrendered
          /\ Book(x).unrendered \in Nat
      <4>1. Whole(Book(x)) /\ Book(x).ungranted \in Nat /\ Book(x).unrendered \in Nat
        BY <2>1, BooksWhole DEF Whole, Entry
      <4> HIDE DEF n
      <4> QED
        BY <2>1, <2>7, <4>1 DEF Acks
    <3>2. e.unrendered = Book(x).unrendered - n
      <4>1. e = [credit |-> Book(x).credit + g, unrendered |-> Book(x).unrendered - n,
                 ungranted |-> Book(x).ungranted + n - g]
        <5> HIDE DEF x, n
        <5> QED
          BY <2>1, <3>1, CreditedWhole
      <4> HIDE DEF e
      <4> QED
        BY <4>1
    <3>3. Attached(x) /\ Enters(x, e)
      BY <2>7 DEF Acks
    <3> HIDE DEF e, x, n, m
    <3>4. DOMAIN ledger' = DOMAIN ledger \cup {x} /\ Book(s)' = IF s = x THEN e ELSE Book(s)
      BY <3>3, EntersBook
    <3>5. Attached(s)' => Attached(s)
      BY <2>2, <3>3, <3>4 DEF Attached, Routed
    <3>6. Claimed(s)' = Claimed(s) - IF s = x THEN n ELSE 0
      <4>1. Share(m, "rendered", s) = IF s = x THEN n ELSE 0
        BY <2>4, <2>7
      <4>2. inFlight'[s] = inFlight[s] /\ pending'[s] = pending[s]
        BY <2>2
      <4>3. Claimed(s)' = Claimed(s) - Share(m, "rendered", s)
        BY <1>0, <2>3, <4>2
      <4> QED
        BY <4>1, <4>3
    <3>7. Book(s)'.unrendered = Book(s).unrendered - IF s = x THEN n ELSE 0
      BY <1>0, <2>1, <3>2, <3>4
    <3> QED
      BY <1>0, <2>1, <2>2, <3>5, <3>6, <3>7 DEF ClaimOK
  <2>8. acking \in [Streams -> Nat]
    BY DEF PlainOK
  <2> HIDE DEF m, x, n
  <2> QED
    BY <2>1, <2>5, <2>6, <2>7, <2>8, RenderedEffect
<1> QED
  BY <1>6, <1>7, <1>9, <1>10, <1>11, <1>12, <1>13, <1>14 DEF Next, Reader

-----------------------------------------------------------------------------
\* What a daemon that honours the window is dropped for.

LEMMA PhantomsAreLater ==
  ASSUME PlainOK, LedgerOK, NothingMadeUp, TakeSignal, reader' = "phantom_ack"
  PROVE  reconnects > 0
<1> DEFINE m == Head(signals)
           x == m.stream
           n == m.bytes
<1>1. /\ x \in Streams /\ n \in Nat
      /\ \/ m.kind = "detach" /\ ApplyDetach(x)
         \/ m.kind = "rendered" /\ ApplyRendered(x, n)
  BY FirstSignal
<1>2. reader = "top" /\ acking \in [Streams -> Nat] /\ reconnects \in Nat
  BY ConstantsTyped DEF TakeSignal, PlainOK
<1>3. m.kind = "rendered" /\ ApplyRendered(x, n)
  BY <1>1, <1>2 DEF ApplyDetach
<1>4. Share(m, "rendered", x) = n
  BY <1>3 DEF Share
<1>5. /\ Bytes(signals', "rendered", x) \in Nat
      /\ Bytes(signals, "rendered", x) = Share(m, "rendered", x) + Bytes(signals', "rendered", x)
  BY ClaimTaken
<1> HIDE DEF m, x, n
<1>6. inFlight[x] \in Nat /\ pending[x] \in Nat /\ Book(x).unrendered \in Nat
  BY <1>1, ClaimTyped
<1>7. n <= Claimed(x) /\ Claimed(x) \in Nat
  BY <1>1, <1>4, <1>5, <1>6 DEF Claimed
<1>8. Attached(x) /\ n > Book(x).unrendered
  <2>1. Phantom(x, n) \/ \E g \in 0..(Book(x).ungranted + n) : Acks(x, n, g)
    BY <1>1, <1>2, <1>3, RenderedEffect
  <2>2. ~ \E g \in 0..(Book(x).ungranted + n) : Acks(x, n, g)
    BY <1>2 DEF Acks
  <2> QED
    BY <1>2, <2>1, <2>2 DEF Phantom
<1> QED
  BY <1>1, <1>2, <1>6, <1>7, <1>8 DEF NothingMadeUp

\* Where nothing else is attached the budget is what the stream was granted.
LEMMA AloneInTheBudget ==
  ASSUME LedgerOK, NEW x \in Streams, DOMAIN ledger \subseteq {x}, totalUngranted = 0
  PROVE  total >= Book(x).credit
<1> DEFINE f == Unrendered(ledger)
<1>1. total + totalUngranted + SumFunction(f) = TotalInitial /\ total \in Nat
  BY DEF LedgerOK
<1>2. Book(x) \in Entry /\ Book(x).credit + Book(x).unrendered + Book(x).ungranted = Initial
  BY BooksWhole DEF Whole
<1>3. f = [s \in DOMAIN ledger |-> ledger[s].unrendered]
  BY DEF Unrendered
<1>4. SumFunction(f) = Book(x).unrendered
  <2>1. CASE x \notin DOMAIN ledger
    <3>1. DOMAIN f = {}
      BY <1>3, <2>1
    <3> HIDE DEF f
    <3>2. SumFunction(f) = 0
      BY <3>1, SumOfNothing
    <3> QED
      BY <2>1, <3>2, BooksWhole
  <2>2. CASE x \in DOMAIN ledger
    <3> DEFINE S == {x}
    <3>1. f[x] = Book(x).unrendered /\ Book(x).unrendered \in Nat /\ f \in [S -> Nat] /\ x \in S
      BY <1>2, <1>3, <2>2 DEF Book, Entry
    <3>2. IsFiniteSet(S)
      BY FS_Singleton
    <3> DEFINE r == [y \in S \ {x} |-> f[y]]
    <3>3. DOMAIN r = {}
      OBVIOUS
    <3> HIDE DEF f, S
    <3>4. SumFunction(f) = f[x] + SumFunction(r)
      <4>1. x \in S
        BY <3>1
      <4>2. ASSUME NEW g \in [S -> Nat]
            PROVE  SumFunction(g) = g[x] + SumFunction([y \in S \ {x} |-> g[y]])
        BY ONLY <4>1, <3>2, SumOf
      <4> QED
        BY <3>1, <4>2
    <3> HIDE DEF r
    <3>5. SumFunction(r) = 0
      BY <3>3, SumOfNothing
    <3> QED
      BY <3>1, <3>4, <3>5
  <2> QED
    BY <2>1, <2>2
<1> HIDE DEF f
<1> QED
  BY <1>1, <1>2, <1>4, ConstantsTyped DEF Entry

LEMMA OverrunsAreSmall ==
  ASSUME PlainOK, LedgerOK, NeverOverdrawn, Drop, reader' = "output_overrun"
  PROVE  LET f == Head(buffer) IN
         /\ f.bytes < Book(f.stream).credit + charged[f.stream] + Chunk
         /\ \/ f.bytes > Book(f.stream).credit
            \/ DOMAIN ledger \ {f.stream} # {}
            \/ totalUngranted > 0
<1> DEFINE f == Head(buffer)
           x == f.stream
           n == f.bytes
<1>1. buffer \in Seq(Frame) /\ wire \in Seq(Frame) /\ buffer # <<>> /\ Attached(x) /\ ~ Dropped
  BY DEF Drop, PlainOK, Dropped
<1>2. f.kind = "output" /\ Overruns(f)
  BY DEF Drop
<1>3. f \in Frame /\ x \in Streams /\ n \in Nat
  <2>1. f \in Frame
    BY <1>1
  <2> QED
    BY <2>1 DEF Frame
<1>4. Opened(x)[x] = Book(x)
  BY DEF Opened, Book, Fresh
<1>5. Book(x).credit \in Nat /\ total \in Nat /\ totalUngranted \in Nat
  BY <1>3, BooksWhole DEF Whole, Entry, LedgerOK
<1>6. n > Book(x).credit \/ n > total
  <2>1. n > Min({Book(x).credit, total})
    BY <1>2, <1>4 DEF Overruns, Available
  <2> HIDE DEF n, x
  <2> QED
    BY <1>3, <1>5, <2>1, MinOfTwo
<1>7. Share(f, "output", x) = n
  BY <1>2 DEF Share
<1>8. /\ Bytes(Tail(buffer), "output", x) \in Nat
      /\ Bytes(buffer, "output", x) = Share(f, "output", x) + Bytes(Tail(buffer), "output", x)
  BY <1>1, FramesMeasured, BytesTail
<1>9. Bytes(wire, "output", x) \in Nat
  BY <1>1, FramesMeasured, BytesTyped
<1> HIDE DEF f, x, n
<1>10. Coming(x) >= n /\ Coming(x) \in Nat
  BY <1>3, <1>7, <1>8, <1>9 DEF Coming
<1>11. /\ allowance[x] \in Int /\ allowance[x] >= 1 - Chunk /\ acking[x] \in Nat /\ Chunk \in Nat
       /\ charged[x] \in Nat
  BY <1>3, ConstantsTyped DEF PlainOK
<1>12. allowance[x] + acking[x] + Coming(x) <= Book(x).credit + charged[x]
  BY <1>1, <1>3 DEF NeverOverdrawn, Promised
<1>13. n < Book(x).credit + charged[x] + Chunk
  BY <1>3, <1>5, <1>10, <1>11, <1>12
<1>14. n > Book(x).credit \/ DOMAIN ledger \ {x} # {} \/ totalUngranted > 0
  <2> SUFFICES ASSUME DOMAIN ledger \subseteq {x}, totalUngranted = 0, n <= Book(x).credit
               PROVE  FALSE
    BY <1>3, <1>5
  <2>1. total >= Book(x).credit
    BY <1>3, AloneInTheBudget
  <2> QED
    BY <1>3, <1>5, <1>6, <2>1
<1> QED
  BY <1>13, <1>14 DEF f, x, n

LEMMA HonestKept ==
  ASSUME PlainOK, LedgerOK, NeverOverdrawn, NothingMadeUp, HonestDaemonIsKept, Next
  PROVE  HonestDaemonIsKept'
<1>1. CASE Reconnect
  BY <1>1 DEF Reconnect, HonestDaemonIsKept
<1>2. CASE TakeSignal
  <2>1. reader' = "top" \/ reader' = "phantom_ack"
    <3> DEFINE x == Head(signals).stream
               n == Head(signals).bytes
    <3>1. x \in Streams /\ n \in Nat /\ (ApplyDetach(x) \/ ApplyRendered(x, n))
      BY <1>2, FirstSignal
    <3>2. reader = "top" /\ acking \in [Streams -> Nat]
      BY <1>2 DEF TakeSignal, PlainOK
    <3>3. ApplyDetach(x) => reader' = reader
      BY DEF ApplyDetach
    <3> HIDE DEF x, n
    <3>4. ApplyRendered(x, n) => reader' = reader \/ reader' = "phantom_ack"
      BY <3>1, <3>2, RenderedEffect DEF Phantom, Acks
    <3> QED
      BY <3>1, <3>2, <3>3, <3>4
  <2>2. reader' = "phantom_ack" => reconnects > 0
    BY <1>2, PhantomsAreLater
  <2>3. UNCHANGED reconnects
    BY <1>2 DEF TakeSignal, webVars
  <2> QED
    BY <2>1, <2>2, <2>3 DEF HonestDaemonIsKept
<1>3. CASE Drop
  <2>1. UNCHANGED <<buffer, ledger, totalUngranted, charged>> /\ reader' \in {"output_overrun", "exit_overrun"}
    BY <1>3 DEF Drop, ledgerVars
  <2>2. reader' = "output_overrun" =>
          /\ Head(buffer).bytes < Book(Head(buffer).stream).credit + charged[Head(buffer).stream] + Chunk
          /\ \/ Head(buffer).bytes > Book(Head(buffer).stream).credit
             \/ DOMAIN ledger \ {Head(buffer).stream} # {}
             \/ totalUngranted > 0
    BY <1>3, OverrunsAreSmall
  <2> QED
    BY <2>1, <2>2 DEF HonestDaemonIsKept, Book, Fresh
<1>4. CASE Flush \/ Resume \/ Read \/ Deliver \/ Discard \/ NextPass
  <2>1. reader' \in {"top", "read", "decode"}
    BY <1>4 DEF Flush, Resume, Read, Deliver, Discard, NextPass
  <2> QED
    BY <2>1 DEF HonestDaemonIsKept
<1>5. ASSUME NEW s \in Streams,
             \/ \E n \in 1..Chunk : Send(s, n)
             \/ SendExit(s) \/ ApplyAck(s)
             \/ Forget(s) \/ PostDetach(s) \/ DaemonDetaches(s)
             \/ Render(s) \/ IdleAck(s) \/ CloseSurface(s)
      PROVE  HonestDaemonIsKept'
  <2>1. UNCHANGED <<buffer, reader, ledger, totalUngranted, charged, reconnects>>
    BY <1>5 DEF Send, SendExit, ApplyAck, Forget, PostDetach, DaemonDetaches, Render, IdleAck,
                CloseSurface, ledgerVars, webVars
  <2> QED
    BY <2>1 DEF HonestDaemonIsKept, Book, Fresh
<1> QED
  BY <1>1, <1>2, <1>3, <1>4, <1>5 DEF Next, Reader

-----------------------------------------------------------------------------
\* The theorems.

LEMMA CreditInit == Init => CreditInv
<1> SUFFICES ASSUME Init PROVE CreditInv
  OBVIOUS
<1>1. PlainOK
  <2>1. <<>> \in Seq(Frame) /\ <<>> \in Seq(Signal)
    OBVIOUS
  <2> QED
    BY <2>1, ConstantsTyped DEF Init, PlainOK, Zero
<1>2. LedgerOK
  <2>1. ledger = [s \in {} |-> 0] /\ total = TotalInitial /\ totalUngranted = 0 /\ DOMAIN ledger = {}
    BY DEF Init
  <2>2. total + totalUngranted + SumFunction(Unrendered(ledger)) = TotalInitial
    BY <2>1, NewBooks
  <2> QED
    BY <2>1, <2>2, NewBooks DEF LedgerOK
<1>3. BufferIsRead /\ DetachIsTold /\ HonestDaemonIsKept
  BY DEF Init, BufferIsRead, DetachIsTold, HonestDaemonIsKept
<1>4. ASSUME NEW s \in Streams
      PROVE  FlowOK(s) /\ ClaimOK(s)
  <2>1. Book(s) = Fresh /\ Fresh.credit = Initial /\ Fresh.unrendered = 0
    BY DEF Init, Book, Fresh
  <2>2. Coming(s) = 0 /\ Bytes(signals, "rendered", s) = 0
    BY BytesOfNothing DEF Init, Coming
  <2>3. Promised(s) = Initial /\ Claimed(s) = 0
    BY <2>2, ConstantsTyped DEF Init, Promised, Claimed, Zero
  <2> QED
    BY <2>1, <2>3, ConstantsTyped DEF Init, Zero, FlowOK, ClaimOK
<1> QED
  BY <1>1, <1>2, <1>3, <1>4, FlowOfEach, ClaimOfEach DEF CreditInv

LEMMA CreditNext == CreditInv /\ [Next]_vars => CreditInv'
<1> SUFFICES ASSUME CreditInv, [Next]_vars PROVE CreditInv'
  OBVIOUS
<1>1. CASE UNCHANGED vars
  <2> USE <1>1 DEF vars, daemonVars, ledgerVars, webVars
  <2>1. PlainOK' /\ LedgerOK'
    BY DEF CreditInv, PlainOK, LedgerOK, Dropped
  <2>2. BufferIsRead' /\ DetachIsTold'
    BY DEF CreditInv, BufferIsRead, DetachIsTold
  <2>3. \A s \in Streams : Book(s)' = Book(s) /\ Coming(s)' = Coming(s)
    BY DEF Book, Fresh, Coming
  <2>4. MirrorAgrees' /\ NeverOverdrawn'
    BY <2>3 DEF CreditInv, MirrorAgrees, NeverOverdrawn, Dropped, Routed, Attached, Promised
  <2>5. NothingMadeUp'
    BY <2>3 DEF CreditInv, NothingMadeUp, Attached, Routed, Claimed
  <2>6. HonestDaemonIsKept'
    BY DEF CreditInv, HonestDaemonIsKept, Book, Fresh
  <2> QED
    BY <2>1, <2>2, <2>4, <2>5, <2>6 DEF CreditInv
<1>2. CASE Next
  <2>1. /\ PlainOK /\ LedgerOK /\ BufferIsRead /\ DetachIsTold
        /\ MirrorAgrees /\ NeverOverdrawn /\ NothingMadeUp /\ HonestDaemonIsKept
    BY DEF CreditInv
  <2>2. PlainOK' /\ LedgerOK' /\ BufferIsRead' /\ DetachIsTold' /\ HonestDaemonIsKept'
    BY <1>2, <2>1, PlainKept, LedgerKept, BufferKept, DetachKept, HonestKept
  <2>3. \A s \in Streams : FlowOK(s) /\ ClaimOK(s)
    BY <2>1, FlowOfEach, ClaimOfEach
  <2>4. \A s \in Streams : FlowOK(s)' /\ ClaimOK(s)'
    BY <1>2, <2>1, <2>3, FlowKept, ClaimKept
  <2>5. (\A s \in Streams : FlowOK(s))' /\ (\A s \in Streams : ClaimOK(s))'
    BY <2>4
  <2>6. (MirrorAgrees /\ NeverOverdrawn)' /\ NothingMadeUp'
    BY <2>2, <2>5, FlowOfEach, ClaimOfEach, PTL
  <2> QED
    BY <2>2, <2>6 DEF CreditInv
<1> QED
  BY <1>1, <1>2

LEMMA BalanceOfBooks == CreditInv => BooksBalance
<1> SUFFICES ASSUME CreditInv PROVE BooksBalance
  OBVIOUS
<1>1. PlainOK /\ LedgerOK /\ MirrorAgrees
  BY DEF CreditInv
<1>2. LedgerBalances /\ SharedBudgetBalances
  BY <1>1 DEF LedgerOK, LedgerBalances, SharedBudgetBalances, Whole, Unrendered
<1>3. ledger \in [DOMAIN ledger -> [credit : 0..Maximum, unrendered : 0..Initial, ungranted : 0..Initial]]
  <2>1. ASSUME NEW e, Whole(e)
        PROVE  e \in [credit : 0..Maximum, unrendered : 0..Initial, ungranted : 0..Initial]
    BY <2>1, ConstantsTyped DEF Whole, Entry
  <2> QED
    BY <1>1, <2>1 DEF LedgerOK
<1>4. total \in 0..TotalMax /\ totalUngranted \in 0..TotalMax /\ DOMAIN ledger \subseteq Streams
  <2>1. SumFunction(Unrendered(ledger)) \in Nat
    BY <1>1, NothingIsCut
  <2> QED
    BY <1>1, <2>1, ConstantsTyped DEF LedgerOK
<1>5. reader \in {"top", "read", "decode", "output_overrun", "exit_overrun", "phantom_ack"}
  BY <1>1 DEF PlainOK, Dropped
<1>6. CreditTypeOK
  BY <1>1, <1>3, <1>4, <1>5 DEF CreditTypeOK, PlainOK
<1> QED
  BY <1>1, <1>2, <1>6 DEF BooksBalance

LEMMA CreditInductive == Spec => []CreditInv
BY CreditInit, CreditNext, PTL DEF Spec

\* The window is moved about and nothing else: what a stream was granted is with
\* the daemon, in its ledger entry or in an ack; and so for the shared budget.
THEOREM CreditBalances == Spec => []BooksBalance
BY CreditInductive, BalanceOfBooks, PTL

\* A daemon that honours the window is dropped for less than a chunk, but for what
\* exit frames have taken.
THEOREM CreditHonest == Spec => []HonestDaemonIsKept
<1>1. CreditInv => HonestDaemonIsKept
  BY DEF CreditInv
<1> QED
  BY <1>1, CreditInductive, PTL

=============================================================================
