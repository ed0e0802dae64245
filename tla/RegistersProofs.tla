---------------------------- MODULE RegistersProofs ----------------------------
(***************************************************************************)
(* Proofs about the registers of ControlledRecords, Inventory,             *)
(* IntegrationStore, Purchasing and Approvals, each in a part of its own.  *)
(* What the models compute with folds over finite sets is reasoned about   *)
(* by way of smallest counterexamples: of the sets for which a fact fails, *)
(* there is one that contains none of the others.                          *)
(***************************************************************************)
EXTENDS ControlledRecords, Inventory, IntegrationStore, Purchasing, Approvals, FiniteSetTheorems,
  SequenceTheorems, WellFoundedInduction, TLAPS

\* Of some natural numbers there is a smallest.
LEMMA SmallestNat ==
  ASSUME NEW S \in SUBSET Nat, S # {}
  PROVE  \E n \in S : \A m \in S : n <= m
<1> DEFINE T == {0..n : n \in S}
<1>1. T \subseteq FiniteSubsetsOf(Nat) /\ T # {}
  <2>1. \A n \in Nat : IsFiniteSet(0..n) /\ 0..n \in SUBSET Nat
    BY FS_Interval
  <2> QED
    BY <2>1 DEF FiniteSubsetsOf
<1>2. PICK x \in T : \A y \in T : <<y, x>> \notin StrictSubsetOrdering(Nat)
  BY <1>1, FS_StrictSubsetOrderingWellFounded, WFMin
<1>3. PICK n \in S : x = 0..n
  BY <1>2
<1>4. ASSUME NEW m \in S, ~(n <= m) PROVE FALSE
  <2>1. 0..m \in T /\ 0..m \in SUBSET Nat /\ 0..n \in SUBSET Nat
    OBVIOUS
  <2>2. 0..m \subseteq 0..n /\ n \in 0..n /\ n \notin 0..m
    BY <1>4
  <2>3. <<0..m, 0..n>> \in StrictSubsetOrdering(Nat)
    BY <2>1, <2>2 DEF StrictSubsetOrdering
  <2> QED
    BY <1>2, <1>3, <2>1, <2>3
<1> QED
  BY <1>4

\* Among finite sets there is one that has none of the others in it.
LEMMA SmallestSet ==
  ASSUME NEW F, F # {}, \A T \in F : IsFiniteSet(T)
  PROVE  \E T \in F : \A U \in F : U \subseteq T => U = T
  <1> DEFINE X == UNION F
  <1>1. F \subseteq FiniteSubsetsOf(X)
    BY DEF FiniteSubsetsOf
  <1>2. PICK T \in F : \A U \in F : <<U, T>> \notin StrictSubsetOrdering(X)
    BY <1>1, FS_StrictSubsetOrderingWellFounded, WFMin
  <1>3. \A U \in F : U \subseteq T => U = T
    BY <1>2 DEF StrictSubsetOrdering
  <1> QED BY <1>3

\* What a fold computes for each subset.
IsFold(it, S, pick, base, h) ==
  it = [s \in SUBSET S |-> IF s = {} THEN base ELSE h[<<pick[s], it[s \ {pick[s]}]>>]]

LEMMA FoldsAgree ==
  ASSUME NEW S, IsFiniteSet(S), NEW pick \in [(SUBSET S) \ {{}} -> S], \A s \in (SUBSET S) \ {{}} : pick[s] \in s,
         NEW base, NEW h, NEW T \in SUBSET S, NEW U \in SUBSET S, NEW f, NEW g,
         IsFold(f, T, pick, base, h), IsFold(g, U, pick, base, h), NEW s \in (SUBSET T) \cap SUBSET U
  PROVE  f[s] = g[s]
  <1> DEFINE F == {t \in (SUBSET T) \cap SUBSET U : f[t] # g[t]}
  <1> SUFFICES ASSUME F # {} PROVE FALSE
    OBVIOUS
  <1>1. \A t \in F : IsFiniteSet(t)
    BY FS_Subset
  <1>2. PICK t \in F : \A u \in F : u \subseteq t => u = t
    <2> HIDE DEF F
    <2> QED BY <1>1, SmallestSet
  <1>3. CASE t = {}
    BY <1>2, <1>3 DEF IsFold
  <1>4. CASE t # {}
    <2>1. pick[t] \in t
      BY <1>4
    <2>2. f[t \ {pick[t]}] = g[t \ {pick[t]}]
      BY <1>2, <2>1
    <2>3. f[t] = h[<<pick[t], f[t \ {pick[t]}]>>] /\ g[t] = h[<<pick[t], g[t \ {pick[t]}]>>]
      BY <1>4 DEF IsFold
    <2> QED BY <2>2, <2>3
  <1> QED BY <1>3, <1>4

LEMMA FoldExists ==
  ASSUME NEW S, IsFiniteSet(S), NEW pick \in [(SUBSET S) \ {{}} -> S], \A s \in (SUBSET S) \ {{}} : pick[s] \in s,
         NEW base, NEW h
  PROVE  \E it : IsFold(it, S, pick, base, h)
  <1> DEFINE F == {T \in SUBSET S : ~\E it : IsFold(it, T, pick, base, h)}
  <1> SUFFICES ASSUME F # {} PROVE FALSE
    OBVIOUS
  <1>1. \A T \in F : IsFiniteSet(T)
    BY FS_Subset
  <1>2. PICK T \in F : \A U \in F : U \subseteq T => U = T
    <2> HIDE DEF F
    <2> QED BY <1>1, SmallestSet
  <1> DEFINE Of(U) == CHOOSE it : IsFold(it, U, pick, base, h)
             Rest(s) == s \ {pick[s]}
             it == [s \in SUBSET T |-> IF s = {} THEN base ELSE h[<<pick[s], Of(Rest(s))[Rest(s)]>>]]
  <1>3. \A U \in SUBSET T : U # T => IsFold(Of(U), U, pick, base, h)
    BY <1>2
  <1>4. \A s \in (SUBSET T) \ {{}} : Rest(s) \in SUBSET s /\ Rest(s) # T /\ Rest(s) # s
    OBVIOUS
  <1>5. ASSUME NEW U \in SUBSET T, U # T
        PROVE  Of(U)[U] = it[U]
    <2>1. CASE U = {}
      <3>1. IsFold(Of(U), U, pick, base, h)
        BY <1>3, <1>5
      <3>2. Of(U)[U] = base
        <4> HIDE DEF Of
        <4> QED BY <2>1, <3>1 DEF IsFold
      <3>3. it[U] = base
        BY <2>1
      <3> QED BY <3>2, <3>3
    <2>2. CASE U # {}
      <3> DEFINE V == Rest(U)
      <3>1. V \in SUBSET U /\ V \in SUBSET T /\ V # T
        BY <1>4, <2>2
      <3>2. IsFold(Of(U), U, pick, base, h) /\ IsFold(Of(V), V, pick, base, h)
        BY <1>3, <1>5, <3>1
      <3>3. Of(U)[V] = Of(V)[V]
        <4>1. U \in SUBSET S /\ V \in SUBSET S /\ V \in (SUBSET U) \cap SUBSET V
          BY <3>1
        <4> HIDE DEF V, Of, it
        <4> QED BY <3>2, <4>1, FoldsAgree
      <3>4. Of(U)[U] = h[<<pick[U], Of(U)[V]>>]
        <4> HIDE DEF Of
        <4> QED BY <2>2, <3>2 DEF IsFold
      <3>5. it[U] = h[<<pick[U], Of(V)[V]>>]
        BY <2>2
      <3> QED BY <3>3, <3>4, <3>5
    <2> QED BY <2>1, <2>2
  <1>6. IsFold(it, T, pick, base, h)
    <2>1. \A s \in (SUBSET T) \ {{}} : it[s] = h[<<pick[s], it[Rest(s)]>>]
      <3> SUFFICES ASSUME NEW s \in (SUBSET T) \ {{}} PROVE it[s] = h[<<pick[s], it[Rest(s)]>>]
        OBVIOUS
      <3>1. it[s] = h[<<pick[s], Of(Rest(s))[Rest(s)]>>]
        OBVIOUS
      <3>2. Of(Rest(s))[Rest(s)] = it[Rest(s)]
        <4>1. Rest(s) \in SUBSET T /\ Rest(s) # T
          BY <1>4
        <4> HIDE DEF Rest, it, Of
        <4> QED BY <1>5, <4>1
      <3> QED BY <3>1, <3>2
    <2>2. it[{}] = base /\ it = [s \in SUBSET T |-> it[s]]
      OBVIOUS
    <2> HIDE DEF it
    <2> QED BY <2>1, <2>2 DEF IsFold
  <1> QED BY <1>2, <1>6

-----------------------------------------------------------------------------
(* Sums. *)

SumOver(q, S) == LET n(i) == q[i] IN MapThenSumSet(n, S)

Chosen(s) == CHOOSE x \in s : TRUE

IsSum(it, q, S) == it = [s \in SUBSET S |-> IF s = {} THEN 0 ELSE q[Chosen(s)] + it[s \ {Chosen(s)}]]

LEMMA SumFolds ==
  ASSUME NEW S, IsFiniteSet(S), NEW q, \A x \in S : q[x] \in Int
  PROVE  \E it : IsSum(it, q, S) /\ SumOver(q, S) = it[S]
  <1> DEFINE pick == [s \in (SUBSET S) \ {{}} |-> Chosen(s)]
             h == [p \in S \X Int |-> q[p[1]] + p[2]]
  <1>1. \A s \in (SUBSET S) \ {{}} : Chosen(s) \in s /\ pick[s] = Chosen(s)
    BY DEF Chosen
  <1>2. pick \in [(SUBSET S) \ {{}} -> S] /\ \A s \in (SUBSET S) \ {{}} : pick[s] \in s
    BY <1>1
  <1>3. \A x \in S, n \in Int : h[<<x, n>>] = q[x] + n /\ h[<<x, n>>] \in Int
    OBVIOUS
  <1> HIDE DEF pick, h
  <1>4. PICK it : IsFold(it, S, pick, 0, h)
    BY <1>2, FoldExists
  <1>5. \A s \in SUBSET S : it[s] \in Int
    <2> DEFINE F == {s \in SUBSET S : it[s] \notin Int}
    <2> SUFFICES ASSUME F # {} PROVE FALSE
      OBVIOUS
    <2>1. \A s \in F : IsFiniteSet(s)
      BY FS_Subset
    <2>2. PICK s \in F : \A u \in F : u \subseteq s => u = s
      <3> HIDE DEF F
      <3> QED BY <2>1, SmallestSet
    <2>3. s # {}
      BY <1>4, <2>2 DEF IsFold
    <2>4. pick[s] \in s /\ it[s] = h[<<pick[s], it[s \ {pick[s]}]>>]
      BY <1>2, <1>4, <2>3 DEF IsFold
    <2>5. it[s \ {pick[s]}] \in Int
      BY <2>2, <2>4
    <2> QED BY <1>3, <2>2, <2>4, <2>5
  <1>6. IsSum(it, q, S)
    <2>1. \A s \in (SUBSET S) \ {{}} : it[s] = q[Chosen(s)] + it[s \ {Chosen(s)}]
      <3> SUFFICES ASSUME NEW s \in (SUBSET S) \ {{}} PROVE it[s] = q[Chosen(s)] + it[s \ {Chosen(s)}]
        OBVIOUS
      <3>1. Chosen(s) \in S /\ it[s \ {Chosen(s)}] \in Int
        BY <1>1, <1>5
      <3>2. it[s] = h[<<Chosen(s), it[s \ {Chosen(s)}]>>]
        BY <1>1, <1>4 DEF IsFold
      <3> QED BY <1>3, <3>1, <3>2
    <2>2. it = [s \in SUBSET S |-> it[s]] /\ it[{}] = 0
      BY <1>4 DEF IsFold
    <2> QED BY <2>1, <2>2 DEF IsSum
  <1>7. IsSum(CHOOSE f : IsSum(f, q, S), q, S)
    BY <1>6
  <1>8. SumOver(q, S) = (CHOOSE f : IsSum(f, q, S))[S]
    BY DEF SumOver, MapThenSumSet, MapThenFoldSet, IsSum, Chosen
  <1> QED BY <1>7, <1>8

\* Sums over parts of a set agree.
LEMMA SumsAgree ==
  ASSUME NEW S, IsFiniteSet(S), NEW q, NEW f, NEW g, NEW T \in SUBSET S, NEW U \in SUBSET S,
         IsSum(f, q, T), IsSum(g, q, U), NEW s \in (SUBSET T) \cap SUBSET U
  PROVE  f[s] = g[s]
  <1> DEFINE F == {t \in (SUBSET T) \cap SUBSET U : f[t] # g[t]}
  <1> SUFFICES ASSUME F # {} PROVE FALSE
    OBVIOUS
  <1>1. \A t \in F : IsFiniteSet(t)
    BY FS_Subset
  <1>2. PICK t \in F : \A u \in F : u \subseteq t => u = t
    <2> HIDE DEF F
    <2> QED BY <1>1, SmallestSet
  <1>3. t # {}
    BY <1>2 DEF IsSum
  <1>4. Chosen(t) \in t
    BY <1>3 DEF Chosen
  <1>5. f[t] = q[Chosen(t)] + f[t \ {Chosen(t)}] /\ g[t] = q[Chosen(t)] + g[t \ {Chosen(t)}]
    BY <1>3 DEF IsSum
  <1> QED BY <1>2, <1>4, <1>5

LEMMA SumUnfolds ==
  ASSUME NEW S, IsFiniteSet(S), NEW q, \A x \in S : q[x] \in Int
  PROVE  /\ SumOver(q, {}) = 0
         /\ S # {} => Chosen(S) \in S /\ SumOver(q, S) = q[Chosen(S)] + SumOver(q, S \ {Chosen(S)})
  <1>1. SumOver(q, {}) = 0
    <2>1. IsFiniteSet({}) /\ \A x \in {} : q[x] \in Int
      BY FS_EmptySet
    <2>2. PICK it : IsSum(it, q, {}) /\ SumOver(q, {}) = it[{}]
      BY <2>1, SumFolds
    <2> QED BY <2>2 DEF IsSum
  <1>2. ASSUME S # {}
        PROVE  Chosen(S) \in S /\ SumOver(q, S) = q[Chosen(S)] + SumOver(q, S \ {Chosen(S)})
    <2> DEFINE R == S \ {Chosen(S)}
    <2>1. Chosen(S) \in S
      BY <1>2 DEF Chosen
    <2>2. PICK f : IsSum(f, q, S) /\ SumOver(q, S) = f[S]
      BY SumFolds
    <2>3. IsFiniteSet(R) /\ \A x \in R : q[x] \in Int
      BY FS_Subset
    <2>4. PICK g : IsSum(g, q, R) /\ SumOver(q, R) = g[R]
      <3> HIDE DEF R
      <3> QED BY <2>3, SumFolds
    <2>5. f[R] = g[R]
      BY <2>2, <2>4, SumsAgree
    <2>6. f[S] = q[Chosen(S)] + f[R]
      BY <1>2, <2>2 DEF IsSum
    <2> QED BY <2>1, <2>2, <2>4, <2>5, <2>6
  <1> QED BY <1>1, <1>2

\* A sum is a number, and any of its summands can be taken first.
LEMMA SumOfOneMore ==
  ASSUME NEW S, IsFiniteSet(S), NEW q, \A x \in S : q[x] \in Int
  PROVE  /\ SumOver(q, S) \in Int
         /\ \A x \in S : SumOver(q, S) = q[x] + SumOver(q, S \ {x})
  <1> DEFINE Good(s) == /\ SumOver(q, s) \in Int
                        /\ \A x \in s : SumOver(q, s) = q[x] + SumOver(q, s \ {x})
             F == {s \in SUBSET S : ~Good(s)}
  <1>1. CASE F = {}
    BY <1>1
  <1>2. CASE F # {}
    <2>1. \A s \in F : IsFiniteSet(s)
      BY FS_Subset
    <2>2. PICK s \in F : \A u \in F : u \subseteq s => u = s
      <3> HIDE DEF F
      <3> QED BY <1>2, <2>1, SmallestSet
    <2>3. \A u \in SUBSET s : u # s => Good(u)
      BY <2>2
    <2>4. IsFiniteSet(s) /\ \A x \in s : q[x] \in Int
      BY <2>1, <2>2
    <2>5. s # {} => Chosen(s) \in s /\ SumOver(q, s) = q[Chosen(s)] + SumOver(q, s \ {Chosen(s)})
      BY <2>4, SumUnfolds
    <2>6. SumOver(q, {}) = 0
      BY <2>4, SumUnfolds
    <2>7. s # {}
      <3>1. Good({})
        BY <2>6
      <3>2. ~Good(s)
        BY <2>2
      <3> HIDE DEF Good
      <3> QED BY <3>1, <3>2
    <2> DEFINE p == Chosen(s)
    <2>8. SumOver(q, s \ {p}) \in Int /\ p \in s
      BY <2>3, <2>5, <2>7
    <2>9. SumOver(q, s) \in Int
      BY <2>4, <2>5, <2>7, <2>8
    <2>10. ASSUME NEW x \in s, x # p
           PROVE  SumOver(q, s) = q[x] + SumOver(q, s \ {x})
      <3>1. Good(s \ {p}) /\ Good(s \ {x}) /\ Good((s \ {p}) \ {x})
        BY <2>3, <2>8
      <3>2. SumOver(q, s \ {p}) = q[x] + SumOver(q, (s \ {p}) \ {x})
        BY <2>10, <3>1
      <3>3. SumOver(q, s \ {x}) = q[p] + SumOver(q, (s \ {x}) \ {p})
        BY <2>8, <2>10, <3>1
      <3>4. (s \ {x}) \ {p} = (s \ {p}) \ {x}
        OBVIOUS
      <3>5. SumOver(q, (s \ {p}) \ {x}) \in Int /\ q[x] \in Int /\ q[p] \in Int
        BY <2>4, <2>8, <3>1
      <3> HIDE DEF p
      <3>6. SumOver(q, s) = q[p] + SumOver(q, s \ {p})
        BY <2>5, <2>7 DEF p
      <3> DEFINE rest == SumOver(q, (s \ {p}) \ {x})
      <3>7. SumOver(q, s \ {x}) = q[p] + rest /\ SumOver(q, s) = q[p] + (q[x] + rest)
        BY <3>2, <3>3, <3>4, <3>6
      <3> HIDE DEF rest
      <3> QED BY <3>5, <3>7 DEF rest
    <2> QED BY <2>2, <2>5, <2>7, <2>9, <2>10
  <1> QED BY <1>1, <1>2

\* The same summands make the same sum, and more of them that are not negative
\* do not make a smaller one.
LEMMA SumOfTheSame ==
  ASSUME NEW S, IsFiniteSet(S), NEW q, NEW r, \A x \in S : q[x] \in Int /\ q[x] = r[x]
  PROVE  SumOver(q, S) = SumOver(r, S)
  <1> DEFINE F == {s \in SUBSET S : SumOver(q, s) # SumOver(r, s)}
  <1> SUFFICES ASSUME F # {} PROVE FALSE
    OBVIOUS
  <1>1. \A s \in F : IsFiniteSet(s)
    BY FS_Subset
  <1>2. PICK s \in F : \A u \in F : u \subseteq s => u = s
    <2> HIDE DEF F
    <2> QED BY <1>1, SmallestSet
  <1>3. IsFiniteSet(s) /\ (\A x \in s : q[x] \in Int) /\ \A x \in s : r[x] \in Int
    BY <1>1, <1>2
  <1>4. /\ SumOver(q, {}) = 0 /\ SumOver(r, {}) = 0
        /\ s # {} => /\ Chosen(s) \in s
                     /\ SumOver(q, s) = q[Chosen(s)] + SumOver(q, s \ {Chosen(s)})
                     /\ SumOver(r, s) = r[Chosen(s)] + SumOver(r, s \ {Chosen(s)})
    <2>1. /\ SumOver(q, {}) = 0
          /\ s # {} => Chosen(s) \in s /\ SumOver(q, s) = q[Chosen(s)] + SumOver(q, s \ {Chosen(s)})
      BY <1>3, SumUnfolds
    <2>2. /\ SumOver(r, {}) = 0
          /\ s # {} => Chosen(s) \in s /\ SumOver(r, s) = r[Chosen(s)] + SumOver(r, s \ {Chosen(s)})
      BY <1>3, SumUnfolds
    <2> QED BY <2>1, <2>2
  <1>5. s # {}
    BY <1>2, <1>4
  <1>6. SumOver(q, s \ {Chosen(s)}) = SumOver(r, s \ {Chosen(s)})
    BY <1>2, <1>4, <1>5
  <1>7. q[Chosen(s)] = r[Chosen(s)]
    BY <1>2, <1>4, <1>5
  <1> QED BY <1>2, <1>4, <1>5, <1>6, <1>7

LEMMA SumGrows ==
  ASSUME NEW S, IsFiniteSet(S), NEW q, \A x \in S : q[x] \in Nat, NEW T \in SUBSET S
  PROVE  SumOver(q, T) <= SumOver(q, S) /\ SumOver(q, T) \in Nat
  <1> DEFINE F == {s \in SUBSET S : ~(SumOver(q, s) \in Nat /\ \A u \in SUBSET s : SumOver(q, u) <= SumOver(q, s))}
  <1>0. \A x \in S : q[x] \in Int
    OBVIOUS
  <1>1. F = {}
    <2> SUFFICES ASSUME F # {} PROVE FALSE
      OBVIOUS
    <2>1. \A s \in F : IsFiniteSet(s)
      BY FS_Subset
    <2>2. PICK s \in F : \A u \in F : u \subseteq s => u = s
      <3> HIDE DEF F
      <3> QED BY <2>1, SmallestSet
    <2>3. \A u \in SUBSET s : u # s => SumOver(q, u) \in Nat /\ \A v \in SUBSET u : SumOver(q, v) <= SumOver(q, u)
      BY <2>2
    <2>4. SumOver(q, s) \in Int /\ \A x \in s : SumOver(q, s) = q[x] + SumOver(q, s \ {x})
      <3>1. IsFiniteSet(s) /\ \A x \in s : q[x] \in Int
        BY <1>0, <2>1, <2>2
      <3> QED BY <3>1, SumOfOneMore
    <2>5. SumOver(q, {}) = 0
      BY <1>0, SumUnfolds
    <2>6. SumOver(q, s) \in Nat
      <3>1. CASE s = {}
        BY <2>5, <3>1
      <3>2. CASE s # {}
        <4>1. PICK x \in s : TRUE
          BY <3>2
        <4>2. SumOver(q, s \ {x}) \in Nat /\ q[x] \in Nat
          BY <2>2, <2>3, <4>1
        <4> QED BY <2>4, <4>1, <4>2
      <3> QED BY <3>1, <3>2
    <2>7. ASSUME NEW u \in SUBSET s PROVE SumOver(q, u) <= SumOver(q, s)
      <3>1. CASE u = s
        BY <2>6, <3>1
      <3>2. CASE u # s
        <4>1. PICK x \in s : x \notin u
          BY <3>2
        <4>2. u \in SUBSET (s \ {x}) /\ s \ {x} \in SUBSET s /\ s \ {x} # s
          BY <4>1
        <4>3. SumOver(q, s \ {x}) \in Nat /\ SumOver(q, u) <= SumOver(q, s \ {x}) /\ q[x] \in Nat
          BY <2>2, <2>3, <4>2
        <4>4. SumOver(q, u) \in Nat
          BY <2>3, <3>2
        <4>5. SumOver(q, s) = q[x] + SumOver(q, s \ {x})
          BY <2>4, <4>1
        <4> QED BY <4>3, <4>4, <4>5
      <3> QED BY <3>1, <3>2
    <2> QED BY <2>2, <2>6, <2>7
  <1> QED BY <1>1

-----------------------------------------------------------------------------
(*****************************************************************************)
(* ControlledRecords.                                                        *)
(*****************************************************************************)

(* Documents. *)

RevisionRow == [document: Documents, code: Codes, at: Nat \ {0}]

RevisionsOf(d) == {r \in revision : r.document = d}

\* The revisions of a document are those of its versions.
RevisedFor(d) ==
  /\ \A r, s \in RevisionsOf(d) : r.code = s.code => r = s
  /\ document[d] # None => {r.at : r \in RevisionsOf(d)} = 2 .. document[d].version
  /\ document[d] = None => RevisionsOf(d) = {}

DocumentInvariant ==
  /\ document \in [Documents -> {None} \cup DocumentRow]
  /\ revision \subseteq RevisionRow
  /\ \A d \in Documents : RevisedFor(d)
  /\ \A d \in InRegister : ~document[d].legacy => \A e \in InRegister \ {d} : Number(e) # Number(d)

\* A document is registered under a number that none has: there are not as many
\* documents as numbers to choose from.
LEMMA NumberFound ==
  ASSUME DocumentInvariant, NEW series
  PROVE  /\ NextSequence(series) \in Nat \ {0}
         /\ \A e \in InRegister : Number(e) # <<series, NextSequence(series)>>
  <1> DEFINE count == Cardinality(InRegister)
             range == count + 1 .. 2 * count + 1
             Taken(n) == <<series, n>> \in {Number(d) : d \in InRegister}
             free == {n \in range : ~Taken(n)}
  <1>1. IsFiniteSet(InRegister) /\ count \in Nat
    BY FS_Subset, FS_CardinalityType, RecordsAssumption DEF InRegister
  <1> HIDE DEF count
  <1>2. IsFiniteSet(range) /\ Cardinality(range) = count + 1
    <2>1. count + 1 \in Int /\ 2 * count + 1 \in Int
      BY <1>1
    <2>2. /\ IsFiniteSet(range)
          /\ Cardinality(range) = IF count + 1 > 2 * count + 1 THEN 0 ELSE (2 * count + 1) - (count + 1) + 1
      BY <2>1, FS_Interval
    <2> QED BY <1>1, <2>2
  <1>3. free # {}
    <2> SUFFICES ASSUME \A n \in range : Taken(n) PROVE FALSE
      OBVIOUS
    <2> DEFINE f == [n \in range |-> CHOOSE d \in InRegister : Number(d) = <<series, n>>]
    <2>1. \A n \in range : f[n] \in InRegister /\ Number(f[n]) = <<series, n>>
      OBVIOUS
    <2>2. f \in [range -> InRegister]
      BY <2>1
    <2> HIDE DEF f
    <2>3. Cardinality(InRegister) < Cardinality(range)
      BY <1>1, <1>2 DEF count
    <2>4. PICK n, m \in range : n # m /\ f[n] = f[m]
      <3> HIDE DEF range
      <3> QED BY <1>1, <1>2, <2>2, <2>3, FS_PigeonHole
    <2> QED BY <2>1, <2>4
  <1>4. PICK n \in free : \A m \in free : n <= m
    <2>1. free \in SUBSET Nat
      BY <1>1
    <2> QED BY <1>3, <2>1, SmallestNat
  <1>5. n \in range /\ ~Taken(n) /\ \A m \in count + 1 .. n - 1 : Taken(m)
    BY <1>1, <1>4
  <1>6. NextSequence(series) \in range /\ ~Taken(NextSequence(series))
    <2> HIDE DEF Taken
    <2>1. NextSequence(series) = CHOOSE m \in range : ~Taken(m) /\ \A l \in count + 1 .. m - 1 : Taken(l)
      BY DEF NextSequence, count, Taken
    <2> QED BY <1>5, <2>1
  <1> QED BY <1>1, <1>6

LEMMA RegisterKeeps ==
  ASSUME DocumentInvariant, NEW d \in Documents, NEW series \in Series, Register(d, series)
  PROVE  DocumentInvariant'
  <1>1. PICK n \in Nat \ {0} : n = NextSequence(series) /\ \A e \in InRegister : Number(e) # <<series, n>>
    BY NumberFound
  <1> DEFINE row == [series |-> series, sequence |-> n, legacy |-> FALSE, version |-> 1, revisions |-> 0]
  <1>2. /\ row \in DocumentRow /\ row.series = series /\ row.sequence = n /\ row.version = 1 /\ row # None
    <2>1. /\ row \in DocumentRow /\ row.series = series /\ row.sequence = n /\ row.version = 1
      BY DEF DocumentRow
    <2> QED BY <2>1, RecordsAssumption
  <1>3. document[d] = None /\ document' = [document EXCEPT ![d] = row] /\ revision' = revision
    BY <1>1 DEF Register
  <1> HIDE DEF row
  <1>4. /\ document' \in [Documents -> {None} \cup DocumentRow] /\ document'[d] = row
        /\ \A e \in Documents \ {d} : document'[e] = document[e]
    BY <1>2, <1>3 DEF DocumentInvariant
  <1>5. InRegister' = InRegister \cup {d} /\ d \notin InRegister
    BY <1>2, <1>3, <1>4 DEF InRegister
  <1>6. Number(d)' = <<series, n>> /\ \A e \in InRegister : Number(e)' = Number(e)
    BY <1>2, <1>4, <1>5 DEF Number, InRegister
  <1>7. ASSUME NEW e \in Documents PROVE RevisedFor(e)'
    <2>1. RevisionsOf(e)' = RevisionsOf(e) /\ RevisedFor(e)
      BY <1>3 DEF RevisionsOf, DocumentInvariant
    <2>2. 2 .. 1 = {}
      OBVIOUS
    <2>3. CASE e = d
      BY <1>2, <1>3, <1>4, <2>1, <2>2, <2>3 DEF RevisedFor
    <2>4. CASE e # d
      BY <1>4, <2>1, <2>4 DEF RevisedFor
    <2> QED BY <2>3, <2>4
  <1>8. \A e \in InRegister' : ~document'[e].legacy => \A o \in InRegister' \ {e} : Number(o)' # Number(e)'
    <2> SUFFICES ASSUME NEW e \in InRegister', ~document'[e].legacy, NEW o \in InRegister', o # e
                 PROVE  Number(o)' # Number(e)'
      OBVIOUS
    <2>1. CASE e = d
      BY <1>1, <1>5, <1>6, <2>1
    <2>2. CASE o = d
      BY <1>1, <1>5, <1>6, <2>2
    <2>3. CASE e # d /\ o # d
      <3>1. e \in InRegister /\ o \in InRegister /\ ~document[e].legacy
        BY <1>4, <1>5, <2>3 DEF InRegister
      <3> QED BY <1>6, <3>1 DEF DocumentInvariant
    <2> QED BY <2>1, <2>2, <2>3
  <1> QED BY <1>3, <1>4, <1>7, <1>8 DEF DocumentInvariant

LEMMA RevisionKeeps ==
  ASSUME DocumentInvariant, NEW d \in Documents, NEW code \in Codes, AddRevision(d, code)
  PROVE  DocumentInvariant'
  <1> DEFINE row == [document[d] EXCEPT !.revisions = @ + 1, !.version = @ + 1]
             added == [document |-> d, code |-> code, at |-> document[d].version + 1]
  <1>1. document[d] \in DocumentRow /\ document[d] # None
    BY DEF AddRevision, InRegister, DocumentInvariant
  <1>2. /\ row \in DocumentRow /\ row.series = document[d].series /\ row.sequence = document[d].sequence
        /\ row.legacy = document[d].legacy /\ row.version = document[d].version + 1 /\ row # None
        /\ document[d].version \in Nat \ {0}
    <2> DEFINE held == document[d]
    <2>1. /\ held \in DocumentRow /\ held.version \in Nat \ {0} /\ held.revisions \in Nat
          /\ row = [held EXCEPT !.revisions = held.revisions + 1, !.version = held.version + 1]
      BY <1>1 DEF DocumentRow
    <2>2. held.version + 1 \in Nat \ {0} /\ held.revisions + 1 \in Nat
      BY <2>1
    <2> HIDE DEF held, row
    <2>3. /\ row \in DocumentRow /\ row.series = held.series /\ row.sequence = held.sequence
          /\ row.legacy = held.legacy /\ row.version = held.version + 1
      BY <2>1, <2>2 DEF DocumentRow
    <2>4. row # None
      BY <2>3, RecordsAssumption
    <2> QED BY <2>1, <2>3, <2>4 DEF held
  <1>3. /\ document' = [document EXCEPT ![d] = row] /\ revision' = revision \cup {added}
        /\ \A r \in RevisionsOf(d) : r.code # code
    BY DEF AddRevision, RevisionsOf
  <1>4. added \in RevisionRow /\ added.document = d /\ added.code = code /\ added.at = document[d].version + 1
    BY <1>2 DEF RevisionRow
  <1> HIDE DEF row, added
  <1>5. /\ document' \in [Documents -> {None} \cup DocumentRow] /\ document'[d] = row
        /\ \A e \in Documents \ {d} : document'[e] = document[e]
    BY <1>2, <1>3 DEF DocumentInvariant
  <1>6. InRegister' = InRegister
    BY <1>1, <1>2, <1>5 DEF InRegister
  <1>7. \A e \in InRegister : Number(e)' = Number(e) /\ document'[e].legacy = document[e].legacy
    BY <1>2, <1>5 DEF Number, InRegister
  <1>8. ASSUME NEW e \in Documents PROVE RevisedFor(e)'
    <2>1. RevisedFor(e)
      BY DEF DocumentInvariant
    <2>2. CASE e = d
      <3>1. RevisionsOf(d)' = RevisionsOf(d) \cup {added}
        BY <1>3, <1>4 DEF RevisionsOf
      <3>2. {r.at : r \in RevisionsOf(d)'} = {r.at : r \in RevisionsOf(d)} \cup {document[d].version + 1}
        BY <1>4, <3>1
      <3>3. {r.at : r \in RevisionsOf(d)'} = 2 .. row.version
        <4>1. {r.at : r \in RevisionsOf(d)} = 2 .. document[d].version
          BY <1>1, <2>1, <2>2 DEF RevisedFor
        <4>2. \A v \in Nat \ {0} : (2 .. v) \cup {v + 1} = 2 .. v + 1
          OBVIOUS
        <4> QED BY <1>2, <3>2, <4>1, <4>2
      <3>4. \A r, s \in RevisionsOf(d)' : r.code = s.code => r = s
        BY <1>3, <1>4, <2>1, <2>2, <3>1 DEF RevisedFor
      <3> QED BY <1>2, <1>5, <2>2, <3>3, <3>4 DEF RevisedFor
    <2>3. CASE e # d
      <3>1. RevisionsOf(e)' = RevisionsOf(e)
        BY <1>3, <1>4, <2>3 DEF RevisionsOf
      <3> QED BY <1>5, <2>1, <2>3, <3>1 DEF RevisedFor
    <2> QED BY <2>2, <2>3
  <1>9. revision' \subseteq RevisionRow
    BY <1>3, <1>4 DEF DocumentInvariant
  <1> QED BY <1>5, <1>6, <1>7, <1>8, <1>9 DEF DocumentInvariant

-----------------------------------------------------------------------------
(* Questions. *)

SetAsideIn(events, r) ==
  {i \in DOMAIN events : events[i].action = "reopened" /\ events[i].response = r}

\* A reopening comes right after the response that it sets aside, and the last
\* response of an answered question is the last thing that happened to it.
WholeFor(q) ==
  /\ question[q] = None => history[q] = <<>> /\ response[q] = {}
  /\ question[q] # None =>
       /\ Len(history[q]) = question[q].version
       /\ \A i \in DOMAIN history[q] : /\ history[q][i].version = i
                                       /\ history[q][i].action = "reopened" => history[q][i].response + 1 = i
       /\ question[q].status = "answered" => question[q].latest = question[q].version /\ question[q].latest \in response[q]
       /\ question[q].status = "open" => question[q].latest = None
       /\ \A r \in response[q] \ {question[q].latest} : SetAsideIn(history[q], r) = {r + 1}
       /\ \A r \in response[q] : r <= question[q].version

EventRow == [action: {"created", "responded", "reopened"}, version: Nat, response: Nat \cup {None}]

QuestionInvariant ==
  /\ question \in [Questions -> {None} \cup QuestionRow]
  /\ response \in [Questions -> SUBSET Nat]
  /\ history \in [Questions -> Seq(EventRow)]
  /\ \A q \in Questions : WholeFor(q)

\* One question changes, and its history gets one event.
LEMMA QuestionChanges ==
  ASSUME QuestionInvariant, NEW q \in Questions, NEW row \in QuestionRow, NEW event \in EventRow,
         NEW answers \in SUBSET Nat,
         question' = [question EXCEPT ![q] = row], response' = [response EXCEPT ![q] = answers],
         Noted(q, event)
  PROVE  /\ question' \in [Questions -> {None} \cup QuestionRow] /\ question'[q] = row /\ row # None
         /\ response' \in [Questions -> SUBSET Nat] /\ response'[q] = answers
         /\ history' \in [Questions -> Seq(EventRow)] /\ history'[q] = Append(history[q], event)
         /\ Len(history[q]) \in Nat /\ DOMAIN history[q] = 1..Len(history[q])
         /\ Len(history'[q]) = Len(history[q]) + 1 /\ DOMAIN history'[q] = 1..(Len(history[q]) + 1)
         /\ history'[q][Len(history[q]) + 1] = event
         /\ \A i \in DOMAIN history[q] : history'[q][i] = history[q][i]
         /\ WholeFor(q)' => QuestionInvariant'
  <1>1. row # None
    BY RecordsAssumption
  <1>2. history[q] \in Seq(EventRow) /\ Append(history[q], event) \in Seq(EventRow)
    BY DEF QuestionInvariant
  <1>3. history' = [history EXCEPT ![q] = Append(history[q], event)]
    BY DEF Noted
  <1>4. /\ question' \in [Questions -> {None} \cup QuestionRow] /\ question'[q] = row
        /\ response' \in [Questions -> SUBSET Nat] /\ response'[q] = answers
        /\ history' \in [Questions -> Seq(EventRow)] /\ history'[q] = Append(history[q], event)
        /\ \A p \in Questions \ {q} : /\ question'[p] = question[p] /\ response'[p] = response[p]
                                      /\ history'[p] = history[p]
    BY <1>2, <1>3 DEF QuestionInvariant
  <1>5. \A p \in Questions \ {q} : WholeFor(p)'
    BY <1>4 DEF QuestionInvariant, WholeFor, SetAsideIn
  <1>6. WholeFor(q)' => QuestionInvariant'
    BY <1>4, <1>5 DEF QuestionInvariant
  <1>7. /\ Len(history[q]) \in Nat /\ DOMAIN history[q] = 1..Len(history[q])
        /\ Len(history'[q]) = Len(history[q]) + 1 /\ DOMAIN history'[q] = 1..(Len(history[q]) + 1)
        /\ history'[q][Len(history[q]) + 1] = event
        /\ \A i \in DOMAIN history[q] : history'[q][i] = history[q][i]
    BY <1>2, <1>4
  <1> QED BY <1>1, <1>4, <1>6, <1>7

LEMMA AskKeeps ==
  ASSUME QuestionInvariant, NEW q \in Questions, Ask(q)
  PROVE  QuestionInvariant'
  <1> DEFINE row == [version |-> 1, status |-> "open", latest |-> None]
             event == [action |-> "created", version |-> 1, response |-> None]
  <1>1. /\ row \in QuestionRow /\ row.version = 1 /\ row.status = "open" /\ row.latest = None
        /\ event \in EventRow /\ event.version = 1 /\ event.action = "created"
    BY DEF QuestionRow, EventRow
  <1>2. /\ question[q] = None /\ question' = [question EXCEPT ![q] = row] /\ Noted(q, event)
        /\ response' = response
    BY DEF Ask, Event
  <1> HIDE DEF row, event
  <1>3. response' = [response EXCEPT ![q] = {}] /\ history[q] = <<>>
    BY <1>2 DEF QuestionInvariant, WholeFor
  <1>4. /\ question'[q] = row /\ row # None /\ response'[q] = {}
        /\ DOMAIN history'[q] = 1..(0 + 1) /\ Len(history'[q]) = 0 + 1 /\ history'[q][0 + 1] = event
        /\ WholeFor(q)' => QuestionInvariant'
    <2>1. Len(history[q]) = 0 /\ {} \in SUBSET Nat
      BY <1>3
    <2> QED BY <1>1, <1>2, <1>3, <2>1, QuestionChanges
  <1>5. WholeFor(q)'
    BY <1>1, <1>4 DEF WholeFor
  <1> QED BY <1>4, <1>5

LEMMA RespondKeeps ==
  ASSUME QuestionInvariant, NEW q \in Questions, Respond(q)
  PROVE  QuestionInvariant'
  <1>1. /\ question[q] # None /\ question[q] \in QuestionRow /\ question[q].status = "open"
        /\ response[q] \in SUBSET Nat /\ WholeFor(q)
    BY DEF Respond, QuestionInvariant
  <1>2. PICK v \in Nat \ {0} : v = question[q].version
    BY <1>1 DEF QuestionRow
  <1> DEFINE row == [version |-> v + 1, status |-> "answered", latest |-> v + 1]
             event == [action |-> "responded", version |-> v + 1, response |-> v + 1]
  <1>3. /\ row \in QuestionRow /\ row.version = v + 1 /\ row.status = "answered" /\ row.latest = v + 1
        /\ event \in EventRow /\ event.version = v + 1 /\ event.action = "responded"
    BY DEF QuestionRow, EventRow
  <1>4. /\ question' = [question EXCEPT ![q] = row] /\ Noted(q, event)
        /\ response' = [response EXCEPT ![q] = @ \cup {v + 1}]
    BY <1>2 DEF Respond, Event
  <1> HIDE DEF row, event
  <1>5. PICK answers \in SUBSET Nat : answers = response[q] \cup {v + 1}
    <2>1. v + 1 \in Nat
      OBVIOUS
    <2>2. response[q] \cup {v + 1} \in SUBSET Nat
      BY <1>1, <2>1
    <2> QED BY <2>2
  <1>6. /\ question'[q] = row /\ row # None /\ response'[q] = answers
        /\ Len(history[q]) \in Nat /\ DOMAIN history[q] = 1..Len(history[q])
        /\ Len(history'[q]) = Len(history[q]) + 1 /\ DOMAIN history'[q] = 1..(Len(history[q]) + 1)
        /\ history'[q][Len(history[q]) + 1] = event
        /\ \A i \in DOMAIN history[q] : history'[q][i] = history[q][i]
        /\ WholeFor(q)' => QuestionInvariant'
    <2>1. response' = [response EXCEPT ![q] = answers]
      BY <1>4, <1>5
    <2> QED BY <1>3, <1>4, <2>1, QuestionChanges
  <1>7. Len(history[q]) = v /\ question[q].latest = None
    BY <1>1, <1>2 DEF WholeFor
  <1>8. \A r \in response[q] : SetAsideIn(history[q], r) = {r + 1} /\ r \in Nat /\ r <= v
    BY <1>1, <1>2, <1>7, RecordsAssumption DEF WholeFor
  <1>9. \A r : SetAsideIn(history'[q], r) = SetAsideIn(history[q], r)
    BY <1>3, <1>6 DEF SetAsideIn
  <1>10. \A i \in DOMAIN history'[q] : /\ history'[q][i].version = i
                                       /\ history'[q][i].action = "reopened" => history'[q][i].response + 1 = i
    BY <1>1, <1>3, <1>6, <1>7 DEF WholeFor
  <1>11. WholeFor(q)'
    BY <1>2, <1>3, <1>5, <1>6, <1>7, <1>8, <1>9, <1>10 DEF WholeFor
  <1> QED BY <1>6, <1>11

LEMMA ReopenKeeps ==
  ASSUME QuestionInvariant, NEW q \in Questions, Reopen(q)
  PROVE  QuestionInvariant'
  <1>1. /\ question[q] # None /\ question[q] \in QuestionRow /\ question[q].status = "answered"
        /\ response[q] \in SUBSET Nat /\ WholeFor(q)
    BY DEF Reopen, QuestionInvariant
  <1>2. PICK v \in Nat \ {0} : v = question[q].version /\ v = question[q].latest /\ v \in response[q]
    BY <1>1 DEF QuestionRow, WholeFor
  <1> DEFINE row == [version |-> v + 1, status |-> "open", latest |-> None]
             event == [action |-> "reopened", version |-> v + 1, response |-> v]
  <1>3. /\ row \in QuestionRow /\ row.version = v + 1 /\ row.status = "open" /\ row.latest = None
        /\ event \in EventRow /\ event.version = v + 1 /\ event.action = "reopened" /\ event.response = v
    BY DEF QuestionRow, EventRow
  <1>4. /\ question' = [question EXCEPT ![q] = row] /\ Noted(q, event) /\ response' = response
    BY <1>2 DEF Reopen, Event
  <1> HIDE DEF row, event
  <1>5. PICK answers \in SUBSET Nat : answers = response[q]
                                      /\ response' = [response EXCEPT ![q] = answers]
    BY <1>1, <1>4 DEF QuestionInvariant
  <1>6. /\ question'[q] = row /\ row # None /\ response'[q] = response[q]
        /\ Len(history[q]) \in Nat /\ DOMAIN history[q] = 1..Len(history[q])
        /\ Len(history'[q]) = Len(history[q]) + 1 /\ DOMAIN history'[q] = 1..(Len(history[q]) + 1)
        /\ history'[q][Len(history[q]) + 1] = event
        /\ \A i \in DOMAIN history[q] : history'[q][i] = history[q][i]
        /\ WholeFor(q)' => QuestionInvariant'
    <2>1. /\ question' = [question EXCEPT ![q] = row] /\ Noted(q, event)
          /\ response' = [response EXCEPT ![q] = answers]
      BY <1>4, <1>5
    <2>2. /\ question'[q] = row /\ row # None /\ response'[q] = answers
          /\ Len(history[q]) \in Nat /\ DOMAIN history[q] = 1..Len(history[q])
          /\ Len(history'[q]) = Len(history[q]) + 1 /\ DOMAIN history'[q] = 1..(Len(history[q]) + 1)
          /\ history'[q][Len(history[q]) + 1] = event
          /\ \A i \in DOMAIN history[q] : history'[q][i] = history[q][i]
          /\ WholeFor(q)' => QuestionInvariant'
      BY <1>3, <2>1, QuestionChanges
    <2> QED BY <1>5, <2>2
  <1>7. Len(history[q]) = v
    BY <1>1, <1>2 DEF WholeFor
  <1>8. \A r \in response[q] : r \in Nat /\ r <= v /\ (r # v => SetAsideIn(history[q], r) = {r + 1})
    BY <1>1, <1>2 DEF WholeFor
  <1>9. SetAsideIn(history[q], v) = {}
    <2> SUFFICES ASSUME NEW i \in DOMAIN history[q], history[q][i].action = "reopened", history[q][i].response = v
                 PROVE  FALSE
      BY DEF SetAsideIn
    <2>1. v + 1 = i
      BY <1>1 DEF WholeFor
    <2> QED BY <1>6, <1>7, <2>1
  <1>10. \A r : SetAsideIn(history'[q], r) = IF r = v THEN SetAsideIn(history[q], r) \cup {v + 1}
                                             ELSE SetAsideIn(history[q], r)
    <2>1. /\ DOMAIN history'[q] = DOMAIN history[q] \cup {v + 1} /\ v + 1 \notin DOMAIN history[q]
          /\ history'[q][v + 1] = event
      BY <1>6, <1>7
    <2> QED BY <1>3, <1>6, <2>1 DEF SetAsideIn
  <1>11. \A i \in DOMAIN history'[q] : /\ history'[q][i].version = i
                                       /\ history'[q][i].action = "reopened" => history'[q][i].response + 1 = i
    <2> SUFFICES ASSUME NEW i \in 1..(v + 1)
                 PROVE  /\ history'[q][i].version = i
                        /\ history'[q][i].action = "reopened" => history'[q][i].response + 1 = i
      BY <1>6, <1>7
    <2>1. CASE i = v + 1
      BY <1>3, <1>6, <1>7, <2>1
    <2>2. CASE i # v + 1
      <3>1. i \in DOMAIN history[q] /\ history'[q][i] = history[q][i]
        BY <1>6, <1>7, <2>2
      <3> QED BY <1>1, <3>1 DEF WholeFor
    <2> QED BY <2>1, <2>2
  <1>12. ASSUME NEW r \in response[q]
         PROVE  SetAsideIn(history'[q], r) = {r + 1} /\ r <= v + 1
    <2>1. r \in Nat /\ r <= v + 1
      BY <1>8
    <2>2. CASE r = v
      BY <1>9, <1>10, <2>1, <2>2
    <2>3. CASE r # v
      BY <1>8, <1>10, <2>1, <2>3
    <2> QED BY <2>2, <2>3
  <1>13. WholeFor(q)'
    BY <1>2, <1>3, <1>6, <1>7, <1>11, <1>12 DEF WholeFor
  <1> QED BY <1>6, <1>13

-----------------------------------------------------------------------------
RecordsInvariant == DocumentInvariant /\ QuestionInvariant

LEMMA RecordsStart == RecordsInit => RecordsInvariant
  <1> SUFFICES ASSUME RecordsInit PROVE RecordsInvariant
    OBVIOUS
  <1> DEFINE Old == [series: Series, sequence: LegacyNumbers, legacy: {TRUE}, version: {1}, revisions: {0}]
  <1>1. document \in [Documents -> {None} \cup Old] /\ revision = {}
    BY DEF RecordsInit
  <1>2. \A row \in Old : row \in DocumentRow /\ row.legacy /\ row.version = 1
    <2>1. \A n \in LegacyNumbers : n \in Nat \ {0}
      BY RecordsAssumption
    <2>2. \A s \in Series, n \in LegacyNumbers :
            [series |-> s, sequence |-> n, legacy |-> TRUE, version |-> 1, revisions |-> 0] \in DocumentRow
      BY <2>1 DEF DocumentRow
    <2>3. ASSUME NEW row \in Old
          PROVE  \E s \in Series, n \in LegacyNumbers :
                   row = [series |-> s, sequence |-> n, legacy |-> TRUE, version |-> 1, revisions |-> 0]
      OBVIOUS
    <2> HIDE DEF Old
    <2> QED BY <2>2, <2>3
  <1> HIDE DEF Old
  <1>3. document \in [Documents -> {None} \cup DocumentRow]
    BY <1>1, <1>2
  <1>4. \A d \in InRegister : document[d].legacy /\ document[d].version = 1
    BY <1>1, <1>2 DEF InRegister
  <1>5. \A d \in Documents : RevisionsOf(d) = {}
    BY <1>1 DEF RevisionsOf
  <1>6. 2 .. 1 = {}
    OBVIOUS
  <1>7. \A d \in Documents : RevisedFor(d)
    BY <1>4, <1>5, <1>6 DEF RevisedFor, InRegister
  <1>8. DocumentInvariant
    BY <1>1, <1>3, <1>4, <1>7 DEF DocumentInvariant
  <1>9. QuestionInvariant
    BY DEF RecordsInit, QuestionInvariant, WholeFor
  <1> QED BY <1>8, <1>9 DEF RecordsInvariant

LEMMA RecordsStep ==
  ASSUME RecordsInvariant, [RecordsNext]_recordVars
  PROVE  RecordsInvariant'
  <1>1. UNCHANGED documentVars => DocumentInvariant'
    <2> SUFFICES ASSUME UNCHANGED documentVars PROVE DocumentInvariant'
      OBVIOUS
    <2>1. UNCHANGED <<document, revision>>
      BY DEF documentVars
    <2> QED BY <2>1 DEF RecordsInvariant, DocumentInvariant, RevisedFor, RevisionsOf, InRegister, Number
  <1>2. UNCHANGED questionVars => QuestionInvariant'
    <2> SUFFICES ASSUME UNCHANGED questionVars PROVE QuestionInvariant'
      OBVIOUS
    <2>1. UNCHANGED <<question, response, history>>
      BY DEF questionVars
    <2> QED BY <2>1 DEF RecordsInvariant, QuestionInvariant, WholeFor, SetAsideIn
  <1>3. ASSUME NEW d \in Documents, NEW s \in Series, Register(d, s)
        PROVE  DocumentInvariant' /\ UNCHANGED questionVars
    BY <1>3, RegisterKeeps DEF RecordsInvariant, Register
  <1>4. ASSUME NEW d \in Documents, NEW code \in Codes, AddRevision(d, code)
        PROVE  DocumentInvariant' /\ UNCHANGED questionVars
    BY <1>4, RevisionKeeps DEF RecordsInvariant, AddRevision
  <1>5. ASSUME NEW q \in Questions, Ask(q) \/ Respond(q) \/ Reopen(q)
        PROVE  QuestionInvariant' /\ UNCHANGED documentVars
    <2>1. UNCHANGED documentVars
      BY <1>5 DEF Ask, Respond, Reopen
    <2> QED BY <1>5, <2>1, AskKeeps, RespondKeeps, ReopenKeeps DEF RecordsInvariant
  <1>6. UNCHANGED recordVars => UNCHANGED documentVars /\ UNCHANGED questionVars
    BY DEF recordVars
  <1> QED BY <1>1, <1>2, <1>3, <1>4, <1>5, <1>6 DEF RecordsNext, RecordsInvariant

\* The registers hold rows of documents that exist and of questions.
THEOREM RecordsTyped == RecordsSpec => []RecordsTypeOK
  <1>1. RecordsInvariant => RecordsTypeOK
    <2> SUFFICES ASSUME RecordsInvariant PROVE revision \subseteq [document: InRegister, code: Codes, at: Nat \ {0}]
      BY DEF RecordsInvariant, DocumentInvariant, QuestionInvariant, RecordsTypeOK
    <2>1. \A r \in revision : r \in RevisionRow /\ document[r.document] # None
      BY DEF RecordsInvariant, DocumentInvariant, RevisedFor, RevisionsOf, RevisionRow
    <2> QED BY <2>1 DEF RevisionRow, InRegister
  <1> QED BY <1>1, RecordsStart, RecordsStep, PTL DEF RecordsSpec

\* No other document has the number the register gave to one, each version is one
\* revision; the history has every version of a question once, and every response
\* but the last of an answered question was set aside by one reopening.
THEOREM RecordsStayWhole == RecordsSpec => []RecordsWhole
  <1>1. RecordsInvariant => DocumentsApart
    BY DEF RecordsInvariant, DocumentInvariant, RevisedFor, RevisionsOf, DocumentsApart, InRegister
  <1>2. RecordsInvariant => QuestionsWhole
    <2> SUFFICES ASSUME RecordsInvariant, NEW q \in Questions, question[q] # None
                 PROVE  /\ Len(history[q]) = question[q].version
                        /\ \A i \in DOMAIN history[q] : history[q][i].version = i
                        /\ question[q].status = "answered" <=> question[q].latest \in response[q]
                        /\ \A r \in response[q] \ {question[q].latest} : SetAsideIn(history[q], r) = {r + 1}
                        /\ \A r \in response[q] : r <= question[q].version
      BY DEF QuestionsWhole, SetAsideIn
    <2>1. WholeFor(q) /\ question[q] \in QuestionRow /\ response[q] \in SUBSET Nat
      BY DEF RecordsInvariant, QuestionInvariant
    <2>2. question[q].status \in {"open", "answered"}
      BY <2>1 DEF QuestionRow
    <2> QED BY <2>1, <2>2, RecordsAssumption DEF WholeFor
  <1> QED BY <1>1, <1>2, RecordsStart, RecordsStep, PTL DEF RecordsSpec, RecordsWhole

-----------------------------------------------------------------------------
(*****************************************************************************)
(* Inventory.                                                                *)
(*****************************************************************************)

QuantityOf(s) == [i \in DOMAIN s |-> s[i].quantity]

LEMMA ReservedSum ==
  ASSUME NEW S \in SUBSET DOMAIN reservation
  PROVE  (LET Quantity(i) == reservation[i].quantity IN MapThenSumSet(Quantity, S)) = SumOver(QuantityOf(reservation), S)
  <1> DEFINE A(it) == it = [s \in SUBSET S |-> IF s = {} THEN 0 ELSE reservation[Chosen(s)].quantity + it[s \ {Chosen(s)}]]
             B(it) == IsSum(it, QuantityOf(reservation), S)
  <1>1. \A s \in SUBSET S : s # {} => QuantityOf(reservation)[Chosen(s)] = reservation[Chosen(s)].quantity
    BY DEF QuantityOf, Chosen
  <1>2. ASSUME NEW it PROVE A(it) <=> B(it)
    BY <1>1 DEF IsSum
  <1>3. (CHOOSE it : A(it)) = CHOOSE it : B(it)
    <2> HIDE DEF A, B
    <2> QED BY <1>2
  <1>4. (LET Quantity(i) == reservation[i].quantity IN MapThenSumSet(Quantity, S)) = (CHOOSE it : A(it))[S]
    BY DEF MapThenSumSet, MapThenFoldSet, Chosen
  <1>5. SumOver(QuantityOf(reservation), S) = (CHOOSE it : B(it))[S]
    BY DEF SumOver, MapThenSumSet, MapThenFoldSet, IsSum, Chosen
  <1> QED BY <1>3, <1>4, <1>5 DEF MapThenSumSet, MapThenFoldSet

-----------------------------------------------------------------------------
(* Resources. *)

ReservationRow ==
  [resource: Resources, project: Projects, window: Windows, quantity: Nat, confirmed: Nat]

HoldRow == [resource: Resources, active: BOOLEAN]

MineAt(r, t) == {i \in ReservationsOf(r) : Covers(i, t)}

Untouched(r) ==
  /\ Kind[r] = "bulk"
  /\ \A i \in ReservationsOf(r) : reservation[i].confirmed = 0
  /\ \A h \in DOMAIN hold : hold[h].resource # r

\* A resource that was never held has all of its pieces; what a moment takes of
\* them is a sum over a function.
StockInvariant ==
  /\ resource \in [Resources -> {None} \cup ResourceRow]
  /\ reservation \in Seq(ReservationRow)
  /\ hold \in Seq(HoldRow)
  /\ \A i \in DOMAIN reservation : /\ resource[reservation[i].resource] # None
                                   /\ reservation[i].confirmed <= Len(reservation)
  /\ \A h \in DOMAIN hold : resource[hold[h].resource] # None
  /\ \A r \in Resources : resource[r] # None /\ (\A h \in DOMAIN hold : hold[h].resource # r)
                            => resource[r].usable = Total[r]
  /\ ReservedApart
  /\ \A r \in Resources : Untouched(r) => \A t \in Moments : SumOver(QuantityOf(reservation), MineAt(r, t)) <= Total[r]

LEMMA ReservationsFinite ==
  ASSUME reservation \in Seq(ReservationRow), NEW S \in SUBSET DOMAIN reservation
  PROVE  IsFiniteSet(S) /\ \A i \in S : QuantityOf(reservation)[i] \in Nat
  <1>1. Len(reservation) \in Nat /\ DOMAIN reservation = 1..Len(reservation)
    OBVIOUS
  <1>2. IsFiniteSet(S)
    <2>1. 1 \in Int /\ Len(reservation) \in Int
      BY <1>1
    <2>2. IsFiniteSet(1..Len(reservation))
      BY <2>1, FS_Interval
    <2> QED BY <1>1, <2>2, FS_Subset
  <1>3. \A i \in DOMAIN reservation : reservation[i].quantity \in Nat
    <2>1. \A i \in DOMAIN reservation : reservation[i] \in ReservationRow
      BY <1>1
    <2> QED BY <2>1 DEF ReservationRow
  <1> QED BY <1>2, <1>3 DEF QuantityOf

LEMMA RowsRead ==
  ASSUME StockInvariant
  PROVE  /\ Len(reservation) \in Nat /\ DOMAIN reservation = 1..Len(reservation)
         /\ \A i \in DOMAIN reservation : reservation[i] \in ReservationRow
         /\ \A i \in DOMAIN reservation : /\ reservation[i].resource \in Resources /\ reservation[i].window \in Windows
                                         /\ reservation[i].quantity \in Nat /\ reservation[i].confirmed \in Nat
         /\ Len(hold) \in Nat /\ DOMAIN hold = 1..Len(hold)
         /\ \A h \in DOMAIN hold : hold[h] \in HoldRow /\ hold[h].resource \in Resources
  <1>1. reservation \in Seq(ReservationRow) /\ hold \in Seq(HoldRow)
    BY DEF StockInvariant
  <1>2. /\ Len(reservation) \in Nat /\ DOMAIN reservation = 1..Len(reservation)
        /\ Len(hold) \in Nat /\ DOMAIN hold = 1..Len(hold)
    BY <1>1
  <1>3. /\ \A i \in DOMAIN reservation : reservation[i] \in ReservationRow
        /\ \A h \in DOMAIN hold : hold[h] \in HoldRow
    BY <1>1, <1>2
  <1>4. \A i \in DOMAIN reservation : /\ reservation[i].resource \in Resources /\ reservation[i].window \in Windows
                                      /\ reservation[i].quantity \in Nat /\ reservation[i].confirmed \in Nat
    BY <1>3 DEF ReservationRow
  <1>5. \A h \in DOMAIN hold : hold[h].resource \in Resources
    BY <1>3 DEF HoldRow
  <1> QED BY <1>2, <1>3, <1>4, <1>5

\* What the policy for resources that are counted lets through.
LEMMA EnoughMeans ==
  ASSUME NEW r, NEW n, NEW w, Enough(r, n, w)
  PROVE  LET S == {i \in ReservationsOf(r) : Overlap(reservation[i].window, w)}
         IN SumOver(QuantityOf(reservation), S) + n <= resource[r].usable
  <1> DEFINE S == {i \in ReservationsOf(r) : Overlap(reservation[i].window, w)}
  <1>1. S \in SUBSET DOMAIN reservation
    BY DEF ReservationsOf
  <1>2. (LET Quantity(i) == reservation[i].quantity IN MapThenSumSet(Quantity, S)) = SumOver(QuantityOf(reservation), S)
    BY <1>1, ReservedSum
  <1>3. (LET Quantity(i) == reservation[i].quantity IN MapThenSumSet(Quantity, S)) + n <= resource[r].usable
    BY DEF Enough, MapThenSumSet, MapThenFoldSet
  <1> QED BY <1>2, <1>3

LEMMA CreateResourceKeeps ==
  ASSUME StockInvariant, NEW r \in Resources, CreateResource(r)
  PROVE  StockInvariant'
  <1>1. PICK row \in ResourceRow : row.usable = Total[r] /\ resource' = [resource EXCEPT ![r] = row]
    BY InventoryAssumption DEF CreateResource, ResourceRow
  <1>2. row # None
    BY InventoryAssumption
  <1>3. resource[r] = None /\ reservation' = reservation /\ hold' = hold
    BY DEF CreateResource
  <1>4. /\ resource' \in [Resources -> {None} \cup ResourceRow] /\ resource'[r] = row
        /\ \A q \in Resources \ {r} : resource'[q] = resource[q]
    BY <1>1 DEF StockInvariant
  <1>5. \A q \in Resources : resource[q] # None => resource'[q] # None
    BY <1>2, <1>4
  <1>6. \A i \in DOMAIN reservation : reservation[i].resource \in Resources
    BY RowsRead
  <1>7. \A h \in DOMAIN hold : hold[h].resource \in Resources
    BY RowsRead
  <1>8. \A q \in Resources : resource'[q] # None /\ (\A h \in DOMAIN hold : hold[h].resource # q)
                               => resource'[q].usable = Total[q]
    BY <1>1, <1>4 DEF StockInvariant
  <1>9. ReservedApart'
    BY <1>3 DEF StockInvariant, ReservedApart
  <1>10. \A q \in Resources : Untouched(q)' => \A t \in Moments : (SumOver(QuantityOf(reservation), MineAt(q, t)) <= Total[q])'
    <2>1. QuantityOf(reservation') = QuantityOf(reservation)
      BY <1>3
    <2>2. \A q : (Untouched(q)' <=> Untouched(q)) /\ \A t : MineAt(q, t)' = MineAt(q, t)
      BY <1>3 DEF Untouched, MineAt, ReservationsOf, Covers
    <2> QED BY <2>1, <2>2 DEF StockInvariant
  <1> QED BY <1>3, <1>4, <1>5, <1>6, <1>7, <1>8, <1>9, <1>10 DEF StockInvariant

LEMMA ReserveKeeps ==
  ASSUME StockInvariant, NEW r \in Resources, NEW p \in Projects, NEW w \in Windows, NEW n \in Quantities(r),
         Reserve(r, p, w, n)
  PROVE  StockInvariant'
  <1> DEFINE row == Reservation(r, p, w, n)
  <1>0. PICK last \in Nat : last = Len(reservation) + 1
    BY RowsRead
  <1>1. n \in Nat
    BY InventoryAssumption DEF Quantities
  <1>2. /\ row \in ReservationRow /\ row.resource = r /\ row.project = p /\ row.window = w
        /\ row.quantity = n /\ row.confirmed = 0
    BY <1>1 DEF Reservation, ReservationRow
  <1>3. /\ resource[r] # None /\ reservation' = Append(reservation, row) /\ resource' = resource /\ hold' = hold
        /\ IF Kind[r] = "serialized" THEN Free(r, p, w) ELSE Enough(r, n, w)
    BY DEF Reserve
  <1> HIDE DEF row
  <1>4. /\ reservation' \in Seq(ReservationRow) /\ Len(reservation') = last /\ DOMAIN reservation' = DOMAIN reservation \cup {last}
        /\ reservation'[last] = row /\ (\A i \in DOMAIN reservation : reservation'[i] = reservation[i])
        /\ last \notin DOMAIN reservation /\ (\A i \in DOMAIN reservation : i < last) /\ last \in Nat
        /\ last - 1 = Len(reservation)
    <2>1. reservation \in Seq(ReservationRow)
      BY DEF StockInvariant
    <2> QED BY <1>0, <1>2, <1>3, <2>1
  <1>5. \A i \in DOMAIN reservation' : /\ resource'[reservation'[i].resource] # None
                                       /\ reservation'[i].confirmed <= Len(reservation')
    <2> SUFFICES ASSUME NEW i \in DOMAIN reservation'
                 PROVE  resource'[reservation'[i].resource] # None /\ reservation'[i].confirmed <= last
      BY <1>4
    <2>1. CASE i = last
      BY <1>2, <1>3, <1>4, <2>1
    <2>2. CASE i # last
      <3>1. i \in DOMAIN reservation
        BY <1>4, <2>2
      <3>2. /\ resource[reservation[i].resource] # None /\ reservation[i].confirmed <= Len(reservation)
            /\ reservation[i].confirmed \in Nat /\ Len(reservation) \in Nat
        BY <3>1, RowsRead DEF StockInvariant
      <3> QED BY <1>3, <1>4, <3>1, <3>2
    <2> QED BY <2>1, <2>2
  <1>6. ReservationsOf(r)' = ReservationsOf(r) \cup {last} /\ \A q : q # r => ReservationsOf(q)' = ReservationsOf(q)
    BY <1>2, <1>4 DEF ReservationsOf
  <1>7. ReservedApart'
    <2> SUFFICES ASSUME NEW i \in DOMAIN reservation', NEW j \in DOMAIN reservation', i < j,
                        reservation'[i].resource = reservation'[j].resource,
                        Kind[reservation'[i].resource] = "serialized",
                        Overlap(reservation'[i].window, reservation'[j].window)
                 PROVE  reservation'[i].confirmed >= j \/ reservation'[j].confirmed > 0
      BY DEF ReservedApart
    <2>1. i \in DOMAIN reservation
      BY <1>4, RowsRead
    <2>2. CASE j = last
      <3>1. reservation'[i].resource = r /\ i \in ReservationsOf(r)
        BY <1>2, <1>4, <2>1, <2>2 DEF ReservationsOf
      <3>2. ~Meets(reservation[i].window, w)
        BY <1>3, <3>1 DEF Free
      <3> QED BY <1>2, <1>4, <2>1, <2>2, <3>2 DEF Meets
    <2>3. CASE j # last
      <3>1. j \in DOMAIN reservation
        BY <1>4, <2>3
      <3> QED BY <1>4, <2>1, <3>1 DEF StockInvariant, ReservedApart
    <2> QED BY <2>2, <2>3
  <1>8. ASSUME NEW q \in Resources, Untouched(q)', NEW t \in Moments
        PROVE  (SumOver(QuantityOf(reservation), MineAt(q, t)) <= Total[q])'
    <2>1. ReservationsOf(q) \subseteq ReservationsOf(q)' /\ ReservationsOf(q) \subseteq DOMAIN reservation
      BY <1>6 DEF ReservationsOf
    <2>2. Untouched(q)
      BY <1>3, <1>4, <1>8, <2>1 DEF Untouched
    <2>3. MineAt(q, t) \in SUBSET DOMAIN reservation
      BY <2>1 DEF MineAt
    <2>4. IsFiniteSet(MineAt(q, t)) /\ \A i \in MineAt(q, t) : QuantityOf(reservation)[i] \in Nat
      BY <2>3, ReservationsFinite DEF StockInvariant
    <2>5. \A i \in DOMAIN reservation : /\ QuantityOf(reservation')[i] = QuantityOf(reservation)[i]
                                        /\ Covers(i, t)' = Covers(i, t)
      BY <1>4 DEF QuantityOf, Covers
    <2>6. SumOver(QuantityOf(reservation'), MineAt(q, t)) = SumOver(QuantityOf(reservation), MineAt(q, t))
      <3>1. \A i \in MineAt(q, t) : /\ QuantityOf(reservation)[i] \in Int
                                    /\ QuantityOf(reservation)[i] = QuantityOf(reservation')[i]
        BY <2>3, <2>4, <2>5
      <3> QED BY <2>4, <3>1, SumOfTheSame
    <2>7. SumOver(QuantityOf(reservation), MineAt(q, t)) <= Total[q]
      BY <2>2 DEF StockInvariant
    <2>8. CASE ~(q = r /\ Covers(last, t)')
      <3>1. MineAt(q, t)' = MineAt(q, t)
        BY <1>6, <2>1, <2>5, <2>8 DEF MineAt
      <3> QED BY <2>6, <2>7, <3>1
    <2>9. CASE q = r /\ Covers(last, t)'
      <3>1. MineAt(q, t)' = MineAt(q, t) \cup {last} /\ last \notin MineAt(q, t)
        BY <1>4, <1>6, <2>1, <2>3, <2>5, <2>9 DEF MineAt
      <3>2. w # Unreadable /\ w.start <= t /\ t < w.end
        BY <1>2, <1>4, <2>9 DEF Covers
      <3> DEFINE S == {i \in ReservationsOf(r) : Overlap(reservation[i].window, w)}
      <3>3. MineAt(q, t) \in SUBSET S
        <4> SUFFICES ASSUME NEW i \in MineAt(q, t) PROVE i \in ReservationsOf(r) /\ Overlap(reservation[i].window, w)
          OBVIOUS
        <4> DEFINE v == reservation[i].window
        <4>1. i \in ReservationsOf(r) /\ i \in DOMAIN reservation /\ v # Unreadable /\ v.start <= t /\ t < v.end
          BY <2>1, <2>9 DEF MineAt, Covers
        <4>2. v \in Windows
          BY <4>1, RowsRead
        <4>3. /\ v.start \in Int /\ v.end \in Int /\ w.start \in Int /\ w.end \in Int /\ t \in Int
          BY <3>2, <4>1, <4>2, InventoryAssumption DEF Windows
        <4> HIDE DEF v
        <4>4. Overlap(v, w)
          BY <3>2, <4>1, <4>3 DEF Overlap, Senseless
        <4> QED BY <4>1, <4>4 DEF v
      <3>4. S \in SUBSET DOMAIN reservation
        BY DEF ReservationsOf
      <3>5. IsFiniteSet(S) /\ \A i \in S : QuantityOf(reservation)[i] \in Nat
        BY <3>4, ReservationsFinite DEF StockInvariant
      <3>6. /\ SumOver(QuantityOf(reservation), MineAt(q, t)) <= SumOver(QuantityOf(reservation), S)
            /\ SumOver(QuantityOf(reservation), MineAt(q, t)) \in Nat
        <4> HIDE DEF S
        <4> QED BY <3>3, <3>5, SumGrows
      <3>7. SumOver(QuantityOf(reservation), S) \in Nat
        <4> HIDE DEF S
        <4>1. S \in SUBSET S
          OBVIOUS
        <4> QED BY <3>5, <4>1, SumGrows
      <3>8. SumOver(QuantityOf(reservation), S) + n <= resource[r].usable
        <4>1. Kind[r] # "serialized"
          BY <1>3, <2>2, <2>9 DEF Untouched
        <4> QED BY <1>3, <4>1, EnoughMeans
      <3>9. resource[r].usable = Total[r] /\ Total[r] \in Nat
        BY <1>3, <2>2, <2>9, InventoryAssumption DEF Untouched, StockInvariant
      <3>10. SumOver(QuantityOf(reservation'), MineAt(q, t) \cup {last}) = n + SumOver(QuantityOf(reservation'), MineAt(q, t))
        <4> DEFINE U == MineAt(q, t) \cup {last}
        <4>1. IsFiniteSet(U)
          BY <2>4, FS_AddElement
        <4>2. QuantityOf(reservation')[last] = n
          BY <1>2, <1>4 DEF QuantityOf
        <4>3. \A i \in U : QuantityOf(reservation')[i] \in Int
          BY <1>1, <2>3, <2>4, <2>5, <4>2
        <4>4. U \ {last} = MineAt(q, t) /\ last \in U
          BY <3>1
        <4> HIDE DEF U
        <4>5. SumOver(QuantityOf(reservation'), U) = QuantityOf(reservation')[last] + SumOver(QuantityOf(reservation'), U \ {last})
          BY <4>1, <4>3, <4>4, SumOfOneMore
        <4> QED BY <4>2, <4>4, <4>5 DEF U
      <3> HIDE DEF S
      <3>11. SumOver(QuantityOf(reservation'), MineAt(q, t)') = n + SumOver(QuantityOf(reservation), MineAt(q, t))
        BY <2>6, <3>1, <3>10
      <3>12. n + SumOver(QuantityOf(reservation), MineAt(q, t)) <= Total[r]
        BY <1>1, <3>6, <3>7, <3>8, <3>9
      <3> QED BY <2>9, <3>11, <3>12
    <2> QED BY <2>8, <2>9
  <1> QED BY <1>3, <1>4, <1>5, <1>7, <1>8 DEF StockInvariant

LEMMA ConfirmKeeps ==
  ASSUME StockInvariant, NEW i \in DOMAIN reservation, NEW w \in Windows, NEW n \in Quantities(reservation[i].resource),
         ConfirmReservation(i, w, n)
  PROVE  StockInvariant'
  <1>1. PICK count \in Nat : count = Len(reservation)
    BY RowsRead
  <1>2. PICK r \in Resources : r = reservation[i].resource
    BY RowsRead
  <1>3. n \in Nat /\ i \in 1..count
    BY <1>1, <1>2, RowsRead, InventoryAssumption DEF Quantities
  <1>4. reservation[i] \in ReservationRow
    BY RowsRead
  <1> DEFINE row == [reservation[i] EXCEPT !.window = w, !.quantity = n, !.confirmed = count]
  <1>5. row \in ReservationRow /\ row.resource = r /\ row.confirmed = count
    BY <1>2, <1>3, <1>4 DEF ReservationRow
  <1>6. reservation' = [reservation EXCEPT ![i] = row] /\ resource' = resource /\ hold' = hold
    BY <1>1 DEF ConfirmReservation
  <1>7. PICK new \in ReservationRow : new = row
    BY <1>5
  <1> HIDE DEF row
  <1>8. /\ reservation' \in Seq(ReservationRow) /\ Len(reservation') = count /\ DOMAIN reservation' = DOMAIN reservation
        /\ reservation'[i] = new /\ (\A j \in DOMAIN reservation \ {i} : reservation'[j] = reservation[j])
        /\ DOMAIN reservation = 1..count /\ new.resource = r /\ new.confirmed = count
    <2>1. reservation \in Seq(ReservationRow) /\ reservation' = [reservation EXCEPT ![i] = new]
      BY <1>6, <1>7 DEF StockInvariant
    <2> QED BY <1>1, <1>5, <1>7, <2>1
  <1>9. \A j \in DOMAIN reservation' : /\ resource'[reservation'[j].resource] # None
                                       /\ reservation'[j].confirmed <= Len(reservation')
    BY <1>1, <1>2, <1>6, <1>8 DEF StockInvariant
  <1>10. ReservedApart'
    <2> SUFFICES ASSUME NEW j \in DOMAIN reservation', NEW k \in DOMAIN reservation', j < k,
                        reservation'[j].resource = reservation'[k].resource,
                        Kind[reservation'[j].resource] = "serialized",
                        Overlap(reservation'[j].window, reservation'[k].window)
                 PROVE  reservation'[j].confirmed >= k \/ reservation'[k].confirmed > 0
      BY DEF ReservedApart
    <2>1. CASE j = i
      BY <1>8, <2>1
    <2>2. CASE k = i
      BY <1>3, <1>8, <2>2
    <2>3. CASE j # i /\ k # i
      BY <1>8, <2>3 DEF StockInvariant, ReservedApart
    <2> QED BY <2>1, <2>2, <2>3
  <1>11. ASSUME NEW q \in Resources, Untouched(q)', NEW t \in Moments
         PROVE  (SumOver(QuantityOf(reservation), MineAt(q, t)) <= Total[q])'
    <2>1. q # r
      <3>1. q = r => i \in ReservationsOf(q)'
        BY <1>8 DEF ReservationsOf
      <3> QED BY <1>3, <1>8, <1>11, <3>1 DEF Untouched
    <2>2. ReservationsOf(q)' = ReservationsOf(q) /\ ReservationsOf(q) \subseteq DOMAIN reservation \ {i}
      BY <1>2, <1>8, <2>1 DEF ReservationsOf
    <2>3. Untouched(q)
      BY <1>6, <1>8, <1>11, <2>2 DEF Untouched
    <2>4. MineAt(q, t)' = MineAt(q, t) /\ MineAt(q, t) \in SUBSET DOMAIN reservation
          /\ \A j \in MineAt(q, t) : QuantityOf(reservation')[j] = QuantityOf(reservation)[j]
      BY <1>8, <2>2 DEF MineAt, Covers, QuantityOf
    <2>5. IsFiniteSet(MineAt(q, t)) /\ \A j \in MineAt(q, t) : QuantityOf(reservation)[j] \in Nat
      BY <2>4, ReservationsFinite DEF StockInvariant
    <2>6. SumOver(QuantityOf(reservation'), MineAt(q, t)) = SumOver(QuantityOf(reservation), MineAt(q, t))
      <3>1. \A j \in MineAt(q, t) : /\ QuantityOf(reservation)[j] \in Int
                                    /\ QuantityOf(reservation)[j] = QuantityOf(reservation')[j]
        BY <2>4, <2>5
      <3> QED BY <2>5, <3>1, SumOfTheSame
    <2> QED BY <2>3, <2>4, <2>6 DEF StockInvariant
  <1> QED BY <1>6, <1>8, <1>9, <1>10, <1>11 DEF StockInvariant

\* What reservations take does not change with holds.
LEMMA HoldsKeep ==
  ASSUME StockInvariant, NEW r \in Resources, NEW row \in ResourceRow, resource[r] # None,
         resource' = [resource EXCEPT ![r] = row], reservation' = reservation,
         hold' \in Seq(HoldRow), \E h \in DOMAIN hold' : hold'[h].resource = r,
         \A h \in DOMAIN hold : h \in DOMAIN hold' /\ hold'[h].resource = hold[h].resource,
         \A h \in DOMAIN hold' \ DOMAIN hold : hold'[h].resource = r
  PROVE  StockInvariant'
  <1>1. row # None
    BY InventoryAssumption
  <1>2. /\ resource' \in [Resources -> {None} \cup ResourceRow] /\ resource'[r] = row
        /\ \A q \in Resources \ {r} : resource'[q] = resource[q]
    BY DEF StockInvariant
  <1>3. \A q \in Resources : resource[q] # None => resource'[q] # None
    BY <1>1, <1>2
  <1>4. \A i \in DOMAIN reservation : /\ resource'[reservation[i].resource] # None
                                      /\ reservation[i].confirmed <= Len(reservation)
    BY <1>3, RowsRead DEF StockInvariant
  <1>5. \A h \in DOMAIN hold' : resource'[hold'[h].resource] # None
    BY <1>1, <1>2, <1>3, RowsRead DEF StockInvariant
  <1>6. \A q \in Resources : resource'[q] # None /\ (\A h \in DOMAIN hold' : hold'[h].resource # q)
                               => resource'[q].usable = Total[q]
    <2> SUFFICES ASSUME NEW q \in Resources, resource'[q] # None, \A h \in DOMAIN hold' : hold'[h].resource # q
                 PROVE  resource'[q].usable = Total[q]
      OBVIOUS
    <2>1. q # r
      OBVIOUS
    <2>2. resource[q] # None /\ \A h \in DOMAIN hold : hold[h].resource # q
      BY <1>2, <2>1
    <2>3. resource[q].usable = Total[q]
      BY <2>2 DEF StockInvariant
    <2> QED BY <1>2, <2>1, <2>3
  <1>7. ReservedApart'
    BY DEF StockInvariant, ReservedApart
  <1>8. \A q \in Resources : Untouched(q)' => \A t \in Moments : (SumOver(QuantityOf(reservation), MineAt(q, t)) <= Total[q])'
    <2>1. QuantityOf(reservation') = QuantityOf(reservation)
      OBVIOUS
    <2>2. \A q : (Untouched(q)' => Untouched(q)) /\ \A t : MineAt(q, t)' = MineAt(q, t)
      BY DEF Untouched, MineAt, ReservationsOf, Covers
    <2> QED BY <2>1, <2>2 DEF StockInvariant
  <1> QED BY <1>2, <1>4, <1>5, <1>6, <1>7, <1>8 DEF StockInvariant

LEMMA PlaceHoldKeeps ==
  ASSUME StockInvariant, NEW r \in Resources, PlaceHold(r)
  PROVE  StockInvariant'
  <1>1. resource[r] # None /\ resource[r] \in ResourceRow /\ reservation' = reservation
    BY DEF PlaceHold, StockInvariant
  <1> DEFINE held == resource[r]
             left == IF Kind[r] = "serialized" \/ held.usable = 0 THEN 0 ELSE held.usable - 1
             row == [held EXCEPT !.status = "in_maintenance", !.usable = left]
             new == [resource |-> r, active |-> TRUE]
  <1>2. left \in Nat
    BY <1>1 DEF ResourceRow
  <1>3. resource' = [resource EXCEPT ![r] = row]
    BY <1>1 DEF PlaceHold
  <1>4. row \in ResourceRow
    <2> HIDE DEF left
    <2> QED BY <1>1, <1>2 DEF ResourceRow
  <1>5. hold' = Append(hold, new) /\ new \in HoldRow /\ new.resource = r
    BY DEF PlaceHold, HoldRow
  <1>6. hold \in Seq(HoldRow)
    BY DEF StockInvariant
  <1> HIDE DEF row, new
  <1>7. /\ hold' \in Seq(HoldRow) /\ DOMAIN hold' = DOMAIN hold \cup {Len(hold) + 1}
        /\ hold'[Len(hold) + 1] = new /\ \A h \in DOMAIN hold : hold'[h] = hold[h]
    BY <1>5, <1>6
  <1> QED BY <1>1, <1>3, <1>4, <1>5, <1>7, HoldsKeep

LEMMA ReleaseHoldKeeps ==
  ASSUME StockInvariant, NEW h \in DOMAIN hold, ReleaseHold(h)
  PROVE  StockInvariant'
  <1>1. PICK r \in Resources : r = hold[h].resource
    BY RowsRead
  <1>2. resource[r] # None /\ resource[r] \in ResourceRow /\ reservation' = reservation
    BY <1>1 DEF ReleaseHold, StockInvariant
  <1> DEFINE held == resource[r]
             left == IF Kind[r] = "serialized" THEN Total[r] ELSE held.usable + 1
             row == [held EXCEPT !.status = "serviceable", !.usable = left]
             new == [hold[h] EXCEPT !.active = FALSE]
  <1>3. left \in Nat
    BY <1>2, InventoryAssumption DEF ResourceRow
  <1>4. resource' = [resource EXCEPT ![r] = row]
    BY <1>1, <1>2 DEF ReleaseHold
  <1>5. row \in ResourceRow
    <2> HIDE DEF left
    <2> QED BY <1>2, <1>3 DEF ResourceRow
  <1>6. hold' = [hold EXCEPT ![h] = new]
    BY DEF ReleaseHold
  <1>7. new \in HoldRow /\ new.resource = r
    BY <1>1, RowsRead DEF HoldRow
  <1>8. hold \in Seq(HoldRow)
    BY DEF StockInvariant
  <1> HIDE DEF row, new
  <1>9. /\ hold' \in Seq(HoldRow) /\ DOMAIN hold' = DOMAIN hold
        /\ hold'[h] = new /\ \A k \in DOMAIN hold \ {h} : hold'[k] = hold[k]
    BY <1>6, <1>7, <1>8
  <1>10. \A k \in DOMAIN hold : hold'[k].resource = hold[k].resource
    BY <1>1, <1>7, <1>9
  <1> QED BY <1>2, <1>4, <1>5, <1>7, <1>9, <1>10, HoldsKeep

-----------------------------------------------------------------------------
(* Assets. *)

LoanRow == [asset: Assets, project: Projects, window: Windows]

AssetInvariant ==
  /\ asset \in [Assets -> {None} \cup AssetRow]
  /\ named \in [Tags -> {None} \cup Assets]
  /\ \A t \in Tags : named[t] # None => TagOf[named[t]] = t /\ asset[named[t]] # None
  /\ assetAllocation \in Seq(LoanRow)
  /\ \A i \in DOMAIN assetAllocation : asset[assetAllocation[i].asset] # None
  /\ AssetsApart

\* An asset asked for is there.
LEMMA ReferenceFound ==
  ASSUME AssetInvariant, NEW ref \in References
  PROVE  Found(ref) \in Assets /\ asset[Found(ref)] # None /\ asset[Found(ref)] \in AssetRow
  <1>1. CASE ref \in Assets
    <2>1. asset[ref] # None
      BY <1>1, InventoryAssumption DEF AssetInvariant, References
    <2> QED BY <1>1, <2>1 DEF Found, AssetInvariant
  <1>2. CASE ref \notin Assets
    <2>1. ref \in Tags /\ named[ref] # None
      BY <1>2 DEF AssetInvariant, References
    <2> QED BY <1>2, <2>1 DEF Found, AssetInvariant
  <1> QED BY <1>1, <1>2

\* One asset changes, and its tag finds it or what it found before.
LEMMA AssetChanges ==
  ASSUME AssetInvariant, NEW a \in Assets, NEW row \in AssetRow, asset' = [asset EXCEPT ![a] = row],
         named' = [named EXCEPT ![TagOf[a]] = a] \/ named' = named, assetAllocation' = assetAllocation
  PROVE  AssetInvariant'
  <1>1. row # None /\ a # None /\ TagOf[a] \in Tags
    BY InventoryAssumption DEF Tags
  <1>2. /\ asset' \in [Assets -> {None} \cup AssetRow]
        /\ \A b \in Assets : asset[b] # None => asset'[b] # None
        /\ asset'[a] # None
    BY <1>1 DEF AssetInvariant
  <1>3. named' \in [Tags -> {None} \cup Assets]
    BY DEF AssetInvariant
  <1>4. \A t \in Tags : named'[t] = named[t] \/ (t = TagOf[a] /\ named'[t] = a)
    BY DEF AssetInvariant
  <1>5. \A t \in Tags : named'[t] # None => TagOf[named'[t]] = t /\ asset'[named'[t]] # None
    BY <1>2, <1>3, <1>4 DEF AssetInvariant
  <1>6. \A i \in DOMAIN assetAllocation : assetAllocation[i] \in LoanRow
    BY DEF AssetInvariant
  <1>7. \A i \in DOMAIN assetAllocation : asset'[assetAllocation[i].asset] # None
    BY <1>2, <1>6 DEF AssetInvariant, LoanRow
  <1>8. AssetsApart'
    BY DEF AssetInvariant, AssetsApart
  <1> QED BY <1>2, <1>3, <1>5, <1>7, <1>8 DEF AssetInvariant

LEMMA AllocateKeeps ==
  ASSUME AssetInvariant, NEW ref \in References, NEW p \in Projects, NEW w \in Windows, Allocate(ref, p, w)
  PROVE  AssetInvariant'
  <1>1. PICK a \in Assets : a = Found(ref) /\ asset[a] # None /\ asset[a] \in AssetRow
    BY ReferenceFound
  <1>2. PICK last \in Nat : last = Len(assetAllocation) + 1
    <2>1. Len(assetAllocation) \in Nat
      BY DEF AssetInvariant
    <2> QED BY <2>1
  <1> DEFINE row == [asset[a] EXCEPT !.availability = "allocated"]
             new == [asset |-> a, project |-> p, window |-> w]
  <1>3. row \in AssetRow
    BY <1>1 DEF AssetRow
  <1>4. row # None
    BY <1>3, InventoryAssumption
  <1>5. new \in LoanRow /\ new.asset = a /\ new.project = p /\ new.window = w
    BY DEF LoanRow
  <1>6. /\ asset' = [asset EXCEPT ![a] = row] /\ assetAllocation' = Append(assetAllocation, new) /\ named' = named
        /\ \A i \in DOMAIN assetAllocation :
             assetAllocation[i].asset = a /\ assetAllocation[i].project # p => ~Meets(assetAllocation[i].window, w)
    BY <1>1 DEF Allocate, AllocationsOf
  <1> HIDE DEF row, new
  <1>7. /\ asset' \in [Assets -> {None} \cup AssetRow]
        /\ \A b \in Assets : asset[b] # None => asset'[b] # None
    BY <1>3, <1>4, <1>6 DEF AssetInvariant
  <1>8. /\ assetAllocation' \in Seq(LoanRow) /\ DOMAIN assetAllocation' = DOMAIN assetAllocation \cup {last}
        /\ assetAllocation'[last] = new
        /\ \A i \in DOMAIN assetAllocation : assetAllocation'[i] = assetAllocation[i] /\ i # last
    <2>1. assetAllocation \in Seq(LoanRow)
      BY DEF AssetInvariant
    <2> QED BY <1>2, <1>5, <1>6, <2>1
  <1>9. \A i \in DOMAIN assetAllocation : assetAllocation[i] \in LoanRow /\ assetAllocation[i].asset \in Assets
    <2>1. \A i \in DOMAIN assetAllocation : assetAllocation[i] \in LoanRow
      BY DEF AssetInvariant
    <2> QED BY <2>1 DEF LoanRow
  <1>10. \A i \in DOMAIN assetAllocation' : asset'[assetAllocation'[i].asset] # None
    BY <1>1, <1>5, <1>7, <1>8, <1>9 DEF AssetInvariant
  <1>11. AssetsApart'
    <2> SUFFICES ASSUME NEW i \in DOMAIN assetAllocation', NEW j \in DOMAIN assetAllocation',
                        assetAllocation'[i].asset = assetAllocation'[j].asset,
                        assetAllocation'[i].project # assetAllocation'[j].project
                 PROVE  ~Overlap(assetAllocation'[i].window, assetAllocation'[j].window)
      BY DEF AssetsApart
    <2>1. CASE i = last
      <3>1. j \in DOMAIN assetAllocation
        BY <1>8, <2>1
      <3>2. ~Meets(assetAllocation[j].window, w)
        BY <1>5, <1>6, <1>8, <2>1, <3>1
      <3> QED BY <1>5, <1>8, <2>1, <3>1, <3>2 DEF Meets, Overlap
    <2>2. CASE j = last
      <3>1. i \in DOMAIN assetAllocation
        BY <1>8, <2>2
      <3>2. ~Meets(assetAllocation[i].window, w)
        BY <1>5, <1>6, <1>8, <2>2, <3>1
      <3> QED BY <1>5, <1>8, <2>2, <3>1, <3>2 DEF Meets
    <2>3. CASE i # last /\ j # last
      BY <1>8, <2>3 DEF AssetInvariant, AssetsApart
    <2> QED BY <2>1, <2>2, <2>3
  <1>12. \A t \in Tags : named'[t] # None => TagOf[named'[t]] = t /\ asset'[named'[t]] # None
    BY <1>6, <1>7 DEF AssetInvariant
  <1> QED BY <1>6, <1>7, <1>8, <1>10, <1>11, <1>12 DEF AssetInvariant

-----------------------------------------------------------------------------
InventoryInvariant == StockInvariant /\ AssetInvariant

LEMMA InventoryStart == InventoryInit => InventoryInvariant
  <1> SUFFICES ASSUME InventoryInit PROVE InventoryInvariant
    OBVIOUS
  <1>1. /\ resource \in [Resources -> {None} \cup ResourceRow] /\ \A r \in Resources : resource[r] = None
        /\ asset \in [Assets -> {None} \cup AssetRow]
        /\ named \in [Tags -> {None} \cup Assets] /\ \A t \in Tags : named[t] = None
    BY DEF InventoryInit
  <1>2. reservation = <<>> /\ hold = <<>> /\ assetAllocation = <<>>
    BY DEF InventoryInit
  <1>3. DOMAIN reservation = {} /\ DOMAIN hold = {} /\ DOMAIN assetAllocation = {}
    BY <1>2
  <1>4. \A r \in Resources, t \in Moments : SumOver(QuantityOf(reservation), MineAt(r, t)) <= Total[r]
    <2> SUFFICES ASSUME NEW r \in Resources, NEW t \in Moments
                 PROVE  SumOver(QuantityOf(reservation), MineAt(r, t)) <= Total[r]
      OBVIOUS
    <2>1. MineAt(r, t) = {}
      BY <1>3 DEF MineAt, ReservationsOf
    <2>2. IsFiniteSet({}) /\ \A x \in {} : QuantityOf(reservation)[x] \in Int
      BY FS_EmptySet
    <2>3. SumOver(QuantityOf(reservation), {}) = 0
      BY <2>2, SumUnfolds
    <2> QED BY <2>1, <2>3, InventoryAssumption
  <1>5. ReservedApart /\ AssetsApart
    BY <1>3 DEF ReservedApart, AssetsApart
  <1>6. StockInvariant
    BY <1>1, <1>2, <1>3, <1>4, <1>5 DEF StockInvariant
  <1>7. AssetInvariant
    BY <1>1, <1>2, <1>3, <1>5 DEF AssetInvariant
  <1> QED BY <1>6, <1>7 DEF InventoryInvariant

LEMMA InventoryStep ==
  ASSUME InventoryInvariant, [InventoryNext]_inventoryVars
  PROVE  InventoryInvariant'
  <1> USE DEF InventoryInvariant
  <1>1. UNCHANGED stockVars => StockInvariant'
    <2> SUFFICES ASSUME UNCHANGED stockVars PROVE StockInvariant'
      OBVIOUS
    <2>1. resource' = resource /\ reservation' = reservation /\ hold' = hold
      BY DEF stockVars
    <2>2. ReservedApart'
      BY <2>1 DEF StockInvariant, ReservedApart
    <2>3. \A r : (Untouched(r)' <=> Untouched(r)) /\ \A t : MineAt(r, t)' = MineAt(r, t)
      BY <2>1 DEF Untouched, MineAt, ReservationsOf, Covers
    <2>4. QuantityOf(reservation') = QuantityOf(reservation)
      BY <2>1
    <2>5. \A r \in Resources : Untouched(r)' => \A t \in Moments : (SumOver(QuantityOf(reservation), MineAt(r, t)) <= Total[r])'
      BY <2>3, <2>4 DEF StockInvariant
    <2> QED BY <2>1, <2>2, <2>5 DEF StockInvariant
  <1>2. UNCHANGED assetVars => AssetInvariant'
    <2> SUFFICES ASSUME UNCHANGED assetVars PROVE AssetInvariant'
      OBVIOUS
    <2>1. asset' = asset /\ named' = named /\ assetAllocation' = assetAllocation
      BY DEF assetVars
    <2> QED BY <2>1 DEF AssetInvariant, AssetsApart
  <1>3. ASSUME NEW r \in Resources, CreateResource(r) \/ PlaceHold(r)
        PROVE  StockInvariant' /\ UNCHANGED assetVars
    BY <1>3, CreateResourceKeeps, PlaceHoldKeeps DEF CreateResource, PlaceHold
  <1>4. ASSUME NEW r \in Resources, NEW p \in Projects, NEW w \in Windows, NEW n \in Quantities(r), Reserve(r, p, w, n)
        PROVE  StockInvariant' /\ UNCHANGED assetVars
    BY <1>4, ReserveKeeps DEF Reserve
  <1>5. ASSUME NEW i \in DOMAIN reservation, NEW w \in Windows, NEW n \in Quantities(reservation[i].resource),
               ConfirmReservation(i, w, n)
        PROVE  StockInvariant' /\ UNCHANGED assetVars
    BY <1>5, ConfirmKeeps DEF ConfirmReservation
  <1>6. ASSUME NEW h \in DOMAIN hold, ReleaseHold(h)
        PROVE  StockInvariant' /\ UNCHANGED assetVars
    BY <1>6, ReleaseHoldKeeps DEF ReleaseHold
  <1>7. ASSUME NEW a \in Assets, RegisterAsset(a)
        PROVE  AssetInvariant' /\ UNCHANGED stockVars
    <2>1. PICK row \in AssetRow : asset' = [asset EXCEPT ![a] = row]
      BY <1>7 DEF RegisterAsset, AssetRow
    <2> QED BY <1>7, <2>1, AssetChanges DEF RegisterAsset
  <1>8. ASSUME NEW ref \in References, NEW p \in Projects, NEW w \in Windows, Allocate(ref, p, w)
        PROVE  AssetInvariant' /\ UNCHANGED stockVars
    BY <1>8, AllocateKeeps DEF Allocate
  <1>9. ASSUME NEW ref \in References, NEW type \in MovementTypes, NEW c \in Conditions, ExecuteMovement(ref, type, c)
        PROVE  AssetInvariant' /\ UNCHANGED stockVars
    <2>1. PICK a \in Assets : a = Found(ref) /\ asset[a] \in AssetRow
      BY ReferenceFound
    <2>2. PICK row \in AssetRow : row = [condition |-> c, availability |-> Moved(type, c, asset[a].availability)]
      BY <2>1 DEF AssetRow, Moved, MovementTypes
    <2>3. asset' = [asset EXCEPT ![a] = row] /\ named' = [named EXCEPT ![TagOf[a]] = a] /\ assetAllocation' = assetAllocation
      BY <1>9, <2>1, <2>2 DEF ExecuteMovement
    <2>4. UNCHANGED stockVars
      BY <1>9 DEF ExecuteMovement
    <2> QED BY <2>3, <2>4, AssetChanges
  <1>10. UNCHANGED inventoryVars => UNCHANGED stockVars /\ UNCHANGED assetVars
    BY DEF inventoryVars
  <1>11. CASE UNCHANGED inventoryVars
    BY <1>1, <1>2, <1>10, <1>11
  <1>12. CASE InventoryNext
    BY <1>1, <1>2, <1>3, <1>4, <1>5, <1>6, <1>7, <1>8, <1>9, <1>12 DEF InventoryNext
  <1> QED BY <1>11, <1>12

\* Resources, reservations and allocations refer to what exists.
THEOREM InventoryTyped == InventorySpec => []InventoryTypeOK
  <1>1. InventoryInvariant => InventoryTypeOK
    BY RowsRead DEF InventoryInvariant, StockInvariant, AssetInvariant, InventoryTypeOK
  <1> QED BY <1>1, InventoryStart, InventoryStep, PTL DEF InventorySpec

\* No asset is allocated to two projects for a common moment, no two reservations of
\* a piece with a serial number share one unless a confirmation moved one of them,
\* and what is only counted is never promised beyond its total until then.
THEOREM PromisesStandApart == InventorySpec => []PromisesApart
  <1>1. InventoryInvariant => BulkWithinTotal
    <2> SUFFICES ASSUME InventoryInvariant, NEW r \in Resources, Untouched(r), NEW t \in Moments
                 PROVE  (LET Quantity(i) == reservation[i].quantity
                         IN MapThenSumSet(Quantity, {i \in ReservationsOf(r) : Covers(i, t)})) <= Total[r]
      BY DEF BulkWithinTotal, Untouched, MapThenSumSet, MapThenFoldSet
    <2>1. MineAt(r, t) \in SUBSET DOMAIN reservation
      BY DEF MineAt, ReservationsOf
    <2>2. (LET Quantity(i) == reservation[i].quantity IN MapThenSumSet(Quantity, MineAt(r, t)))
            = SumOver(QuantityOf(reservation), MineAt(r, t))
      BY <2>1, ReservedSum
    <2>3. SumOver(QuantityOf(reservation), MineAt(r, t)) <= Total[r]
      BY DEF InventoryInvariant, StockInvariant
    <2> QED BY <2>2, <2>3 DEF MineAt
  <1>2. InventoryInvariant => PromisesApart
    BY <1>1 DEF PromisesApart, InventoryInvariant, StockInvariant, AssetInvariant
  <1> QED BY <1>2, InventoryStart, InventoryStep, PTL DEF InventorySpec

-----------------------------------------------------------------------------
(*****************************************************************************)
(* IntegrationStore.                                                         *)
(*****************************************************************************)

LEMMA SequenceChanged ==
  ASSUME NEW T, NEW z \in Seq(T), NEW i \in DOMAIN z, NEW x \in T
  PROVE  [z EXCEPT ![i] = x] \in Seq(T)
  OBVIOUS

-----------------------------------------------------------------------------
(* Equipment reservations. *)

Progress == [step: {"new", "unknown", "saving", "answered"}, at: Instances \cup {None},
             key: Keys \cup {None}, payload: Payloads \cup {None}, op: Operations \cup {None},
             late: BOOLEAN, told: Answers \cup {None}]

BookingsTyped ==
  /\ \A k \in Keys : operation[k] = None \/ (operation[k] \in Operations /\ operation[k].key = k)
  /\ operation = [k \in Keys |-> operation[k]]
  /\ booked \in [Instances -> SUBSET Operations]
  /\ request \in [Requests -> Progress]
  /\ \A r \in Requests : request[r].step \in {"unknown", "saving"} =>
       /\ request[r].at \in Instances /\ request[r].key \in Keys /\ request[r].payload \in Payloads
       /\ ~request[r].late
  /\ \A r \in Requests : request[r].step = "saving" =>
       request[r].op \in Operations /\ request[r].op.key = request[r].key

\* An acknowledged request has a recorded operation of its key, and what is booked
\* was booked by a request that has looked its key up before.
Acknowledgements ==
  /\ \A r \in Requests : request[r].told = "accepted" =>
       request[r].key \in Keys /\ operation[request[r].key] # None
  /\ \A r \in Requests : request[r].late =>
       /\ request[r].step = "answered" /\ request[r].key \in Keys
       /\ operation[request[r].key] # None /\ request[r].op = operation[request[r].key]
       /\ request[r].told \in {"accepted", "conflict"}
       /\ \A i \in Instances : \A op \in booked[i] : op.id # r
  /\ \A i \in Instances : \A op \in booked[i] : request[op.id].step # "new"

BookingInvariant == BookingsTyped /\ Acknowledgements

\* One request goes on.
LEMMA RequestWritten ==
  ASSUME request \in [Requests -> Progress], NEW r \in Requests, NEW q \in Progress,
         request' = [request EXCEPT ![r] = q]
  PROVE  /\ request' \in [Requests -> Progress] /\ request'[r] = q
         /\ \A s \in Requests \ {r} : request'[s] = request[s]
  OBVIOUS

LEMMA LookUpKeeps ==
  ASSUME BookingInvariant, NEW r \in Requests, NEW i \in Instances, NEW k \in Keys,
         NEW p \in Payloads, LookUpReservation(r, i, k, p)
  PROVE  BookingInvariant'
  <1> DEFINE begun == [Idle EXCEPT !.at = i, !.key = k, !.payload = p, !.late = Acknowledged(k)]
             q == IF operation[k] = None THEN [begun EXCEPT !.step = "unknown"]
                  ELSE [begun EXCEPT !.step = "answered", !.op = operation[k],
                        !.told = IF operation[k].payload = p THEN "accepted" ELSE "conflict"]
  <1>1. /\ request[r].step = "new" /\ request' = [request EXCEPT ![r] = q]
        /\ UNCHANGED <<operation, booked>>
    BY DEF LookUpReservation
  <1>2. operation[k] = None \/ operation[k] \in Operations
    BY DEF BookingInvariant, BookingsTyped
  <1>3. Acknowledged(k) \in BOOLEAN /\ (Acknowledged(k) => operation[k] # None)
    BY DEF Acknowledged, BookingInvariant, Acknowledgements
  <1>4. /\ q \in Progress /\ q.at = i /\ q.key = k /\ q.payload = p
        /\ q.late = Acknowledged(k) /\ q.step \in {"unknown", "answered"}
        /\ q.step = "unknown" => operation[k] = None /\ q.told = None
        /\ q.step = "answered" => operation[k] # None /\ q.op = operation[k] /\ q.told \in {"accepted", "conflict"}
    BY <1>2, <1>3 DEF Progress, Idle, Answers
  <1> HIDE DEF q
  <1>5. request \in [Requests -> Progress]
    BY DEF BookingInvariant, BookingsTyped
  <1>6. /\ request' \in [Requests -> Progress] /\ request'[r] = q
        /\ \A s \in Requests \ {r} : request'[s] = request[s]
    BY <1>1, <1>4, <1>5, RequestWritten
  <1>7. \A j \in Instances : \A op \in booked[j] : op.id # r
    BY <1>1 DEF BookingInvariant, Acknowledgements
  <1>8. BookingsTyped'
    BY <1>1, <1>3, <1>4, <1>6 DEF BookingInvariant, BookingsTyped
  <1>9. Acknowledgements'
    <2>1. \A s \in Requests : request'[s].told = "accepted" =>
            request'[s].key \in Keys /\ operation'[request'[s].key] # None
      BY <1>1, <1>4, <1>6, IntegrationAssumption DEF BookingInvariant, Acknowledgements, Answers
    <2>2. \A s \in Requests : request'[s].late =>
       /\ request'[s].step = "answered" /\ request'[s].key \in Keys
       /\ operation'[request'[s].key] # None /\ request'[s].op = operation'[request'[s].key]
       /\ request'[s].told \in {"accepted", "conflict"}
       /\ \A j \in Instances : \A op \in booked'[j] : op.id # s
      BY <1>1, <1>3, <1>4, <1>6, <1>7 DEF BookingInvariant, Acknowledgements
    <2>3. \A j \in Instances : \A op \in booked'[j] : request'[op.id].step # "new"
      <3>1. \A j \in Instances : \A op \in booked[j] : op.id \in Requests
        BY DEF BookingInvariant, BookingsTyped, Operations
      <3> QED BY <1>1, <1>4, <1>6, <3>1 DEF BookingInvariant, Acknowledgements
    <2> QED BY <2>1, <2>2, <2>3 DEF Acknowledgements
  <1> QED BY <1>8, <1>9 DEF BookingInvariant

\* A request that is not answered yet goes on, and books what it may.
LEMMA ProgressKeeps ==
  ASSUME BookingInvariant, NEW r \in Requests, request[r].step \in {"unknown", "saving"},
         NEW q \in Progress, request' = [request EXCEPT ![r] = q],
         q.step \in {"saving", "answered"},
         q.key = request[r].key, q.payload = request[r].payload, q.at = request[r].at,
         q.late = request[r].late,
         q.step = "saving" => q.op \in Operations /\ q.op.key = q.key,
         \A k \in Keys : /\ operation'[k] = operation[k]
                            \/ (operation[k] = None /\ operation'[k] \in Operations /\ operation'[k].key = k),
         operation' = [k \in Keys |-> operation'[k]],
         q.told = "accepted" => operation'[q.key] # None,
         booked' \in [Instances -> SUBSET Operations],
         \A i \in Instances : \A op \in booked'[i] : op \in booked[i] \/ op.id = r
  PROVE  BookingInvariant'
  <1>1. /\ request' \in [Requests -> Progress] /\ request'[r] = q
        /\ \A s \in Requests \ {r} : request'[s] = request[s]
    BY RequestWritten DEF BookingInvariant, BookingsTyped
  <1>2. /\ request[r].at \in Instances /\ request[r].key \in Keys /\ request[r].payload \in Payloads
        /\ ~request[r].late
    BY DEF BookingInvariant, BookingsTyped
  <1>3. BookingsTyped'
    <2>1. \A k \in Keys : operation'[k] = None \/ (operation'[k] \in Operations /\ operation'[k].key = k)
      BY DEF BookingInvariant, BookingsTyped
    <2> QED BY <1>1, <1>2, <2>1 DEF BookingInvariant, BookingsTyped
  <1>4. \A k \in Keys : operation[k] # None => operation'[k] = operation[k]
    OBVIOUS
  <1>5. Acknowledgements'
    <2>1. \A s \in Requests : request'[s].told = "accepted" =>
            request'[s].key \in Keys /\ operation'[request'[s].key] # None
      BY <1>1, <1>2, <1>4 DEF BookingInvariant, Acknowledgements
    <2>2. \A s \in Requests : request'[s].late =>
       /\ request'[s].step = "answered" /\ request'[s].key \in Keys
       /\ operation'[request'[s].key] # None /\ request'[s].op = operation'[request'[s].key]
       /\ request'[s].told \in {"accepted", "conflict"}
       /\ \A j \in Instances : \A op \in booked'[j] : op.id # s
      BY <1>1, <1>2, <1>4 DEF BookingInvariant, Acknowledgements
    <2>3. \A j \in Instances : \A op \in booked'[j] : request'[op.id].step # "new"
      <3>1. \A j \in Instances : \A op \in booked[j] : op.id \in Requests
        BY DEF BookingInvariant, BookingsTyped, Operations
      <3> QED BY <1>1, <3>1 DEF BookingInvariant, Acknowledgements
    <2> QED BY <2>1, <2>2, <2>3 DEF Acknowledgements
  <1> QED BY <1>3, <1>5 DEF BookingInvariant

LEMMA BookKeeps ==
  ASSUME BookingInvariant, NEW r \in Requests, BookReservation(r)
  PROVE  BookingInvariant'
  <1> DEFINE old == request[r]
             same == {op \in booked[old.at] : op.key = old.key}
             new == [id |-> r, key |-> old.key, payload |-> old.payload,
                     state |-> IF Available(old.at) < Units[old.payload] THEN "rejected" ELSE "confirmed"]
  <1>1. /\ request \in [Requests -> Progress] /\ old \in Progress /\ old.step = "unknown"
        /\ old.at \in Instances /\ old.key \in Keys /\ old.payload \in Payloads
        /\ booked \in [Instances -> SUBSET Operations]
    BY DEF BookReservation, BookingInvariant, BookingsTyped
  <1>2. new \in Operations /\ new.key = old.key /\ new.id = r
    BY <1>1 DEF Operations
  <1>3. UNCHANGED operation
    BY DEF BookReservation
  <1>4. \/ /\ \E op \in same :
                IF op.payload = old.payload
                THEN request' = [request EXCEPT ![r].step = "saving", ![r].op = op]
                ELSE Answered(r, op, "conflict")
           /\ UNCHANGED booked
        \/ /\ booked' = [booked EXCEPT ![old.at] = @ \cup {new}]
           /\ request' = [request EXCEPT ![r].step = "saving", ![r].op = new]
    BY DEF BookReservation
  <1>5. \A op \in same : op \in Operations /\ op.key = old.key
    BY <1>1
  <1>6. booked' \in [Instances -> SUBSET Operations]
        /\ \A i \in Instances : \A op \in booked'[i] : op \in booked[i] \/ op.id = r
    BY <1>1, <1>2, <1>4
  <1>7. old.told # "accepted" \/ operation[old.key] # None
    BY DEF BookingInvariant, Acknowledgements
  <1>8. ASSUME NEW op \in Operations, op.key = old.key,
               \/ request' = [request EXCEPT ![r].step = "saving", ![r].op = op]
               \/ Answered(r, op, "conflict")
        PROVE  BookingInvariant'
    <2> DEFINE s == [old EXCEPT !.step = "saving", !.op = op]
               c == [old EXCEPT !.step = "answered", !.op = op, !.told = "conflict"]
    <2>1. /\ s \in Progress /\ s.step = "saving" /\ s.op = op /\ s.told = old.told
          /\ s.key = old.key /\ s.payload = old.payload /\ s.at = old.at /\ s.late = old.late
      BY <1>1 DEF Progress
    <2>2. /\ c \in Progress /\ c.step = "answered" /\ c.told = "conflict"
          /\ c.key = old.key /\ c.payload = old.payload /\ c.at = old.at /\ c.late = old.late
      BY <1>1 DEF Progress, Answers
    <2>3. request' = [request EXCEPT ![r] = s] \/ request' = [request EXCEPT ![r] = c]
      BY <1>8 DEF Answered
    <2>4. PICK q \in Progress : /\ request' = [request EXCEPT ![r] = q]
                                /\ q.step \in {"saving", "answered"}
                                /\ q.key = old.key /\ q.payload = old.payload /\ q.at = old.at /\ q.late = old.late
                                /\ q.step = "saving" => q.op = op /\ q.told = old.told
                                /\ q.step = "answered" => q.told = "conflict"
      <3> HIDE DEF s, c
      <3> QED BY <2>1, <2>2, <2>3
    <2> HIDE DEF s, c
    <2>5. \A k \in Keys : operation'[k] = operation[k]
      BY <1>3
    <2>6. operation' = [k \in Keys |-> operation'[k]]
      BY <1>3 DEF BookingInvariant, BookingsTyped
    <2>7. q.told = "accepted" => operation'[q.key] # None
      BY <1>3, <1>7, <2>4
    <2>8. old.step \in {"unknown", "saving"}
      BY <1>1
    <2> QED BY <1>6, <1>8, <2>4, <2>5, <2>6, <2>7, <2>8, ProgressKeeps
  <1> QED BY <1>2, <1>4, <1>5, <1>8

\* What a request that is answered without a booking looks like.
LEMMA AnsweredRequest ==
  ASSUME BookingInvariant, NEW r \in Requests, request[r].step \in {"unknown", "saving"},
         NEW op \in Operations \cup {None}, NEW answer \in Answers, Answered(r, op, answer)
  PROVE  \E q \in Progress :
           /\ request' = [request EXCEPT ![r] = q]
           /\ q.step = "answered" /\ q.told = answer
           /\ q.key = request[r].key /\ q.payload = request[r].payload
           /\ q.at = request[r].at /\ q.late = request[r].late
  <1> DEFINE q == [request[r] EXCEPT !.step = "answered", !.op = op, !.told = answer]
  <1>1. request[r] \in Progress
    BY DEF BookingInvariant, BookingsTyped
  <1>2. /\ q \in Progress /\ q.step = "answered" /\ q.told = answer
        /\ q.key = request[r].key /\ q.payload = request[r].payload
        /\ q.at = request[r].at /\ q.late = request[r].late
    BY <1>1 DEF Progress
  <1>3. request' = [request EXCEPT ![r] = q]
    BY DEF Answered
  <1> HIDE DEF q
  <1> QED BY <1>2, <1>3

LEMMA PersistKeeps ==
  ASSUME BookingInvariant, NEW r \in Requests, PersistReservation(r)
  PROVE  BookingInvariant'
  <1>1. /\ request[r].step = "saving" /\ request[r].key \in Keys
        /\ request[r].op \in Operations /\ request[r].op.key = request[r].key
    BY DEF PersistReservation, BookingInvariant, BookingsTyped
  <1>2. PICK answer \in {"accepted", "lost"} : Answered(r, request[r].op, answer)
    BY DEF PersistReservation
  <1>3. PICK q \in Progress :
           /\ request' = [request EXCEPT ![r] = q]
           /\ q.step = "answered" /\ q.told = answer
           /\ q.key = request[r].key /\ q.payload = request[r].payload
           /\ q.at = request[r].at /\ q.late = request[r].late
    BY <1>1, <1>2, AnsweredRequest DEF Answers
  <1>4. operation' = [operation EXCEPT ![request[r].key] = IF @ = None THEN request[r].op ELSE @]
    BY DEF PersistReservation
  <1>5. operation = [k \in Keys |-> operation[k]]
    BY DEF BookingInvariant, BookingsTyped
  <1>6. /\ operation' = [k \in Keys |-> operation'[k]]
        /\ \A k \in Keys : /\ operation'[k] = operation[k]
                              \/ (operation[k] = None /\ operation'[k] \in Operations /\ operation'[k].key = k)
        /\ operation'[q.key] # None
    BY <1>1, <1>3, <1>4, <1>5, IntegrationAssumption
  <1>7. /\ booked' \in [Instances -> SUBSET Operations]
        /\ \A i \in Instances : \A op \in booked'[i] : op \in booked[i] \/ op.id = r
    BY DEF PersistReservation, BookingInvariant, BookingsTyped
  <1> QED BY <1>1, <1>3, <1>6, <1>7, ProgressKeeps

LEMMA UnavailableKeeps ==
  ASSUME BookingInvariant, NEW r \in Requests, DatastoreUnavailable(r)
  PROVE  BookingInvariant'
  <1>1. /\ request[r].step \in {"unknown", "saving"}
        /\ Answered(r, request[r].op, "unavailable")
        /\ UNCHANGED <<operation, booked>>
    BY DEF DatastoreUnavailable
  <1>2. request[r].op \in Operations \cup {None}
    BY DEF BookingInvariant, BookingsTyped, Progress
  <1>3. PICK q \in Progress :
           /\ request' = [request EXCEPT ![r] = q]
           /\ q.step = "answered" /\ q.told = "unavailable"
           /\ q.key = request[r].key /\ q.payload = request[r].payload
           /\ q.at = request[r].at /\ q.late = request[r].late
    BY <1>1, <1>2, AnsweredRequest DEF Answers
  <1>4. /\ operation' = [k \in Keys |-> operation'[k]]
        /\ booked' \in [Instances -> SUBSET Operations]
    BY <1>1 DEF BookingInvariant, BookingsTyped
  <1>5. /\ \A k \in Keys : operation'[k] = operation[k]
        /\ \A i \in Instances : \A op \in booked'[i] : op \in booked[i]
    BY <1>1
  <1> QED BY <1>1, <1>3, <1>4, <1>5, ProgressKeeps

LEMMA RestartKeeps ==
  ASSUME BookingInvariant, NEW i \in Instances, Restart(i)
  PROVE  BookingInvariant'
  <1>1. /\ operation' = operation /\ booked' = [booked EXCEPT ![i] = {}]
        /\ request' = [r \in Requests |->
              IF request[r].at = i /\ request[r].step # "answered"
              THEN [request[r] EXCEPT !.step = "answered", !.told = "lost"] ELSE request[r]]
    BY DEF Restart
  <1>2. ASSUME NEW r \in Requests
        PROVE  \/ request'[r] = request[r]
               \/ /\ request'[r] \in Progress /\ request'[r].step = "answered"
                  /\ request'[r].told = "lost" /\ request'[r].late = request[r].late
                  /\ request[r].step # "answered"
    <2>1. request[r] \in Progress
      BY DEF BookingInvariant, BookingsTyped
    <2>2. CASE request[r].at = i /\ request[r].step # "answered"
      <3>1. request'[r] = [request[r] EXCEPT !.step = "answered", !.told = "lost"]
        BY <1>1, <2>2
      <3> QED BY <2>1, <2>2, <3>1 DEF Progress, Answers
    <2>3. CASE ~(request[r].at = i /\ request[r].step # "answered")
      BY <1>1, <2>3
    <2> QED BY <2>2, <2>3
  <1>3. request' \in [Requests -> Progress]
    <2>1. request' = [r \in Requests |-> request'[r]]
      BY <1>1
    <2> QED BY <1>2, <2>1 DEF BookingInvariant, BookingsTyped
  <1>4. booked' \in [Instances -> SUBSET Operations] /\ \A j \in Instances : booked'[j] \subseteq booked[j]
    BY <1>1 DEF BookingInvariant, BookingsTyped
  <1>5. BookingsTyped'
    <2>1. \A k \in Keys : operation'[k] = None \/ (operation'[k] \in Operations /\ operation'[k].key = k)
      BY <1>1 DEF BookingInvariant, BookingsTyped
    <2>2. operation' = [k \in Keys |-> operation'[k]]
      BY <1>1 DEF BookingInvariant, BookingsTyped
    <2>3. \A r \in Requests : request'[r].step \in {"unknown", "saving"} => request'[r] = request[r]
      BY <1>2
    <2> QED BY <1>3, <1>4, <2>1, <2>2, <2>3 DEF BookingInvariant, BookingsTyped
  <1>6. \A r \in Requests : request[r].late => request[r].step = "answered"
    BY DEF BookingInvariant, Acknowledgements
  <1>7. \A j \in Instances : \A op \in booked[j] : op.id \in Requests
    BY DEF BookingInvariant, BookingsTyped, Operations
  <1>8. Acknowledgements'
    <2>1. \A r \in Requests : request'[r].told = "accepted" =>
            request'[r].key \in Keys /\ operation'[request'[r].key] # None
      <3>1. \A r \in Requests : request'[r].told = "accepted" => request'[r] = request[r]
        BY <1>2
      <3>2. operation' = operation
        BY <1>1
      <3> QED BY <3>1, <3>2 DEF BookingInvariant, Acknowledgements
    <2>2. \A r \in Requests : request'[r].late => request[r].late /\ request'[r] = request[r]
      BY <1>2, <1>6
    <2>3. \A r \in Requests : request'[r].late =>
       /\ request'[r].step = "answered" /\ request'[r].key \in Keys
       /\ operation'[request'[r].key] # None /\ request'[r].op = operation'[request'[r].key]
       /\ request'[r].told \in {"accepted", "conflict"}
       /\ \A j \in Instances : \A op \in booked'[j] : op.id # r
      <3>1. operation' = operation
        BY <1>1
      <3> QED BY <1>4, <2>2, <3>1 DEF BookingInvariant, Acknowledgements
    <2>4. \A j \in Instances : \A op \in booked'[j] : request'[op.id].step # "new"
      BY <1>2, <1>4, <1>7 DEF BookingInvariant, Acknowledgements
    <2> QED BY <2>1, <2>3, <2>4 DEF Acknowledgements
  <1> QED BY <1>5, <1>8 DEF BookingInvariant

-----------------------------------------------------------------------------
(* Drafts. *)

SaveState == [step: {"new", "updating", "inserting", "saved", "conflict", "unavailable"},
              draft: SharedDrafts \cup {None}, expected: Expectations, row: Nat \cup {None},
              target: Nat \cup {None}]

\* A save that is under way has decided on the version it expects, and one that
\* stated a version stands right behind it.
DraftInvariant ==
  /\ rows \in [SharedDrafts -> Seq(Seq(Saves))]
  /\ save \in [Saves -> SaveState]
  /\ \A s \in Saves : save[s].step = "updating" =>
       /\ save[s].draft \in SharedDrafts /\ save[s].row \in DOMAIN rows[save[s].draft]
       /\ save[s].expected \in {None, save[s].target}
  /\ \A s \in Saves : save[s].step = "inserting" =>
       save[s].draft \in SharedDrafts /\ save[s].expected \in {None, 0}
  /\ \A s \in Saves : save[s].step = "saved" => save[s].draft \in SharedDrafts
  /\ StatedVersionSeen

\* The rows of a draft only grow.
Grown(d) ==
  /\ DOMAIN rows[d] \subseteq DOMAIN rows'[d]
  /\ \A n \in DOMAIN rows[d] :
       /\ DOMAIN rows[d][n] \subseteq DOMAIN rows'[d][n]
       /\ \A v \in DOMAIN rows[d][n] : rows'[d][n][v] = rows[d][n][v]

\* One save goes on.
LEMMA SaveGoesOn ==
  ASSUME DraftInvariant, NEW s \in Saves, save[s].step # "saved", NEW q \in SaveState, save' = [save EXCEPT ![s] = q],
         rows' \in [SharedDrafts -> Seq(Seq(Saves))], \A d \in SharedDrafts : Grown(d),
         q.step = "updating" => /\ q.draft \in SharedDrafts /\ q.row \in DOMAIN rows'[q.draft]
                                /\ q.expected \in {None, q.target},
         q.step = "inserting" => q.draft \in SharedDrafts /\ q.expected \in {None, 0},
         q.step = "saved" => q.draft \in SharedDrafts,
         q.step = "saved" /\ q.expected # None =>
           \E n \in DOMAIN rows'[q.draft] :
             Len(rows'[q.draft][n]) > q.expected /\ rows'[q.draft][n][q.expected + 1] = s
  PROVE  DraftInvariant'
  <1>1. /\ save' \in [Saves -> SaveState] /\ save'[s] = q
        /\ \A t \in Saves \ {s} : save'[t] = save[t]
    BY DEF DraftInvariant
  <1>2. \A t \in Saves : save'[t].step = "updating" =>
       /\ save'[t].draft \in SharedDrafts /\ save'[t].row \in DOMAIN rows'[save'[t].draft]
       /\ save'[t].expected \in {None, save'[t].target}
    BY <1>1 DEF DraftInvariant, Grown
  <1>3. StatedVersionSeen'
    <2> SUFFICES ASSUME NEW t \in Saves, save'[t].step = "saved", save'[t].expected # None
                 PROVE  \E n \in DOMAIN rows'[save'[t].draft] :
                          /\ Len(rows'[save'[t].draft][n]) > save'[t].expected
                          /\ rows'[save'[t].draft][n][save'[t].expected + 1] = t
      BY DEF StatedVersionSeen
    <2>1. CASE t = s
      BY <1>1, <2>1
    <2>2. CASE t # s
      <3>1. save'[t] = save[t] /\ save[t].draft \in SharedDrafts /\ save[t].expected \in 0..Cardinality(Saves)
        BY <1>1, <2>2 DEF DraftInvariant, SaveState, Expectations
      <3>2. PICK d \in SharedDrafts, e \in Nat : d = save[t].draft /\ e = save[t].expected
        BY <3>1
      <3>3. PICK n \in DOMAIN rows[d] : Len(rows[d][n]) > e /\ rows[d][n][e + 1] = t
        BY <3>1, <3>2 DEF DraftInvariant, StatedVersionSeen
      <3>4. rows[d] \in Seq(Seq(Saves)) /\ rows'[d] \in Seq(Seq(Saves))
        BY DEF DraftInvariant
      <3>5. rows[d][n] \in Seq(Saves) /\ n \in DOMAIN rows'[d] /\ rows'[d][n] \in Seq(Saves)
        BY <3>4 DEF Grown
      <3>6. e + 1 \in DOMAIN rows[d][n]
        BY <3>3, <3>5
      <3>7. e + 1 \in DOMAIN rows'[d][n] /\ rows'[d][n][e + 1] = t
        BY <3>3, <3>6 DEF Grown
      <3>8. Len(rows'[d][n]) > e
        BY <3>5, <3>7
      <3> QED BY <3>1, <3>2, <3>5, <3>7, <3>8
    <2> QED BY <2>1, <2>2
  <1> QED BY <1>1, <1>2, <1>3 DEF DraftInvariant

LEMMA ReadKeeps ==
  ASSUME DraftInvariant, NEW s \in Saves, NEW d \in SharedDrafts, NEW e \in Expectations, ReadDraft(s, d, e)
  PROVE  DraftInvariant'
  <1> DEFINE begun == [Unsaved EXCEPT !.draft = d, !.expected = e]
             Updating(n) == [begun EXCEPT !.step = "updating", !.row = n, !.target = Len(rows[d][n])]
             Stopped(step) == [begun EXCEPT !.step = step]
  <1>1. save[s].step = "new" /\ rows' = rows /\ rows \in [SharedDrafts -> Seq(Seq(Saves))]
    BY DEF ReadDraft, DraftInvariant
  <1>2. \/ \E n \in CurrentRows(d) :
              \/ e \in {None, Len(rows[d][n])} /\ save' = [save EXCEPT ![s] = Updating(n)]
              \/ save' = [save EXCEPT ![s] = Stopped("conflict")]
        \/ e \in {None, 0} /\ save' = [save EXCEPT ![s] = Stopped("inserting")]
        \/ save' = [save EXCEPT ![s] = Stopped("conflict")]
    BY DEF ReadDraft
  <1>3. \A n \in CurrentRows(d) :
          /\ Updating(n) \in SaveState /\ Updating(n).step = "updating" /\ Updating(n).draft = d
          /\ Updating(n).row = n /\ Updating(n).target = Len(rows[d][n]) /\ Updating(n).expected = e
          /\ n \in DOMAIN rows[d]
    <2> SUFFICES ASSUME NEW n \in CurrentRows(d)
                 PROVE  /\ Updating(n) \in SaveState /\ Updating(n).step = "updating" /\ Updating(n).draft = d
                        /\ Updating(n).row = n /\ Updating(n).target = Len(rows[d][n]) /\ Updating(n).expected = e
                        /\ n \in DOMAIN rows[d]
      OBVIOUS
    <2>1. n \in DOMAIN rows[d] /\ rows[d] \in Seq(Seq(Saves))
      BY <1>1 DEF CurrentRows
    <2>2. n \in Nat /\ Len(rows[d][n]) \in Nat
      BY <2>1
    <2> HIDE DEF CurrentRows
    <2> QED BY <2>1, <2>2 DEF SaveState, Unsaved
  <1>4. \A step \in {"conflict", "inserting"} :
          /\ Stopped(step) \in SaveState /\ Stopped(step).step = step /\ Stopped(step).draft = d
          /\ Stopped(step).expected = e
    BY DEF SaveState, Unsaved
  <1>5. rows' \in [SharedDrafts -> Seq(Seq(Saves))] /\ \A x \in SharedDrafts : Grown(x)
    BY <1>1 DEF Grown
  <1> HIDE DEF Updating, Stopped
  <1>6. PICK q \in SaveState :
           /\ save' = [save EXCEPT ![s] = q]
           /\ q.draft = d /\ q.expected = e /\ q.step \in {"updating", "inserting", "conflict"}
           /\ q.step = "updating" => q.row \in DOMAIN rows[d] /\ e \in {None, q.target}
           /\ q.step = "inserting" => e \in {None, 0}
    <2>1. ASSUME NEW n \in CurrentRows(d), e \in {None, Len(rows[d][n])},
                 save' = [save EXCEPT ![s] = Updating(n)]
          PROVE  \E q \in SaveState :
                   /\ save' = [save EXCEPT ![s] = q]
                   /\ q.draft = d /\ q.expected = e /\ q.step \in {"updating", "inserting", "conflict"}
                   /\ q.step = "updating" => q.row \in DOMAIN rows[d] /\ e \in {None, q.target}
                   /\ q.step = "inserting" => e \in {None, 0}
      <3>1. PICK q \in SaveState : q = Updating(n)
        BY <1>3
      <3> QED BY <1>3, <2>1, <3>1
    <2>2. ASSUME NEW step \in {"conflict", "inserting"}, step = "inserting" => e \in {None, 0},
                 save' = [save EXCEPT ![s] = Stopped(step)]
          PROVE  \E q \in SaveState :
                   /\ save' = [save EXCEPT ![s] = q]
                   /\ q.draft = d /\ q.expected = e /\ q.step \in {"updating", "inserting", "conflict"}
                   /\ q.step = "updating" => q.row \in DOMAIN rows[d] /\ e \in {None, q.target}
                   /\ q.step = "inserting" => e \in {None, 0}
      <3>1. PICK q \in SaveState : q = Stopped(step)
        BY <1>4
      <3> QED BY <1>4, <2>2, <3>1
    <2> QED BY <1>2, <2>1, <2>2
  <1> QED BY <1>1, <1>5, <1>6, SaveGoesOn

LEMMA UpdateKeeps ==
  ASSUME DraftInvariant, NEW s \in Saves, UpdateDraft(s)
  PROVE  DraftInvariant'
  <1> DEFINE old == save[s]
  <1>1. /\ old \in SaveState /\ old.step = "updating" /\ old.draft \in SharedDrafts
        /\ old.row \in DOMAIN rows[old.draft] /\ old.expected \in {None, old.target}
        /\ rows \in [SharedDrafts -> Seq(Seq(Saves))]
    BY DEF UpdateDraft, DraftInvariant
  <1>2. PICK d \in SharedDrafts, n \in DOMAIN rows[old.draft] : d = old.draft /\ n = old.row
    BY <1>1
  <1>3. rows[d] \in Seq(Seq(Saves)) /\ rows[d][n] \in Seq(Saves)
    BY <1>1, <1>2
  <1>4. ASSUME Len(rows[d][n]) = old.target,
               rows' = [rows EXCEPT ![d][n] = Append(@, s)], save' = [save EXCEPT ![s].step = "saved"]
        PROVE  DraftInvariant'
    <2> DEFINE q == [old EXCEPT !.step = "saved"]
               longer == Append(rows[d][n], s)
               contents == [rows[d] EXCEPT ![n] = longer]
    <2>1. /\ q \in SaveState /\ q.step = "saved" /\ q.draft = d /\ q.expected = old.expected
      BY <1>1, <1>2 DEF SaveState
    <2>2. save' = [save EXCEPT ![s] = q]
      BY <1>4
    <2>3. /\ longer \in Seq(Saves) /\ Len(longer) = Len(rows[d][n]) + 1
          /\ longer[Len(rows[d][n]) + 1] = s /\ Len(rows[d][n]) \in Nat
          /\ \A v \in DOMAIN rows[d][n] : v \in DOMAIN longer /\ longer[v] = rows[d][n][v]
      BY <1>3
    <2>4. rows' = [rows EXCEPT ![d] = contents]
      BY <1>4
    <2> HIDE DEF q, longer
    <2>5. /\ contents \in Seq(Seq(Saves)) /\ contents[n] = longer /\ DOMAIN contents = DOMAIN rows[d]
          /\ \A m \in DOMAIN rows[d] \ {n} : contents[m] = rows[d][m]
      <3>1. DOMAIN rows[d] = 1..Len(rows[d]) /\ Len(rows[d]) \in Nat
            /\ \A m \in DOMAIN rows[d] : rows[d][m] \in Seq(Saves)
        BY <1>3
      <3>2. contents \in Seq(Seq(Saves))
        BY <1>2, <1>3, <2>3, SequenceChanged
      <3> QED BY <1>2, <2>3, <3>1, <3>2
    <2> HIDE DEF contents
    <2>6. rows' \in [SharedDrafts -> Seq(Seq(Saves))] /\ rows'[d] = contents
          /\ \A x \in SharedDrafts \ {d} : rows'[x] = rows[x]
      BY <1>1, <2>4, <2>5
    <2>7. \A x \in SharedDrafts : Grown(x)
      <3>1. Grown(d)
        BY <2>3, <2>5, <2>6 DEF Grown
      <3>2. ASSUME NEW x \in SharedDrafts, x # d PROVE Grown(x)
        BY <2>6, <3>2 DEF Grown
      <3> QED BY <3>1, <3>2
    <2>8. q.expected # None =>
           \E m \in DOMAIN rows'[q.draft] :
             Len(rows'[q.draft][m]) > q.expected /\ rows'[q.draft][m][q.expected + 1] = s
      <3>1. q.expected # None => q.expected = Len(rows[d][n])
        BY <1>1, <1>4, <2>1
      <3>2. n \in DOMAIN rows'[d] /\ rows'[d][n] = longer
        BY <1>2, <2>5, <2>6
      <3>3. Len(longer) > Len(rows[d][n])
        BY <2>3
      <3> QED BY <2>1, <2>3, <3>1, <3>2, <3>3
    <2> QED BY <1>1, <2>1, <2>2, <2>6, <2>7, <2>8, SaveGoesOn
  <1>5. ASSUME save' = [save EXCEPT ![s].step = "conflict"], UNCHANGED rows
        PROVE  DraftInvariant'
    <2> DEFINE q == [old EXCEPT !.step = "conflict"]
    <2>1. q \in SaveState /\ q.step = "conflict"
      BY <1>1 DEF SaveState
    <2>2. save' = [save EXCEPT ![s] = q]
      BY <1>5
    <2> HIDE DEF q
    <2>3. rows' \in [SharedDrafts -> Seq(Seq(Saves))] /\ \A x \in SharedDrafts : Grown(x)
      BY <1>1, <1>5 DEF Grown
    <2> QED BY <1>1, <2>1, <2>2, <2>3, SaveGoesOn
  <1> QED BY <1>2, <1>4, <1>5 DEF UpdateDraft

LEMMA InsertKeeps ==
  ASSUME DraftInvariant, NEW s \in Saves, InsertDraft(s)
  PROVE  DraftInvariant'
  <1>1. /\ save[s] \in SaveState /\ save[s].step = "inserting" /\ save[s].draft \in SharedDrafts
        /\ save[s].expected \in {None, 0} /\ rows \in [SharedDrafts -> Seq(Seq(Saves))]
    BY DEF InsertDraft, DraftInvariant
  <1>2. PICK d \in SharedDrafts : d = save[s].draft
    BY <1>1
  <1> DEFINE q == [save[s] EXCEPT !.step = "saved"]
             contents == Append(rows[d], <<s>>)
  <1>3. q \in SaveState /\ q.step = "saved" /\ q.draft = d /\ q.expected \in {None, 0}
    BY <1>1, <1>2 DEF SaveState
  <1>4. save' = [save EXCEPT ![s] = q] /\ rows' = [rows EXCEPT ![d] = contents]
    BY <1>2 DEF InsertDraft
  <1> HIDE DEF q
  <1>5. /\ contents \in Seq(Seq(Saves)) /\ Len(contents) = Len(rows[d]) + 1
        /\ contents[Len(rows[d]) + 1] = <<s>> /\ Len(rows[d]) + 1 \in DOMAIN contents
        /\ \A m \in DOMAIN rows[d] : m \in DOMAIN contents /\ contents[m] = rows[d][m]
    <2>1. rows[d] \in Seq(Seq(Saves)) /\ <<s>> \in Seq(Saves)
      BY <1>1
    <2> QED BY <2>1
  <1> HIDE DEF contents
  <1>6. /\ rows' \in [SharedDrafts -> Seq(Seq(Saves))] /\ rows'[d] = contents
        /\ \A x \in SharedDrafts \ {d} : rows'[x] = rows[x]
    BY <1>1, <1>4, <1>5
  <1>7. \A x \in SharedDrafts : Grown(x)
    <2>1. Grown(d)
      BY <1>5, <1>6 DEF Grown
    <2>2. ASSUME NEW x \in SharedDrafts, x # d PROVE Grown(x)
      BY <1>6, <2>2 DEF Grown
    <2> QED BY <2>1, <2>2
  <1>8. q.expected # None =>
         \E m \in DOMAIN rows'[q.draft] :
           Len(rows'[q.draft][m]) > q.expected /\ rows'[q.draft][m][q.expected + 1] = s
    <2> DEFINE m == Len(rows[d]) + 1
    <2>1. m \in DOMAIN rows'[d] /\ rows'[d][m] = <<s>>
      BY <1>5, <1>6
    <2>2. Len(<<s>>) > 0 /\ <<s>>[0 + 1] = s
      OBVIOUS
    <2> HIDE DEF m
    <2> QED BY <1>3, <2>1, <2>2
  <1> QED BY <1>1, <1>3, <1>4, <1>6, <1>7, <1>8, SaveGoesOn

LEMMA SaveUnavailableKeeps ==
  ASSUME DraftInvariant, NEW s \in Saves, SaveUnavailable(s)
  PROVE  DraftInvariant'
  <1> DEFINE q == [save[s] EXCEPT !.step = "unavailable"]
  <1>1. q \in SaveState /\ q.step = "unavailable"
    BY DEF DraftInvariant, SaveState
  <1>2. save' = [save EXCEPT ![s] = q] /\ save[s].step # "saved" /\ rows' = rows
    BY DEF SaveUnavailable
  <1> HIDE DEF q
  <1>3. rows' \in [SharedDrafts -> Seq(Seq(Saves))] /\ \A x \in SharedDrafts : Grown(x)
    BY <1>2 DEF DraftInvariant, Grown
  <1> QED BY <1>1, <1>2, <1>3, SaveGoesOn

-----------------------------------------------------------------------------
(* The pool. *)

UnitsOf == [op \in Operations |-> Units[op.payload]]

\* The sum that queryAvailability forms, as a sum over a function.
LEMMA TakenSum ==
  ASSUME NEW S \in SUBSET Operations
  PROVE  MapThenSumSet(LAMBDA op : Units[op.payload], S) = SumOver(UnitsOf, S)
  <1> DEFINE A(it) == it = [s \in SUBSET S |-> IF s = {} THEN 0 ELSE Units[Chosen(s).payload] + it[s \ {Chosen(s)}]]
             B(it) == IsSum(it, UnitsOf, S)
  <1>1. \A s \in SUBSET S : s # {} => UnitsOf[Chosen(s)] = Units[Chosen(s).payload]
    BY DEF UnitsOf, Chosen
  <1>2. ASSUME NEW it PROVE A(it) <=> B(it)
    BY <1>1 DEF IsSum
  <1>3. (CHOOSE it : A(it)) = CHOOSE it : B(it)
    <2> HIDE DEF A, B
    <2> QED BY <1>2
  <1>4. MapThenSumSet(LAMBDA op : Units[op.payload], S) = (CHOOSE it : A(it))[S]
    BY DEF MapThenSumSet, MapThenFoldSet, Chosen
  <1>5. SumOver(UnitsOf, S) = (CHOOSE it : B(it))[S]
    BY DEF SumOver, MapThenSumSet, MapThenFoldSet, IsSum, Chosen
  <1> QED BY <1>3, <1>4, <1>5

\* Finitely many operations are booked, and the firm ones fit the pool.
PoolInvariant ==
  \A i \in Instances : IsFiniteSet(booked[i]) /\ SumOver(UnitsOf, FirmBookings(i)) <= Capacity

\* What is available is the rest of the pool.
LEMMA AvailableIsTheRest ==
  ASSUME BookingsTyped, PoolInvariant, NEW i \in Instances
  PROVE  /\ SumOver(UnitsOf, FirmBookings(i)) \in Nat
         /\ Available(i) = Capacity - SumOver(UnitsOf, FirmBookings(i))
  <1>1. FirmBookings(i) \in SUBSET Operations /\ IsFiniteSet(FirmBookings(i))
    <2>1. FirmBookings(i) \subseteq booked[i] /\ booked[i] \subseteq Operations
      BY DEF FirmBookings, BookingsTyped
    <2> QED BY <2>1, FS_Subset DEF PoolInvariant
  <1>2. \A op \in FirmBookings(i) : UnitsOf[op] \in Nat
    BY <1>1, IntegrationAssumption DEF UnitsOf, Operations
  <1>3. SumOver(UnitsOf, FirmBookings(i)) \in Nat
    BY <1>1, <1>2, SumGrows
  <1>4. MapThenSumSet(LAMBDA op : Units[op.payload], FirmBookings(i)) = SumOver(UnitsOf, FirmBookings(i))
    BY <1>1, TakenSum
  <1>5. SumOver(UnitsOf, FirmBookings(i)) <= Capacity
    BY DEF PoolInvariant
  <1>6. Available(i) = IF SumOver(UnitsOf, FirmBookings(i)) > Capacity
                       THEN 0 ELSE Capacity - SumOver(UnitsOf, FirmBookings(i))
    BY <1>4 DEF Available
  <1>7. ~(SumOver(UnitsOf, FirmBookings(i)) > Capacity)
    BY <1>3, <1>5, IntegrationAssumption
  <1> QED BY <1>3, <1>6, <1>7

\* A process that books nothing, books one operation for which there is room, or
\* forgets everything, does not overdraw the pool.
LEMMA BookKeepsPool ==
  ASSUME BookingsTyped, PoolInvariant, NEW r \in Requests, BookReservation(r)
  PROVE  PoolInvariant'
  <1>1. PICK i \in Instances : i = request[r].at
    BY DEF BookReservation, BookingsTyped
  <1>2. PICK p \in Payloads : p = request[r].payload
    BY DEF BookReservation, BookingsTyped
  <1>3. request[r].key \in Keys
    BY DEF BookReservation, BookingsTyped
  <1>4. PICK state : state = IF Available(i) < Units[p] THEN "rejected" ELSE "confirmed"
    OBVIOUS
  <1>5. PICK new : new = [id |-> r, key |-> request[r].key, payload |-> p, state |-> state]
    OBVIOUS
  <1>6. new \in Operations /\ new.payload = p /\ new.state = state
    BY <1>2, <1>3, <1>4, <1>5 DEF Operations
  <1>7. booked' = booked \/ booked' = [booked EXCEPT ![i] = @ \cup {new}]
    BY <1>1, <1>2, <1>4, <1>5 DEF BookReservation
  <1>8. CASE booked' = booked
    BY <1>8 DEF PoolInvariant, FirmBookings
  <1>9. CASE booked' = [booked EXCEPT ![i] = @ \cup {new}]
    <2>1. /\ booked'[i] = booked[i] \cup {new} /\ IsFiniteSet(booked[i]) /\ booked[i] \subseteq Operations
          /\ \A j \in Instances \ {i} : booked'[j] = booked[j]
      BY <1>9 DEF BookingsTyped, PoolInvariant
    <2>2. IsFiniteSet(booked'[i])
      BY <2>1, FS_AddElement
    <2>3. PICK mine : mine = FirmBookings(i)
      OBVIOUS
    <2>4. mine \subseteq Operations /\ IsFiniteSet(mine) /\ SumOver(UnitsOf, mine) <= Capacity
          /\ SumOver(UnitsOf, mine) \in Nat /\ Available(i) = Capacity - SumOver(UnitsOf, mine)
      <3>1. mine \subseteq booked[i]
        BY <2>3 DEF FirmBookings
      <3> QED BY <2>1, <2>3, <3>1, FS_Subset, AvailableIsTheRest DEF PoolInvariant
    <2>5. FirmBookings(i)' = mine \/ (FirmBookings(i)' = mine \cup {new} /\ new.state = "confirmed")
      BY <2>1, <2>3 DEF FirmBookings
    <2>6. CASE FirmBookings(i)' = mine \/ new \in mine
      <3>1. FirmBookings(i)' = mine
        BY <2>5, <2>6
      <3> QED BY <2>1, <2>2, <2>4, <3>1 DEF PoolInvariant, FirmBookings
    <2>7. CASE FirmBookings(i)' = mine \cup {new} /\ new.state = "confirmed" /\ new \notin mine
      <3>1. Units[p] <= Capacity - SumOver(UnitsOf, mine) /\ Units[p] \in Nat
        <4>1. ~(Available(i) < Units[p])
          BY <1>4, <1>6, <2>7
        <4>2. Units[p] \in Nat /\ Capacity \in Nat
          BY IntegrationAssumption
        <4> QED BY <2>4, <4>1, <4>2
      <3>2. PICK more : more = mine \cup {new}
        OBVIOUS
      <3>3. IsFiniteSet(more) /\ new \in more /\ more \ {new} = mine /\ more \subseteq Operations
        BY <1>6, <2>4, <2>7, <3>2, FS_AddElement
      <3>4. \A op \in more : UnitsOf[op] \in Int
        BY <3>3, IntegrationAssumption DEF UnitsOf, Operations
      <3>5. SumOver(UnitsOf, more) = UnitsOf[new] + SumOver(UnitsOf, mine)
        BY <3>3, <3>4, SumOfOneMore
      <3>6. UnitsOf[new] = Units[p]
        BY <1>6 DEF UnitsOf
      <3>7. SumOver(UnitsOf, more) <= Capacity
        <4>1. Capacity \in Nat
          BY IntegrationAssumption
        <4> QED BY <2>4, <3>1, <3>5, <3>6, <4>1
      <3>8. UNCHANGED UnitsOf
        BY DEF UnitsOf
      <3>9. SumOver(UnitsOf, FirmBookings(i)') <= Capacity
        BY <2>7, <3>2, <3>7
      <3>10. \A j \in Instances \ {i} : FirmBookings(j)' = FirmBookings(j)
        BY <2>1 DEF FirmBookings
      <3> QED BY <2>1, <2>2, <3>9, <3>10 DEF PoolInvariant
    <2> QED BY <2>5, <2>6, <2>7
  <1> QED BY <1>7, <1>8, <1>9

LEMMA RestartKeepsPool ==
  ASSUME BookingsTyped, PoolInvariant, NEW i \in Instances, Restart(i)
  PROVE  PoolInvariant'
  <1>1. booked'[i] = {} /\ \A j \in Instances \ {i} : booked'[j] = booked[j]
    BY DEF Restart, BookingsTyped
  <1>2. FirmBookings(i)' = {} /\ \A j \in Instances \ {i} : FirmBookings(j)' = FirmBookings(j)
    BY <1>1 DEF FirmBookings
  <1>3. SumOver(UnitsOf, {}) = 0 /\ IsFiniteSet({})
    BY FS_EmptySet, SumUnfolds
  <1>4. 0 <= Capacity
    BY IntegrationAssumption
  <1> QED BY <1>1, <1>2, <1>3, <1>4 DEF PoolInvariant

-----------------------------------------------------------------------------
IntegrationInvariant == BookingInvariant /\ PoolInvariant /\ DraftInvariant

LEMMA IntegrationStarts == IntegrationInit => IntegrationInvariant
  <1> SUFFICES ASSUME IntegrationInit PROVE IntegrationInvariant
    OBVIOUS
  <1>1. Idle \in Progress /\ Idle.step = "new" /\ ~Idle.late /\ Idle.told = None
    BY DEF Idle, Progress
  <1>2. /\ operation = [k \in Keys |-> None] /\ booked = [i \in Instances |-> {}]
        /\ request = [r \in Requests |-> Idle] /\ rows = [d \in SharedDrafts |-> <<>>]
        /\ save = [s \in Saves |-> Unsaved]
    BY DEF IntegrationInit
  <1>3. BookingInvariant
    BY <1>1, <1>2, IntegrationAssumption DEF BookingInvariant, BookingsTyped, Acknowledgements, Answers
  <1>4. Unsaved \in SaveState /\ Unsaved.step = "new"
    BY DEF Unsaved, SaveState, Expectations
  <1>5. <<>> \in Seq(Seq(Saves))
    OBVIOUS
  <1>6. DraftInvariant
    BY <1>2, <1>4, <1>5 DEF DraftInvariant, StatedVersionSeen
  <1>7. PoolInvariant
    <2>1. \A i \in Instances : booked[i] = {} /\ FirmBookings(i) = {}
      BY <1>2 DEF FirmBookings
    <2>2. SumOver(UnitsOf, {}) = 0 /\ IsFiniteSet({})
      BY FS_EmptySet, SumUnfolds
    <2>3. 0 <= Capacity
      BY IntegrationAssumption
    <2> QED BY <2>1, <2>2, <2>3 DEF PoolInvariant
  <1> QED BY <1>3, <1>6, <1>7 DEF IntegrationInvariant

LEMMA IntegrationStep ==
  ASSUME IntegrationInvariant, [IntegrationNext]_integrationVars
  PROVE  IntegrationInvariant'
  <1>1. UNCHANGED bookingVars => BookingInvariant'
    <2> SUFFICES ASSUME UNCHANGED bookingVars PROVE BookingInvariant'
      OBVIOUS
    <2>1. UNCHANGED <<operation, booked, request>>
      BY DEF bookingVars
    <2> QED BY <2>1 DEF IntegrationInvariant, BookingInvariant, BookingsTyped, Acknowledgements
  <1>2. UNCHANGED draftVars => DraftInvariant'
    <2> SUFFICES ASSUME UNCHANGED draftVars PROVE DraftInvariant'
      OBVIOUS
    <2>1. UNCHANGED <<rows, save>>
      BY DEF draftVars
    <2> QED BY <2>1 DEF IntegrationInvariant, DraftInvariant, StatedVersionSeen
  <1>0. ASSUME UNCHANGED booked PROVE PoolInvariant'
    BY <1>0 DEF IntegrationInvariant, PoolInvariant, FirmBookings
  <1>3. ASSUME NEW r \in Requests, NEW i \in Instances, NEW k \in Keys, NEW p \in Payloads,
               LookUpReservation(r, i, k, p)
        PROVE  BookingInvariant' /\ PoolInvariant' /\ UNCHANGED draftVars
    <2>1. UNCHANGED booked /\ UNCHANGED draftVars
      BY <1>3 DEF LookUpReservation
    <2>2. BookingInvariant'
      BY <1>3, LookUpKeeps DEF IntegrationInvariant
    <2> QED BY <1>0, <2>1, <2>2
  <1>4. ASSUME NEW r \in Requests,
               BookReservation(r) \/ PersistReservation(r) \/ DatastoreUnavailable(r)
        PROVE  BookingInvariant' /\ PoolInvariant' /\ UNCHANGED draftVars
    <2>1. UNCHANGED draftVars
      BY <1>4 DEF BookReservation, PersistReservation, DatastoreUnavailable
    <2>2. BookingInvariant'
      BY <1>4, BookKeeps, PersistKeeps, UnavailableKeeps DEF IntegrationInvariant
    <2>3. CASE BookReservation(r)
      BY <2>1, <2>2, <2>3, BookKeepsPool DEF IntegrationInvariant, BookingInvariant
    <2>4. CASE PersistReservation(r) \/ DatastoreUnavailable(r)
      <3>1. UNCHANGED booked
        BY <2>4 DEF PersistReservation, DatastoreUnavailable
      <3> QED BY <1>0, <2>1, <2>2, <3>1
    <2> QED BY <1>4, <2>3, <2>4
  <1>5. ASSUME NEW i \in Instances, Restart(i)
        PROVE  BookingInvariant' /\ PoolInvariant' /\ UNCHANGED draftVars
    <2>1. UNCHANGED draftVars
      BY <1>5 DEF Restart
    <2> QED BY <1>5, <2>1, RestartKeeps, RestartKeepsPool DEF IntegrationInvariant, BookingInvariant
  <1>6. ASSUME NEW s \in Saves, NEW d \in SharedDrafts, NEW e \in Expectations, ReadDraft(s, d, e)
        PROVE  DraftInvariant' /\ UNCHANGED bookingVars
    BY <1>6, ReadKeeps DEF IntegrationInvariant, ReadDraft
  <1>7. ASSUME NEW s \in Saves, UpdateDraft(s) \/ InsertDraft(s) \/ SaveUnavailable(s)
        PROVE  DraftInvariant' /\ UNCHANGED bookingVars
    <2>1. UNCHANGED bookingVars
      BY <1>7 DEF UpdateDraft, InsertDraft, SaveUnavailable
    <2> QED BY <1>7, <2>1, UpdateKeeps, InsertKeeps, SaveUnavailableKeeps DEF IntegrationInvariant
  <1>8. \/ UNCHANGED integrationVars
        \/ BookingInvariant' /\ PoolInvariant' /\ UNCHANGED draftVars
        \/ DraftInvariant' /\ UNCHANGED bookingVars
    BY <1>3, <1>4, <1>5, <1>6, <1>7 DEF IntegrationNext
  <1>9. UNCHANGED integrationVars => UNCHANGED bookingVars /\ UNCHANGED draftVars
    BY DEF integrationVars
  <1>10. UNCHANGED bookingVars => PoolInvariant'
    BY <1>0 DEF bookingVars
  <1> QED BY <1>1, <1>2, <1>8, <1>9, <1>10 DEF IntegrationInvariant

\* What is recorded under a key, booked and answered is an operation of that key.
THEOREM IntegrationTyped == IntegrationSpec => []IntegrationTypeOK
  <1>1. IntegrationInvariant => IntegrationTypeOK
    BY DEF IntegrationInvariant, BookingInvariant, BookingsTyped, Progress, DraftInvariant, IntegrationTypeOK
  <1> QED BY <1>1, IntegrationStarts, IntegrationStep, PTL DEF IntegrationSpec

\* What was acknowledged stands: a late retry repeats it, whichever process it
\* reaches, a save that states a version follows the contents it has seen, and no
\* process promises more units firmly than its pool has.
THEOREM AcknowledgedStands == IntegrationSpec => []AcknowledgedKept
  <1>1. IntegrationInvariant => LateRetriesRepeat /\ StatedVersionSeen
    BY DEF IntegrationInvariant, BookingInvariant, Acknowledgements, DraftInvariant, LateRetriesRepeat
  <1>2. IntegrationInvariant => PoolNotOverdrawn
    <2> SUFFICES ASSUME IntegrationInvariant, NEW i \in Instances
                 PROVE  MapThenSumSet(LAMBDA op : Units[op.payload], FirmBookings(i)) <= Capacity
      BY DEF PoolNotOverdrawn
    <2>1. FirmBookings(i) \in SUBSET Operations
      BY DEF IntegrationInvariant, BookingInvariant, BookingsTyped, FirmBookings
    <2>2. MapThenSumSet(LAMBDA op : Units[op.payload], FirmBookings(i)) = SumOver(UnitsOf, FirmBookings(i))
      BY <2>1, TakenSum
    <2>3. SumOver(UnitsOf, FirmBookings(i)) <= Capacity
      BY DEF IntegrationInvariant, PoolInvariant
    <2> QED BY <2>2, <2>3
  <1>3. IntegrationInvariant => AcknowledgedKept
    BY <1>1, <1>2 DEF AcknowledgedKept
  <1> QED BY <1>3, IntegrationStarts, IntegrationStep, PTL DEF IntegrationSpec

-----------------------------------------------------------------------------
(*****************************************************************************)
(* Purchasing.                                                               *)
(*****************************************************************************)

(* Receipts. *)

\* What a receipt can make of the lines of an order: nothing less than before and
\* nothing beyond what was ordered.
Tallies(before) ==
  {lines \in [Lines -> Nat] : \A l \in Lines : before[l] <= lines[l] /\ lines[l] <= Ordered[l]}

CountRow(before) == [all: BOOLEAN, lines: Tallies(before)]

LEMMA CountKeeps ==
  ASSUME NEW before \in [Lines -> Nat], NEW done \in CountRow(before), NEW entry \in [line: Lines, quantity: Nat]
  PROVE  Count(done, entry) \in CountRow(before)
  <1>1. done.lines \in [Lines -> Nat] /\ done.lines \in Tallies(before) /\ entry.line \in Lines /\ entry.quantity \in Nat
    BY DEF CountRow, Tallies
  <1> DEFINE more == [done.lines EXCEPT ![entry.line] = @ + entry.quantity]
  <1>2. CASE done.all /\ done.lines[entry.line] + entry.quantity <= Ordered[entry.line]
    <2>1. more \in Tallies(before)
      <3>1. /\ more \in [Lines -> Nat] /\ more[entry.line] = done.lines[entry.line] + entry.quantity
            /\ \A l \in Lines \ {entry.line} : more[l] = done.lines[l]
        BY <1>1
      <3>2. \A l \in Lines : before[l] \in Nat /\ Ordered[l] \in Nat /\ done.lines[l] \in Nat
        BY <1>1, PurchasingAssumption
      <3>3. \A l \in Lines : before[l] <= done.lines[l] /\ done.lines[l] <= Ordered[l]
        BY <1>1 DEF Tallies
      <3>4. ASSUME NEW l \in Lines PROVE before[l] <= more[l] /\ more[l] <= Ordered[l]
        <4> HIDE DEF more
        <4>1. CASE l = entry.line
          BY <1>1, <1>2, <3>1, <3>2, <3>3, <4>1
        <4>2. CASE l # entry.line
          BY <3>1, <3>3, <4>2
        <4> QED BY <4>1, <4>2
      <3> QED BY <3>1, <3>4 DEF Tallies
    <2>2. Count(done, entry) = [done EXCEPT !.lines = more]
      BY <1>1, <1>2 DEF Count
    <2> HIDE DEF more
    <2> QED BY <2>1, <2>2 DEF CountRow
  <1>3. CASE ~(done.all /\ done.lines[entry.line] + entry.quantity <= Ordered[entry.line])
    <2>1. Count(done, entry) = [done EXCEPT !.all = FALSE]
      BY <1>3 DEF Count
    <2> QED BY <2>1 DEF CountRow
  <1> QED BY <1>2, <1>3

LEMMA GreatestFound ==
  ASSUME NEW n \in Nat, NEW S \in SUBSET (1..n), S # {}
  PROVE  Max(S) \in S
  <1> DEFINE T == {m \in 0..n : n - m \in S}
  <1>1. T \in SUBSET Nat /\ T # {}
    <2>1. PICK x \in S : TRUE
      OBVIOUS
    <2>2. x \in 1..n
      OBVIOUS
    <2>3. n - x \in 0..n /\ n - (n - x) = x
      BY <2>2
    <2>4. n - x \in T
      BY <2>3
    <2>5. \A m \in T : m \in Nat
      OBVIOUS
    <2> HIDE DEF T
    <2> QED BY <2>4, <2>5
  <1>2. PICK m \in T : \A k \in T : m <= k
    <2> HIDE DEF T
    <2> QED BY <1>1, SmallestNat
  <1>3. \A y \in S : n - m >= y
    <2> SUFFICES ASSUME NEW y \in S PROVE n - m >= y
      OBVIOUS
    <2>1. n - y \in T
      OBVIOUS
    <2>2. m <= n - y /\ m \in Nat /\ y \in Nat
      BY <1>2, <2>1
    <2> QED BY <2>2
  <1>4. n - m \in S
    BY <1>2
  <1> QED BY <1>3, <1>4 DEF Max

Counted(start, entries) == FoldLeft(Count, start, entries)

LEMMA ReceiptCounts ==
  ASSUME NEW before \in [Lines -> Nat], NEW start \in CountRow(before), NEW items \in Deliveries
  PROVE  Counted(start, items) \in CountRow(before)
  <1>0. items \in Seq([line: Lines, quantity: Nat])
    BY PurchasingAssumption
  <1>1. PICK n \in Nat : n = Len(items) /\ DOMAIN items = 1..n
    BY <1>0
  <1>2. \A i \in 1..n : items[i] \in [line: Lines, quantity: Nat]
    <2> DEFINE Row == [line: Lines, quantity: Nat]
    <2>1. items \in Seq(Row)
      BY <1>0
    <2> HIDE DEF Row
    <2>2. \A i \in 1..n : items[i] \in Row
      BY <1>1, <2>1
    <2> QED BY <2>2 DEF Row
  <1> DEFINE S == 1..n
             D == CountRow(before)
             pick == [s \in (SUBSET S) \ {{}} |-> Max(s)]
             h == [p \in S \X D |-> Count(p[2], items[p[1]])]
             Fold(it) == it = [s \in SUBSET S |-> IF s = {} THEN start ELSE Count(it[s \ {Max(s)}], items[Max(s)])]
  <1>3. IsFiniteSet(S)
    <2>1. 1 \in Int /\ n \in Int
      OBVIOUS
    <2> QED BY <2>1, FS_Interval
  <1>4. \A s \in (SUBSET S) \ {{}} : Max(s) \in s
    BY GreatestFound
  <1>5. pick \in [(SUBSET S) \ {{}} -> S] /\ \A s \in (SUBSET S) \ {{}} : pick[s] \in s /\ pick[s] = Max(s)
    BY <1>4
  <1>6. \A i \in S, d \in D : Count(d, items[i]) \in D
    BY <1>2, CountKeeps
  <1>7. \A i \in S, d \in D : h[<<i, d>>] = Count(d, items[i])
    OBVIOUS
  <1> HIDE DEF S, D, pick, h
  <1>8. PICK it : IsFold(it, S, pick, start, h)
    BY <1>3, <1>5, FoldExists
  <1>9. \A s \in SUBSET S : it[s] \in D
    <2> DEFINE F == {s \in SUBSET S : it[s] \notin D}
    <2> SUFFICES ASSUME F # {} PROVE FALSE
      OBVIOUS
    <2>1. \A s \in F : IsFiniteSet(s)
      BY <1>3, FS_Subset
    <2>2. PICK s \in F : \A u \in F : u \subseteq s => u = s
      <3> HIDE DEF F
      <3> QED BY <2>1, SmallestSet
    <2>3. s # {}
      BY <1>8, <2>2 DEF IsFold, D
    <2>4. pick[s] \in s /\ it[s] = h[<<pick[s], it[s \ {pick[s]}]>>]
      BY <1>5, <1>8, <2>3 DEF IsFold
    <2>5. it[s \ {pick[s]}] \in D
      BY <2>2, <2>4
    <2>6. pick[s] \in S
      BY <1>5, <2>3
    <2> QED BY <1>6, <1>7, <2>2, <2>4, <2>5, <2>6
  <1>10. Fold(it)
    <2>1. \A s \in (SUBSET S) \ {{}} : it[s] = Count(it[s \ {Max(s)}], items[Max(s)])
      <3> SUFFICES ASSUME NEW s \in (SUBSET S) \ {{}} PROVE it[s] = Count(it[s \ {Max(s)}], items[Max(s)])
        OBVIOUS
      <3>1. pick[s] = Max(s) /\ Max(s) \in S /\ it[s \ {Max(s)}] \in D
        BY <1>5, <1>9
      <3>2. it[s] = h[<<pick[s], it[s \ {pick[s]}]>>]
        BY <1>8 DEF IsFold
      <3> QED BY <1>7, <3>1, <3>2
    <2>2. it = [s \in SUBSET S |-> it[s]] /\ it[{}] = start
      BY <1>8 DEF IsFold
    <2> QED BY <2>1, <2>2
  <1> DEFINE f == CHOOSE g : Fold(g)
  <1>11. Fold(f)
    <2> HIDE DEF Fold
    <2> QED BY <1>10
  <1> HIDE DEF f
  <1>12. \A s \in SUBSET S : f[s] \in D
    <2> DEFINE F == {s \in SUBSET S : f[s] \notin D}
    <2> SUFFICES ASSUME F # {} PROVE FALSE
      OBVIOUS
    <2>1. \A s \in F : IsFiniteSet(s)
      BY <1>3, FS_Subset
    <2>2. PICK s \in F : \A u \in F : u \subseteq s => u = s
      <3> HIDE DEF F
      <3> QED BY <2>1, SmallestSet
    <2>3. s # {}
      BY <1>11, <2>2 DEF D
    <2>4. Max(s) \in s /\ Max(s) \in S
      BY <1>4, <2>2, <2>3 DEF S
    <2>5. f[s] = Count(f[s \ {Max(s)}], items[Max(s)])
      BY <1>11, <2>3
    <2>6. f[s \ {Max(s)}] \in D
      BY <2>2, <2>4
    <2> QED BY <1>6, <2>2, <2>4, <2>5, <2>6
  <1>13. Counted(start, items) = f[S]
    BY <1>1 DEF Counted, FoldLeft, MapThenFoldSet, f, S
  <1> QED BY <1>12, <1>13 DEF D

-----------------------------------------------------------------------------
(* Contracts and orders. *)

AmountOf(orders) == [o \in Orders |-> orders[o].amount]

LEMMA OrderSum ==
  ASSUME NEW S \in SUBSET Orders
  PROVE  (LET Amount(o) == order[o].amount IN MapThenSumSet(Amount, S)) = SumOver(AmountOf(order), S)
  <1> DEFINE A(it) == it = [s \in SUBSET S |-> IF s = {} THEN 0 ELSE order[Chosen(s)].amount + it[s \ {Chosen(s)}]]
             B(it) == IsSum(it, AmountOf(order), S)
  <1>1. \A s \in SUBSET S : s # {} => AmountOf(order)[Chosen(s)] = order[Chosen(s)].amount
    BY DEF AmountOf, Chosen
  <1>2. ASSUME NEW it PROVE A(it) <=> B(it)
    BY <1>1 DEF IsSum
  <1>3. (CHOOSE it : A(it)) = CHOOSE it : B(it)
    <2> HIDE DEF A, B
    <2> QED BY <1>2
  <1>4. (LET Amount(o) == order[o].amount IN MapThenSumSet(Amount, S)) = (CHOOSE it : A(it))[S]
    BY DEF MapThenSumSet, MapThenFoldSet, Chosen
  <1>5. SumOver(AmountOf(order), S) = (CHOOSE it : B(it))[S]
    BY DEF SumOver, MapThenSumSet, MapThenFoldSet, IsSum, Chosen
  <1> QED BY <1>3, <1>4, <1>5 DEF MapThenSumSet, MapThenFoldSet

\* What is true of an order by itself.  One that may be released was sent no more
\* often than a reconciliation found that it had not arrived.
OrderKept(row) ==
  /\ row.sent <= row.cleared + 1
  /\ row.status = "approved" => row.sent <= row.cleared
  /\ \A l \in Lines : row.received[l] <= Ordered[l]
  /\ row.status = "fully_received" => row.received = Ordered

Placed == {o \in Orders : order[o] # None}

AccountOf(c) ==
  /\ consumed[c] = 0 \/ consumed[c] <= Ceiling[c]
  /\ c \notin lost => consumed[c] = SumOver(AmountOf(order), CallOffs(c))

OrderInvariant ==
  /\ order \in [Orders -> {None} \cup OrderRow]
  /\ consumed \in [Contracts -> {None} \cup Int]
  /\ lost \subseteq Contracts
  /\ IsFiniteSet(Placed)
  /\ \A o \in Placed : /\ OrderKept(order[o])
                       /\ order[o].contract # None => consumed[order[o].contract] # None
  /\ \A c \in Contracts : consumed[c] # None => AccountOf(c)

LEMMA OrdersRead ==
  ASSUME OrderInvariant
  PROVE  /\ \A o \in Placed : /\ order[o] \in OrderRow /\ order[o].amount \in Int /\ order[o].contract \in Contracts \cup {None}
                              /\ order[o].sent \in Nat /\ order[o].cleared \in Nat /\ order[o].received \in [Lines -> Nat]
                              /\ order[o].status \in OrderStatuses /\ order[o].key \in ReleaseKeys \cup {None}
         /\ \A c \in Contracts : /\ IsFiniteSet(CallOffs(c)) /\ CallOffs(c) \in SUBSET Orders
                                 /\ \A o \in CallOffs(c) : AmountOf(order)[o] \in Int
  <1>1. \A o \in Placed : order[o] \in OrderRow
    BY DEF OrderInvariant, Placed
  <1>2. \A o \in Placed : /\ order[o].amount \in Int /\ order[o].contract \in Contracts \cup {None}
                          /\ order[o].sent \in Nat /\ order[o].cleared \in Nat /\ order[o].received \in [Lines -> Nat]
                          /\ order[o].status \in OrderStatuses /\ order[o].key \in ReleaseKeys \cup {None}
    BY <1>1 DEF OrderRow
  <1>3. ASSUME NEW c \in Contracts
        PROVE  /\ IsFiniteSet(CallOffs(c)) /\ CallOffs(c) \in SUBSET Orders
               /\ \A o \in CallOffs(c) : AmountOf(order)[o] \in Int
    <2>1. CallOffs(c) \in SUBSET Placed
      BY DEF CallOffs, Placed
    <2>2. IsFiniteSet(CallOffs(c))
      BY <2>1, FS_Subset DEF OrderInvariant
    <2> QED BY <1>2, <2>1, <2>2 DEF AmountOf, Placed
  <1> QED BY <1>1, <1>2, <1>3

\* An order goes on, with the contract and the amount it was made with.
LEMMA OrderGoesOn ==
  ASSUME OrderInvariant, NEW o \in Placed, NEW row \in OrderRow, order' = [order EXCEPT ![o] = row],
         row.amount = order[o].amount, row.contract = order[o].contract, OrderKept(row),
         consumed' = consumed, lost' = lost
  PROVE  OrderInvariant'
  <1>1. row # None /\ o \in Orders /\ order[o] # None
    BY PurchasingAssumption DEF Placed
  <1>2. /\ order' \in [Orders -> {None} \cup OrderRow] /\ order'[o] = row
        /\ \A p \in Orders \ {o} : order'[p] = order[p]
    BY <1>1 DEF OrderInvariant
  <1>3. Placed' = Placed
    BY <1>1, <1>2 DEF Placed
  <1>4. \A c : CallOffs(c)' = CallOffs(c)
    BY <1>1, <1>2 DEF CallOffs
  <1>5. AmountOf(order') = AmountOf(order)
    <2>1. \A p \in Orders : order'[p].amount = order[p].amount
      BY <1>1, <1>2
    <2> QED BY <2>1 DEF AmountOf
  <1>6. \A p \in Placed : OrderKept(order'[p]) /\ (order'[p].contract # None => consumed[order'[p].contract] # None)
    BY <1>1, <1>2 DEF OrderInvariant, Placed
  <1>7. \A c \in Contracts : consumed[c] # None => AccountOf(c)'
    BY <1>4, <1>5 DEF OrderInvariant, AccountOf
  <1> QED BY <1>2, <1>3, <1>6, <1>7 DEF OrderInvariant

LEMMA CreateContractKeeps ==
  ASSUME OrderInvariant, NEW c \in Contracts, CreateFrameworkContract(c)
  PROVE  OrderInvariant'
  <1>1. consumed[c] = None /\ consumed' = [consumed EXCEPT ![c] = 0] /\ order' = order /\ lost' = lost
    BY DEF CreateFrameworkContract
  <1>2. /\ consumed' \in [Contracts -> {None} \cup Int] /\ consumed'[c] = 0
        /\ \A d \in Contracts \ {c} : consumed'[d] = consumed[d]
    BY <1>1 DEF OrderInvariant
  <1>3. 0 # None
    BY PurchasingAssumption
  <1>4. CallOffs(c) = {}
    BY <1>1, <1>3, PurchasingAssumption DEF OrderInvariant, CallOffs, Placed
  <1>5. SumOver(AmountOf(order), {}) = 0
    <2>1. IsFiniteSet({}) /\ \A x \in {} : AmountOf(order)[x] \in Int
      BY FS_EmptySet
    <2> QED BY <2>1, SumUnfolds
  <1>6. \A d : CallOffs(d)' = CallOffs(d) /\ Placed' = Placed
    BY <1>1 DEF CallOffs, Placed
  <1>7. ASSUME NEW d \in Contracts, consumed'[d] # None PROVE AccountOf(d)'
    <2>1. CASE d = c
      BY <1>1, <1>2, <1>4, <1>5, <1>6, <2>1 DEF AccountOf
    <2>2. CASE d # c
      BY <1>1, <1>2, <1>6, <1>7, <2>2 DEF AccountOf, OrderInvariant
    <2> QED BY <2>1, <2>2
  <1>8. \A o \in Placed : order[o].contract # None => consumed'[order[o].contract] # None
    BY <1>2, <1>3, OrdersRead DEF OrderInvariant
  <1> QED BY <1>1, <1>2, <1>6, <1>7, <1>8 DEF OrderInvariant

\* A contract is charged within its ceiling, and no other one is.
LEMMA ChargeKeeps ==
  ASSUME OrderInvariant, NEW c \in Contracts, NEW amount \in Amounts, Orderable(c, amount), consumed' = Charged(c, amount)
  PROVE  /\ consumed[c] \in Int /\ consumed[c] # None /\ amount \in Int /\ c # None
         /\ consumed' \in [Contracts -> {None} \cup Int]
         /\ consumed'[c] = consumed[c] + amount /\ consumed'[c] \in Int /\ consumed'[c] <= Ceiling[c] /\ consumed'[c] # None
         /\ \A d \in Contracts \ {c} : consumed'[d] = consumed[d]
  <1>1. c # None /\ amount \in Int
    BY PurchasingAssumption
  <1>2. consumed[c] # None /\ WithinCeiling(c, amount)
    BY <1>1 DEF Orderable
  <1>3. consumed[c] \in Int /\ consumed' = [consumed EXCEPT ![c] = consumed[c] + amount]
    BY <1>1, <1>2 DEF OrderInvariant, Charged
  <1>4. PICK sum \in Int : sum = consumed[c] + amount
    BY <1>1, <1>3
  <1>5. /\ consumed' \in [Contracts -> {None} \cup Int] /\ consumed'[c] = sum
        /\ \A d \in Contracts \ {c} : consumed'[d] = consumed[d]
    BY <1>3, <1>4 DEF OrderInvariant
  <1>6. sum # None
    BY PurchasingAssumption
  <1> QED BY <1>1, <1>2, <1>3, <1>4, <1>5, <1>6 DEF WithinCeiling

LEMMA RefusedKeeps ==
  ASSUME OrderInvariant, RefuseUnreadableLines
  PROVE  OrderInvariant'
  <1>1. PICK c \in Contracts, amount \in Amounts :
          Orderable(c, amount) /\ consumed' = Charged(c, amount) /\ lost' = lost \cup {c}
    BY DEF RefuseUnreadableLines
  <1>2. order' = order
    BY DEF RefuseUnreadableLines
  <1>3. /\ consumed' \in [Contracts -> {None} \cup Int]
        /\ consumed'[c] <= Ceiling[c] /\ consumed'[c] # None
        /\ \A d \in Contracts \ {c} : consumed'[d] = consumed[d]
    BY <1>1, ChargeKeeps
  <1>4. \A d : CallOffs(d)' = CallOffs(d) /\ Placed' = Placed
    BY <1>2 DEF CallOffs, Placed
  <1>5. ASSUME NEW d \in Contracts, consumed'[d] # None PROVE AccountOf(d)'
    <2>1. CASE d = c
      BY <1>1, <1>3, <2>1 DEF AccountOf
    <2>2. CASE d # c
      BY <1>1, <1>2, <1>3, <1>4, <1>5, <2>2 DEF AccountOf, OrderInvariant
    <2> QED BY <2>1, <2>2
  <1>6. \A o \in Placed : order[o].contract # None => consumed'[order[o].contract] # None
    BY <1>3, OrdersRead DEF OrderInvariant
  <1>7. lost' \subseteq Contracts
    BY <1>1 DEF OrderInvariant
  <1> QED BY <1>2, <1>3, <1>4, <1>5, <1>6, <1>7 DEF OrderInvariant

LEMMA CreateOrderKeeps ==
  ASSUME OrderInvariant, NEW o \in Orders, CreatePurchaseOrder(o)
  PROVE  OrderInvariant'
  <1>1. PICK c \in Contracts \cup {None}, amount \in Amounts :
          Orderable(c, amount) /\ consumed' = Charged(c, amount) /\ order' = [order EXCEPT ![o] = NewOrder(c, amount)]
    BY DEF CreatePurchaseOrder
  <1>2. order[o] = None /\ lost' = lost
    BY DEF CreatePurchaseOrder
  <1>3. amount \in Int
    BY PurchasingAssumption
  <1> DEFINE row == NewOrder(c, amount)
  <1>4. /\ row \in OrderRow /\ row.contract = c /\ row.amount = amount /\ row.status = "approved"
        /\ row.sent = 0 /\ row.cleared = 0 /\ row.received = [l \in Lines |-> 0]
    BY <1>3 DEF NewOrder, OrderRow, OrderStatuses
  <1>5. OrderKept(row)
    <2>1. \A l \in Lines : 0 <= Ordered[l]
      BY PurchasingAssumption
    <2> HIDE DEF row
    <2> QED BY <1>4, <2>1 DEF OrderKept
  <1>6. order' = [order EXCEPT ![o] = row]
    BY <1>1
  <1> HIDE DEF row
  <1>7. row # None
    BY <1>4, PurchasingAssumption
  <1>8. /\ order' \in [Orders -> {None} \cup OrderRow] /\ order'[o] = row
        /\ \A p \in Orders \ {o} : order'[p] = order[p]
    BY <1>4, <1>6 DEF OrderInvariant
  <1>9. Placed' = Placed \cup {o} /\ o \notin Placed
    BY <1>2, <1>7, <1>8 DEF Placed
  <1>10. IsFiniteSet(Placed')
    BY <1>9, FS_AddElement DEF OrderInvariant
  <1>11. consumed' \in [Contracts -> {None} \cup Int] /\ \A d \in Contracts \ {c} : consumed'[d] = consumed[d]
    <2>1. CASE c = None
      BY <1>1, <2>1 DEF Charged, OrderInvariant
    <2>2. CASE c # None
      BY <1>1, <2>2, ChargeKeeps
    <2> QED BY <2>1, <2>2
  <1>12. c # None => /\ consumed[c] # None /\ consumed[c] \in Int /\ consumed'[c] = consumed[c] + amount
                     /\ consumed'[c] <= Ceiling[c] /\ consumed'[c] # None
    BY <1>1, ChargeKeeps
  <1>13. ASSUME NEW d \in Contracts, consumed[d] # None PROVE consumed'[d] # None
    <2>1. CASE d = c
      <3>1. c # None
        BY <2>1, PurchasingAssumption
      <3> QED BY <1>12, <2>1, <3>1
    <2>2. CASE d # c
      BY <1>11, <1>13, <2>2
    <2> QED BY <2>1, <2>2
  <1>14. \A p \in Placed' : OrderKept(order'[p]) /\ (order'[p].contract # None => consumed'[order'[p].contract] # None)
    <2> SUFFICES ASSUME NEW p \in Placed'
                 PROVE  OrderKept(order'[p]) /\ (order'[p].contract # None => consumed'[order'[p].contract] # None)
      OBVIOUS
    <2>1. CASE p = o
      BY <1>4, <1>5, <1>8, <1>12, <2>1
    <2>2. CASE p # o
      <3>1. p \in Placed /\ order'[p] = order[p]
        BY <1>8, <1>9, <2>2 DEF Placed
      <3> QED BY <1>13, <3>1, OrdersRead DEF OrderInvariant
    <2> QED BY <2>1, <2>2
  <1>15. ASSUME NEW d \in Contracts, consumed'[d] # None PROVE AccountOf(d)'
    <2>1. /\ IsFiniteSet(CallOffs(d)) /\ CallOffs(d) \in SUBSET Orders /\ o \notin CallOffs(d)
          /\ \A p \in CallOffs(d) : AmountOf(order)[p] \in Int
      BY <1>2, OrdersRead DEF CallOffs
    <2>2. \A p \in CallOffs(d) : AmountOf(order')[p] = AmountOf(order)[p]
      BY <1>8, <2>1 DEF AmountOf
    <2>3. SumOver(AmountOf(order), CallOffs(d)) = SumOver(AmountOf(order'), CallOffs(d))
      BY <2>1, <2>2, SumOfTheSame
    <2>4. CASE d = c
      <3>1. CallOffs(d)' = CallOffs(d) \cup {o}
        BY <1>2, <1>4, <1>7, <1>8, <2>4 DEF CallOffs
      <3> DEFINE U == CallOffs(d) \cup {o}
      <3>2. IsFiniteSet(U) /\ U \ {o} = CallOffs(d) /\ o \in U
        BY <2>1, FS_AddElement
      <3>3. AmountOf(order')[o] = amount
        BY <1>4, <1>8 DEF AmountOf
      <3>4. \A p \in U : AmountOf(order')[p] \in Int
        BY <1>3, <2>1, <2>2, <3>3
      <3>5. SumOver(AmountOf(order'), U) = amount + SumOver(AmountOf(order'), CallOffs(d))
        <4> HIDE DEF U
        <4> QED BY <3>2, <3>3, <3>4, SumOfOneMore
      <3>6. SumOver(AmountOf(order), CallOffs(d)) \in Int
        BY <2>1, SumOfOneMore
      <3>7. c # None
        BY <2>4, PurchasingAssumption
      <3>8. d \notin lost => consumed[d] = SumOver(AmountOf(order), CallOffs(d))
        BY <1>12, <2>4, <3>7 DEF OrderInvariant, AccountOf
      <3>9. d \notin lost => consumed'[d] = SumOver(AmountOf(order'), U)
        BY <1>3, <1>12, <2>3, <2>4, <3>5, <3>6, <3>7, <3>8
      <3> QED BY <1>2, <1>12, <2>4, <3>1, <3>7, <3>9 DEF AccountOf
    <2>5. CASE d # c
      <3>1. CallOffs(d)' = CallOffs(d)
        BY <1>2, <1>4, <1>8, <2>5 DEF CallOffs
      <3> QED BY <1>2, <1>11, <1>15, <2>3, <2>5, <3>1 DEF AccountOf, OrderInvariant
    <2> QED BY <2>4, <2>5
  <1>16. lost' \subseteq Contracts
    BY <1>2 DEF OrderInvariant
  <1> QED BY <1>8, <1>10, <1>11, <1>14, <1>15, <1>16 DEF OrderInvariant

LEMMA OrderStepKeeps ==
  ASSUME OrderInvariant, NEW o \in Orders,
         \/ ReleasePurchaseOrder(o) \/ SimulateTimeout(o) \/ ReconcileRemoteOrder(o) \/ CompensatingCancellation(o)
         \/ \E items \in Deliveries : RecordReceipt(o, items)
  PROVE  OrderInvariant'
  <1>1. o \in Placed /\ consumed' = consumed /\ lost' = lost
    BY DEF ReleasePurchaseOrder, SimulateTimeout, ReconcileRemoteOrder, CompensatingCancellation, RecordReceipt, Placed
  <1>2. PICK held \in OrderRow : held = order[o]
    BY <1>1, OrdersRead
  <1>3. OrderKept(held)
    BY <1>1, <1>2 DEF OrderInvariant
  <1>4. /\ held.sent \in Nat /\ held.cleared \in Nat /\ held.received \in [Lines -> Nat]
        /\ held.status \in OrderStatuses
    BY DEF OrderRow
  <1>5. ASSUME NEW row \in OrderRow, order' = [order EXCEPT ![o] = row], OrderKept(row),
               row.amount = held.amount, row.contract = held.contract
        PROVE  OrderInvariant'
    BY <1>1, <1>2, <1>5, OrderGoesOn
  <1>6. CASE ReleasePurchaseOrder(o)
    <2>1. PICK k \in ReleaseKeys : order' = [order EXCEPT ![o].status = "released", ![o].key = k, ![o].sent = @ + 1]
      BY <1>6 DEF ReleasePurchaseOrder
    <2> DEFINE row == [held EXCEPT !.status = "released", !.key = k, !.sent = held.sent + 1]
    <2>2. order' = [order EXCEPT ![o] = row]
      BY <1>2, <2>1
    <2>3. held.status = "approved" /\ held.sent + 1 \in Nat
      <3>1. order[o].status = "approved"
        BY <1>6 DEF ReleasePurchaseOrder, Releasable
      <3> QED BY <1>2, <1>4, <3>1
    <2>4. /\ row \in OrderRow /\ row.amount = held.amount /\ row.contract = held.contract /\ row.status = "released"
          /\ row.sent = held.sent + 1 /\ row.cleared = held.cleared /\ row.received = held.received
      BY <2>3 DEF OrderRow, OrderStatuses
    <2> HIDE DEF row
    <2>5. OrderKept(row)
      BY <1>3, <1>4, <2>3, <2>4 DEF OrderKept
    <2> QED BY <1>5, <2>2, <2>4, <2>5
  <1>7. ASSUME NEW status \in {"reconciliation_needed", "acknowledged", "compensating_cancellation_issued"},
               order' = [order EXCEPT ![o].status = status]
        PROVE  OrderInvariant'
    <2> DEFINE row == [held EXCEPT !.status = status]
    <2>1. order' = [order EXCEPT ![o] = row]
      BY <1>2, <1>7
    <2>2. /\ row \in OrderRow /\ row.amount = held.amount /\ row.contract = held.contract /\ row.status = status
          /\ row.sent = held.sent /\ row.cleared = held.cleared /\ row.received = held.received
      BY DEF OrderRow, OrderStatuses
    <2> HIDE DEF row
    <2>3. OrderKept(row)
      BY <1>3, <2>2 DEF OrderKept
    <2> QED BY <1>5, <2>1, <2>2, <2>3
  <1>8. CASE SimulateTimeout(o)
    BY <1>7, <1>8 DEF SimulateTimeout
  <1>9. CASE CompensatingCancellation(o)
    BY <1>7, <1>9 DEF CompensatingCancellation
  <1>10. CASE ReconcileRemoteOrder(o)
    <2>1. CASE order' = [order EXCEPT ![o].status = "acknowledged"]
      BY <1>7, <2>1
    <2>2. CASE order' = [order EXCEPT ![o].status = "approved", ![o].key = None, ![o].cleared = @ + 1]
      <3> DEFINE row == [held EXCEPT !.status = "approved", !.key = None, !.cleared = held.cleared + 1]
      <3>1. order' = [order EXCEPT ![o] = row]
        BY <1>2, <2>2
      <3>2. held.cleared + 1 \in Nat
        BY <1>4
      <3>3. /\ row \in OrderRow /\ row.amount = held.amount /\ row.contract = held.contract /\ row.status = "approved"
            /\ row.sent = held.sent /\ row.cleared = held.cleared + 1 /\ row.received = held.received
        BY <3>2 DEF OrderRow, OrderStatuses
      <3> HIDE DEF row
      <3>4. OrderKept(row)
        BY <1>3, <1>4, <3>3 DEF OrderKept
      <3> QED BY <1>5, <3>1, <3>3, <3>4
    <2> QED BY <1>10, <2>1, <2>2 DEF ReconcileRemoteOrder
  <1>11. ASSUME NEW items \in Deliveries, RecordReceipt(o, items)
         PROVE  OrderInvariant'
    <2> DEFINE start == [all |-> TRUE, lines |-> held.received]
               done == Counted(start, items)
               status == IF ~done.all THEN held.status ELSE IF done.lines = Ordered THEN "fully_received" ELSE "partially_received"
               row == [held EXCEPT !.received = done.lines, !.status = status]
    <2>1. start \in CountRow(held.received)
      <3>1. \A l \in Lines : held.received[l] \in Nat /\ held.received[l] <= Ordered[l]
        BY <1>3, <1>4 DEF OrderKept
      <3>2. held.received \in Tallies(held.received)
        BY <1>4, <3>1 DEF Tallies
      <3> QED BY <3>2 DEF CountRow
    <2>2. done \in CountRow(held.received)
      <3> HIDE DEF start
      <3> QED BY <1>4, <2>1, ReceiptCounts
    <2>3. order' = [order EXCEPT ![o] = row]
      BY <1>2, <1>11 DEF RecordReceipt, Counted
    <2> HIDE DEF done
    <2>4. done.lines \in [Lines -> Nat] /\ \A l \in Lines : held.received[l] <= done.lines[l] /\ done.lines[l] <= Ordered[l]
      BY <2>2 DEF CountRow, Tallies
    <2>5. /\ status \in OrderStatuses
          /\ status = "approved" => held.status = "approved"
          /\ status = "fully_received" => held.status = "fully_received" \/ done.lines = Ordered
      BY <1>4 DEF OrderStatuses
    <2> HIDE DEF status
    <2>6. /\ row \in OrderRow /\ row.amount = held.amount /\ row.contract = held.contract /\ row.status = status
          /\ row.sent = held.sent /\ row.cleared = held.cleared /\ row.received = done.lines
      BY <2>4, <2>5 DEF OrderRow
    <2>7. held.received = Ordered => done.lines = Ordered
      <3> SUFFICES ASSUME held.received = Ordered PROVE done.lines = Ordered
        OBVIOUS
      <3>1. \A l \in Lines : done.lines[l] \in Nat /\ Ordered[l] \in Nat /\ Ordered[l] <= done.lines[l] /\ done.lines[l] <= Ordered[l]
        BY <2>4, PurchasingAssumption
      <3>2. \A l \in Lines : done.lines[l] = Ordered[l]
        BY <3>1
      <3> QED BY <2>4, <3>2, PurchasingAssumption
    <2> HIDE DEF row
    <2>8. OrderKept(row)
      BY <1>3, <2>4, <2>5, <2>6, <2>7 DEF OrderKept
    <2> QED BY <1>5, <2>3, <2>6, <2>8
  <1> QED BY <1>6, <1>8, <1>9, <1>10, <1>11

-----------------------------------------------------------------------------
(* Vendors. *)

ObjectRow ==
  [vendor: Vendors, bank: Banks \cup {None}, restricted: Banks \cup {None}, flagged: BOOLEAN, status: VendorStatuses]

ChangeRow == [vendor: Vendors, bank: Banks, requestedBy: People, verifiedBy: People \cup {None}]

\* The object that the vendor was created with.
IsFirst(m) == \A k \in 1..(m - 1) : object[k].vendor # object[m].vendor

Redirected(v, bank) ==
  \E i \in DOMAIN bankChange :
    /\ bankChange[i].vendor = v /\ bankChange[i].bank = bank
    /\ bankChange[i].verifiedBy \notin {None, bankChange[i].requestedBy}

BanksTold ==
  \A n, m \in DOMAIN object : object[n].vendor = object[m].vendor /\ IsFirst(m) =>
    object[n].bank = object[m].bank \/ Redirected(object[n].vendor, object[n].bank)

KeysLead(keys) ==
  \A v \in Vendors : keys[v] # 0 => keys[v] \in DOMAIN object /\ object[keys[v]].vendor = v

VendorInvariant ==
  /\ object \in Seq(ObjectRow)
  /\ byId \in [Vendors -> Nat] /\ byCode \in [Vendors -> Nat]
  /\ KeysLead(byId) /\ KeysLead(byCode)
  /\ \A v \in Vendors : byId[v] = 0 <=> byCode[v] = 0
  /\ \A n \in DOMAIN object : byId[object[n].vendor] # 0
  /\ bankChange \in Seq(ChangeRow)
  /\ \A i \in DOMAIN bankChange : byId[bankChange[i].vendor] # 0
  /\ BanksTold

LEMMA VendorsRead ==
  ASSUME VendorInvariant
  PROVE  /\ Len(object) \in Nat /\ DOMAIN object = 1..Len(object)
         /\ \A n \in DOMAIN object : /\ object[n] \in ObjectRow /\ object[n].vendor \in Vendors
                                     /\ object[n].bank \in Banks \cup {None} /\ object[n].status \in VendorStatuses
         /\ Len(bankChange) \in Nat /\ DOMAIN bankChange = 1..Len(bankChange)
         /\ \A i \in DOMAIN bankChange : /\ bankChange[i] \in ChangeRow /\ bankChange[i].vendor \in Vendors
                                         /\ bankChange[i].bank \in Banks /\ bankChange[i].requestedBy \in People
  <1>1. object \in Seq(ObjectRow) /\ bankChange \in Seq(ChangeRow)
    BY DEF VendorInvariant
  <1>2. /\ Len(object) \in Nat /\ DOMAIN object = 1..Len(object)
        /\ Len(bankChange) \in Nat /\ DOMAIN bankChange = 1..Len(bankChange)
    BY <1>1
  <1>3. /\ \A n \in DOMAIN object : object[n] \in ObjectRow
        /\ \A i \in DOMAIN bankChange : bankChange[i] \in ChangeRow
    BY <1>1, <1>2
  <1>4. \A n \in DOMAIN object : /\ object[n].vendor \in Vendors /\ object[n].bank \in Banks \cup {None}
                                 /\ object[n].status \in VendorStatuses
    BY <1>3 DEF ObjectRow
  <1>5. \A i \in DOMAIN bankChange : /\ bankChange[i].vendor \in Vendors /\ bankChange[i].bank \in Banks
                                     /\ bankChange[i].requestedBy \in People
    BY <1>3 DEF ChangeRow
  <1> QED BY <1>2, <1>3, <1>4, <1>5

\* A new object is made, of a vendor that has none or with bank details that a
\* verified change gives.
LEMMA ObjectMade ==
  ASSUME VendorInvariant, NEW v \in Vendors, NEW row \in ObjectRow, row.vendor = v,
         object' = Append(object, row),
         byId' = [byId EXCEPT ![v] = Len(object) + 1],
         byCode' = IF byId[v] = 0 THEN [byCode EXCEPT ![v] = Len(object) + 1] ELSE byCode,
         bankChange' \in Seq(ChangeRow),
         \A i \in DOMAIN bankChange' : i \in DOMAIN bankChange /\ bankChange'[i].vendor = bankChange[i].vendor,
         \A w, bank : Redirected(w, bank) => Redirected(w, bank)',
         byId[v] = 0 \/ Redirected(v, row.bank)'
  PROVE  VendorInvariant'
  <1>1. PICK last \in Nat \ {0} : last = Len(object) + 1
    BY VendorsRead
  <1>2. /\ object' \in Seq(ObjectRow) /\ DOMAIN object' = DOMAIN object \cup {last} /\ object'[last] = row
        /\ \A n \in DOMAIN object : object'[n] = object[n] /\ n # last /\ n \in 1..(last - 1)
    <2>1. object \in Seq(ObjectRow)
      BY DEF VendorInvariant
    <2> QED BY <1>1, <2>1
  <1>3. /\ byId' \in [Vendors -> Nat] /\ byId'[v] = last /\ \A w \in Vendors \ {v} : byId'[w] = byId[w]
    BY <1>1 DEF VendorInvariant
  <1>4. /\ byCode' \in [Vendors -> Nat] /\ (byId[v] = 0 => byCode'[v] = last)
        /\ (byId[v] # 0 => byCode'[v] = byCode[v]) /\ \A w \in Vendors \ {v} : byCode'[w] = byCode[w]
    BY <1>1 DEF VendorInvariant
  <1>5. KeysLead(byId)' /\ KeysLead(byCode)'
    BY <1>1, <1>2, <1>3, <1>4 DEF VendorInvariant, KeysLead
  <1>6. \A w \in Vendors : byId'[w] = 0 <=> byCode'[w] = 0
    BY <1>1, <1>3, <1>4 DEF VendorInvariant
  <1>7. \A n \in DOMAIN object' : byId'[object'[n].vendor] # 0
    BY <1>1, <1>2, <1>3, VendorsRead DEF VendorInvariant
  <1>8. \A i \in DOMAIN bankChange' : byId'[bankChange'[i].vendor] # 0
    BY <1>1, <1>3, VendorsRead DEF VendorInvariant
  <1>9. BanksTold'
    <2> SUFFICES ASSUME NEW n \in DOMAIN object', NEW m \in DOMAIN object',
                        object'[n].vendor = object'[m].vendor, IsFirst(m)'
                 PROVE  object'[n].bank = object'[m].bank \/ Redirected(object[n].vendor, object[n].bank)'
      BY DEF BanksTold
    <2>1. CASE m = last
      <3>1. n = last
        <4> SUFFICES ASSUME n # last PROVE FALSE
          OBVIOUS
        <4>1. n \in DOMAIN object /\ n \in 1..(last - 1) /\ object'[n] = object[n]
          BY <1>2
        <4> QED BY <2>1, <4>1 DEF IsFirst
      <3> QED BY <2>1, <3>1
    <2>2. CASE m # last /\ n # last
      <3>1. m \in DOMAIN object /\ n \in DOMAIN object /\ object'[m] = object[m] /\ object'[n] = object[n]
        BY <1>2, <2>2
      <3>2. IsFirst(m)
        <4>1. \A k \in 1..(m - 1) : object'[k] = object[k]
          BY <1>1, <1>2, <3>1, VendorsRead
        <4> QED BY <3>1, <4>1 DEF IsFirst
      <3> QED BY <3>1, <3>2 DEF VendorInvariant, BanksTold
    <2>3. CASE m # last /\ n = last
      <3>1. m \in DOMAIN object /\ object'[m] = object[m]
        BY <1>2, <2>3
      <3>2. byId[v] # 0
        BY <1>2, <2>3, <3>1 DEF VendorInvariant
      <3>3. object'[n] = row
        BY <1>2, <2>3
      <3>4. Redirected(object[n].vendor, object[n].bank)' <=> Redirected(v, row.bank)'
        BY <3>3 DEF Redirected
      <3> QED BY <3>2, <3>4
    <2> QED BY <2>1, <2>2, <2>3
  <1> QED BY <1>2, <1>3, <1>4, <1>5, <1>6, <1>7, <1>8, <1>9 DEF VendorInvariant

LEMMA CreateVendorKeeps ==
  ASSUME VendorInvariant, NEW v \in Vendors, CreateVendor(v) \/ CreateExtendedVendor(v)
  PROVE  VendorInvariant'
  <1>1. \E row \in ObjectRow : row.vendor = v /\ object' = Append(object, row)
    <2>1. CASE CreateVendor(v)
      <3>1. PICK bank \in Banks \cup {None}, wanted \in VendorStatuses, flagged \in BOOLEAN :
              LET fresh == [vendor |-> v, bank |-> bank, restricted |-> bank, flagged |-> flagged, status |-> wanted]
              IN object' = Append(object, [fresh EXCEPT !.status = Granted(wanted, fresh)])
        BY <2>1 DEF CreateVendor
      <3> DEFINE fresh == [vendor |-> v, bank |-> bank, restricted |-> bank, flagged |-> flagged, status |-> wanted]
                 status == Granted(wanted, fresh)
                 row == [vendor |-> v, bank |-> bank, restricted |-> bank, flagged |-> flagged, status |-> status]
      <3>2. status \in VendorStatuses
        BY PurchasingAssumption DEF Granted
      <3>3. object' = Append(object, row)
        BY <3>1
      <3> HIDE DEF status
      <3>4. row \in ObjectRow /\ row.vendor = v
        BY <3>2 DEF ObjectRow
      <3> QED BY <3>3, <3>4
    <2>2. CASE CreateExtendedVendor(v)
      <3>1. PICK bank \in Banks \cup {None} :
              object' = Append(object, [vendor |-> v, bank |-> bank, restricted |-> None, flagged |-> FALSE, status |-> "approved"])
        BY <2>2 DEF CreateExtendedVendor
      <3> DEFINE row == [vendor |-> v, bank |-> bank, restricted |-> None, flagged |-> FALSE, status |-> "approved"]
      <3>2. "approved" \in VendorStatuses
        BY PurchasingAssumption
      <3>3. row \in ObjectRow /\ row.vendor = v
        BY <3>2 DEF ObjectRow
      <3> QED BY <3>1, <3>3
    <2> QED BY <2>1, <2>2
  <1>2. /\ byId[v] = 0 /\ byId' = [byId EXCEPT ![v] = Len(object) + 1]
        /\ byCode' = [byCode EXCEPT ![v] = Len(object) + 1] /\ bankChange' = bankChange
    BY DEF CreateVendor, CreateExtendedVendor
  <1>3. PICK row \in ObjectRow : row.vendor = v /\ object' = Append(object, row)
    BY <1>1
  <1>4. bankChange' \in Seq(ChangeRow) /\ \A w, bank : Redirected(w, bank) => Redirected(w, bank)'
    BY <1>2 DEF VendorInvariant, Redirected
  <1> QED BY <1>2, <1>3, <1>4, ObjectMade

LEMMA TransitionKeeps ==
  ASSUME VendorInvariant, NEW v \in Vendors, TransitionVendorStatus(v)
  PROVE  VendorInvariant'
  <1>1. PICK n \in ObjectsOf(v), wanted \in VendorStatuses, flags \in {{}, {TRUE}, {FALSE}} :
          /\ \E flagged \in (IF flags = {} THEN {object[n].flagged} ELSE flags) :
               object' = [object EXCEPT ![n].status = wanted, ![n].flagged = flagged]
          /\ byId' = [byId EXCEPT ![v] = n] /\ byCode' = [byCode EXCEPT ![v] = n]
    BY DEF TransitionVendorStatus
  <1>2. n \in DOMAIN object /\ object[n].vendor = v /\ n # 0 /\ n \in Nat
    BY VendorsRead DEF ObjectsOf, VendorInvariant, KeysLead
  <1>3. PICK held \in ObjectRow : held = object[n] /\ held.flagged \in BOOLEAN
    <2>1. object[n] \in ObjectRow
      BY <1>2, VendorsRead
    <2> QED BY <2>1 DEF ObjectRow
  <1>4. PICK flagged \in BOOLEAN : object' = [object EXCEPT ![n].status = wanted, ![n].flagged = flagged]
    <2>1. PICK flagged \in (IF flags = {} THEN {object[n].flagged} ELSE flags) :
            object' = [object EXCEPT ![n].status = wanted, ![n].flagged = flagged]
      BY <1>1
    <2>2. flagged \in BOOLEAN
      BY <1>3, <2>1
    <2> QED BY <2>1, <2>2
  <1> DEFINE row == [held EXCEPT !.status = wanted, !.flagged = flagged]
  <1>5. object' = [object EXCEPT ![n] = row]
    BY <1>3, <1>4
  <1>6. row \in ObjectRow /\ row.vendor = v /\ row.bank = held.bank
    BY <1>2, <1>3 DEF ObjectRow
  <1> HIDE DEF row
  <1>7. /\ object' \in Seq(ObjectRow) /\ DOMAIN object' = DOMAIN object /\ object'[n] = row
        /\ \A m \in DOMAIN object \ {n} : object'[m] = object[m]
    <2>1. object \in Seq(ObjectRow)
      BY DEF VendorInvariant
    <2> QED BY <1>2, <1>5, <1>6, <2>1
  <1>8. \A m \in DOMAIN object : object'[m].vendor = object[m].vendor /\ object'[m].bank = object[m].bank
    BY <1>2, <1>3, <1>6, <1>7
  <1>9. /\ byId' \in [Vendors -> Nat] /\ byId'[v] = n /\ \A w \in Vendors \ {v} : byId'[w] = byId[w]
        /\ byCode' \in [Vendors -> Nat] /\ byCode'[v] = n /\ \A w \in Vendors \ {v} : byCode'[w] = byCode[w]
    BY <1>1, <1>2 DEF VendorInvariant
  <1>10. KeysLead(byId)' /\ KeysLead(byCode)'
    <2>1. \A w \in Vendors : byId'[w] # 0 => byId'[w] \in DOMAIN object' /\ object'[byId'[w]].vendor = w
      <3> SUFFICES ASSUME NEW w \in Vendors, byId'[w] # 0
                   PROVE  byId'[w] \in DOMAIN object' /\ object'[byId'[w]].vendor = w
        OBVIOUS
      <3>1. CASE w = v
        BY <1>2, <1>7, <1>8, <1>9, <3>1
      <3>2. CASE w # v
        <4>1. byId'[w] = byId[w]
          BY <1>9, <3>2
        <4>2. byId[w] \in DOMAIN object /\ object[byId[w]].vendor = w
          BY <4>1 DEF VendorInvariant, KeysLead
        <4> QED BY <1>7, <1>8, <4>1, <4>2
      <3> QED BY <3>1, <3>2
    <2>2. \A w \in Vendors : byCode'[w] # 0 => byCode'[w] \in DOMAIN object' /\ object'[byCode'[w]].vendor = w
      <3> SUFFICES ASSUME NEW w \in Vendors, byCode'[w] # 0
                   PROVE  byCode'[w] \in DOMAIN object' /\ object'[byCode'[w]].vendor = w
        OBVIOUS
      <3>1. CASE w = v
        BY <1>2, <1>7, <1>8, <1>9, <3>1
      <3>2. CASE w # v
        <4>1. byCode'[w] = byCode[w]
          BY <1>9, <3>2
        <4>2. byCode[w] \in DOMAIN object /\ object[byCode[w]].vendor = w
          BY <4>1 DEF VendorInvariant, KeysLead
        <4> QED BY <1>7, <1>8, <4>1, <4>2
      <3> QED BY <3>1, <3>2
    <2> QED BY <2>1, <2>2 DEF KeysLead
  <1>11. bankChange' = bankChange
    BY DEF TransitionVendorStatus
  <1>12. BanksTold'
    <2>1. \A m \in DOMAIN object : IsFirst(m)' => IsFirst(m)
      <3>1. \A m \in DOMAIN object : \A k \in 1..(m - 1) : k \in DOMAIN object
        BY VendorsRead
      <3> QED BY <1>7, <1>8, <3>1 DEF IsFirst
    <2>2. \A w, bank : Redirected(w, bank)' <=> Redirected(w, bank)
      BY <1>11 DEF Redirected
    <2> SUFFICES ASSUME NEW k \in DOMAIN object', NEW m \in DOMAIN object',
                        object'[k].vendor = object'[m].vendor, IsFirst(m)'
                 PROVE  object'[k].bank = object'[m].bank \/ Redirected(object[k].vendor, object[k].bank)'
      BY DEF BanksTold
    <2>3. object[k].bank = object[m].bank \/ Redirected(object[k].vendor, object[k].bank)
      BY <1>7, <1>8, <2>1 DEF VendorInvariant, BanksTold
    <2>4. Redirected(object[k].vendor, object[k].bank) => Redirected(object[k].vendor, object[k].bank)'
      BY <1>7, <1>8, <1>11 DEF Redirected
    <2> QED BY <1>7, <1>8, <2>3, <2>4
  <1>13. /\ \A w \in Vendors : byId'[w] = 0 <=> byCode'[w] = 0
         /\ \A m \in DOMAIN object' : byId'[object'[m].vendor] # 0
         /\ \A i \in DOMAIN bankChange' : byId'[bankChange'[i].vendor] # 0
    <2>1. \A w \in Vendors \ {v} : byId'[w] = 0 <=> byCode'[w] = 0
      BY <1>9 DEF VendorInvariant
    <2>2. byId'[v] # 0 /\ byCode'[v] # 0
      BY <1>2, <1>9
    <2>3. \A w \in Vendors : byId'[w] = 0 <=> byCode'[w] = 0
      BY <2>1, <2>2
    <2>4. \A m \in DOMAIN object : object[m].vendor \in Vendors /\ byId[object[m].vendor] # 0
      BY VendorsRead DEF VendorInvariant
    <2>5. \A w \in Vendors : byId[w] # 0 => byId'[w] # 0
      BY <1>2, <1>9
    <2>6. ASSUME NEW m \in DOMAIN object' PROVE byId'[object'[m].vendor] # 0
      <3>1. m \in DOMAIN object /\ object'[m].vendor = object[m].vendor
        BY <1>7, <1>8
      <3> QED BY <2>4, <2>5, <3>1
    <2>7. ASSUME NEW i \in DOMAIN bankChange' PROVE byId'[bankChange'[i].vendor] # 0
      <3>1. bankChange[i].vendor \in Vendors /\ byId[bankChange[i].vendor] # 0
        BY <1>11, VendorsRead DEF VendorInvariant
      <3> QED BY <1>11, <2>5, <3>1
    <2> QED BY <2>3, <2>6, <2>7
  <1> QED BY <1>7, <1>9, <1>10, <1>11, <1>12, <1>13 DEF VendorInvariant

LEMMA RequestKeeps ==
  ASSUME VendorInvariant, NEW v \in Vendors, RequestBankChange(v)
  PROVE  VendorInvariant'
  <1>1. PICK bank \in Banks, person \in People :
          bankChange' = Append(bankChange, [vendor |-> v, bank |-> bank, requestedBy |-> person, verifiedBy |-> None])
    BY DEF RequestBankChange
  <1> DEFINE row == [vendor |-> v, bank |-> bank, requestedBy |-> person, verifiedBy |-> None]
  <1>2. row \in ChangeRow /\ row.vendor = v
    BY DEF ChangeRow
  <1>3. bankChange' = Append(bankChange, row) /\ byId[v] # 0 /\ object' = object /\ byId' = byId /\ byCode' = byCode
    BY <1>1 DEF RequestBankChange
  <1> HIDE DEF row
  <1>4. /\ bankChange' \in Seq(ChangeRow) /\ DOMAIN bankChange' = DOMAIN bankChange \cup {Len(bankChange) + 1}
        /\ bankChange'[Len(bankChange) + 1] = row /\ \A i \in DOMAIN bankChange : bankChange'[i] = bankChange[i]
    <2>1. bankChange \in Seq(ChangeRow)
      BY DEF VendorInvariant
    <2> QED BY <1>2, <1>3, <2>1
  <1>5. \A w, b : Redirected(w, b) => Redirected(w, b)'
    BY <1>4 DEF Redirected
  <1>6. BanksTold'
    <2> SUFFICES ASSUME NEW n \in DOMAIN object, NEW m \in DOMAIN object,
                        object[n].vendor = object[m].vendor, IsFirst(m)
                 PROVE  object[n].bank = object[m].bank \/ Redirected(object[n].vendor, object[n].bank)'
      BY <1>3 DEF BanksTold, IsFirst
    <2>1. object[n].bank = object[m].bank \/ Redirected(object[n].vendor, object[n].bank)
      BY DEF VendorInvariant, BanksTold
    <2>2. Redirected(object[n].vendor, object[n].bank) => Redirected(object[n].vendor, object[n].bank)'
      BY <1>3, <1>4 DEF Redirected
    <2> QED BY <2>1, <2>2
  <1>7. KeysLead(byId)' /\ KeysLead(byCode)'
    BY <1>3 DEF VendorInvariant, KeysLead
  <1>8. \A i \in DOMAIN bankChange' : byId'[bankChange'[i].vendor] # 0
    BY <1>2, <1>3, <1>4 DEF VendorInvariant
  <1> QED BY <1>3, <1>4, <1>6, <1>7, <1>8 DEF VendorInvariant

LEMMA VerifyKeeps ==
  ASSUME VendorInvariant, NEW i \in DOMAIN bankChange, VerifyBankChange(i)
  PROVE  VendorInvariant'
  <1>1. PICK held \in ChangeRow : held = bankChange[i]
    BY VendorsRead
  <1>2. PICK v \in Vendors : v = held.vendor /\ byId[v] # 0
    BY <1>1, VendorsRead DEF VendorInvariant
  <1>3. PICK person \in People :
          Verifiable(bankChange[i], person) /\ bankChange' = [bankChange EXCEPT ![i].verifiedBy = person]
    BY DEF VerifyBankChange
  <1> DEFINE new == [held EXCEPT !.verifiedBy = person]
             row == [object[byId[v]] EXCEPT !.bank = held.bank]
  <1>4. held.verifiedBy = None /\ held.requestedBy # person /\ person # None
    BY <1>1, <1>3, PurchasingAssumption DEF Verifiable
  <1>5. /\ new \in ChangeRow /\ new.vendor = v /\ new.bank = held.bank
        /\ new.requestedBy = held.requestedBy /\ new.verifiedBy = person
    BY <1>2 DEF ChangeRow
  <1>6. row \in ObjectRow /\ row.vendor = v /\ row.bank = held.bank
    <2>1. object[byId[v]] \in ObjectRow /\ object[byId[v]].vendor = v
      BY <1>2, VendorsRead DEF VendorInvariant, KeysLead
    <2>2. held.bank \in Banks
      BY DEF ChangeRow
    <2> QED BY <2>1, <2>2 DEF ObjectRow
  <1>7. /\ bankChange' = [bankChange EXCEPT ![i] = new] /\ object' = Append(object, row)
        /\ byId' = [byId EXCEPT ![v] = Len(object) + 1] /\ byCode' = byCode
    BY <1>1, <1>2, <1>3 DEF VerifyBankChange
  <1>8. PICK made \in ObjectRow : made = row
    BY <1>6
  <1> HIDE DEF new, row
  <1>9. /\ bankChange' \in Seq(ChangeRow) /\ DOMAIN bankChange' = DOMAIN bankChange /\ bankChange'[i] = new
        /\ \A j \in DOMAIN bankChange \ {i} : bankChange'[j] = bankChange[j]
    <2>1. bankChange \in Seq(ChangeRow)
      BY DEF VendorInvariant
    <2> QED BY <1>5, <1>7, <2>1
  <1>10. \A j \in DOMAIN bankChange' : j \in DOMAIN bankChange /\ bankChange'[j].vendor = bankChange[j].vendor
    BY <1>1, <1>2, <1>5, <1>9
  <1>11. \A w, bank : Redirected(w, bank) => Redirected(w, bank)'
    BY <1>1, <1>4, <1>9 DEF Redirected
  <1>12. Redirected(v, made.bank)'
    <2>1. \E j \in DOMAIN bankChange' : /\ bankChange'[j].vendor = v /\ bankChange'[j].bank = made.bank
                                        /\ bankChange'[j].verifiedBy \notin {None, bankChange'[j].requestedBy}
      BY <1>4, <1>5, <1>6, <1>9, <1>8
    <2> QED BY <2>1 DEF Redirected
  <1> QED BY <1>2, <1>6, <1>7, <1>9, <1>10, <1>11, <1>12, <1>8, ObjectMade

-----------------------------------------------------------------------------
\* The vendors there from the start are listed once each.
LEMMA SeededOnce ==
  /\ Len(SeededList) \in Nat /\ DOMAIN SeededList = 1..Len(SeededList)
  /\ SeededList \in [1..Len(SeededList) -> Seeded]
  /\ \A n, m \in DOMAIN SeededList : SeededList[n] = SeededList[m] => n = m
  /\ \A v \in Seeded : \E n \in DOMAIN SeededList : SeededList[n] = v
  <1> DEFINE count == Cardinality(Seeded)
  <1>1. count \in Nat /\ ExistsBijection(1..count, Seeded)
    BY FS_CardinalityType, PurchasingAssumption
  <1>2. PICK b \in [1..count -> Seeded] : IsInjective(b)
    BY <1>1 DEF ExistsBijection, Bijection, Injection
  <1>3. SeededList \in [1..count -> Seeded] /\ IsInjective(SeededList)
    BY <1>2 DEF SeededList, SetToSeq
  <1> HIDE DEF count
  <1>4. SeededList \in Injection(1..count, Seeded)
    BY <1>3 DEF Injection
  <1>5. IsFiniteSet(1..count) /\ Cardinality(1..count) = count
    <2>1. 1 \in Int /\ count \in Int
      BY <1>1
    <2>2. IsFiniteSet(1..count) /\ Cardinality(1..count) = IF 1 > count THEN 0 ELSE count - 1 + 1
      BY <2>1, FS_Interval
    <2> QED BY <1>1, <2>2
  <1>6. SeededList \in Surjection(1..count, Seeded)
    BY <1>4, <1>5, FS_Injection, PurchasingAssumption DEF count
  <1>7. Len(SeededList) = count /\ DOMAIN SeededList = 1..count
    BY <1>1, <1>3
  <1> QED BY <1>1, <1>3, <1>6, <1>7 DEF IsInjective, Surjection

PurchasesInvariant == VendorInvariant /\ OrderInvariant

LEMMA PurchasesStart == PurchasesInit => PurchasesInvariant
  <1> SUFFICES ASSUME PurchasesInit PROVE PurchasesInvariant
    OBVIOUS
  <1> DEFINE place(v) == CHOOSE n \in DOMAIN SeededList : SeededList[n] = v
  <1>1. PICK bank \in Banks : \E restricted \in {None, bank} :
          object = [n \in 1..Len(SeededList) |->
            [vendor |-> SeededList[n], bank |-> bank, restricted |-> restricted, flagged |-> FALSE, status |-> "approved"]]
    BY DEF PurchasesInit
  <1>2. PICK restricted \in {None, bank} :
          object = [n \in 1..Len(SeededList) |->
            [vendor |-> SeededList[n], bank |-> bank, restricted |-> restricted, flagged |-> FALSE, status |-> "approved"]]
    BY <1>1
  <1>3. DOMAIN object = 1..Len(SeededList) /\ \A n \in DOMAIN object : object[n].vendor = SeededList[n] /\ object[n].bank = bank
    BY <1>2
  <1>4. object \in Seq(ObjectRow)
    <2>1. "approved" \in VendorStatuses /\ restricted \in Banks \cup {None}
      BY PurchasingAssumption
    <2>2. \A v \in Vendors : [vendor |-> v, bank |-> bank, restricted |-> restricted, flagged |-> FALSE, status |-> "approved"] \in ObjectRow
      BY <2>1 DEF ObjectRow
    <2>3. \A n \in 1..Len(SeededList) : SeededList[n] \in Vendors
      BY SeededOnce, PurchasingAssumption
    <2>4. object \in [1..Len(SeededList) -> ObjectRow]
      BY <1>2, <2>2, <2>3
    <2> QED BY <2>4, SeededOnce
  <1>5. byId = [v \in Vendors |-> IF v \in Seeded THEN place(v) ELSE 0] /\ byCode = byId
    BY DEF PurchasesInit
  <1>6. \A v \in Seeded : place(v) \in DOMAIN SeededList /\ SeededList[place(v)] = v
    BY SeededOnce
  <1>7. \A v \in Seeded : place(v) \in 1..Len(SeededList) /\ place(v) \in Nat /\ place(v) # 0
    BY <1>6, SeededOnce
  <1> HIDE DEF place
  <1>8. byId \in [Vendors -> Nat] /\ byCode \in [Vendors -> Nat]
    BY <1>5, <1>7
  <1>9. KeysLead(byId) /\ KeysLead(byCode)
    BY <1>3, <1>5, <1>6, <1>7 DEF KeysLead
  <1>10. \A n \in DOMAIN object : byId[object[n].vendor] # 0
    <2>1. \A n \in DOMAIN object : object[n].vendor \in Seeded /\ object[n].vendor \in Vendors
      BY <1>3, SeededOnce, PurchasingAssumption
    <2> QED BY <1>5, <1>7, <2>1
  <1>11. BanksTold
    BY <1>3 DEF BanksTold
  <1>12. bankChange = <<>> /\ DOMAIN bankChange = {}
    BY DEF PurchasesInit
  <1>13. VendorInvariant
    BY <1>4, <1>5, <1>8, <1>9, <1>10, <1>11, <1>12 DEF VendorInvariant
  <1>14. /\ order \in [Orders -> {None} \cup OrderRow] /\ consumed \in [Contracts -> {None} \cup Int] /\ lost = {}
         /\ (\A o \in Orders : order[o] = None) /\ \A c \in Contracts : consumed[c] = None
    BY DEF PurchasesInit
  <1>15. Placed = {} /\ IsFiniteSet({})
    BY <1>14, FS_EmptySet DEF Placed
  <1>16. OrderInvariant
    BY <1>14, <1>15 DEF OrderInvariant
  <1> QED BY <1>13, <1>16 DEF PurchasesInvariant

LEMMA PurchasesStep ==
  ASSUME PurchasesInvariant, [PurchasesNext]_purchaseVars
  PROVE  PurchasesInvariant'
  <1> USE DEF PurchasesInvariant
  <1>1. UNCHANGED vendorVars => VendorInvariant'
    BY DEF vendorVars, VendorInvariant, KeysLead, BanksTold, IsFirst, Redirected
  <1>2. UNCHANGED orderVars => OrderInvariant'
    BY DEF orderVars, OrderInvariant, Placed, AccountOf, CallOffs
  <1>3. ASSUME NEW v \in Vendors,
               CreateVendor(v) \/ CreateExtendedVendor(v) \/ TransitionVendorStatus(v) \/ RequestBankChange(v)
        PROVE  VendorInvariant' /\ UNCHANGED orderVars
    <2>1. UNCHANGED orderVars
      BY <1>3 DEF CreateVendor, CreateExtendedVendor, TransitionVendorStatus, RequestBankChange
    <2> QED BY <1>3, <2>1, CreateVendorKeeps, TransitionKeeps, RequestKeeps
  <1>4. ASSUME NEW i \in DOMAIN bankChange, VerifyBankChange(i)
        PROVE  VendorInvariant' /\ UNCHANGED orderVars
    BY <1>4, VerifyKeeps DEF VerifyBankChange
  <1>5. ASSUME NEW c \in Contracts, CreateFrameworkContract(c)
        PROVE  OrderInvariant' /\ UNCHANGED vendorVars
    BY <1>5, CreateContractKeeps DEF CreateFrameworkContract
  <1>6. ASSUME NEW o \in Orders, CreatePurchaseOrder(o)
        PROVE  OrderInvariant' /\ UNCHANGED vendorVars
    BY <1>6, CreateOrderKeeps DEF CreatePurchaseOrder
  <1>7. ASSUME NEW o \in Orders,
               \/ ReleasePurchaseOrder(o) \/ SimulateTimeout(o) \/ ReconcileRemoteOrder(o) \/ CompensatingCancellation(o)
               \/ \E items \in Deliveries : RecordReceipt(o, items)
        PROVE  OrderInvariant' /\ UNCHANGED vendorVars
    <2>1. UNCHANGED vendorVars
      BY <1>7 DEF ReleasePurchaseOrder, SimulateTimeout, ReconcileRemoteOrder, CompensatingCancellation, RecordReceipt
    <2> QED BY <1>7, <2>1, OrderStepKeeps
  <1>8. ASSUME RefuseUnreadableLines
        PROVE  OrderInvariant' /\ UNCHANGED vendorVars
    BY <1>8, RefusedKeeps DEF RefuseUnreadableLines
  <1>9. UNCHANGED purchaseVars => UNCHANGED vendorVars /\ UNCHANGED orderVars
    BY DEF purchaseVars
  <1> QED BY <1>1, <1>2, <1>3, <1>4, <1>5, <1>6, <1>7, <1>8, <1>9 DEF PurchasesNext

\* References lead to objects of their vendor, orders name contracts that exist.
THEOREM PurchasesTyped == PurchasesSpec => []PurchasesTypeOK
  <1>1. PurchasesInvariant => PurchasesTypeOK
    <2> SUFFICES ASSUME PurchasesInvariant PROVE PurchasesTypeOK
      OBVIOUS
    <2>1. \A v \in Vendors : \A n \in ObjectsOf(v) : object[n].vendor = v
      BY DEF PurchasesInvariant, VendorInvariant, KeysLead, ObjectsOf
    <2>2. \A o \in Orders : order[o] # None =>
            /\ order[o].contract = None \/ consumed[order[o].contract] # None
            /\ order[o].key \in ReleaseKeys \cup {None}
      BY OrdersRead DEF PurchasesInvariant, OrderInvariant, Placed
    <2> QED BY <2>1, <2>2, VendorsRead DEF PurchasesInvariant, VendorInvariant, PurchasesTypeOK
  <1> QED BY <1>1, PurchasesStart, PurchasesStep, PTL DEF PurchasesSpec

\* Ceilings are charged for the call-offs and not exceeded, an order is sent once
\* more only when it was found not to have arrived, no line counts more than was
\* ordered, and bank details change by what two persons agreed on.
THEOREM PurchasesStaySound == PurchasesSpec => []PurchasesSound
  <1>1. PurchasesInvariant => CeilingAccounted
    <2> SUFFICES ASSUME PurchasesInvariant, NEW c \in Contracts, consumed[c] # None, c \notin lost
                 PROVE  consumed[c] = (LET Amount(o) == order[o].amount IN MapThenSumSet(Amount, CallOffs(c)))
      BY DEF CeilingAccounted, PurchasesInvariant, OrderInvariant, AccountOf, MapThenSumSet, MapThenFoldSet
    <2>1. CallOffs(c) \in SUBSET Orders
      BY DEF CallOffs
    <2>2. consumed[c] = SumOver(AmountOf(order), CallOffs(c))
      BY DEF PurchasesInvariant, OrderInvariant, AccountOf
    <2> QED BY <2>1, <2>2, OrderSum
  <1>2. PurchasesInvariant => SentWhenCleared /\ ReceiptsWithinOrder
    BY DEF PurchasesInvariant, OrderInvariant, OrderKept, Placed, SentWhenCleared, ReceiptsWithinOrder
  <1>3. PurchasesInvariant => BankChangesVerified
    <2> SUFFICES ASSUME PurchasesInvariant, NEW v \in Vendors, NEW n \in ObjectsOf(v)
                 PROVE  \/ object[n].bank = object[CHOOSE m \in DOMAIN object :
                                              object[m].vendor = v /\ \A k \in 1..(m - 1) : object[k].vendor # v].bank
                        \/ Redirected(v, object[n].bank)
      BY DEF BankChangesVerified, Redirected
    <2> DEFINE S == {m \in DOMAIN object : object[m].vendor = v}
               First(m) == object[m].vendor = v /\ \A k \in 1..(m - 1) : object[k].vendor # v
    <2>1. n \in S
      BY DEF PurchasesInvariant, VendorInvariant, KeysLead, ObjectsOf
    <2>2. S \in SUBSET Nat
      BY VendorsRead DEF PurchasesInvariant
    <2>3. PICK m \in S : \A k \in S : m <= k
      <3> HIDE DEF S
      <3> QED BY <2>1, <2>2, SmallestNat
    <2>4. m \in DOMAIN object /\ First(m)
      <3>1. \A k \in 1..(m - 1) : k \in DOMAIN object /\ ~(m <= k)
        BY <2>2, <2>3, VendorsRead DEF PurchasesInvariant
      <3> QED BY <2>3, <3>1
    <2>5. PICK f \in DOMAIN object : First(f) /\ f = CHOOSE l \in DOMAIN object : First(l)
      <3> HIDE DEF First
      <3> QED BY <2>4
    <2>6. object[n].vendor = object[f].vendor /\ IsFirst(f)
      BY <2>1, <2>5 DEF IsFirst
    <2>7. object[n].bank = object[f].bank \/ Redirected(v, object[n].bank)
      BY <2>1, <2>6 DEF PurchasesInvariant, VendorInvariant, BanksTold
    <2> QED BY <2>5, <2>7
  <1> QED BY <1>1, <1>2, <1>3, PurchasesStart, PurchasesStep, PTL DEF PurchasesSpec, PurchasesSound

-----------------------------------------------------------------------------
(* Approvals.  DecisionsStand alone is not inductive: that a request is decided *)
(* once rests on the map showing as pending only what is not decided, and that  *)
(* rows name the request decided on their being kept under its own identifier.  *)

\* The map and the rows keep requests under their own identifiers.
OwnIdentifiers ==
  \A id \in ApprovalIds \cup {Sample} :
    /\ approval[id] # None => asked[approval[id].number].id = id
    /\ requestRow[id] # None => asked[requestRow[id]].id = id

\* What is pending has not been decided.
PendingUndecided ==
  \A id \in ApprovalIds \cup {Sample}, d \in DOMAIN decisions :
    approval[id] # None /\ approval[id].status = "pending" =>
      decisions[d].number # approval[id].number

ApprovalsInvariant ==
  ApprovalsTypeOK /\ OwnIdentifiers /\ PendingUndecided /\ DecisionsStand

AnyId == ApprovalIds \cup {Sample}
Entry == [number: DOMAIN asked, status: Outcomes \cup {"pending"}]

-----------------------------------------------------------------------------
(* What the steps have in common. *)

LEMMA ApprovalLengths ==
  ASSUME ApprovalsTypeOK
  PROVE  /\ Len(asked) \in Nat /\ DOMAIN asked = 1..Len(asked)
         /\ Len(decisions) \in Nat /\ DOMAIN decisions = 1..Len(decisions)
         /\ \A n \in DOMAIN asked : asked[n] \in Request
         /\ \A d \in DOMAIN decisions : decisions[d] \in Decision
  BY DEF ApprovalsTypeOK

\* A request that is made has the next number and leaves the others as they are.
LEMMA Asking ==
  ASSUME ApprovalsTypeOK, NEW r \in Request, asked' = Append(asked, r)
  PROVE  /\ asked' \in Seq(Request)
         /\ DOMAIN asked' = DOMAIN asked \cup {Len(asked) + 1}
         /\ Len(asked) + 1 \notin DOMAIN asked
         /\ asked'[Len(asked) + 1] = r
         /\ \A n \in DOMAIN asked : asked'[n] = asked[n]
<1>1. asked \in Seq(Request) /\ Len(asked) \in Nat /\ DOMAIN asked = 1..Len(asked)
  BY ApprovalLengths DEF ApprovalsTypeOK
<1> QED
  BY <1>1

\* A statement about a request that ends changes its step only.
LEMMA Answering ==
  ASSUME ApprovalsTypeOK, NEW n \in DOMAIN asked, asked' = [asked EXCEPT ![n].step = "answered"]
  PROVE  /\ asked' \in Seq(Request) /\ DOMAIN asked' = DOMAIN asked
         /\ \A m \in DOMAIN asked : /\ asked'[m].id = asked[m].id
                                    /\ asked'[m].target = asked[m].target
                                    /\ asked'[m].requester = asked[m].requester
<1> DEFINE r == [asked[n] EXCEPT !.step = "answered"]
<1>1. asked[n] \in Request /\ n \in 1..Len(asked) /\ asked \in Seq(Request)
  BY ApprovalLengths DEF ApprovalsTypeOK
<1>2. r \in Request /\ r.id = asked[n].id /\ r.target = asked[n].target
      /\ r.requester = asked[n].requester
  BY <1>1 DEF Request
<1>3. asked' = [asked EXCEPT ![n] = r]
  OBVIOUS
<1>4. asked' \in Seq(Request)
  BY <1>1, <1>2, <1>3, ExceptSeq
<1>5. DOMAIN asked' = DOMAIN asked /\ \A m \in DOMAIN asked : asked'[m] = IF m = n THEN r ELSE asked[m]
  BY <1>3
<1> QED
  BY <1>2, <1>4, <1>5

\* A statement about a decision that ends changes its step only.
LEMMA Stepping ==
  ASSUME ApprovalsTypeOK, NEW d \in DOMAIN decisions, NEW s \in {"recorded", "unrecorded"},
         decisions' = [decisions EXCEPT ![d].step = s]
  PROVE  /\ decisions' \in Seq(Decision) /\ DOMAIN decisions' = DOMAIN decisions
         /\ decisions'[d].step = s
         /\ \A e \in DOMAIN decisions : /\ decisions'[e].number = decisions[e].number
                                        /\ decisions'[e].target = decisions[e].target
                                        /\ decisions'[e].decider = decisions[e].decider
                                        /\ decisions'[e].outcome = decisions[e].outcome
                                        /\ e # d => decisions'[e].step = decisions[e].step
<1> DEFINE r == [decisions[d] EXCEPT !.step = s]
<1>1. decisions[d] \in Decision /\ d \in 1..Len(decisions) /\ decisions \in Seq(Decision)
  BY ApprovalLengths DEF ApprovalsTypeOK
<1>2. r \in Decision /\ r.number = decisions[d].number /\ r.target = decisions[d].target
      /\ r.decider = decisions[d].decider /\ r.outcome = decisions[d].outcome /\ r.step = s
  BY <1>1 DEF Decision
<1>3. decisions' = [decisions EXCEPT ![d] = r]
  OBVIOUS
<1>4. decisions' \in Seq(Decision)
  BY <1>1, <1>2, <1>3, ExceptSeq
<1>5. DOMAIN decisions' = DOMAIN decisions
      /\ \A e \in DOMAIN decisions : decisions'[e] = IF e = d THEN r ELSE decisions[e]
  BY <1>3
<1> QED
  BY <1>2, <1>4, <1>5

-----------------------------------------------------------------------------
(* The steps. *)

LEMMA InitialApprovals == ApprovalsInit => ApprovalsInvariant
<1> SUFFICES ASSUME ApprovalsInit PROVE ApprovalsInvariant
  OBVIOUS
<1>1. SampleRequest \in Request /\ SampleRequest.id = Sample
  BY SampleAssumption DEF SampleRequest, Request
<1>2. asked = <<SampleRequest>> /\ asked \in Seq(Request) /\ DOMAIN asked = {1} /\ asked[1] = SampleRequest
  BY <1>1 DEF ApprovalsInit
<1>3. decisions = <<>> /\ decisions \in Seq(Decision) /\ DOMAIN decisions = {}
  BY DEF ApprovalsInit
<1>4. Pending(1) \in Entry /\ Pending(1).number = 1 /\ Pending(1).status = "pending"
  BY <1>2 DEF Pending, Entry
<1>5. approval \in [AnyId -> {None} \cup Entry]
      /\ \A id \in AnyId : approval[id] = IF id = Sample THEN Pending(1) ELSE None
  BY <1>4 DEF ApprovalsInit, AnyId
<1>6. ApprovalsTypeOK
  BY <1>2, <1>3, <1>5 DEF ApprovalsTypeOK, ApprovalsInit, AnyId, Entry
<1>7. OwnIdentifiers
  BY <1>1, <1>2, <1>4, <1>5 DEF OwnIdentifiers, ApprovalsInit, AnyId
<1>8. MapTellsDecision
  BY <1>4, <1>5 DEF MapTellsDecision, AnyId
<1> QED
  BY <1>3, <1>6, <1>7, <1>8
  DEF ApprovalsInvariant, PendingUndecided, DecisionsStand, DecidedOnce, DecidedAsReviewed,
      Independent, RowsTellDecision

\* A request made under any identifier is pending; what was decided before is another request.
LEMMA ApprovalRequestKeeps ==
  ASSUME ApprovalsInvariant, NEW p \in Staff, NEW id \in ApprovalIds, NEW t \in Targets,
         RequestApproval(p, id, t)
  PROVE  ApprovalsInvariant'
<1> DEFINE r == [id |-> id, requester |-> p, target |-> t, step |-> "sent"]
           n == Len(asked) + 1
<1>1. r \in Request /\ r.id = id /\ ApprovalsTypeOK
  BY DEF Request, ApprovalsInvariant
<1>2. /\ asked' \in Seq(Request) /\ DOMAIN asked' = DOMAIN asked \cup {n} /\ n \notin DOMAIN asked
      /\ asked'[n] = r /\ \A m \in DOMAIN asked : asked'[m] = asked[m]
  BY <1>1, Asking DEF RequestApproval
<1>3. Pending(n).number = n /\ Pending(n).status = "pending"
      /\ Pending(n) \in Entry' 
  BY <1>2 DEF Pending, Entry
<1>4. UNCHANGED <<requestRow, decisions, screen>>
  BY DEF RequestApproval
<1>5. approval \in [AnyId -> {None} \cup Entry] /\ id \in AnyId
  BY <1>1 DEF ApprovalsTypeOK, AnyId, Entry
<1>6. Entry \subseteq Entry'
  BY <1>2 DEF Entry
<1>7. approval' = [approval EXCEPT ![id] = Pending(n)]
  BY DEF RequestApproval
<1>8. approval' \in [AnyId -> {None} \cup Entry']
      /\ \A j \in AnyId : approval'[j] = IF j = id THEN Pending(n) ELSE approval[j]
  BY <1>3, <1>5, <1>6, <1>7
<1>9. \A j \in AnyId : approval[j] # None => approval[j].number \in DOMAIN asked
  BY <1>5 DEF Entry
<1>10. \A d \in DOMAIN decisions : decisions[d].number \in DOMAIN asked
  BY <1>1 DEF ApprovalsTypeOK
<1>11. \A j \in AnyId : requestRow[j] # None => requestRow[j] \in DOMAIN asked
  BY <1>1 DEF ApprovalsTypeOK, AnyId
<1>12. ApprovalsTypeOK'
  <2>1. (approval \in [ApprovalIds \cup {Sample} ->
           {None} \cup [number: DOMAIN asked, status: Outcomes \cup {"pending"}]])'
    BY <1>8 DEF AnyId, Entry
  <2> QED
    BY <1>1, <1>2, <1>4, <2>1 DEF ApprovalsTypeOK, Outcomes
<1>13. OwnIdentifiers'
  <2>1. \A j \in AnyId : approval'[j] # None => asked'[approval'[j].number].id = j
    BY <1>1, <1>2, <1>3, <1>8, <1>9 DEF OwnIdentifiers, ApprovalsInvariant, AnyId
  <2>2. \A j \in AnyId : requestRow'[j] # None => asked'[requestRow'[j]].id = j
    BY <1>2, <1>4, <1>11 DEF OwnIdentifiers, ApprovalsInvariant, AnyId
  <2> QED
    BY <2>1, <2>2 DEF OwnIdentifiers, AnyId
<1>14. PendingUndecided'
  BY <1>2, <1>3, <1>4, <1>8, <1>10 DEF PendingUndecided, ApprovalsInvariant, AnyId
<1>15. DecidedOnce' /\ DecidedAsReviewed' /\ Independent'
  BY <1>2, <1>4, <1>10
  DEF ApprovalsInvariant, DecisionsStand, DecidedOnce, DecidedAsReviewed, Independent
<1>16. MapTellsDecision'
  <2>1. DOMAIN approval' = AnyId /\ DOMAIN approval = AnyId
    BY <1>5, <1>8
  <2> QED
    BY <1>3, <1>4, <1>8, <2>1 DEF ApprovalsInvariant, DecisionsStand, MapTellsDecision
<1>17. RowsTellDecision'
  <2>1. RowsTellDecision
    BY DEF ApprovalsInvariant, DecisionsStand
  <2>2. \A m \in DOMAIN asked : Shared(m) => (\E k \in DOMAIN asked' : k # m /\ asked'[k].id = asked'[m].id)
    BY <1>2 DEF Shared
  <2> QED
    BY <1>2, <1>4, <1>10, <2>1, <2>2 DEF RowsTellDecision, Shared
<1> QED
  BY <1>12, <1>13, <1>14, <1>15, <1>16, <1>17 DEF ApprovalsInvariant, DecisionsStand

\* The end of a request's statement changes none of what was asked.
LEMMA StoreKeeps ==
  ASSUME ApprovalsInvariant, NEW n \in DOMAIN asked, StoreRequest(n) \/ RequestNotStored(n)
  PROVE  ApprovalsInvariant'
<1>1. ApprovalsTypeOK /\ n \in Nat
  BY ApprovalLengths DEF ApprovalsInvariant
<1>2. /\ asked' \in Seq(Request) /\ DOMAIN asked' = DOMAIN asked
      /\ \A m \in DOMAIN asked : /\ asked'[m].id = asked[m].id
                                 /\ asked'[m].target = asked[m].target
                                 /\ asked'[m].requester = asked[m].requester
  BY <1>1, Answering DEF StoreRequest, RequestNotStored
<1>3. UNCHANGED <<approval, decisions, screen>>
  BY DEF StoreRequest, RequestNotStored
<1>4. asked[n].id \in AnyId /\ n # None
  BY <1>1, ApprovalLengths, SampleAssumption DEF Request, AnyId
<1>5. requestRow \in [AnyId -> {None} \cup DOMAIN asked]
  BY <1>1 DEF ApprovalsTypeOK, AnyId
<1>6. /\ requestRow' \in [AnyId -> {None} \cup DOMAIN asked]
      /\ \A id \in AnyId : requestRow[id] # None => requestRow'[id] = requestRow[id]
      /\ \A id \in AnyId : requestRow'[id] # None =>
           requestRow'[id] = requestRow[id] \/ (requestRow'[id] = n /\ id = asked[n].id)
  BY <1>4, <1>5 DEF StoreRequest, RequestNotStored
<1>7. \A d \in DOMAIN decisions : decisions[d].number \in DOMAIN asked
                                  /\ asked[decisions[d].number].id \in AnyId
  BY <1>1, ApprovalLengths DEF ApprovalsTypeOK, Request, AnyId
<1>8. \A id \in AnyId : approval[id] # None => approval[id].number \in DOMAIN asked
  BY <1>1 DEF ApprovalsTypeOK, AnyId
<1>9. ApprovalsTypeOK'
  BY <1>1, <1>2, <1>3, <1>6 DEF ApprovalsTypeOK, AnyId, Outcomes
<1>10. OwnIdentifiers'
  <2>1. \A id \in AnyId : approval'[id] # None => asked'[approval'[id].number].id = id
    BY <1>2, <1>3, <1>8 DEF ApprovalsInvariant, OwnIdentifiers, AnyId
  <2>2. \A id \in AnyId : requestRow[id] # None => requestRow[id] \in DOMAIN asked
                                                   /\ asked[requestRow[id]].id = id
    BY <1>5 DEF ApprovalsInvariant, OwnIdentifiers, AnyId
  <2>3. \A id \in AnyId : requestRow'[id] # None => asked'[requestRow'[id]].id = id
    BY <1>2, <1>6, <2>2
  <2> QED
    BY <2>1, <2>3 DEF OwnIdentifiers, AnyId
<1>11. PendingUndecided' /\ MapTellsDecision' /\ DecidedOnce'
  BY <1>3
  DEF ApprovalsInvariant, DecisionsStand, PendingUndecided, MapTellsDecision, DecidedOnce
<1>12. DecidedAsReviewed' /\ Independent'
  BY <1>2, <1>3, <1>7 DEF ApprovalsInvariant, DecisionsStand, DecidedAsReviewed, Independent
<1>13. RowsTellDecision'
  <2>1. \A d \in DOMAIN decisions : decisions[d].step = "recorded" =>
          /\ requestRow[asked[decisions[d].number].id] # None
          /\ ~Shared(decisions[d].number) => requestRow[asked[decisions[d].number].id] = decisions[d].number
    BY DEF ApprovalsInvariant, DecisionsStand, RowsTellDecision
  <2>2. \A m \in DOMAIN asked : Shared(m) => (\E k \in DOMAIN asked' : k # m /\ asked'[k].id = asked'[m].id)
    BY <1>2 DEF Shared
  <2>3. \A d \in DOMAIN decisions : decisions[d].step = "recorded" =>
          requestRow'[asked'[decisions[d].number].id] = requestRow[asked[decisions[d].number].id]
    BY <1>2, <1>6, <1>7, <2>1
  <2> QED
    BY <1>3, <1>7, <2>1, <2>2, <2>3 DEF RowsTellDecision, Shared
<1> QED
  BY <1>9, <1>10, <1>11, <1>12, <1>13 DEF ApprovalsInvariant, DecisionsStand

\* Opening a request shows its target.
LEMMA ShowKeeps ==
  ASSUME ApprovalsInvariant, NEW p \in Staff, NEW id \in AnyId, ShowApproval(p, id)
  PROVE  ApprovalsInvariant'
<1>1. UNCHANGED <<approval, asked, requestRow, decisions>>
  BY DEF ShowApproval
<1>2. approval[id].number \in DOMAIN asked
  BY DEF ApprovalsInvariant, ApprovalsTypeOK, ShowApproval, AnyId
<1>3. asked[approval[id].number].target \in Targets
  BY <1>2, ApprovalLengths DEF ApprovalsInvariant, Request
<1>4. ApprovalsTypeOK'
  BY <1>1, <1>3 DEF ApprovalsInvariant, ApprovalsTypeOK, ShowApproval, AnyId, Outcomes
<1>5. OwnIdentifiers' /\ PendingUndecided' /\ DecidedOnce' /\ DecidedAsReviewed' /\ Independent'
      /\ MapTellsDecision'
  BY <1>1
  DEF ApprovalsInvariant, DecisionsStand, OwnIdentifiers, PendingUndecided, DecidedOnce,
      DecidedAsReviewed, Independent, MapTellsDecision
<1>6. RowsTellDecision'
  BY <1>1 DEF ApprovalsInvariant, DecisionsStand, RowsTellDecision, Shared
<1> QED
  BY <1>4, <1>5, <1>6 DEF ApprovalsInvariant, DecisionsStand

\* Only what is pending is decided, so that its number is not among the decisions.
LEMMA DecideKeeps ==
  ASSUME ApprovalsInvariant, NEW p \in Staff, NEW outcome \in Outcomes, DecideApproval(p, outcome)
  PROVE  ApprovalsInvariant'
<1> DEFINE id == screen[p].id
           n == approval[id].number
           new == [number |-> n, target |-> screen[p].target, decider |-> p,
                   outcome |-> outcome, step |-> "sent"]
           k == Len(decisions) + 1
<1>1. ApprovalsTypeOK /\ screen[p] \in [id: AnyId, target: Targets]
  BY DEF ApprovalsInvariant, ApprovalsTypeOK, DecideApproval, AnyId
<1>2. id \in AnyId /\ screen[p].target \in Targets
  BY <1>1
<1>3. approval \in [AnyId -> {None} \cup Entry]
  BY <1>1 DEF ApprovalsTypeOK, AnyId, Entry
<1>4. approval[id] \in Entry /\ approval[id].status = "pending" /\ asked[n].target = screen[p].target
  BY <1>2, <1>3 DEF DecideApproval, Open
<1>5. n \in DOMAIN asked /\ n \in Nat
  BY <1>1, <1>4, ApprovalLengths DEF Entry
<1>6. new \in Decision
  BY <1>2, <1>5 DEF Decision
<1>7. decisions \in Seq(Decision) /\ Len(decisions) \in Nat /\ DOMAIN decisions = 1..Len(decisions)
  BY <1>1, ApprovalLengths DEF ApprovalsTypeOK
<1>8. decisions' = Append(decisions, new) /\ UNCHANGED <<asked, requestRow>>
  BY DEF DecideApproval
<1>9. /\ decisions' \in Seq(Decision) /\ DOMAIN decisions' = DOMAIN decisions \cup {k}
      /\ k \notin DOMAIN decisions /\ decisions'[k] = new
      /\ \A d \in DOMAIN decisions : decisions'[d] = decisions[d]
  BY <1>6, <1>7, <1>8
<1>10. \A d \in DOMAIN decisions : decisions[d].number # n
  BY <1>2, <1>4, SampleAssumption DEF ApprovalsInvariant, PendingUndecided, AnyId, DecideApproval, Open
<1> DEFINE entry == [approval[id] EXCEPT !.status = outcome]
<1>11. entry \in Entry /\ entry.number = n /\ entry.status = outcome /\ outcome # "pending"
  BY <1>4 DEF Entry, Outcomes
<1>12. approval' = [approval EXCEPT ![id] = entry]
  BY DEF DecideApproval
<1>13. approval' \in [AnyId -> {None} \cup Entry]
       /\ \A j \in AnyId : approval'[j] = IF j = id THEN entry ELSE approval[j]
  BY <1>2, <1>3, <1>11, <1>12
<1>14. ApprovalsTypeOK'
  <2>1. (approval \in [ApprovalIds \cup {Sample} ->
           {None} \cup [number: DOMAIN asked, status: Outcomes \cup {"pending"}]])'
    BY <1>8, <1>13 DEF AnyId, Entry, Outcomes
  <2>2. (\A d \in DOMAIN decisions : decisions[d].number \in DOMAIN asked)'
    BY <1>1, <1>5, <1>8, <1>9 DEF ApprovalsTypeOK
  <2>3. (screen \in [Staff -> {None} \cup [id: ApprovalIds \cup {Sample}, target: Targets]])'
    BY <1>1 DEF ApprovalsTypeOK, DecideApproval
  <2> QED
    BY <1>1, <1>8, <1>9, <2>1, <2>2, <2>3 DEF ApprovalsTypeOK
<1>15. OwnIdentifiers'
  BY <1>2, <1>3, <1>4, <1>8, <1>11, <1>13 DEF ApprovalsInvariant, OwnIdentifiers, AnyId, DecideApproval, Open
<1>16. PendingUndecided'
  <2> SUFFICES ASSUME NEW j \in AnyId, NEW d \in DOMAIN decisions',
                      approval'[j] # None, approval'[j].status = "pending"
               PROVE  decisions'[d].number # approval'[j].number
    BY DEF PendingUndecided, AnyId
  <2>1. j # id /\ approval'[j] = approval[j]
    BY <1>11, <1>13
  <2>2. CASE d \in DOMAIN decisions
    BY <1>9, <2>1, <2>2 DEF ApprovalsInvariant, PendingUndecided, AnyId
  <2>3. CASE d = k
    <3>1. asked[approval[j].number].id = j /\ asked[n].id = id
      BY <1>2, <2>1 DEF ApprovalsInvariant, OwnIdentifiers, AnyId, DecideApproval, Open
    <3> QED
      BY <1>9, <2>1, <2>3, <3>1
  <2> QED
    BY <1>9, <2>2, <2>3
<1>17. DecidedOnce' /\ DecidedAsReviewed'
  <2>1. new.number = n /\ new.target = asked[n].target
    BY <1>4
  <2> HIDE DEF n, new
  <2>2. DecidedOnce'
    BY <1>9, <1>10, <2>1 DEF ApprovalsInvariant, DecisionsStand, DecidedOnce
  <2>3. DecidedAsReviewed'
    BY <1>8, <1>9, <2>1 DEF ApprovalsInvariant, DecisionsStand, DecidedAsReviewed
  <2> QED
    BY <2>2, <2>3
<1>18. Independent'
  BY <1>8, <1>9 DEF ApprovalsInvariant, DecisionsStand, Independent, DecideApproval, MayDecide
<1>19. MapTellsDecision'
  <2> SUFFICES ASSUME NEW j \in AnyId, approval'[j] # None, approval'[j].status # "pending"
               PROVE  \E d \in DOMAIN decisions' :
                        decisions'[d].number = approval'[j].number
                        /\ decisions'[d].outcome = approval'[j].status
    BY <1>13 DEF MapTellsDecision
  <2>1. CASE j = id
    <3>1. k \in DOMAIN decisions' /\ decisions'[k].number = n /\ decisions'[k].outcome = outcome
      BY <1>9
    <3>2. approval'[j].number = n /\ approval'[j].status = outcome
      BY <1>11, <1>13, <2>1
    <3> QED
      BY <3>1, <3>2
  <2>2. CASE j # id
    <3>1. PICK d \in DOMAIN decisions : decisions[d].number = approval[j].number
                                        /\ decisions[d].outcome = approval[j].status
      BY <1>3, <1>13, <2>2 DEF ApprovalsInvariant, DecisionsStand, MapTellsDecision
    <3> QED
      BY <1>9, <1>13, <2>2, <3>1
  <2> QED
    BY <2>1, <2>2
<1>20. RowsTellDecision'
  <2> SUFFICES ASSUME NEW e \in DOMAIN decisions', decisions'[e].step = "recorded"
               PROVE  /\ requestRow[asked[decisions'[e].number].id] # None
                      /\ ~Shared(decisions'[e].number) =>
                           requestRow[asked[decisions'[e].number].id] = decisions'[e].number
    BY <1>8 DEF RowsTellDecision, Shared
  <2>1. e # k
    BY <1>9
  <2>2. e \in DOMAIN decisions /\ decisions'[e] = decisions[e]
    BY <1>9, <2>1
  <2> QED
    BY <2>2 DEF ApprovalsInvariant, DecisionsStand, RowsTellDecision
<1> QED
  BY <1>14, <1>15, <1>16, <1>17, <1>18, <1>19, <1>20 DEF ApprovalsInvariant, DecisionsStand

\* A decision's row refers to the row of its identifier, whose request is the one
\* decided unless the identifier was used again.
LEMMA RecordKeeps ==
  ASSUME ApprovalsInvariant, NEW d \in DOMAIN decisions, RecordDecision(d) \/ DecisionNotRecorded(d)
  PROVE  ApprovalsInvariant'
<1>1. ApprovalsTypeOK /\ UNCHANGED <<approval, asked, requestRow, screen>>
  BY DEF ApprovalsInvariant, RecordDecision, DecisionNotRecorded, To
<1>2. PICK s \in {"recorded", "unrecorded"} :
        /\ decisions' = [decisions EXCEPT ![d].step = s]
        /\ s = "recorded" => requestRow[asked[decisions[d].number].id] # None
  BY DEF RecordDecision, DecisionNotRecorded, To, IdOf
<1>3. /\ decisions' \in Seq(Decision) /\ DOMAIN decisions' = DOMAIN decisions
      /\ decisions'[d].step = s
      /\ \A e \in DOMAIN decisions : /\ decisions'[e].number = decisions[e].number
                                     /\ decisions'[e].target = decisions[e].target
                                     /\ decisions'[e].decider = decisions[e].decider
                                     /\ decisions'[e].outcome = decisions[e].outcome
                                     /\ e # d => decisions'[e].step = decisions[e].step
  BY <1>1, <1>2, Stepping
<1>4. \A e \in DOMAIN decisions : decisions[e].number \in DOMAIN asked
                                  /\ asked[decisions[e].number].id \in AnyId
  BY <1>1, ApprovalLengths DEF ApprovalsTypeOK, Request, AnyId
<1>5. ApprovalsTypeOK'
  BY <1>1, <1>3 DEF ApprovalsTypeOK, Outcomes
<1>6. OwnIdentifiers' /\ PendingUndecided'
  BY <1>1, <1>3 DEF ApprovalsInvariant, OwnIdentifiers, PendingUndecided
<1>7. DecidedOnce' /\ DecidedAsReviewed' /\ Independent' /\ MapTellsDecision'
  BY <1>1, <1>3
  DEF ApprovalsInvariant, DecisionsStand, DecidedOnce, DecidedAsReviewed, Independent, MapTellsDecision
<1>8. RowsTellDecision'
  <2> SUFFICES ASSUME NEW e \in DOMAIN decisions, decisions'[e].step = "recorded"
               PROVE  /\ requestRow[asked[decisions[e].number].id] # None
                      /\ ~Shared(decisions[e].number) =>
                           requestRow[asked[decisions[e].number].id] = decisions[e].number
    BY <1>1, <1>3 DEF RowsTellDecision, Shared
  <2>1. CASE e # d
    BY <1>3, <2>1 DEF ApprovalsInvariant, DecisionsStand, RowsTellDecision
  <2>2. CASE e = d
    <3> DEFINE row == requestRow[asked[decisions[e].number].id]
    <3>1. row # None
      BY <1>2, <1>3, <2>2
    <3>2. row \in DOMAIN asked /\ asked[row].id = asked[decisions[e].number].id
      BY <1>1, <1>4, <3>1 DEF ApprovalsInvariant, ApprovalsTypeOK, OwnIdentifiers, AnyId
    <3> QED
      BY <3>1, <3>2 DEF Shared
  <2> QED
    BY <2>1, <2>2
<1> QED
  BY <1>5, <1>6, <1>7, <1>8 DEF ApprovalsInvariant, DecisionsStand

\* A new process knows of the sample request only, which is another one than before.
LEMMA ApprovalRestartKeeps ==
  ASSUME ApprovalsInvariant, RestartApprovals
  PROVE  ApprovalsInvariant'
<1> DEFINE n == Len(asked) + 1
<1>1. SampleRequest \in Request /\ SampleRequest.id = Sample /\ ApprovalsTypeOK
  BY SampleAssumption DEF SampleRequest, Request, ApprovalsInvariant
<1>2. /\ asked' \in Seq(Request) /\ DOMAIN asked' = DOMAIN asked \cup {n} /\ n \notin DOMAIN asked
      /\ asked'[n] = SampleRequest /\ \A m \in DOMAIN asked : asked'[m] = asked[m]
  BY <1>1, Asking DEF RestartApprovals
<1>3. UNCHANGED <<requestRow, decisions, screen>>
  BY DEF RestartApprovals
<1>4. Pending(n).number = n /\ Pending(n).status = "pending" /\ Pending(n) \in Entry'
  BY <1>2 DEF Pending, Entry
<1>5. approval' \in [AnyId -> {None} \cup Entry']
      /\ \A j \in AnyId : approval'[j] = IF j = Sample THEN Pending(n) ELSE None
  BY <1>4 DEF RestartApprovals, AnyId
<1>6. \A d \in DOMAIN decisions : decisions[d].number \in DOMAIN asked
  BY <1>1 DEF ApprovalsTypeOK
<1>7. \A j \in AnyId : requestRow[j] # None => requestRow[j] \in DOMAIN asked
  BY <1>1 DEF ApprovalsTypeOK, AnyId
<1>8. ApprovalsTypeOK'
  <2>1. (approval \in [ApprovalIds \cup {Sample} ->
           {None} \cup [number: DOMAIN asked, status: Outcomes \cup {"pending"}]])'
    BY <1>5 DEF AnyId, Entry
  <2> QED
    BY <1>1, <1>2, <1>3, <2>1 DEF ApprovalsTypeOK, Outcomes
<1>9. OwnIdentifiers'
  <2>1. \A j \in AnyId : approval'[j] # None => asked'[approval'[j].number].id = j
    BY <1>1, <1>2, <1>4, <1>5
  <2>2. \A j \in AnyId : requestRow'[j] # None => asked'[requestRow'[j]].id = j
    BY <1>2, <1>3, <1>7 DEF OwnIdentifiers, ApprovalsInvariant, AnyId
  <2> QED
    BY <2>1, <2>2 DEF OwnIdentifiers, AnyId
<1>10. PendingUndecided'
  BY <1>2, <1>3, <1>4, <1>5, <1>6 DEF PendingUndecided, AnyId
<1>11. DecidedOnce' /\ DecidedAsReviewed' /\ Independent'
  BY <1>2, <1>3, <1>6
  DEF ApprovalsInvariant, DecisionsStand, DecidedOnce, DecidedAsReviewed, Independent
<1>12. MapTellsDecision'
  BY <1>4, <1>5 DEF MapTellsDecision
<1>13. RowsTellDecision'
  <2>1. RowsTellDecision
    BY DEF ApprovalsInvariant, DecisionsStand
  <2>2. \A m \in DOMAIN asked : Shared(m) => (\E k \in DOMAIN asked' : k # m /\ asked'[k].id = asked'[m].id)
    BY <1>2 DEF Shared
  <2> QED
    BY <1>2, <1>3, <1>6, <2>1, <2>2 DEF RowsTellDecision, Shared
<1> QED
  BY <1>8, <1>9, <1>10, <1>11, <1>12, <1>13 DEF ApprovalsInvariant, DecisionsStand

LEMMA NextKeepsApprovals ==
  ASSUME ApprovalsInvariant, [ApprovalsNext]_approvalVars
  PROVE  ApprovalsInvariant'
<1>1. CASE UNCHANGED approvalVars
  BY <1>1
  DEF approvalVars, ApprovalsInvariant, ApprovalsTypeOK, Outcomes, OwnIdentifiers, PendingUndecided,
      DecisionsStand, DecidedOnce, DecidedAsReviewed, Independent, MapTellsDecision,
      RowsTellDecision, Shared
<1> QED
  BY <1>1, ApprovalRequestKeeps, StoreKeeps, ShowKeeps, DecideKeeps, RecordKeeps, ApprovalRestartKeeps
  DEF ApprovalsNext, AnyId

\* Whoever asks, decides and asks again in whatever order, and whenever the process
\* ends: a request is decided at most once, by another person than the requester and
\* on the version reviewed, and rows name the request decided unless its identifier
\* was used again, for any users, versions and identifiers.
THEOREM DecisionsSafe == ApprovalsSpec => [](ApprovalsTypeOK /\ DecisionsStand)
<1>1. ApprovalsInvariant => ApprovalsTypeOK /\ DecisionsStand
  BY DEF ApprovalsInvariant
<1> QED
  BY <1>1, InitialApprovals, NextKeepsApprovals, PTL DEF ApprovalsSpec
================================================================================
