--------------------------- MODULE BankrollProofs ---------------------------
(* Proofs about Bankroll, for any keys, matches, pipelines, limits, settings  *)
(* and repetitions: first the books (what is recorded, which entry comes      *)
(* last), then the types, then the money (sums over sets of orders).          *)
EXTENDS Bankroll, FiniteSetTheorems, SequenceTheorems, WellFoundedInduction, TLAPS

USE BankrollAssumption

-----------------------------------------------------------------------------
(* Sums over finite sets.  The induction theorems of the library take an      *)
(* operator; an induction here looks at the subsets a claim fails for.        *)

\* Among the sets a claim fails for, one has no smaller one below it.
LEMMA SmallestSet ==
    ASSUME NEW S, IsFiniteSet(S), NEW C, C \subseteq SUBSET S, C # {}
    PROVE  \E T \in C : IsFiniteSet(T) /\ \A U \in SUBSET T : U # T => U \notin C
<1>1. FiniteSubsetsOf(S) = SUBSET S
  BY FS_FiniteSubsetsOfFinite
<1>2. IsWellFoundedOn(StrictSubsetOrdering(S), SUBSET S)
  BY <1>1, FS_StrictSubsetOrderingWellFounded
<1>3. PICK T \in C : \A U \in C : <<U, T>> \notin StrictSubsetOrdering(S)
  BY <1>2, WFMin
<1>4. IsFiniteSet(T)
  BY FS_Subset
<1>5. ASSUME NEW U \in SUBSET T, U # T, U \in C PROVE FALSE
  BY <1>3, <1>5 DEF StrictSubsetOrdering
<1>. QED BY <1>4, <1>5

Some(s) == CHOOSE x \in s : TRUE

\* The sums of f over the subsets of T, each from a smaller one.
Sums(f, T, it) ==
    it = [s \in SUBSET T |-> IF s = {} THEN 0 ELSE f[Some(s)] + it[s \ {Some(s)}]]

TheSums(f, T) == CHOOSE it : Sums(f, T, it)

\* SumFunctionOnSet() is defined by them.
LEMMA SumIsOneOfThem ==
    ASSUME NEW f, NEW S
    PROVE  SumFunctionOnSet(f, S) = TheSums(f, S)[S]
BY DEF SumFunctionOnSet, FoldFunctionOnSet, MapThenFoldSet, TheSums, Sums, Some

LEMMA SumsAgree ==
    ASSUME NEW f, NEW U, NEW T \in SUBSET U, IsFiniteSet(T), NEW a, Sums(f, T, a), NEW b, Sums(f, U, b)
    PROVE  a[T] = b[T]
<1>. DEFINE C == {s \in SUBSET T : a[s] # b[s]}
<1>1. SUFFICES ASSUME C # {} PROVE FALSE
  OBVIOUS
<1>2. PICK s \in C : \A r \in SUBSET s : r # s => r \notin C
  <2>1. C \subseteq SUBSET T
    OBVIOUS
  <2>. HIDE DEF C
  <2>. QED BY <1>1, <2>1, SmallestSet
<1>3. /\ a[s] = IF s = {} THEN 0 ELSE f[Some(s)] + a[s \ {Some(s)}]
      /\ b[s] = IF s = {} THEN 0 ELSE f[Some(s)] + b[s \ {Some(s)}]
  BY DEF Sums
<1>4. s # {} => Some(s) \in s
  BY DEF Some
<1>5. s # {} => a[s \ {Some(s)}] = b[s \ {Some(s)}]
  BY <1>2, <1>4
<1>. QED BY <1>3, <1>5

LEMMA SumsExist ==
    ASSUME NEW f, NEW S, IsFiniteSet(S)
    PROVE  Sums(f, S, TheSums(f, S))
<1>. DEFINE C == {T \in SUBSET S : ~Sums(f, T, TheSums(f, T))}
<1>1. SUFFICES ASSUME C # {} PROVE FALSE
  OBVIOUS
<1>2. PICK T \in C : IsFiniteSet(T) /\ \A U \in SUBSET T : U # T => U \notin C
  <2>1. C \subseteq SUBSET S
    OBVIOUS
  <2>. HIDE DEF C
  <2>. QED BY <1>1, <2>1, SmallestSet
<1>3. \A U \in SUBSET T : U # T => Sums(f, U, TheSums(f, U))
  BY <1>2
<1>. DEFINE less(U) == U \ {Some(U)}
            it == [U \in SUBSET T |-> IF U = {} THEN 0 ELSE f[Some(U)] + TheSums(f, less(U))[less(U)]]
<1>4. ASSUME NEW U \in SUBSET T, U # {} PROVE it[less(U)] = TheSums(f, less(U))[less(U)]
  <2>. DEFINE V == less(U)
  <2>1. Some(U) \in U /\ V \in SUBSET T /\ V # T
    BY <1>4 DEF Some
  <2>2. Sums(f, V, TheSums(f, V))
    BY <1>3, <2>1
  <2>3. it[V] = IF V = {} THEN 0 ELSE f[Some(V)] + TheSums(f, less(V))[less(V)]
    BY <2>1
  <2>4. TheSums(f, V)[V] = IF V = {} THEN 0 ELSE f[Some(V)] + TheSums(f, V)[less(V)]
    BY <2>2 DEF Sums
  <2>5. V # {} => TheSums(f, less(V))[less(V)] = TheSums(f, V)[less(V)]
    <3>. SUFFICES ASSUME V # {} PROVE TheSums(f, less(V))[less(V)] = TheSums(f, V)[less(V)]
      OBVIOUS
    <3>1. less(V) \in SUBSET V /\ less(V) \in SUBSET T /\ less(V) # T
      BY <2>1 DEF Some
    <3>2. IsFiniteSet(less(V))
      BY <1>2, <3>1, FS_Subset
    <3>3. Sums(f, less(V), TheSums(f, less(V)))
      BY <1>3, <3>1
    <3>. HIDE DEF less, V
    <3>. QED BY <2>2, <3>1, <3>2, <3>3, SumsAgree
  <2>. HIDE DEF less, it
  <2>. QED BY <2>3, <2>4, <2>5
<1>5. it = [U \in SUBSET T |-> IF U = {} THEN 0 ELSE f[Some(U)] + it[less(U)]]
  <2>. DEFINE jt == [U \in SUBSET T |-> IF U = {} THEN 0 ELSE f[Some(U)] + it[less(U)]]
  <2>1. \A U \in SUBSET T : it[U] = jt[U]
    BY <1>4
  <2>2. it = [U \in SUBSET T |-> it[U]]
    OBVIOUS
  <2>3. jt = [U \in SUBSET T |-> jt[U]]
    OBVIOUS
  <2>. HIDE DEF it, jt
  <2>4. it = jt
    BY <2>1, <2>2, <2>3
  <2>. QED BY <2>4 DEF jt
<1>. HIDE DEF it
<1>6. Sums(f, T, it)
  BY <1>5 DEF Sums
<1>7. Sums(f, T, TheSums(f, T))
  BY <1>6 DEF TheSums
<1>. QED BY <1>2, <1>7

LEMMA SumOfNone == ASSUME NEW f PROVE SumFunctionOnSet(f, {}) = 0
<1>1. Sums(f, {}, TheSums(f, {}))
  BY SumsExist, FS_EmptySet
<1>. QED BY <1>1, SumIsOneOfThem DEF Sums

LEMMA SumOfSome ==
    ASSUME NEW f, NEW S, IsFiniteSet(S), S # {}
    PROVE  /\ Some(S) \in S /\ IsFiniteSet(S \ {Some(S)})
           /\ SumFunctionOnSet(f, S) = f[Some(S)] + SumFunctionOnSet(f, S \ {Some(S)})
<1>. DEFINE T == S \ {Some(S)}
<1>1. Some(S) \in S /\ IsFiniteSet(T)
  BY FS_RemoveElement DEF Some
<1>2. Sums(f, S, TheSums(f, S)) /\ Sums(f, T, TheSums(f, T))
  BY <1>1, SumsExist
<1>3. TheSums(f, S)[S] = f[Some(S)] + TheSums(f, S)[T]
  BY <1>2 DEF Sums
<1>4. TheSums(f, T)[T] = TheSums(f, S)[T]
  <2>1. T \in SUBSET S
    OBVIOUS
  <2>. HIDE DEF T
  <2>. QED BY <1>1, <1>2, <2>1, SumsAgree
<1>. QED BY <1>1, <1>3, <1>4, SumIsOneOfThem

LEMMA SumIsInteger ==
    ASSUME NEW f, NEW S, IsFiniteSet(S), \A x \in S : f[x] \in Int
    PROVE  SumFunctionOnSet(f, S) \in Int
<1>. DEFINE C == {T \in SUBSET S : SumFunctionOnSet(f, T) \notin Int}
<1>1. SUFFICES ASSUME C # {} PROVE FALSE
  OBVIOUS
<1>2. PICK T \in C : IsFiniteSet(T) /\ \A U \in SUBSET T : U # T => U \notin C
  <2>1. C \subseteq SUBSET S
    OBVIOUS
  <2>. HIDE DEF C
  <2>. QED BY <1>1, <2>1, SmallestSet
<1>3. CASE T = {}
  BY <1>3, SumOfNone
<1>4. CASE T # {}
  <2>1. /\ Some(T) \in T
        /\ SumFunctionOnSet(f, T) = f[Some(T)] + SumFunctionOnSet(f, T \ {Some(T)})
    BY <1>2, <1>4, SumOfSome
  <2>2. SumFunctionOnSet(f, T \ {Some(T)}) \in Int
    BY <1>2, <2>1
  <2>. QED BY <2>1, <2>2
<1>. QED BY <1>3, <1>4

LEMMA SumIsNatural ==
    ASSUME NEW f, NEW S, IsFiniteSet(S), \A x \in S : f[x] \in Nat
    PROVE  SumFunctionOnSet(f, S) \in Nat
<1>. DEFINE C == {T \in SUBSET S : SumFunctionOnSet(f, T) \notin Nat}
<1>1. SUFFICES ASSUME C # {} PROVE FALSE
  OBVIOUS
<1>2. PICK T \in C : IsFiniteSet(T) /\ \A U \in SUBSET T : U # T => U \notin C
  <2>1. C \subseteq SUBSET S
    OBVIOUS
  <2>. HIDE DEF C
  <2>. QED BY <1>1, <2>1, SmallestSet
<1>3. CASE T = {}
  BY <1>3, SumOfNone
<1>4. CASE T # {}
  <2>1. /\ Some(T) \in T
        /\ SumFunctionOnSet(f, T) = f[Some(T)] + SumFunctionOnSet(f, T \ {Some(T)})
    BY <1>2, <1>4, SumOfSome
  <2>2. SumFunctionOnSet(f, T \ {Some(T)}) \in Nat
    BY <1>2, <2>1
  <2>. QED BY <2>1, <2>2
<1>. QED BY <1>3, <1>4

\* A sum looks at the values of its own elements only.
LEMMA SumOfSameValues ==
    ASSUME NEW f, NEW g, NEW S, IsFiniteSet(S), \A x \in S : f[x] = g[x]
    PROVE  SumFunctionOnSet(f, S) = SumFunctionOnSet(g, S)
<1>. DEFINE C == {T \in SUBSET S : SumFunctionOnSet(f, T) # SumFunctionOnSet(g, T)}
<1>1. SUFFICES ASSUME C # {} PROVE FALSE
  OBVIOUS
<1>2. PICK T \in C : IsFiniteSet(T) /\ \A U \in SUBSET T : U # T => U \notin C
  <2>1. C \subseteq SUBSET S
    OBVIOUS
  <2>. HIDE DEF C
  <2>. QED BY <1>1, <2>1, SmallestSet
<1>3. CASE T = {}
  BY <1>3, SumOfNone
<1>4. CASE T # {}
  <2>1. /\ Some(T) \in T
        /\ SumFunctionOnSet(f, T) = f[Some(T)] + SumFunctionOnSet(f, T \ {Some(T)})
        /\ SumFunctionOnSet(g, T) = g[Some(T)] + SumFunctionOnSet(g, T \ {Some(T)})
    BY <1>2, <1>4, SumOfSome
  <2>2. SumFunctionOnSet(f, T \ {Some(T)}) = SumFunctionOnSet(g, T \ {Some(T)})
    BY <1>2, <2>1
  <2>. QED BY <2>1, <2>2
<1>. QED BY <1>3, <1>4

\* Whichever element is taken out first.
LEMMA SumTakesOut ==
    ASSUME NEW f, NEW S, IsFiniteSet(S), \A x \in S : f[x] \in Int, NEW e \in S
    PROVE  SumFunctionOnSet(f, S) = f[e] + SumFunctionOnSet(f, S \ {e})
<1>. DEFINE Out(T, x) == SumFunctionOnSet(f, T) = f[x] + SumFunctionOnSet(f, T \ {x})
<1>. DEFINE C == {T \in SUBSET S : \E x \in T : ~Out(T, x)}
<1>1. SUFFICES ASSUME C # {} PROVE FALSE
  OBVIOUS
<1>2. PICK T \in C : IsFiniteSet(T) /\ \A U \in SUBSET T : U # T => U \notin C
  <2>1. C \subseteq SUBSET S
    OBVIOUS
  <2>. HIDE DEF C
  <2>. QED BY <1>1, <2>1, SmallestSet
<1>3. PICK x \in T : ~Out(T, x)
  OBVIOUS
<1>. DEFINE y == Some(T)
<1>4. y \in T /\ Out(T, y)
  BY <1>2, <1>3, SumOfSome
<1>5. x # y
  BY <1>3, <1>4
<1>6. Out(T \ {y}, x) /\ Out(T \ {x}, y)
  BY <1>2, <1>4, <1>5
<1>. DEFINE U == T \ {x, y}
<1>7. (T \ {y}) \ {x} = U /\ (T \ {x}) \ {y} = U /\ IsFiniteSet(U)
  BY <1>2, FS_Subset
<1>8. SumFunctionOnSet(f, U) \in Int /\ f[x] \in Int /\ f[y] \in Int
  BY <1>4, <1>7, SumIsInteger
<1>9. /\ SumFunctionOnSet(f, T) = f[y] + SumFunctionOnSet(f, T \ {y})
      /\ SumFunctionOnSet(f, T \ {y}) = f[x] + SumFunctionOnSet(f, U)
      /\ SumFunctionOnSet(f, T \ {x}) = f[y] + SumFunctionOnSet(f, U)
      /\ SumFunctionOnSet(f, T) # f[x] + SumFunctionOnSet(f, T \ {x})
  BY <1>3, <1>4, <1>6, <1>7
<1>. HIDE DEF C, U, y
<1>. QED BY <1>8, <1>9

LEMMA SumTakesIn ==
    ASSUME NEW f, NEW S, IsFiniteSet(S), NEW e, e \notin S, \A x \in S \cup {e} : f[x] \in Int
    PROVE  SumFunctionOnSet(f, S \cup {e}) = SumFunctionOnSet(f, S) + f[e]
<1>1. IsFiniteSet(S \cup {e}) /\ (S \cup {e}) \ {e} = S
  BY FS_AddElement
<1>2. SumFunctionOnSet(f, S \cup {e}) = f[e] + SumFunctionOnSet(f, S)
  BY <1>1, SumTakesOut
<1>3. SumFunctionOnSet(f, S) \in Int /\ f[e] \in Int
  BY SumIsInteger
<1>. QED BY <1>2, <1>3

LEMMA SumOfParts ==
    ASSUME NEW f, NEW S, IsFiniteSet(S), NEW R, IsFiniteSet(R), S \cap R = {},
           \A x \in S \cup R : f[x] \in Int
    PROVE  SumFunctionOnSet(f, S \cup R) = SumFunctionOnSet(f, S) + SumFunctionOnSet(f, R)
<1>. DEFINE Added(T) == SumFunctionOnSet(f, S \cup T) = SumFunctionOnSet(f, S) + SumFunctionOnSet(f, T)
<1>. DEFINE C == {T \in SUBSET R : ~Added(T)}
<1>1. SUFFICES ASSUME C # {} PROVE FALSE
  OBVIOUS
<1>2. PICK T \in C : IsFiniteSet(T) /\ \A U \in SUBSET T : U # T => U \notin C
  <2>1. C \subseteq SUBSET R
    OBVIOUS
  <2>. HIDE DEF C
  <2>. QED BY <1>1, <2>1, SmallestSet
<1>3. SumFunctionOnSet(f, S) \in Int
  BY SumIsInteger
<1>4. CASE T = {}
  <2>1. S \cup T = S
    BY <1>4
  <2>. QED BY <1>3, <1>4, <2>1, SumOfNone
<1>5. CASE T # {}
  <2>1. PICK x \in T : TRUE
    BY <1>5
  <2>. DEFINE U == T \ {x}
  <2>2. Added(U) /\ IsFiniteSet(U) /\ U \cup {x} = T /\ x \notin U
    BY <1>2, <2>1, FS_RemoveElement
  <2>3. IsFiniteSet(S \cup U) /\ (S \cup U) \cup {x} = S \cup T /\ x \notin S \cup U
    BY <2>1, <2>2, FS_Union
  <2>4. SumFunctionOnSet(f, S \cup T) = SumFunctionOnSet(f, S \cup U) + f[x]
    <3>1. \A z \in (S \cup U) \cup {x} : f[z] \in Int
      BY <2>1
    <3>. HIDE DEF U
    <3>. QED BY <2>3, <3>1, SumTakesIn
  <2>5. SumFunctionOnSet(f, T) = SumFunctionOnSet(f, U) + f[x]
    <3>1. \A z \in U \cup {x} : f[z] \in Int
      BY <2>1
    <3>. HIDE DEF U
    <3>. QED BY <2>2, <3>1, SumTakesIn
  <2>6. SumFunctionOnSet(f, U) \in Int /\ f[x] \in Int
    BY <2>1, <2>2, SumIsInteger
  <2>7. SumFunctionOnSet(f, S \cup U) = SumFunctionOnSet(f, S) + SumFunctionOnSet(f, U)
    BY <2>2
  <2>8. ~Added(T)
    OBVIOUS
  <2>. HIDE DEF U, C
  <2>. QED BY <1>3, <2>4, <2>5, <2>6, <2>7, <2>8
<1>. QED BY <1>4, <1>5

\* The sum of sums.
LEMMA SumOfSums ==
    ASSUME NEW f, NEW g, NEW h, NEW S, IsFiniteSet(S),
           \A x \in S : f[x] \in Int /\ g[x] \in Int /\ h[x] = f[x] + g[x]
    PROVE  SumFunctionOnSet(h, S) = SumFunctionOnSet(f, S) + SumFunctionOnSet(g, S)
<1>. DEFINE Added(T) == SumFunctionOnSet(h, T) = SumFunctionOnSet(f, T) + SumFunctionOnSet(g, T)
<1>. DEFINE C == {T \in SUBSET S : ~Added(T)}
<1>1. SUFFICES ASSUME C # {} PROVE FALSE
  OBVIOUS
<1>2. PICK T \in C : IsFiniteSet(T) /\ \A U \in SUBSET T : U # T => U \notin C
  <2>1. C \subseteq SUBSET S
    OBVIOUS
  <2>. HIDE DEF C
  <2>. QED BY <1>1, <2>1, SmallestSet
<1>3. CASE T = {}
  BY <1>3, SumOfNone
<1>4. CASE T # {}
  <2>. DEFINE x == Some(T)
              U == T \ {x}
  <2>1. /\ x \in T /\ IsFiniteSet(U)
        /\ SumFunctionOnSet(f, T) = f[x] + SumFunctionOnSet(f, U)
        /\ SumFunctionOnSet(g, T) = g[x] + SumFunctionOnSet(g, U)
        /\ SumFunctionOnSet(h, T) = h[x] + SumFunctionOnSet(h, U)
    BY <1>2, <1>4, SumOfSome
  <2>2. Added(U)
    BY <1>2, <2>1
  <2>3. SumFunctionOnSet(f, U) \in Int /\ SumFunctionOnSet(g, U) \in Int
    BY <2>1, SumIsInteger
  <2>4. f[x] \in Int /\ g[x] \in Int /\ h[x] = f[x] + g[x]
    BY <2>1
  <2>5. ~Added(T)
    BY <1>2
  <2>. HIDE DEF U, x, C
  <2>. QED BY <2>1, <2>2, <2>3, <2>4, <2>5
<1>. QED BY <1>3, <1>4
-----------------------------------------------------------------------------
(* The inductive invariant.                                                   *)

\* A sequence, of whatever.
IsLog(log) == log \in Seq({log[i] : i \in DOMAIN log})

Job == [key : Keys, at : 1 .. 8]

TablesInv ==
    /\ repeats \in Nat
    /\ DOMAIN recs = Keys /\ DOMAIN orders = Keys
    /\ pipe \in [Pipelines -> Job \cup {Nothing}]
    /\ recorded \subseteq Keys
    /\ IsLog(ledger)

HasRow(table, k) == table[k].status # "NONE"

\* An entry is about an order, its settlement about a recorded one, and no two
\* entries of a kind are about the same.
LedgerInv ==
    /\ \A i \in DOMAIN ledger :
          /\ ledger[i].key \in Keys /\ HasRow(orders, ledger[i].key)
          /\ ledger[i].kind = "settle" => ledger[i].key \in recorded
    /\ \A i, j \in DOMAIN ledger :
          ledger[i].kind = ledger[j].kind /\ ledger[i].key = ledger[j].key => i = j

\* An order that exists has come through the stages before.
KnownInv ==
    /\ \A k \in recorded : HasRow(orders, k)
    /\ \A k \in Keys : HasRow(orders, k) => HasRow(recs, k)
    /\ \A p \in Pipelines : pipe[p] # Nothing /\ pipe[p].at > 1 => HasRow(recs, pipe[p].key)

\* While nothing is repeated, a key has one pipeline, and no order before that
\* pipeline places it.
FreshInv ==
    repeats = 0 =>
       /\ \A p \in Pipelines : pipe[p] # Nothing /\ pipe[p].at <= 6 => ~HasRow(orders, pipe[p].key)
       /\ \A p, q \in Pipelines :
             pipe[p] # Nothing /\ pipe[q] # Nothing /\ pipe[p].key = pipe[q].key => p = q

BookInv == TablesInv /\ LedgerInv /\ KnownInv /\ FreshInv /\ LedgerTailIsAccount

-----------------------------------------------------------------------------
(* Sequences.                                                                 *)

LEMMA SequencesAreLogs ==
    ASSUME NEW S, NEW s \in Seq(S)
    PROVE  IsLog(s)
<1>. DEFINE R == {s[i] : i \in DOMAIN s}
<1>1. Len(s) \in Nat /\ s \in [1 .. Len(s) -> S] /\ DOMAIN s = 1 .. Len(s)
  BY LenProperties
<1>2. s \in [1 .. Len(s) -> R]
  BY <1>1
<1>. HIDE DEF R
<1>3. s \in Seq(R)
  BY <1>1, <1>2, SeqDef
<1>. QED BY <1>3 DEF IsLog, R

LEMMA LogShape ==
    ASSUME NEW log, IsLog(log)
    PROVE  Len(log) \in Nat /\ DOMAIN log = 1 .. Len(log)
BY LenProperties DEF IsLog

LEMMA ConcatLog ==
    ASSUME NEW log, IsLog(log), NEW f, IsLog(f)
    PROVE  /\ IsLog(log \o f) /\ Len(log \o f) = Len(log) + Len(f)
           /\ \A i \in 1 .. Len(log) : (log \o f)[i] = log[i]
           /\ \A i \in 1 .. Len(f) : (log \o f)[Len(log) + i] = f[i]
<1>. DEFINE S == {log[i] : i \in DOMAIN log} \cup {f[i] : i \in DOMAIN f}
<1>1. Len(log) \in Nat /\ Len(f) \in Nat
  BY LogShape
<1>2. log \in Seq(S)
  BY SeqMonotonic DEF IsLog
<1>3. f \in Seq(S)
  BY SeqMonotonic DEF IsLog
<1>. HIDE DEF S
<1>4. /\ log \o f \in Seq(S) /\ Len(log \o f) = Len(log) + Len(f)
      /\ \A i \in 1 .. Len(log) + Len(f) :
            (log \o f)[i] = IF i <= Len(log) THEN log[i] ELSE f[i - Len(log)]
  BY <1>2, <1>3, SMTT(30)
<1>5. IsLog(log \o f)
  BY <1>4, SequencesAreLogs
<1>6. ASSUME NEW i \in 1 .. Len(log) PROVE (log \o f)[i] = log[i]
  <2>1. i \in 1 .. Len(log) + Len(f) /\ i <= Len(log)
    BY <1>1
  <2>. QED BY <1>4, <2>1
<1>7. ASSUME NEW i \in 1 .. Len(f) PROVE (log \o f)[Len(log) + i] = f[i]
  <2>1. Len(log) + i \in 1 .. Len(log) + Len(f) /\ ~(Len(log) + i <= Len(log))
    BY <1>1
  <2>2. (Len(log) + i) - Len(log) = i
    BY <1>1
  <2>. QED BY <1>4, <2>1, <2>2
<1>. QED BY <1>4, <1>5, <1>6, <1>7

LEMMA AppendLog ==
    ASSUME NEW log, IsLog(log), NEW e
    PROVE  /\ IsLog(Append(log, e)) /\ Len(Append(log, e)) = Len(log) + 1
           /\ DOMAIN Append(log, e) = 1 .. Len(log) + 1
           /\ \A i \in 1 .. Len(log) : Append(log, e)[i] = log[i]
           /\ Append(log, e)[Len(log) + 1] = e
<1>. DEFINE S == {log[i] : i \in DOMAIN log} \cup {e}
<1>1. log \in Seq(S)
  BY SeqMonotonic DEF IsLog
<1>. HIDE DEF S
<1>2. e \in S
  BY DEF S
<1>3. Append(log, e) \in Seq(S) /\ Len(Append(log, e)) = Len(log) + 1
  BY <1>1, <1>2
<1>4. \A i \in 1 .. Len(log) : Append(log, e)[i] = log[i]
  BY <1>1, <1>2
<1>5. Append(log, e)[Len(log) + 1] = e
  BY <1>1, <1>2
<1>6. IsLog(Append(log, e))
  BY <1>3, SequencesAreLogs
<1>. QED BY <1>3, <1>4, <1>5, <1>6, LogShape

\* A log rewritten entry by entry.
LEMMA ReplaceLog ==
    ASSUME NEW log, IsLog(log), NEW new, new = [i \in DOMAIN log |-> new[i]]
    PROVE  IsLog(new) /\ DOMAIN new = DOMAIN log
<1>. DEFINE S == {new[i] : i \in DOMAIN log}
<1>1. Len(log) \in Nat /\ DOMAIN log = 1 .. Len(log)
  BY LogShape
<1>2. new \in [1 .. Len(log) -> S]
  BY <1>1
<1>. HIDE DEF S
<1>3. new \in Seq(S)
  BY <1>1, <1>2, SeqDef
<1>. QED BY <1>3, SequencesAreLogs

-----------------------------------------------------------------------------
(* The pipelines.                                                             *)

LEMMA StageNumbers ==
    ASSUME TablesInv, NEW p \in Pipelines, pipe[p] # Nothing
    PROVE  /\ pipe[p] \in Job
           /\ At(p, "stakeCandidateBuild") => pipe[p].at = 1
           /\ At(p, "stakeSizing") => pipe[p].at = 2
           /\ At(p, "exposureCheck") => pipe[p].at = 3
           /\ At(p, "correlationCheck") => pipe[p].at = 4
           /\ At(p, "ticketConstruction") => pipe[p].at = 5
           /\ At(p, "paperExecution") => pipe[p].at = 6
           /\ At(p, "settlement") => pipe[p].at = 7
           /\ At(p, "bankrollAccounting") => pipe[p].at = 8
<1>1. pipe[p] \in Job
  BY DEF TablesInv
<1>2. pipe[p].at \in 1 .. 8
  BY <1>1 DEF Job
<1>. QED BY <1>1, <1>2 DEF At, Stages

\* A pipeline that advances keeps its key; the others stay where they are.
LEMMA Advances ==
    ASSUME TablesInv, NEW p \in Pipelines, pipe[p] # Nothing, Advance(p)
    PROVE  /\ pipe' \in [Pipelines -> Job \cup {Nothing}]
           /\ \A q \in Pipelines : q # p => pipe'[q] = pipe[q]
           /\ pipe'[p] # Nothing => /\ pipe'[p].key = pipe[p].key
                                   /\ pipe'[p].at = pipe[p].at + 1
<1>1. pipe[p].key \in Keys /\ pipe[p].at \in 1 .. 8
  BY StageNumbers DEF Job
<1>2. Len(Stages) = 8
  BY DEF Stages
<1>3. CASE pipe[p].at = 8
  <2>1. pipe' = [pipe EXCEPT ![p] = Nothing]
    BY <1>2, <1>3 DEF Advance
  <2>. QED BY <2>1 DEF TablesInv
<1>4. CASE pipe[p].at # 8
  <2>. DEFINE next == [key |-> pipe[p].key, at |-> pipe[p].at + 1]
  <2>1. pipe' = [pipe EXCEPT ![p] = next]
    <3>1. pipe' = [pipe EXCEPT ![p] = IF pipe[p].at = Len(Stages) THEN Nothing ELSE next]
      BY DEF Advance
    <3>2. pipe[p].at # Len(Stages)
      BY <1>2, <1>4
    <3>. HIDE DEF next
    <3>. QED BY <3>1, <3>2
  <2>2. next \in Job /\ next.key = pipe[p].key /\ next.at = pipe[p].at + 1
    BY <1>1, <1>4, StageNumbers DEF Job
  <2>. HIDE DEF next
  <2>. QED BY <2>1, <2>2 DEF TablesInv
<1>. QED BY <1>3, <1>4

\* A stage that gives no other key an order, and its own one in stage 6 at the
\* earliest, leaves every fresh key fresh.
LEMMA StagesKeepFresh ==
    ASSUME BookInv, NEW p \in Pipelines, pipe[p] # Nothing, Advance(p), repeats' = repeats,
           recorded' \subseteq Keys, \A k \in recorded' : HasRow(orders', k),
           \A k \in Keys : k # pipe[p].key =>
              HasRow(orders', k) = HasRow(orders, k) /\ (HasRow(recs, k) => HasRow(recs', k)),
           HasRow(orders', pipe[p].key) => HasRow(orders, pipe[p].key) \/ pipe[p].at = 6,
           HasRow(recs', pipe[p].key)
    PROVE  KnownInv' /\ FreshInv'
<1>. USE DEF BookInv
<1>. DEFINE key == pipe[p].key
<1>1. /\ pipe' \in [Pipelines -> Job \cup {Nothing}]
      /\ \A q \in Pipelines : q # p => pipe'[q] = pipe[q]
      /\ pipe'[p] # Nothing => /\ pipe'[p].key = pipe[p].key /\ pipe'[p].at = pipe[p].at + 1
  BY Advances
<1>2. \A q \in Pipelines : pipe[q] # Nothing => pipe[q].key \in Keys /\ pipe[q].at \in 1 .. 8
  BY StageNumbers DEF Job
<1>3. \A k \in recorded' : HasRow(orders', k)
  OBVIOUS
<1>4. \A k \in Keys : HasRow(orders', k) => HasRow(recs', k)
  BY DEF KnownInv
<1>5. ASSUME NEW q \in Pipelines, pipe'[q] # Nothing, pipe'[q].at > 1
      PROVE  HasRow(recs', pipe'[q].key)
  <2>1. CASE q = p
    BY <1>1, <1>5, <2>1
  <2>2. CASE q # p
    <3>1. pipe'[q] = pipe[q] /\ HasRow(recs, pipe[q].key) /\ pipe[q].key \in Keys
      BY <1>1, <1>2, <1>5, <2>2 DEF KnownInv
    <3>. QED BY <3>1
  <2>. QED BY <2>1, <2>2
<1>6. KnownInv'
  BY <1>3, <1>4, <1>5 DEF KnownInv
<1>7. ASSUME repeats' = 0
      PROVE  /\ \A q \in Pipelines : pipe'[q] # Nothing /\ pipe'[q].at <= 6 => ~HasRow(orders', pipe'[q].key)
             /\ \A q, r \in Pipelines :
                   pipe'[q] # Nothing /\ pipe'[r] # Nothing /\ pipe'[q].key = pipe'[r].key => q = r
  <2>1. /\ \A q \in Pipelines : pipe[q] # Nothing /\ pipe[q].at <= 6 => ~HasRow(orders, pipe[q].key)
        /\ \A q, r \in Pipelines :
              pipe[q] # Nothing /\ pipe[r] # Nothing /\ pipe[q].key = pipe[r].key => q = r
    BY <1>7 DEF FreshInv
  <2>2. \A q \in Pipelines : pipe'[q] # Nothing => pipe[q] # Nothing /\ pipe'[q].key = pipe[q].key
    BY <1>1
  <2>3. ASSUME NEW q \in Pipelines, pipe'[q] # Nothing, pipe'[q].at <= 6
        PROVE  ~HasRow(orders', pipe[q].key)
    <3>1. CASE q = p
      <4>1. pipe[p].at <= 5 /\ pipe[p].at \in 1 .. 8
        BY <1>1, <1>2, <2>3, <3>1
      <4>2. ~HasRow(orders, pipe[p].key) /\ pipe[p].at # 6
        BY <2>1, <4>1
      <4>. QED BY <3>1, <4>2
    <3>2. CASE q # p
      <4>1. pipe[q] # Nothing /\ pipe[q].at <= 6 /\ pipe[q].key # pipe[p].key
        BY <1>1, <2>1, <2>3, <3>2
      <4>. QED BY <1>2, <2>1, <4>1
    <3>. QED BY <3>1, <3>2
  <2>. QED BY <2>1, <2>2, <2>3
<1>. QED BY <1>6, <1>7 DEF FreshInv

-----------------------------------------------------------------------------
(* The stages that leave the orders and the books alone.                      *)

\* A table with the row of one key replaced by one that exists.
LEMMA RowWritten ==
    ASSUME NEW table, DOMAIN table = Keys, NEW key \in Keys, NEW status, NEW stake, status # "NONE"
    PROVE  LET new == [table EXCEPT ![key] = [status |-> status, stake |-> stake]] IN
           /\ DOMAIN new = Keys /\ HasRow(new, key)
           /\ \A k \in Keys : k # key => new[k] = table[k]
BY DEF HasRow

LEMMA SizingRecommends ==
    ASSUME BookInv, NEW p \in Pipelines, pipe[p] # Nothing,
           StakeCandidateBuild(p) \/ StakeSizing(p)
    PROVE  DOMAIN recs' = Keys /\ HasRow(recs', pipe[p].key)
           /\ \A j \in Keys : j # pipe[p].key => recs'[j] = recs[j]
<1>1. pipe[p].key \in Keys /\ DOMAIN recs = Keys
  BY StageNumbers DEF BookInv, TablesInv, Job
<1>2. CASE StakeCandidateBuild(p)
  BY <1>1, <1>2, RowWritten DEF StakeCandidateBuild
<1>3. CASE StakeSizing(p)
  <2>1. PICK outcome \in SizingOutcomes(account.available) :
           recs' = [recs EXCEPT ![pipe[p].key] = outcome]
    BY <1>3 DEF StakeSizing
  <2>2. outcome.status \in {"NO_STAKE", "BLOCKED", "SIZED", "CLIPPED"}
    BY <2>1 DEF SizingOutcomes, Sized
  <2>. QED BY <1>1, <2>1, <2>2 DEF HasRow
<1>. QED BY <1>2, <1>3

LEMMA ChecksRecommend ==
    ASSUME BookInv, NEW p \in Pipelines, pipe[p] # Nothing,
           ExposureCheck(p) \/ CorrelationCheck(p)
    PROVE  DOMAIN recs' = Keys /\ HasRow(recs', pipe[p].key)
           /\ \A j \in Keys : j # pipe[p].key => recs'[j] = recs[j]
<1>. DEFINE k == pipe[p].key
<1>1. k \in Keys /\ DOMAIN recs = Keys /\ HasRow(recs, k)
  BY StageNumbers DEF BookInv, TablesInv, KnownInv, Job, ExposureCheck, CorrelationCheck
<1>2. ASSUME NEW rec, rec.status \in {"SIZED", "CLIPPED", "BLOCKED"},
             recs' = [recs EXCEPT ![k] = rec] \/ recs' = recs
      PROVE  DOMAIN recs' = Keys /\ HasRow(recs', k) /\ \A j \in Keys : j # k => recs'[j] = recs[j]
  BY <1>1, <1>2 DEF HasRow
<1>. HIDE DEF k
<1>3. CASE ExposureCheck(p)
  <2>1. Governed(k, recs[k].stake).status \in {"SIZED", "CLIPPED", "BLOCKED"}
    BY DEF Governed
  <2>2. recs' = [recs EXCEPT ![k] = Governed(k, recs[k].stake)] \/ recs' = recs
    BY <1>3 DEF ExposureCheck, k
  <2>. QED BY <1>2, <2>1, <2>2 DEF k
<1>4. CASE CorrelationCheck(p)
  <2>1. Decorrelated(k, recs[k].stake).status \in {"SIZED", "CLIPPED", "BLOCKED"}
    BY DEF Decorrelated
  <2>2. recs' = [recs EXCEPT ![k] = Decorrelated(k, recs[k].stake)] \/ recs' = recs
    BY <1>4 DEF CorrelationCheck, k
  <2>. QED BY <1>2, <2>1, <2>2 DEF k
<1>. QED BY <1>3, <1>4

\* Nothing the ledger is about changes.
LEMMA BooksAtRest ==
    ASSUME BookInv, UNCHANGED <<orders, recorded, ledger, account>>, repeats' \in Nat,
           repeats' = 0 => repeats = 0
    PROVE  LedgerInv' /\ LedgerTailIsAccount'
BY DEF BookInv, LedgerInv, LedgerTailIsAccount

-----------------------------------------------------------------------------
(* Settlement and execution.                                                  *)

LEMMA DueOrdersAreOpen ==
    ASSUME BookInv
    PROVE  /\ DueEntries \subseteq DOMAIN ledger /\ IsFiniteSet(DueEntries)
           /\ Cardinality(DueEntries) \in Nat
           /\ DueEntries # {} => Cardinality(DueEntries) > 0
           /\ \A i \in DueEntries : ledger[i].kind = "open" /\ ledger[i].key \in Keys
                                    /\ IsOpen(ledger[i].key) /\ ledger[i].key \notin recorded
           /\ DueKeys \subseteq Keys \ recorded /\ \A k \in DueKeys : IsOpen(k)
<1>1. DueEntries \subseteq DOMAIN ledger
  BY DEF DueEntries, OpenEntries
<1>2. IsFiniteSet(DOMAIN ledger)
  BY LogShape, FS_Interval DEF BookInv, TablesInv
<1>3. IsFiniteSet(DueEntries) /\ Cardinality(DueEntries) \in Nat
  BY <1>1, <1>2, FS_Subset, FS_CardinalityType
<1>4. DueEntries # {} => Cardinality(DueEntries) > 0
  BY <1>3, FS_EmptySet
<1>5. \A i \in DueEntries : ledger[i].kind = "open" /\ ledger[i].key \in Keys
                            /\ IsOpen(ledger[i].key) /\ ledger[i].key \notin recorded
  BY DEF DueEntries, OpenEntries, Settleable, BookInv, LedgerInv
<1>. QED BY <1>1, <1>3, <1>4, <1>5 DEF DueKeys

LEMMA SettledOrders ==
    ASSUME BookInv, SettleOpenOrders
    PROVE  /\ DOMAIN orders' = Keys
           /\ \A k \in Keys : HasRow(orders', k) = HasRow(orders, k)
           /\ \A k \in recorded : orders'[k] = orders[k]
           /\ recorded \subseteq recorded' /\ recorded' \subseteq Keys
           /\ \A k \in recorded' : HasRow(orders', k)
<1>1. DOMAIN orders = Keys /\ recorded \subseteq Keys /\ \A k \in recorded : HasRow(orders, k)
  BY DEF BookInv, TablesInv, KnownInv
<1>2. CASE DueEntries = {}
  BY <1>1, <1>2 DEF SettleOpenOrders
<1>3. CASE DueEntries # {}
  <2>1. /\ orders' = [k \in Keys |->
              IF k \in DueKeys THEN [status |-> OutcomeStatus(k), stake |-> orders[k].stake] ELSE orders[k]]
        /\ recorded' = recorded \cup DueKeys
    BY <1>3 DEF SettleOpenOrders
  <2>2. \A k \in Keys : OutcomeStatus(k) # "NONE"
    BY DEF OutcomeStatus
  <2>3. DueKeys \subseteq Keys \ recorded /\ \A k \in DueKeys : HasRow(orders, k)
    BY DueOrdersAreOpen DEF IsOpen, HasRow
  <2>4. \A k \in Keys : HasRow(orders', k) = HasRow(orders, k)
    BY <2>1, <2>2, <2>3 DEF HasRow
  <2>. QED BY <1>1, <2>1, <2>3, <2>4
<1>. QED BY <1>2, <1>3

\* The entries of a settlement follow the ledger, the last one with the account.
LEMMA SettledLedger ==
    ASSUME BookInv, SettleOpenOrders, DueEntries # {}
    PROVE  \E due \in [1 .. Cardinality(DueEntries) -> DueEntries] :
             LET n == Cardinality(DueEntries) IN
             /\ IsLog(ledger') /\ Len(ledger') = Len(ledger) + n /\ n \in Nat /\ n > 0
             /\ \A i \in 1 .. Len(ledger) : ledger'[i] = ledger[i]
             /\ \A i \in 1 .. n : /\ ledger'[Len(ledger) + i].kind = "settle"
                                  /\ ledger'[Len(ledger) + i].key = ledger[due[i]].key
                                  /\ ledger'[Len(ledger) + i] =
                                        [kind |-> "settle", key |-> ledger[due[i]].key,
                                         after |-> Settled({ledger[due[m]].key : m \in 1 .. i})]
             /\ \A i, j \in 1 .. n : due[i] = due[j] => i = j
             /\ ledger'[Len(ledger) + n].after = account'
<1>. DEFINE n == Cardinality(DueEntries)
<1>1. PICK due \in [1 .. n -> DueEntries] :
         OldestFirst(due) /\ ledger' = ledger \o SettleEntries(due)
  BY DEF SettleOpenOrders
<1>2. n \in Nat /\ n > 0 /\ IsLog(ledger) /\ Len(ledger) \in Nat
  BY DueOrdersAreOpen, LogShape DEF BookInv, TablesInv
<1>. DEFINE T == {SettleEntries(due)[i] : i \in 1 .. n}
<1>. HIDE DEF n
<1>3. DOMAIN due = 1 .. n
  OBVIOUS
<1>4. SettleEntries(due) \in [1 .. n -> T]
  BY <1>3 DEF SettleEntries
<1>5. /\ IsLog(ledger') /\ Len(ledger') = Len(ledger) + n
      /\ \A i \in 1 .. Len(ledger) : ledger'[i] = ledger[i]
      /\ \A i \in 1 .. n : ledger'[Len(ledger) + i] = SettleEntries(due)[i]
  <2>. DEFINE f == SettleEntries(due)
  <2>1. f \in Seq(T)
    <3>. HIDE DEF T, f
    <3>1. f \in [1 .. n -> T]
      BY <1>4 DEF f
    <3>. QED BY <1>2, <3>1, SeqDef
  <2>2. IsLog(f)
    BY <2>1, SequencesAreLogs
  <2>3. DOMAIN f = 1 .. n /\ Len(f) \in Nat /\ DOMAIN f = 1 .. Len(f)
    BY <1>4, <2>2, LogShape
  <2>4. Len(f) = n
    BY <1>2, <2>3
  <2>5. ledger' = ledger \o f
    BY <1>1
  <2>. HIDE DEF f
  <2>6. IsLog(ledger \o f) /\ Len(ledger \o f) = Len(ledger) + Len(f)
    BY <1>2, <2>2, ConcatLog
  <2>7. \A i \in 1 .. Len(ledger) : (ledger \o f)[i] = ledger[i]
    BY <1>2, <2>2, ConcatLog
  <2>8. \A i \in 1 .. Len(f) : (ledger \o f)[Len(ledger) + i] = f[i]
    BY <1>2, <2>2, ConcatLog
  <2>9. /\ IsLog(ledger') /\ Len(ledger') = Len(ledger) + n
        /\ \A i \in 1 .. Len(ledger) : ledger'[i] = ledger[i]
        /\ \A i \in 1 .. n : ledger'[Len(ledger) + i] = f[i]
    BY <2>4, <2>5, <2>6, <2>7, <2>8
  <2>. QED BY <2>9 DEF f
<1>6. \A i \in 1 .. n : /\ SettleEntries(due)[i].kind = "settle"
                        /\ SettleEntries(due)[i].key = ledger[due[i]].key
                        /\ SettleEntries(due)[i].after = Settled({ledger[due[m]].key : m \in 1 .. i})
  BY <1>3 DEF SettleEntries
<1>7. \A i, j \in 1 .. n : due[i] = due[j] => i = j
  <2>1. DueEntries \subseteq Nat
    BY DueOrdersAreOpen, LogShape DEF BookInv, TablesInv
  <2>2. \A i, j \in 1 .. n : i < j => due[i] < due[j] /\ due[i] \in Nat /\ due[j] \in Nat
    BY <1>1, <1>3, <2>1 DEF OldestFirst
  <2>3. \A i, j \in 1 .. n : i < j \/ j < i \/ i = j
    BY <1>2
  <2>. QED BY <2>2, <2>3
<1>8. {ledger[due[m]].key : m \in 1 .. n} = DueKeys
  <2>1. {due[m] : m \in 1 .. n} = DueEntries
    BY <1>1, <1>3 DEF OldestFirst
  <2>2. \A m \in 1 .. n : due[m] \in DueEntries
    OBVIOUS
  <2>3. ASSUME NEW k \in DueKeys PROVE \E m \in 1 .. n : k = ledger[due[m]].key
    <3>1. PICK i \in DueEntries : k = ledger[i].key
      BY DEF DueKeys
    <3>2. PICK m \in 1 .. n : due[m] = i
      BY <2>1
    <3>. QED BY <3>1, <3>2
  <2>. QED BY <2>2, <2>3 DEF DueKeys
<1>9. ledger'[Len(ledger) + n].after = account'
  <2>1. account' = Settled(DueKeys)
    BY DEF SettleOpenOrders
  <2>2. n \in 1 .. n
    BY <1>2
  <2>. QED BY <1>5, <1>6, <1>8, <2>1, <2>2
<1>10. \A i \in 1 .. n : /\ ledger'[Len(ledger) + i].kind = "settle"
                         /\ ledger'[Len(ledger) + i].key = ledger[due[i]].key
                         /\ ledger'[Len(ledger) + i] =
                               [kind |-> "settle", key |-> ledger[due[i]].key,
                                after |-> Settled({ledger[due[m]].key : m \in 1 .. i})]
  BY <1>3, <1>5 DEF SettleEntries
<1>. QED BY <1>2, <1>5, <1>7, <1>9, <1>10, Zenon DEF n

LEMMA SettlementKeepsBooks ==
    ASSUME BookInv, SettleOpenOrders, repeats' = repeats
    PROVE  IsLog(ledger') /\ LedgerInv' /\ LedgerTailIsAccount'
<1>. DEFINE n == Cardinality(DueEntries)
            L == Len(ledger)
<1>1. /\ \A k \in Keys : HasRow(orders', k) = HasRow(orders, k)
      /\ recorded \subseteq recorded'
  BY SettledOrders
<1>2. CASE DueEntries = {}
  <2>1. UNCHANGED <<orders, recorded, ledger, account>>
    BY <1>2 DEF SettleOpenOrders
  <2>. QED BY <2>1, BooksAtRest DEF BookInv, TablesInv
<1>3. CASE DueEntries # {}
  <2>1. PICK due \in [1 .. n -> DueEntries] :
             /\ IsLog(ledger') /\ Len(ledger') = L + n /\ n \in Nat /\ n > 0
             /\ \A i \in 1 .. L : ledger'[i] = ledger[i]
             /\ \A i \in 1 .. n : /\ ledger'[L + i].kind = "settle"
                                  /\ ledger'[L + i].key = ledger[due[i]].key
             /\ \A i, j \in 1 .. n : due[i] = due[j] => i = j
             /\ ledger'[L + n].after = account'
    BY <1>3, SettledLedger
  <2>2. L \in Nat /\ DOMAIN ledger = 1 .. L /\ DOMAIN ledger' = 1 .. L + n
    BY <2>1, LogShape DEF BookInv, TablesInv
  <2>3. recorded' = recorded \cup DueKeys
    BY <1>3 DEF SettleOpenOrders
  <2>4. \A i \in 1 .. n : /\ due[i] \in DOMAIN ledger /\ ledger[due[i]].kind = "open"
                          /\ ledger[due[i]].key \in DueKeys
                          /\ ledger[due[i]].key \in Keys \ recorded
                          /\ HasRow(orders, ledger[due[i]].key)
    BY DueOrdersAreOpen DEF DueKeys, IsOpen, HasRow
  <2>. HIDE DEF n, L
  <2>5. \A i \in 1 .. L + n : i \in 1 .. L \/ \E j \in 1 .. n : i = L + j
    <3>1. ASSUME NEW i \in 1 .. L + n, i \notin 1 .. L PROVE i - L \in 1 .. n /\ i = L + (i - L)
      BY <2>1, <2>2, <3>1
    <3>. QED BY <3>1
  <2>6. ASSUME NEW i \in DOMAIN ledger'
        PROVE  /\ ledger'[i].key \in Keys /\ HasRow(orders', ledger'[i].key)
               /\ ledger'[i].kind = "settle" => ledger'[i].key \in recorded'
    <3>1. CASE i \in 1 .. L
      BY <1>1, <2>1, <2>2, <3>1 DEF BookInv, LedgerInv
    <3>2. ASSUME NEW j \in 1 .. n, i = L + j PROVE <2>6!2
      BY <1>1, <2>1, <2>3, <2>4, <3>2
    <3>. QED BY <2>2, <2>5, <2>6, <3>1, <3>2
  <2>7. ASSUME NEW i \in DOMAIN ledger', NEW j \in DOMAIN ledger',
               ledger'[i].kind = ledger'[j].kind, ledger'[i].key = ledger'[j].key
        PROVE  i = j
    <3>1. CASE i \in 1 .. L /\ j \in 1 .. L
      BY <2>1, <2>2, <2>7, <3>1 DEF BookInv, LedgerInv
    <3>2. ASSUME NEW a \in 1 .. L, NEW b \in 1 .. n
          PROVE  ~(ledger'[a].kind = ledger'[L + b].kind /\ ledger'[a].key = ledger'[L + b].key)
      <4>1. ledger'[a] = ledger[a] /\ a \in DOMAIN ledger
        BY <2>1, <2>2
      <4>2. ledger[a].kind = "settle" => ledger[a].key \in recorded
        BY <4>1 DEF BookInv, LedgerInv
      <4>3. ledger'[L + b].kind = "settle" /\ ledger'[L + b].key \notin recorded
        BY <2>1, <2>4
      <4>. QED BY <4>1, <4>2, <4>3
    <3>3. ASSUME NEW a \in 1 .. n, NEW b \in 1 .. n, ledger'[L + a].key = ledger'[L + b].key
          PROVE  a = b
      <4>1. ledger[due[a]].key = ledger[due[b]].key /\ ledger[due[a]].kind = ledger[due[b]].kind
        BY <2>1, <2>4, <3>3
      <4>2. due[a] = due[b]
        BY <2>4, <4>1 DEF BookInv, LedgerInv
      <4>. QED BY <2>1, <4>2
    <3>4. CASE i \in 1 .. L /\ j \notin 1 .. L
      <4>1. PICK b \in 1 .. n : j = L + b
        BY <2>2, <2>5, <2>7, <3>4
      <4>. QED BY <2>7, <3>2, <3>4, <4>1
    <3>5. CASE i \notin 1 .. L /\ j \in 1 .. L
      <4>1. PICK b \in 1 .. n : i = L + b
        BY <2>2, <2>5, <2>7, <3>5
      <4>. QED BY <2>7, <3>2, <3>5, <4>1
    <3>6. CASE i \notin 1 .. L /\ j \notin 1 .. L
      <4>1. (\E a \in 1 .. n : i = L + a) /\ \E b \in 1 .. n : j = L + b
        BY <2>2, <2>5, <2>7, <3>6
      <4>. QED BY <2>7, <3>3, <4>1
    <3>. QED BY <3>1, <3>4, <3>5, <3>6
  <2>8. LedgerTailIsAccount'
    BY <2>1 DEF LedgerTailIsAccount, Last
  <2>. QED BY <2>1, <2>6, <2>7, <2>8 DEF LedgerInv
<1>. QED BY <1>2, <1>3

LEMMA ExecutedOrders ==
    ASSUME BookInv, NEW p \in Pipelines, PaperExecution(p)
    PROVE  /\ pipe[p] # Nothing /\ pipe[p].at = 6 /\ pipe[p].key \in Keys
           /\ DOMAIN orders' = Keys
           /\ \A k \in Keys : k # pipe[p].key => orders'[k] = orders[k]
           /\ HasRow(orders, pipe[p].key) => HasRow(orders', pipe[p].key)
           /\ repeats = 0 => ~HasRow(orders, pipe[p].key)
<1>1. pipe[p] # Nothing
  BY DEF PaperExecution, At
<1>2. pipe[p].at = 6 /\ pipe[p].key \in Keys /\ DOMAIN orders = Keys
  BY <1>1, StageNumbers DEF PaperExecution, BookInv, TablesInv, Job
<1>3. repeats = 0 => ~HasRow(orders, pipe[p].key)
  BY <1>1, <1>2 DEF BookInv, FreshInv
<1>4. CASE orders' = orders
  BY <1>1, <1>2, <1>3, <1>4
<1>5. CASE orders' # orders
  <2>1. orders' = [orders EXCEPT ![pipe[p].key] = [status |-> "OPEN", stake |-> tickets[pipe[p].key].stake]]
    BY <1>5 DEF PaperExecution
  <2>. QED BY <1>1, <1>2, <1>3, <2>1, RowWritten
<1>. QED BY <1>4, <1>5

\* The entry of an order that is placed again is rewritten where it stands.
LEMMA ExecutionKeepsBooks ==
    ASSUME BookInv, NEW p \in Pipelines, PaperExecution(p)
    PROVE  IsLog(ledger') /\ LedgerInv' /\ LedgerTailIsAccount'
<1>. DEFINE key == pipe[p].key
            entry == [kind |-> "open", key |-> key, after |-> account']
            Placed(i) == ledger[i].kind = "open" /\ ledger[i].key = key
<1>1. /\ key \in Keys /\ IsLog(ledger) /\ recorded' = recorded /\ repeats' = repeats
      /\ \A k \in Keys : HasRow(orders, k) => HasRow(orders', k)
  BY ExecutedOrders DEF BookInv, TablesInv, PaperExecution, HasRow
<1>2. CASE ~(settings.paper /\ Placeable(key))
  <2>1. UNCHANGED <<orders, recorded, ledger, account>>
    BY <1>2 DEF PaperExecution
  <2>. QED BY <1>1, <2>1, BooksAtRest DEF BookInv, TablesInv
<1>3. CASE settings.paper /\ Placeable(key)
  <2>1. /\ orders' = [orders EXCEPT ![key] = [status |-> "OPEN", stake |-> tickets[key].stake]]
        /\ ledger' = AppendLedger(ledger, "open", key, account')
    BY <1>3 DEF PaperExecution
  <2>2. HasRow(orders', key)
    BY <1>1, <2>1 DEF HasRow, BookInv, TablesInv
  <2>3. entry.kind = "open" /\ entry.key = key /\ entry.after = account'
    OBVIOUS
  <2>4. CASE \E i \in DOMAIN ledger : Placed(i)
    <3>. DEFINE I == {i \in DOMAIN ledger : Placed(i)}
    <3>1. ledger' = [i \in DOMAIN ledger |-> IF i \in I THEN entry ELSE ledger[i]]
      BY <2>1, <2>4 DEF AppendLedger
    <3>2. \A i \in DOMAIN ledger : i \in I => ledger[i].kind = "open" /\ ledger[i].key = key
      OBVIOUS
    <3>3. repeats # 0
      BY <2>4, ExecutedOrders DEF BookInv, LedgerInv
    <3>. HIDE DEF I, entry
    <3>4. IsLog(ledger') /\ DOMAIN ledger' = DOMAIN ledger
      <4>1. ledger' = [i \in DOMAIN ledger |-> ledger'[i]]
        BY <3>1
      <4>. QED BY <1>1, <4>1, ReplaceLog
    <3>5. \A i \in DOMAIN ledger : ledger'[i].kind = ledger[i].kind /\ ledger'[i].key = ledger[i].key
      BY <2>3, <3>1, <3>2
    <3>6. LedgerInv'
      <4>1. \A i \in DOMAIN ledger' :
              /\ ledger'[i].key \in Keys /\ HasRow(orders', ledger'[i].key)
              /\ ledger'[i].kind = "settle" => ledger'[i].key \in recorded'
        BY <1>1, <3>4, <3>5 DEF BookInv, LedgerInv
      <4>2. \A i, j \in DOMAIN ledger' :
              ledger'[i].kind = ledger'[j].kind /\ ledger'[i].key = ledger'[j].key => i = j
        BY <3>4, <3>5 DEF BookInv, LedgerInv
      <4>. QED BY <4>1, <4>2 DEF LedgerInv
    <3>7. LedgerTailIsAccount'
      BY <1>1, <3>3 DEF LedgerTailIsAccount
    <3>. QED BY <3>4, <3>6, <3>7
  <2>5. CASE ~\E i \in DOMAIN ledger : Placed(i)
    <3>. DEFINE L == Len(ledger)
    <3>1. ledger' = Append(ledger, entry)
      BY <2>1, <2>5 DEF AppendLedger
    <3>. HIDE DEF entry
    <3>2. L \in Nat /\ DOMAIN ledger = 1 .. L
      BY <1>1, LogShape
    <3>3. /\ IsLog(ledger') /\ Len(ledger') = L + 1 /\ DOMAIN ledger' = 1 .. L + 1
          /\ \A i \in 1 .. L : ledger'[i] = ledger[i]
          /\ ledger'[L + 1] = entry
      BY <1>1, <3>1, AppendLog
    <3>4. \A i \in DOMAIN ledger' : (i \in DOMAIN ledger /\ ledger'[i] = ledger[i]) \/ i = L + 1
      BY <3>2, <3>3
    <3>5. \A i \in DOMAIN ledger : ~(ledger[i].kind = "open" /\ ledger[i].key = key)
      BY <2>5
    <3>. HIDE DEF L, key
    <3>6. LedgerInv'
      <4>1. \A i \in DOMAIN ledger' :
              /\ ledger'[i].key \in Keys /\ HasRow(orders', ledger'[i].key)
              /\ ledger'[i].kind = "settle" => ledger'[i].key \in recorded'
        BY <1>1, <2>2, <2>3, <3>3, <3>4 DEF BookInv, LedgerInv
      <4>2. ASSUME NEW i \in DOMAIN ledger', NEW j \in DOMAIN ledger',
                   ledger'[i].kind = ledger'[j].kind, ledger'[i].key = ledger'[j].key
            PROVE  i = j
        <5>1. CASE i # L + 1 /\ j # L + 1
          BY <3>4, <4>2, <5>1 DEF BookInv, LedgerInv
        <5>2. CASE i = L + 1
          BY <2>3, <3>3, <3>4, <3>5, <4>2, <5>2
        <5>3. CASE j = L + 1
          BY <2>3, <3>3, <3>4, <3>5, <4>2, <5>3
        <5>. QED BY <5>1, <5>2, <5>3
      <4>. QED BY <4>1, <4>2 DEF LedgerInv
    <3>7. LedgerTailIsAccount'
      BY <2>3, <3>3 DEF LedgerTailIsAccount, Last
    <3>. QED BY <3>3, <3>6, <3>7
  <2>. QED BY <2>4, <2>5
<1>. QED BY <1>2, <1>3

-----------------------------------------------------------------------------
(* Every step.                                                                *)

LEMMA InitBooks == Init => BookInv
<1>. SUFFICES ASSUME Init PROVE BookInv
  OBVIOUS
<1>1. repeats = 0 /\ recorded = {} /\ ledger = <<>> /\ DOMAIN recs = Keys /\ DOMAIN orders = Keys
  BY DEF Init
<1>2. \A p \in Pipelines : pipe[p] = Nothing
  BY DEF Init
<1>3. pipe \in [Pipelines -> Job \cup {Nothing}]
  BY DEF Init
<1>4. \A k \in Keys : ~HasRow(orders, k)
  BY DEF Init, NoRow, HasRow
<1>5. ledger \in Seq({}) /\ DOMAIN ledger = {}
  BY <1>1
<1>6. IsLog(ledger)
  BY <1>5, SequencesAreLogs
<1>7. TablesInv
  BY <1>1, <1>3, <1>6 DEF TablesInv
<1>8. LedgerInv /\ LedgerTailIsAccount
  BY <1>1, <1>5 DEF LedgerInv, LedgerTailIsAccount
<1>9. KnownInv /\ FreshInv
  BY <1>1, <1>2, <1>4 DEF KnownInv, FreshInv
<1>. QED BY <1>7, <1>8, <1>9 DEF BookInv

\* A stage that touches neither the orders nor the ledger.
LEMMA StageKeepsBooks ==
    ASSUME BookInv, NEW p \in Pipelines, pipe[p] # Nothing, Advance(p), repeats' = repeats,
           DOMAIN recs' = Keys, HasRow(recs', pipe[p].key),
           \A k \in Keys : k # pipe[p].key => recs'[k] = recs[k],
           UNCHANGED <<orders, recorded, ledger>>,
           repeats = 0 /\ ledger # <<>> => Last(ledger).after = account'
    PROVE  BookInv'
<1>1. pipe' \in [Pipelines -> Job \cup {Nothing}]
  BY Advances DEF BookInv
<1>2. TablesInv'
  BY <1>1 DEF BookInv, TablesInv
<1>3. LedgerInv'
  BY DEF BookInv, LedgerInv
<1>4. LedgerTailIsAccount'
  BY DEF LedgerTailIsAccount
<1>5. /\ recorded' \subseteq Keys /\ \A k \in recorded' : HasRow(orders', k)
      /\ \A k \in Keys : HasRow(orders', k) = HasRow(orders, k)
      /\ \A k \in Keys : k # pipe[p].key => (HasRow(recs, k) => HasRow(recs', k))
      /\ pipe[p].key \in Keys
  BY StageNumbers DEF BookInv, TablesInv, KnownInv, HasRow, Job
<1>6. KnownInv' /\ FreshInv'
  BY <1>5, StagesKeepFresh
<1>. QED BY <1>2, <1>3, <1>4, <1>6 DEF BookInv

LEMMA QuietStagesKeepBooks ==
    ASSUME BookInv, NEW p \in Pipelines,
           \/ StakeCandidateBuild(p) \/ StakeSizing(p) \/ ExposureCheck(p) \/ CorrelationCheck(p)
           \/ TicketConstruction(p) \/ BankrollAccounting(p)
    PROVE  BookInv'
<1>1. pipe[p] # Nothing /\ Advance(p) /\ repeats' = repeats /\ UNCHANGED <<orders, recorded, ledger>>
  BY DEF StakeCandidateBuild, StakeSizing, ExposureCheck, CorrelationCheck, TicketConstruction,
         BankrollAccounting, At
<1>2. repeats = 0 /\ ledger # <<>> => Last(ledger).after = account
  BY DEF BookInv, LedgerTailIsAccount
<1>3. CASE StakeCandidateBuild(p) \/ StakeSizing(p)
  <2>1. account' = account
    BY <1>3 DEF StakeCandidateBuild, StakeSizing
  <2>. QED BY <1>1, <1>2, <1>3, <2>1, SizingRecommends, StageKeepsBooks
<1>4. CASE ExposureCheck(p) \/ CorrelationCheck(p)
  <2>1. account' = account
    BY <1>4 DEF ExposureCheck, CorrelationCheck
  <2>. QED BY <1>1, <1>2, <1>4, <2>1, ChecksRecommend, StageKeepsBooks
<1>5. CASE TicketConstruction(p) \/ BankrollAccounting(p)
  <2>1. recs' = recs
    BY <1>5 DEF TicketConstruction, BankrollAccounting
  <2>2. pipe[p].at > 1
    BY <1>1, <1>5, StageNumbers DEF BookInv, TicketConstruction, BankrollAccounting
  <2>3. DOMAIN recs' = Keys /\ HasRow(recs', pipe[p].key)
    BY <1>1, <2>1, <2>2 DEF BookInv, TablesInv, KnownInv
  <2>4. repeats = 0 /\ ledger # <<>> => Last(ledger).after = account'
    BY <1>2, <1>5 DEF TicketConstruction, BankrollAccounting
  <2>. QED BY <1>1, <2>1, <2>3, <2>4, StageKeepsBooks
<1>. QED BY <1>3, <1>4, <1>5

LEMMA PaperExecutionKeepsBooks ==
    ASSUME BookInv, NEW p \in Pipelines, PaperExecution(p)
    PROVE  BookInv'
<1>1. Advance(p) /\ UNCHANGED <<recs, recorded, repeats>>
  BY DEF PaperExecution
<1>2. /\ pipe[p] # Nothing /\ pipe[p].at = 6 /\ pipe[p].key \in Keys
      /\ DOMAIN orders' = Keys
      /\ \A k \in Keys : k # pipe[p].key => orders'[k] = orders[k]
      /\ HasRow(orders, pipe[p].key) => HasRow(orders', pipe[p].key)
  BY ExecutedOrders
<1>3. IsLog(ledger') /\ LedgerInv' /\ LedgerTailIsAccount'
  BY ExecutionKeepsBooks
<1>4. pipe' \in [Pipelines -> Job \cup {Nothing}]
  BY <1>1, <1>2, Advances DEF BookInv
<1>5. TablesInv'
  BY <1>1, <1>2, <1>3, <1>4 DEF BookInv, TablesInv
<1>6. /\ recorded' \subseteq Keys /\ \A k \in recorded' : HasRow(orders', k)
      /\ \A k \in Keys : k # pipe[p].key =>
            HasRow(orders', k) = HasRow(orders, k) /\ (HasRow(recs, k) => HasRow(recs', k))
      /\ HasRow(recs', pipe[p].key)
  BY <1>1, <1>2 DEF BookInv, TablesInv, KnownInv, HasRow
<1>7. KnownInv' /\ FreshInv'
  BY <1>1, <1>2, <1>6, StagesKeepFresh
<1>. QED BY <1>3, <1>5, <1>7 DEF BookInv

LEMMA SettlementStageKeepsBooks ==
    ASSUME BookInv, NEW p \in Pipelines, Settlement(p)
    PROVE  BookInv'
<1>1. pipe[p] # Nothing /\ Advance(p) /\ SettleOpenOrders /\ UNCHANGED <<recs, repeats>>
  BY DEF Settlement, At
<1>2. /\ DOMAIN orders' = Keys /\ recorded' \subseteq Keys
      /\ \A k \in Keys : HasRow(orders', k) = HasRow(orders, k)
      /\ \A k \in recorded' : HasRow(orders', k)
  BY <1>1, SettledOrders
<1>3. IsLog(ledger') /\ LedgerInv' /\ LedgerTailIsAccount'
  BY <1>1, SettlementKeepsBooks
<1>4. pipe' \in [Pipelines -> Job \cup {Nothing}]
  BY <1>1, Advances DEF BookInv
<1>5. TablesInv'
  BY <1>1, <1>2, <1>3, <1>4 DEF BookInv, TablesInv
<1>6. pipe[p].key \in Keys /\ HasRow(recs', pipe[p].key)
  BY <1>1, StageNumbers DEF BookInv, TablesInv, KnownInv, Job, Settlement
<1>7. KnownInv' /\ FreshInv'
  BY <1>1, <1>2, <1>6, StagesKeepFresh
<1>. QED BY <1>3, <1>5, <1>7 DEF BookInv

LEMMA ScheduledSettlementKeepsBooks ==
    ASSUME BookInv, ScheduledSettlement
    PROVE  BookInv'
<1>1. SettleOpenOrders /\ UNCHANGED <<recs, pipe, repeats>>
  BY DEF ScheduledSettlement
<1>2. /\ DOMAIN orders' = Keys /\ recorded' \subseteq Keys
      /\ \A k \in Keys : HasRow(orders', k) = HasRow(orders, k)
      /\ \A k \in recorded' : HasRow(orders', k)
  BY <1>1, SettledOrders
<1>3. IsLog(ledger') /\ LedgerInv' /\ LedgerTailIsAccount'
  BY <1>1, SettlementKeepsBooks
<1>4. TablesInv'
  BY <1>1, <1>2, <1>3 DEF BookInv, TablesInv
<1>5. \A p \in Pipelines : pipe[p] # Nothing => pipe[p].key \in Keys
  BY StageNumbers DEF BookInv, Job
<1>6. KnownInv'
  BY <1>1, <1>2 DEF BookInv, KnownInv
<1>7. FreshInv'
  BY <1>1, <1>2, <1>5 DEF BookInv, FreshInv
<1>. QED BY <1>3, <1>4, <1>6, <1>7 DEF BookInv

LEMMA HandOverKeepsBooks ==
    ASSUME BookInv, NEW p \in Pipelines, NEW k \in Keys, HandOver(p, k)
    PROVE  BookInv'
<1>. DEFINE job == [key |-> k, at |-> 1]
<1>1. /\ pipe[p] = Nothing /\ pipe' = [pipe EXCEPT ![p] = job]
      /\ UNCHANGED <<recs, orders, recorded, ledger, account>>
  BY DEF HandOver, bankroll
<1>2. job \in Job /\ job # Nothing /\ job.key = k /\ job.at = 1
  BY DEF Job
<1>3. repeats \in Nat /\ repeats' = repeats + (IF HandedBefore(k) THEN 1 ELSE 0)
  BY DEF BookInv, TablesInv, HandOver
<1>4. repeats' \in Nat /\ (repeats' = 0 => repeats = 0 /\ ~HandedBefore(k))
  BY <1>3
<1>. HIDE DEF job
<1>5. LedgerInv' /\ LedgerTailIsAccount'
  BY <1>1, <1>4, BooksAtRest
<1>6. TablesInv'
  BY <1>1, <1>2, <1>4 DEF BookInv, TablesInv
<1>7. DOMAIN pipe = Pipelines
  BY DEF BookInv, TablesInv
<1>8. pipe'[p] = job /\ \A q \in Pipelines : q # p => pipe'[q] = pipe[q]
  BY <1>1, <1>7
<1>9. KnownInv'
  <2>1. ASSUME NEW q \in Pipelines, pipe'[q] # Nothing, pipe'[q].at > 1
        PROVE  HasRow(recs', pipe'[q].key)
    <3>1. q # p
      BY <1>2, <1>8, <2>1
    <3>. QED BY <1>1, <1>8, <2>1, <3>1 DEF BookInv, KnownInv
  <2>. QED BY <1>1, <2>1 DEF BookInv, KnownInv
<1>10. FreshInv'
  <2>. SUFFICES ASSUME repeats' = 0
                PROVE  /\ \A q \in Pipelines :
                             pipe'[q] # Nothing /\ pipe'[q].at <= 6 => ~HasRow(orders', pipe'[q].key)
                       /\ \A q, r \in Pipelines :
                             pipe'[q] # Nothing /\ pipe'[r] # Nothing /\ pipe'[q].key = pipe'[r].key => q = r
    BY DEF FreshInv
  <2>1. repeats = 0 /\ ~HasRow(recs, k) /\ \A q \in Pipelines : pipe[q] # Nothing => pipe[q].key # k
    BY <1>4 DEF HandedBefore, HasRow
  <2>2. ~HasRow(orders, k)
    BY <2>1 DEF BookInv, KnownInv
  <2>3. \A q \in Pipelines :
          pipe'[q] # Nothing /\ pipe'[q].at <= 6 => ~HasRow(orders', pipe'[q].key)
    BY <1>1, <1>2, <1>8, <2>1, <2>2 DEF BookInv, FreshInv
  <2>4. \A q, r \in Pipelines :
          pipe'[q] # Nothing /\ pipe'[r] # Nothing /\ pipe'[q].key = pipe'[r].key => q = r
    BY <1>2, <1>8, <2>1 DEF BookInv, FreshInv
  <2>. QED BY <2>3, <2>4
<1>. QED BY <1>5, <1>6, <1>9, <1>10 DEF BookInv

LEMMA LostAndRedeliveredKeepBooks ==
    ASSUME BookInv, NEW p \in Pipelines, Redeliver(p) \/ LosePipeline(p)
    PROVE  BookInv'
<1>1. pipe[p] # Nothing /\ UNCHANGED <<recs, orders, recorded, ledger, account>>
  BY DEF Redeliver, LosePipeline, bankroll
<1>2. pipe[p] \in Job /\ pipe[p].key \in Keys /\ pipe[p].at \in 1 .. 8 /\ DOMAIN pipe = Pipelines
  BY <1>1, StageNumbers DEF BookInv, TablesInv, Job
<1>3. repeats \in Nat
  BY DEF BookInv, TablesInv
<1>4. CASE Redeliver(p)
  <2>1. repeats' \in Nat /\ repeats' # 0
    BY <1>3, <1>4 DEF Redeliver
  <2>2. pipe[p].at > 1
    BY <1>4 DEF Redeliver
  <2>. DEFINE job == [pipe[p] EXCEPT !.at = @ - 1]
  <2>3. pipe' = [pipe EXCEPT ![p] = job]
    BY <1>4 DEF Redeliver
  <2>4. job \in Job /\ job.key = pipe[p].key
    BY <1>2, <2>2 DEF Job
  <2>. HIDE DEF job
  <2>5. LedgerInv' /\ LedgerTailIsAccount'
    BY <1>1, <2>1, BooksAtRest
  <2>6. TablesInv'
    BY <1>1, <2>1, <2>3, <2>4 DEF BookInv, TablesInv
  <2>7. pipe'[p] = job /\ \A q \in Pipelines : q # p => pipe'[q] = pipe[q]
    BY <1>2, <2>3
  <2>8. KnownInv'
    <3>1. ASSUME NEW q \in Pipelines, pipe'[q] # Nothing, pipe'[q].at > 1
          PROVE  HasRow(recs', pipe'[q].key)
      <4>1. CASE q = p
        BY <1>1, <2>2, <2>4, <2>7, <4>1 DEF BookInv, KnownInv
      <4>2. CASE q # p
        BY <1>1, <2>7, <3>1, <4>2 DEF BookInv, KnownInv
      <4>. QED BY <4>1, <4>2
    <3>. QED BY <1>1, <3>1 DEF BookInv, KnownInv
  <2>9. FreshInv'
    BY <2>1 DEF FreshInv
  <2>. QED BY <2>5, <2>6, <2>8, <2>9 DEF BookInv
<1>5. CASE LosePipeline(p)
  <2>1. repeats' = repeats /\ pipe' = [pipe EXCEPT ![p] = Nothing]
    BY <1>5 DEF LosePipeline
  <2>2. LedgerInv' /\ LedgerTailIsAccount'
    BY <1>1, <1>3, <2>1, BooksAtRest
  <2>3. TablesInv'
    BY <1>1, <2>1 DEF BookInv, TablesInv
  <2>4. \A q \in Pipelines : pipe'[q] # Nothing => pipe'[q] = pipe[q]
    BY <1>2, <2>1
  <2>5. KnownInv'
    BY <1>1, <2>4 DEF BookInv, KnownInv
  <2>6. FreshInv'
    BY <1>1, <2>1, <2>4 DEF BookInv, FreshInv
  <2>. QED BY <2>2, <2>3, <2>5, <2>6 DEF BookInv
<1>. QED BY <1>4, <1>5

LEMMA StepsKeepBooks == BookInv /\ [Next]_vars => BookInv'
<1>. SUFFICES ASSUME BookInv, [Next]_vars PROVE BookInv'
  OBVIOUS
<1>1. ASSUME NEW p \in Pipelines, Stage(p) PROVE BookInv'
  BY <1>1, QuietStagesKeepBooks, PaperExecutionKeepsBooks, SettlementStageKeepsBooks DEF Stage
<1>2. ASSUME NEW p \in Pipelines, NEW k \in Keys, HandOver(p, k) PROVE BookInv'
  BY <1>2, HandOverKeepsBooks
<1>3. ASSUME NEW p \in Pipelines, Redeliver(p) \/ LosePipeline(p) PROVE BookInv'
  BY <1>3, LostAndRedeliveredKeepBooks
<1>4. CASE ScheduledSettlement
  BY <1>4, ScheduledSettlementKeepsBooks
<1>5. CASE UNCHANGED <<recs, orders, recorded, ledger, account, pipe, repeats>>
  <2>1. LedgerInv' /\ LedgerTailIsAccount'
    BY <1>5, BooksAtRest DEF BookInv, TablesInv
  <2>. QED BY <1>5, <2>1 DEF BookInv, TablesInv, KnownInv, FreshInv
<1>6. CASE (\E m \in Matches : MatchEnds(m)) \/ (\E new \in SettingsSpace : StoreSettings(new)) \/ ProcessStarts
  BY <1>5, <1>6 DEF MatchEnds, StoreSettings, ProcessStarts, bankroll
<1>7. CASE UNCHANGED vars
  BY <1>5, <1>7 DEF vars
<1>. QED BY <1>1, <1>2, <1>3, <1>4, <1>6, <1>7 DEF Next

\* The books hold together in every state.
THEOREM BooksHold == Spec => []BookInv
<1>. QED BY InitBooks, StepsKeepBooks, PTL DEF Spec

-----------------------------------------------------------------------------
(* What follows.                                                              *)

\* No order moves money a second time by a settlement, whatever is handed over
\* again, redelivered or lost: settleOpenOrders() skips an order with a record.
THEOREM OrdersSettleOnce == Spec => []SettledOnce
<1>1. BookInv => SettledOnce
  BY DEF BookInv, LedgerInv, SettledOnce
<1>. QED BY <1>1, BooksHold, PTL

\* recomputeFromLedger() finds the account it replaces at the ledger's end, as
\* long as nothing is handed over or run twice.
THEOREM LedgerRebuildsAccount == Spec => []LedgerTailIsAccount
<1>1. BookInv => LedgerTailIsAccount
  BY DEF BookInv
<1>. QED BY <1>1, BooksHold, PTL

\* A settled order stays as it was settled: executeSingleTicket()'s upsert
\* reaches it only when its pipeline is repeated.
THEOREM SettledOrdersStay == Spec => SettlementIsFinal
<1>1. ASSUME BookInv, Next, repeats' = 0, NEW k \in recorded PROVE orders'[k] = orders[k]
  <2>1. k \in Keys /\ HasRow(orders, k)
    BY <1>1 DEF BookInv, TablesInv, KnownInv
  <2>2. ASSUME NEW p \in Pipelines, PaperExecution(p) PROVE orders'[k] = orders[k]
    <3>1. repeats = 0
      BY <1>1, <2>2 DEF PaperExecution
    <3>2. k # pipe[p].key
      BY <1>1, <2>1, <2>2, <3>1, ExecutedOrders
    <3>. QED BY <1>1, <2>1, <2>2, <3>2, ExecutedOrders
  <2>3. CASE SettleOpenOrders
    BY <1>1, <2>3, SettledOrders
  <2>4. CASE orders' = orders
    BY <2>4
  <2>5. ASSUME NEW p \in Pipelines, Stage(p), ~PaperExecution(p), ~SettleOpenOrders PROVE orders' = orders
    BY <2>5 DEF Stage, StakeCandidateBuild, StakeSizing, ExposureCheck, CorrelationCheck,
                TicketConstruction, Settlement, BankrollAccounting
  <2>6. ASSUME NEW p \in Pipelines, \/ \E j \in Keys : HandOver(p, j)
                                   \/ Redeliver(p) \/ LosePipeline(p)
        PROVE  orders' = orders
    BY <2>6 DEF HandOver, Redeliver, LosePipeline, bankroll
  <2>7. CASE (\E m \in Matches : MatchEnds(m)) \/ (\E new \in SettingsSpace : StoreSettings(new)) \/ ProcessStarts
    BY <2>7 DEF MatchEnds, StoreSettings, ProcessStarts, bankroll
  <2>8. CASE ScheduledSettlement
    BY <2>3, <2>8 DEF ScheduledSettlement
  <2>. QED BY <1>1, <2>2, <2>3, <2>5, <2>6, <2>7, <2>8 DEF Next
<1>2. BookInv /\ [Next]_vars => [repeats' = 0 => \A k \in recorded : orders'[k] = orders[k]]_vars
  BY <1>1
<1>. QED BY <1>2, BooksHold, PTL DEF Spec, SettlementIsFinal

-----------------------------------------------------------------------------
(* The types.                                                                 *)

\* A pipeline that comes to the execution has a ticket.
TicketsInv ==
    \A p \in Pipelines : pipe[p] # Nothing /\ pipe[p].at > 5 => tickets[pipe[p].key] # Nothing

\* Every order that was ever placed has its opening entry.
OpeningInv ==
    \A k \in Keys : HasRow(orders, k) =>
        \E i \in DOMAIN ledger : ledger[i].kind = "open" /\ ledger[i].key = k

LEMMA ClampedNumbers ==
    ASSUME NEW x \in Int, NEW y \in Int
    PROVE  /\ AtLeast(0, x) \in Nat
           /\ x \in Nat /\ y \in Nat => AtLeast(x, y) \in Nat /\ AtMost(x, y) \in Nat
           /\ x >= 0 => AtLeast(0, x) = x
BY DEF AtLeast, AtMost

LEMMA Outcomes ==
    ASSUME NEW k \in Keys
    PROVE  OutcomeStatus(k) \in {"OPEN", "WON", "LOST", "PUSH", "VOID", "CANCELLED"}
BY DEF OutcomeStatus

\* What an order pays is its stake and its result, unless it stays open.
LEMMA OrderAmounts ==
    ASSUME TypeOK, NEW k \in Keys
    PROVE  /\ orders[k].stake \in Nat /\ Payout(k) \in Nat /\ Pnl(k) \in Int
           /\ OutcomeStatus(k) # "OPEN" => Payout(k) = orders[k].stake + Pnl(k)
           /\ OutcomeStatus(k) = "OPEN" => Payout(k) = 0 /\ Pnl(k) = 0
<1>. DEFINE stake == orders[k].stake
<1>1. stake \in Nat
  BY DEF TypeOK
<1>2. Odds \in Nat /\ Odds - 1 \in Nat
  OBVIOUS
<1>. HIDE DEF stake
<1>3. stake * Odds \in Nat /\ stake * (Odds - 1) \in Int /\ stake * Odds = stake + stake * (Odds - 1)
  BY <1>1, <1>2
<1>. DEFINE win == stake * Odds
            profit == stake * (Odds - 1)
<1>4. Payout(k) = CASE OutcomeStatus(k) \in {"CANCELLED", "VOID", "PUSH"} -> stake
                    [] OutcomeStatus(k) = "WON" -> win
                    [] OTHER -> 0
  BY DEF Payout, stake
<1>5. Pnl(k) = CASE OutcomeStatus(k) = "WON" -> profit
                 [] OutcomeStatus(k) = "LOST" -> 0 - stake
                 [] OTHER -> 0
  BY DEF Pnl, stake
<1>6. win \in Nat /\ profit \in Int /\ win = stake + profit
  BY <1>3
<1>. HIDE DEF win, profit
<1>7. Payout(k) \in Nat /\ Pnl(k) \in Int
  BY <1>1, <1>4, <1>5, <1>6
<1>8. OutcomeStatus(k) # "OPEN" => Payout(k) = stake + Pnl(k)
  BY <1>1, <1>4, <1>5, <1>6, Outcomes
<1>9. OutcomeStatus(k) = "OPEN" => Payout(k) = 0 /\ Pnl(k) = 0
  BY <1>4, <1>5
<1>. QED BY <1>1, <1>7, <1>8, <1>9 DEF stake

LEMMA MoneyTypes ==
    ASSUME TypeOK, NEW keys \in SUBSET Keys
    PROVE  /\ IsFiniteSet(keys)
           /\ StakesOf(keys) \in Nat /\ PayoutsOf(keys) \in Nat /\ PnlOf(keys) \in Int
<1>1. IsFiniteSet(keys)
  BY FS_Subset
<1>2. \A k \in keys : orders[k].stake \in Nat /\ Payout(k) \in Nat /\ Pnl(k) \in Int
  BY OrderAmounts
<1>3. StakesOf(keys) \in Nat
  <2>. DEFINE f == [k \in Keys |-> orders[k].stake]
  <2>1. \A k \in keys : f[k] \in Nat
    BY <1>2
  <2>. HIDE DEF f
  <2>2. SumFunctionOnSet(f, keys) \in Nat
    BY <1>1, <2>1, SumIsNatural
  <2>. QED BY <2>2 DEF f, StakesOf
<1>4. PayoutsOf(keys) \in Nat
  <2>. DEFINE f == [k \in Keys |-> Payout(k)]
  <2>1. \A k \in keys : f[k] \in Nat
    BY <1>2
  <2>. HIDE DEF f
  <2>2. SumFunctionOnSet(f, keys) \in Nat
    BY <1>1, <2>1, SumIsNatural
  <2>. QED BY <2>2 DEF f, PayoutsOf
<1>5. PnlOf(keys) \in Int
  <2>. DEFINE f == [k \in Keys |-> Pnl(k)]
  <2>1. \A k \in keys : f[k] \in Int
    BY <1>2
  <2>. HIDE DEF f
  <2>2. SumFunctionOnSet(f, keys) \in Int
    BY <1>1, <2>1, SumIsInteger
  <2>. QED BY <2>2 DEF f, PnlOf
<1>. QED BY <1>1, <1>3, <1>4, <1>5

LEMMA AccountTypes ==
    ASSUME TypeOK
    PROVE  /\ account.available \in Nat /\ account.reserved \in Nat /\ account.realized \in Int
           /\ \A stake \in Nat : Reserve(stake) \in Account
           /\ \A keys \in SUBSET Keys : Settled(keys) \in Account
<1>1. /\ account.available \in Nat /\ account.reserved \in Nat /\ account.realized \in Int
      /\ account \in Account
  BY DEF TypeOK, Account
<1>2. ASSUME NEW stake \in Nat PROVE Reserve(stake) \in Account
  <2>1. AtLeast(0, account.available - stake) \in Nat /\ account.reserved + stake \in Nat
    <3>1. account.available - stake \in Int /\ account.reserved + stake \in Nat
      BY <1>1
    <3>. QED BY <3>1, ClampedNumbers
  <2>2. Reserve(stake) = [account EXCEPT !.available = AtLeast(0, account.available - stake),
                                         !.reserved = account.reserved + stake]
    BY DEF Reserve
  <2>. QED BY <1>1, <2>1, <2>2 DEF Account
<1>3. ASSUME NEW keys \in SUBSET Keys PROVE Settled(keys) \in Account
  <2>1. /\ account.available + PayoutsOf(keys) \in Nat
        /\ AtLeast(0, account.reserved - StakesOf(keys)) \in Nat
        /\ account.realized + PnlOf(keys) \in Int
    <3>1. StakesOf(keys) \in Nat /\ PayoutsOf(keys) \in Nat /\ PnlOf(keys) \in Int
      BY MoneyTypes
    <3>2. account.reserved - StakesOf(keys) \in Int
      BY <1>1, <3>1
    <3>3. AtLeast(0, account.reserved - StakesOf(keys)) \in Nat
      BY <3>2, ClampedNumbers
    <3>. QED BY <1>1, <3>1, <3>3
  <2>. QED BY <2>1 DEF Settled, Account
<1>. QED BY <1>1, <1>2, <1>3

LEMMA LogsOfEntries ==
    ASSUME NEW log, IsLog(log), \A i \in DOMAIN log : log[i] \in Entry
    PROVE  log \in Seq(Entry)
BY SeqMonotonic DEF IsLog

LEMMA RoomIsNatural ==
    ASSUME TypeOK, NEW k \in Keys
    PROVE  MatchRoom(MatchOf[k]) \in Nat
<1>. DEFINE value == BankrollValue
            taken == StakesOf(OpenOn(MatchOf[k]))
<1>1. value \in Nat
  BY AccountTypes DEF BankrollValue
<1>2. taken \in Nat
  BY MoneyTypes DEF OpenOn, OpenKeys
<1>. HIDE DEF value, taken
<1>3. MatchPercent * value - 100 * taken \in Int
  BY <1>1, <1>2
<1>. DEFINE left == AtLeast(0, MatchPercent * value - 100 * taken)
<1>4. left \in Nat
  BY <1>3, ClampedNumbers
<1>. HIDE DEF left
<1>5. (left + 50) \div 100 \in Nat
  BY <1>4
<1>. QED BY <1>5 DEF left, value, taken, MatchRoom

LEMMA RecommendedTypes ==
    ASSUME TypeOK, NEW k \in Keys, NEW stake \in Nat
    PROVE  /\ \A outcome \in SizingOutcomes(account.available) :
                 outcome \in [status : StakeStatuses, stake : Nat]
           /\ Governed(k, stake) \in [status : StakeStatuses, stake : Nat]
           /\ Decorrelated(k, stake) \in [status : StakeStatuses, stake : Nat]
<1>1. ASSUME NEW outcome \in SizingOutcomes(account.available)
      PROVE  outcome \in [status : StakeStatuses, stake : Nat]
  <2>1. ASSUME NEW r \in Recommendations PROVE Sized(r) \in [status : StakeStatuses, stake : Nat]
    BY ClampedNumbers DEF Sized, StakeStatuses, AtLeast, AtMost
  <2>. QED BY <2>1 DEF SizingOutcomes, StakeStatuses
<1>2. Governed(k, stake) \in [status : StakeStatuses, stake : Nat]
  <2>. DEFINE room == MatchRoom(MatchOf[k])
              least == AtMost(stake, room)
  <2>1. room \in Nat
    BY RoomIsNatural
  <2>2. least \in Nat
    BY <2>1, ClampedNumbers DEF AtMost
  <2>. HIDE DEF least
  <2>. QED BY <2>2 DEF least, Governed, StakeStatuses
<1>3. Decorrelated(k, stake) \in [status : StakeStatuses, stake : Nat]
  <2>1. (stake + 1) \div 2 \in Nat
    OBVIOUS
  <2>. QED BY <2>1 DEF Decorrelated, StakeStatuses
<1>. QED BY <1>1, <1>2, <1>3

\* Which actions write what.
LEMMA Writers ==
    ASSUME repeats \in Nat, [Next]_vars
    PROVE  /\ settings' = settings \/ settings' \in SettingsSpace \cup {DefaultSettings}
           /\ match' = match \/ \E m \in Matches : MatchEnds(m)
           /\ recs' = recs \/ \E p \in Pipelines :
                 \/ StakeCandidateBuild(p) \/ StakeSizing(p) \/ ExposureCheck(p) \/ CorrelationCheck(p)
           /\ tickets' = tickets \/ \E p \in Pipelines : TicketConstruction(p) \/ PaperExecution(p)
           /\ \/ UNCHANGED <<orders, recorded, ledger>>
              \/ SettleOpenOrders /\ repeats' = repeats
              \/ \E p \in Pipelines : PaperExecution(p)
           /\ \/ account' = account
              \/ SettleOpenOrders /\ repeats' = repeats
              \/ \E p \in Pipelines : PaperExecution(p) \/ BankrollAccounting(p)
           /\ repeats' = repeats \/ (repeats < MaxRepeats /\ repeats' = repeats + 1)
<1>. DEFINE Goal == Writers!3
<1>. SUFFICES Goal
  OBVIOUS
<1>1. ASSUME NEW p \in Pipelines, Stage(p) PROVE Goal
  <2>1. CASE StakeCandidateBuild(p) \/ StakeSizing(p)
    BY <2>1 DEF StakeCandidateBuild, StakeSizing
  <2>2. CASE ExposureCheck(p) \/ CorrelationCheck(p)
    BY <2>2 DEF ExposureCheck, CorrelationCheck
  <2>3. CASE TicketConstruction(p) \/ PaperExecution(p)
    BY <2>3 DEF TicketConstruction, PaperExecution
  <2>4. CASE Settlement(p) \/ BankrollAccounting(p)
    BY <2>4 DEF Settlement, BankrollAccounting
  <2>. QED BY <1>1, <2>1, <2>2, <2>3, <2>4 DEF Stage
<1>2. ASSUME NEW p \in Pipelines, NEW k \in Keys, HandOver(p, k) PROVE Goal
  BY <1>2 DEF HandOver, bankroll
<1>3. ASSUME NEW p \in Pipelines, Redeliver(p) \/ LosePipeline(p) PROVE Goal
  BY <1>3 DEF Redeliver, LosePipeline, bankroll
<1>4. CASE ScheduledSettlement
  BY <1>4 DEF ScheduledSettlement
<1>5. CASE (\E m \in Matches : MatchEnds(m)) \/ (\E new \in SettingsSpace : StoreSettings(new)) \/ ProcessStarts
  BY <1>5 DEF MatchEnds, StoreSettings, ProcessStarts, bankroll
<1>6. CASE UNCHANGED vars
  BY <1>6 DEF vars
<1>. HIDE DEF Goal
<1>. QED BY <1>1, <1>2, <1>3, <1>4, <1>5, <1>6 DEF Next

TypesInv == TypeOK /\ TicketsInv /\ OpeningInv

\* A settlement.
LEMMA SettledTypes ==
    ASSUME BookInv, TypesInv, SettleOpenOrders
    PROVE  /\ orders' \in [Keys -> [status : OrderStatuses, stake : Nat]]
           /\ account' \in Account /\ ledger' \in Seq(Entry) /\ OpeningInv'
<1>. USE DEF TypesInv
<1>1. CASE DueEntries = {}
  <2>1. UNCHANGED <<orders, recorded, account, ledger>>
    BY <1>1 DEF SettleOpenOrders
  <2>2. OpeningInv'
    BY <2>1 DEF OpeningInv
  <2>3. orders \in [Keys -> [status : OrderStatuses, stake : Nat]] /\ account \in Account
    BY DEF TypeOK
  <2>4. ledger \in Seq(Entry) /\ tickets \in [Keys -> Ticket \cup {Nothing}]
    BY DEF TypeOK
  <2>. QED BY <2>1, <2>2, <2>3, <2>4
<1>2. CASE DueEntries # {}
  <2>. DEFINE n == Cardinality(DueEntries)
              L == Len(ledger)
  <2>1. PICK due \in [1 .. n -> DueEntries] :
             /\ IsLog(ledger') /\ Len(ledger') = L + n /\ n \in Nat /\ n > 0
             /\ \A i \in 1 .. L : ledger'[i] = ledger[i]
             /\ \A i \in 1 .. n : /\ ledger'[L + i].kind = "settle"
                                  /\ ledger'[L + i].key = ledger[due[i]].key
                                  /\ ledger'[L + i] =
                                        [kind |-> "settle", key |-> ledger[due[i]].key,
                                         after |-> Settled({ledger[due[m]].key : m \in 1 .. i})]
    BY <1>2, SettledLedger
  <2>2. L \in Nat /\ DOMAIN ledger = 1 .. L /\ DOMAIN ledger' = 1 .. L + n
    BY <2>1, LogShape DEF BookInv, TablesInv
  <2>3. \A i \in 1 .. n : ledger[due[i]].key \in Keys
    BY DueOrdersAreOpen
  <2>4. ASSUME NEW k \in Keys PROVE orders'[k] \in [status : OrderStatuses, stake : Nat]
    <3>1. orders'[k] = IF k \in DueKeys THEN [status |-> OutcomeStatus(k), stake |-> orders[k].stake] ELSE orders[k]
      BY <1>2 DEF SettleOpenOrders
    <3>. QED BY <3>1, Outcomes DEF TypeOK, OrderStatuses
  <2>5. orders' \in [Keys -> [status : OrderStatuses, stake : Nat]]
    BY <1>2, <2>4 DEF SettleOpenOrders
  <2>6. account' \in Account
    BY <1>2, AccountTypes, DueOrdersAreOpen DEF SettleOpenOrders
  <2>7. \A i \in 1 .. L : ledger'[i] \in Entry
    <3>1. \A i \in DOMAIN ledger : ledger[i] \in Entry
      BY DEF TypeOK
    <3>. QED BY <2>1, <2>2, <3>1
  <2>8. ASSUME NEW i \in 1 .. n PROVE ledger'[L + i] \in Entry
    <3>. DEFINE keys == {ledger[due[m]].key : m \in 1 .. i}
    <3>1. keys \subseteq Keys
      <4>1. \A m \in 1 .. i : m \in 1 .. n
        BY <2>1
      <4>. QED BY <2>3, <4>1
    <3>. HIDE DEF keys
    <3>2. Settled(keys) \in Account
      BY <3>1, AccountTypes
    <3>3. ledger'[L + i] = [kind |-> "settle", key |-> ledger[due[i]].key, after |-> Settled(keys)]
      BY <2>1 DEF keys
    <3>. QED BY <2>3, <3>2, <3>3 DEF Entry
  <2>. HIDE DEF n, L
  <2>9. \A i \in 1 .. L + n : i \in 1 .. L \/ \E j \in 1 .. n : i = L + j
    <3>1. ASSUME NEW i \in 1 .. L + n, i \notin 1 .. L PROVE i - L \in 1 .. n /\ i = L + (i - L)
      BY <2>1, <2>2, <3>1
    <3>. QED BY <3>1
  <2>10. \A i \in DOMAIN ledger' : ledger'[i] \in Entry
    BY <2>2, <2>7, <2>8, <2>9
  <2>11. ledger' \in Seq(Entry)
    BY <2>1, <2>10, LogsOfEntries
  <2>12. \A k \in Keys : HasRow(orders', k) = HasRow(orders, k)
    BY SettledOrders
  <2>13. OpeningInv'
    <3>1. ASSUME NEW k \in Keys, HasRow(orders', k)
          PROVE  \E i \in DOMAIN ledger' : ledger'[i].kind = "open" /\ ledger'[i].key = k
      <4>1. PICK i \in DOMAIN ledger : ledger[i].kind = "open" /\ ledger[i].key = k
        BY <2>12, <3>1 DEF OpeningInv
      <4>2. i \in DOMAIN ledger' /\ ledger'[i] = ledger[i]
        BY <2>1, <2>2
      <4>. QED BY <4>1, <4>2
    <3>. QED BY <3>1 DEF OpeningInv
  <2>. QED BY <2>5, <2>6, <2>11, <2>13
<1>. QED BY <1>1, <1>2

\* An execution.
LEMMA ExecutedTypes ==
    ASSUME BookInv, TypesInv, NEW p \in Pipelines, PaperExecution(p)
    PROVE  /\ orders' \in [Keys -> [status : OrderStatuses, stake : Nat]]
           /\ tickets' \in [Keys -> Ticket \cup {Nothing}]
           /\ \A k \in Keys : tickets[k] # Nothing => tickets'[k] # Nothing
           /\ account' \in Account /\ ledger' \in Seq(Entry) /\ OpeningInv'
<1>. USE DEF TypesInv
<1>. DEFINE key == pipe[p].key
            entry == [kind |-> "open", key |-> key, after |-> account']
            Placed(i) == ledger[i].kind = "open" /\ ledger[i].key = key
<1>1. pipe[p] # Nothing /\ pipe[p].at = 6 /\ key \in Keys
  BY ExecutedOrders
<1>2. tickets[key] \in Ticket
  BY <1>1 DEF TicketsInv, TypeOK
<1>3. tickets[key].stake \in Nat
  BY <1>2 DEF Ticket
<1>4. CASE ~(settings.paper /\ Placeable(key))
  <2>1. UNCHANGED <<orders, tickets, account, ledger>>
    BY <1>4 DEF PaperExecution
  <2>2. OpeningInv'
    BY <2>1 DEF OpeningInv
  <2>3. orders \in [Keys -> [status : OrderStatuses, stake : Nat]] /\ account \in Account
    BY DEF TypeOK
  <2>4. ledger \in Seq(Entry) /\ tickets \in [Keys -> Ticket \cup {Nothing}]
    BY DEF TypeOK
  <2>. QED BY <2>1, <2>2, <2>3, <2>4
<1>5. CASE settings.paper /\ Placeable(key)
  <2>1. /\ orders' = [orders EXCEPT ![key] = [status |-> "OPEN", stake |-> tickets[key].stake]]
        /\ tickets' = [tickets EXCEPT ![key].status = "EXECUTED_PAPER"]
        /\ account' = Reserve(tickets[key].stake)
        /\ ledger' = AppendLedger(ledger, "open", key, account')
    BY <1>5 DEF PaperExecution
  <2>2. orders' \in [Keys -> [status : OrderStatuses, stake : Nat]]
    BY <1>1, <1>3, <2>1 DEF TypeOK, OrderStatuses
  <2>3. account' \in Account
    BY <1>3, <2>1, AccountTypes
  <2>4. /\ tickets' \in [Keys -> Ticket \cup {Nothing}]
        /\ \A k \in Keys : tickets[k] # Nothing => tickets'[k] # Nothing
    <3>. DEFINE done == [tickets[key] EXCEPT !.status = "EXECUTED_PAPER"]
    <3>1. done \in Ticket
      BY <1>2 DEF Ticket, TicketStatuses
    <3>2. tickets' = [tickets EXCEPT ![key] = done]
      BY <2>1
    <3>. HIDE DEF done
    <3>. QED BY <1>1, <3>1, <3>2, NoTicketAssumption DEF TypeOK
  <2>5. entry \in Entry /\ entry.kind = "open" /\ entry.key = key
    BY <1>1, <2>3 DEF Entry
  <2>6. IsLog(ledger')
    BY ExecutionKeepsBooks
  <2>7. Len(ledger) \in Nat /\ DOMAIN ledger = 1 .. Len(ledger) /\ IsLog(ledger)
    BY LogShape DEF BookInv, TablesInv
  <2>8. \A i \in DOMAIN ledger : ledger[i] \in Entry
    BY DEF TypeOK
  <2>. HIDE DEF entry, key
  <2>9. /\ \A i \in DOMAIN ledger' : ledger'[i] \in Entry
        /\ \E i \in DOMAIN ledger' : ledger'[i] = entry
        /\ \A i \in DOMAIN ledger : i \in DOMAIN ledger' /\ (ledger'[i] = ledger[i] \/ Placed(i))
    <3>1. CASE \E i \in DOMAIN ledger : Placed(i)
      <4>1. ledger' = [i \in DOMAIN ledger |-> IF Placed(i) THEN entry ELSE ledger[i]]
        BY <2>1, <3>1 DEF AppendLedger, entry
      <4>. QED BY <2>5, <2>8, <3>1, <4>1
    <3>2. CASE ~\E i \in DOMAIN ledger : Placed(i)
      <4>1. ledger' = Append(ledger, entry)
        BY <2>1, <3>2 DEF AppendLedger, entry
      <4>2. /\ DOMAIN ledger' = 1 .. Len(ledger) + 1 /\ ledger'[Len(ledger) + 1] = entry
            /\ \A i \in 1 .. Len(ledger) : ledger'[i] = ledger[i]
        BY <2>7, <4>1, AppendLog
      <4>3. \A i \in 1 .. Len(ledger) + 1 : i \in 1 .. Len(ledger) \/ i = Len(ledger) + 1
        BY <2>7
      <4>4. Len(ledger) + 1 \in DOMAIN ledger' /\ 1 .. Len(ledger) \subseteq DOMAIN ledger'
        BY <2>7, <4>2
      <4>. QED BY <2>5, <2>7, <2>8, <4>2, <4>3, <4>4
    <3>. QED BY <3>1, <3>2
  <2>10. ledger' \in Seq(Entry)
    BY <2>6, <2>9, LogsOfEntries
  <2>11. OpeningInv'
    <3>1. ASSUME NEW k \in Keys, HasRow(orders', k)
          PROVE  \E i \in DOMAIN ledger' : ledger'[i].kind = "open" /\ ledger'[i].key = k
      <4>1. CASE k = key
        BY <2>5, <2>9, <4>1
      <4>2. CASE k # key
        <5>1. HasRow(orders, k)
          BY <3>1, <4>2, ExecutedOrders DEF HasRow, key
        <5>2. PICK i \in DOMAIN ledger : ledger[i].kind = "open" /\ ledger[i].key = k
          BY <5>1 DEF OpeningInv
        <5>3. i \in DOMAIN ledger' /\ ledger'[i] = ledger[i]
          BY <2>5, <2>9, <4>2, <5>2
        <5>. QED BY <5>2, <5>3
      <4>. QED BY <4>1, <4>2
    <3>. QED BY <3>1 DEF OpeningInv
  <2>. QED BY <2>2, <2>3, <2>4, <2>10, <2>11
<1>. QED BY <1>4, <1>5

LEMMA InitTypes == Init => TypesInv
<1>. SUFFICES ASSUME Init PROVE TypesInv
  OBVIOUS
<1>1. settings \in Settings
  BY DEF Init, DefaultSettings, Settings
<1>2. match \in [Matches -> [status : {"scheduled", "finished", "cancelled"},
                             score : Scores \cup {Nothing}]]
  BY DEF Init
<1>3. account \in Account
  BY DEF Init, Account
<1>4. /\ recs \in [Keys -> [status : StakeStatuses, stake : Nat]]
      /\ orders \in [Keys -> [status : OrderStatuses, stake : Nat]]
  BY DEF Init, NoRow, StakeStatuses, OrderStatuses
<1>5. tickets \in [Keys -> Ticket \cup {Nothing}] /\ recorded \in SUBSET Keys
  BY DEF Init
<1>6. ledger \in Seq(Entry)
  BY DEF Init
<1>7. pipe \in [Pipelines -> [key : Keys, at : DOMAIN Stages] \cup {Nothing}]
  BY DEF Init
<1>8. repeats \in 0 .. MaxRepeats
  BY DEF Init
<1>9. TicketsInv
  BY DEF Init, TicketsInv
<1>10. OpeningInv
  BY DEF Init, NoRow, OpeningInv, HasRow
<1>. QED BY <1>1, <1>2, <1>3, <1>4, <1>5, <1>6, <1>7, <1>8, <1>9, <1>10 DEF TypesInv, TypeOK

\* The four stages that recommend a stake.
LEMMA RecommendingKeepsTypes ==
    ASSUME BookInv, TypesInv, NEW p \in Pipelines,
           StakeCandidateBuild(p) \/ StakeSizing(p) \/ ExposureCheck(p) \/ CorrelationCheck(p)
    PROVE  recs' \in [Keys -> [status : StakeStatuses, stake : Nat]]
<1>. DEFINE key == pipe[p].key
            Rec == [status : StakeStatuses, stake : Nat]
<1>1. key \in Keys
  BY StageNumbers DEF BookInv, Job, At, StakeCandidateBuild, StakeSizing, ExposureCheck, CorrelationCheck
<1>2. recs \in [Keys -> Rec] /\ recs[key].stake \in Nat
  BY <1>1 DEF TypesInv, TypeOK
<1>3. ASSUME NEW rec \in Rec, recs' = [recs EXCEPT ![key] = rec] PROVE recs' \in [Keys -> Rec]
  BY <1>1, <1>2, <1>3
<1>. HIDE DEF key
<1>4. CASE StakeCandidateBuild(p)
  BY <1>3, <1>4 DEF StakeCandidateBuild, StakeStatuses, key
<1>5. CASE StakeSizing(p)
  <2>1. PICK outcome \in SizingOutcomes(account.available) : recs' = [recs EXCEPT ![key] = outcome]
    BY <1>5 DEF StakeSizing, key
  <2>2. outcome \in Rec
    BY <1>1, <1>2, RecommendedTypes DEF TypesInv
  <2>. QED BY <1>3, <2>1, <2>2
<1>6. Governed(key, recs[key].stake) \in Rec /\ Decorrelated(key, recs[key].stake) \in Rec
  BY <1>1, <1>2, RecommendedTypes DEF TypesInv
<1>7. CASE ExposureCheck(p)
  <2>1. recs' = [recs EXCEPT ![key] = Governed(key, recs[key].stake)] \/ recs' = recs
    BY <1>7 DEF ExposureCheck, key
  <2>. QED BY <1>2, <1>3, <1>6, <2>1
<1>8. CASE CorrelationCheck(p)
  <2>1. recs' = [recs EXCEPT ![key] = Decorrelated(key, recs[key].stake)] \/ recs' = recs
    BY <1>8 DEF CorrelationCheck, key
  <2>. QED BY <1>2, <1>3, <1>6, <2>1
<1>. QED BY <1>4, <1>5, <1>7, <1>8

LEMMA ConstructionKeepsTypes ==
    ASSUME BookInv, TypesInv, NEW p \in Pipelines, TicketConstruction(p)
    PROVE  /\ pipe[p] # Nothing /\ pipe[p].key \in Keys
           /\ tickets' \in [Keys -> Ticket \cup {Nothing}]
           /\ tickets'[pipe[p].key] # Nothing
           /\ \A k \in Keys : tickets[k] # Nothing => tickets'[k] # Nothing
<1>. DEFINE key == pipe[p].key
            ticket == TicketFor(recs[key])
<1>1. pipe[p] # Nothing /\ key \in Keys
  BY StageNumbers DEF BookInv, Job, At, TicketConstruction
<1>2. recs[key].stake \in Nat /\ recs[key].status \in StakeStatuses
  BY <1>1 DEF TypesInv, TypeOK
<1>3. ticket \in Ticket
  BY <1>2 DEF TicketFor, Ticket, TicketStatuses
<1>4. tickets' = [tickets EXCEPT ![key] = ticket] /\ tickets \in [Keys -> Ticket \cup {Nothing}]
  BY DEF TicketConstruction, TypesInv, TypeOK
<1>. HIDE DEF ticket
<1>. QED BY <1>1, <1>3, <1>4, NoTicketAssumption

\* A pipeline reaches the stages from the sixth on one by one.
LEMMA StepsKeepTickets ==
    ASSUME BookInv, TypesInv, [Next]_vars,
           \A k \in Keys : tickets[k] # Nothing => tickets'[k] # Nothing
    PROVE  TicketsInv'
<1>. USE DEF TypesInv
<1>. SUFFICES ASSUME NEW q \in Pipelines, pipe'[q] # Nothing, pipe'[q].at > 5
              PROVE  tickets'[pipe'[q].key] # Nothing
  BY DEF TicketsInv
<1>1. \A p \in Pipelines : pipe[p] # Nothing => pipe[p].key \in Keys /\ pipe[p].at \in 1 .. 8
  BY StageNumbers DEF BookInv, Job
<1>2. CASE pipe'[q] = pipe[q]
  BY <1>1, <1>2 DEF TicketsInv
<1>3. ASSUME NEW p \in Pipelines, Stage(p), pipe'[q] # pipe[q] PROVE tickets'[pipe'[q].key] # Nothing
  <2>1. pipe[p] # Nothing /\ Advance(p)
    BY <1>3 DEF Stage, At, StakeCandidateBuild, StakeSizing, ExposureCheck, CorrelationCheck,
                TicketConstruction, PaperExecution, Settlement, BankrollAccounting
  <2>2. q = p /\ pipe'[p].key = pipe[p].key /\ pipe'[p].at = pipe[p].at + 1
    BY <1>3, <2>1, Advances DEF BookInv
  <2>3. CASE pipe[p].at > 5
    BY <1>1, <2>1, <2>2, <2>3 DEF TicketsInv
  <2>4. CASE pipe[p].at = 5
    <3>1. TicketConstruction(p)
      <4>1. /\ ~At(p, "stakeCandidateBuild") /\ ~At(p, "stakeSizing") /\ ~At(p, "exposureCheck")
            /\ ~At(p, "correlationCheck") /\ ~At(p, "paperExecution") /\ ~At(p, "settlement")
            /\ ~At(p, "bankrollAccounting")
        BY <2>1, <2>4, StageNumbers DEF BookInv
      <4>. QED BY <1>3, <4>1 DEF Stage, StakeCandidateBuild, StakeSizing, ExposureCheck,
                  CorrelationCheck, PaperExecution, Settlement, BankrollAccounting
    <3>. QED BY <2>2, <3>1, ConstructionKeepsTypes
  <2>. QED BY <1>1, <2>1, <2>2, <2>3, <2>4
<1>4. ASSUME NEW p \in Pipelines, NEW k \in Keys, HandOver(p, k) PROVE pipe'[q] = pipe[q]
  <2>1. pipe' = [pipe EXCEPT ![p] = [key |-> k, at |-> 1]] /\ DOMAIN pipe = Pipelines
    BY <1>4 DEF HandOver, BookInv, TablesInv
  <2>2. q # p
    BY <2>1
  <2>. QED BY <2>1, <2>2
<1>5. ASSUME NEW p \in Pipelines, Redeliver(p) PROVE tickets'[pipe'[q].key] # Nothing
  <2>1. pipe' = [pipe EXCEPT ![p].at = @ - 1] /\ pipe[p] # Nothing /\ DOMAIN pipe = Pipelines
    BY <1>5 DEF Redeliver, BookInv, TablesInv
  <2>2. CASE q = p
    <3>1. pipe[p] \in Job
      BY <2>1, StageNumbers DEF BookInv
    <3>2. pipe'[p].key = pipe[p].key /\ pipe'[p].at = pipe[p].at - 1
      BY <2>1, <3>1 DEF Job
    <3>3. pipe[p].at > 5
      BY <1>1, <2>1, <2>2, <3>2
    <3>. QED BY <1>1, <2>1, <2>2, <3>2, <3>3 DEF TicketsInv
  <2>3. CASE q # p
    BY <1>2, <2>1, <2>3
  <2>. QED BY <2>2, <2>3
<1>6. ASSUME NEW p \in Pipelines, LosePipeline(p) PROVE pipe'[q] = pipe[q]
  BY <1>6 DEF LosePipeline, BookInv, TablesInv
<1>7. CASE ScheduledSettlement \/ (\E m \in Matches : MatchEnds(m))
           \/ (\E new \in SettingsSpace : StoreSettings(new)) \/ ProcessStarts \/ UNCHANGED vars
  BY <1>2, <1>7 DEF ScheduledSettlement, MatchEnds, StoreSettings, ProcessStarts, vars
<1>. QED BY <1>2, <1>3, <1>4, <1>5, <1>6, <1>7 DEF Next

LEMMA StepsKeepTypes == BookInv /\ TypesInv /\ [Next]_vars => TypesInv'
<1>. SUFFICES ASSUME BookInv, TypesInv, [Next]_vars PROVE TypesInv'
  OBVIOUS
<1>. USE DEF TypesInv
<1>1. repeats \in Nat /\ BookInv'
  BY StepsKeepBooks DEF BookInv, TablesInv
<1>2. settings' \in Settings
  <2>1. DefaultSettings \in Settings /\ settings \in Settings
    BY DEF TypeOK, Settings, DefaultSettings
  <2>2. settings' = settings \/ settings' \in SettingsSpace \cup {DefaultSettings}
    BY <1>1, Writers
  <2>. QED BY <2>1, <2>2
<1>. DEFINE Row == [status : {"scheduled", "finished", "cancelled"}, score : Scores \cup {Nothing}]
<1>3. match' \in [Matches -> Row]
  <2>1. match \in [Matches -> Row]
    BY DEF TypeOK
  <2>2. ASSUME NEW m \in Matches, MatchEnds(m)
        PROVE  \E row \in Row : match' = [match EXCEPT ![m] = row]
    BY <2>2 DEF MatchEnds
  <2>. HIDE DEF Row
  <2>3. ASSUME NEW m \in Matches, NEW row \in Row, match' = [match EXCEPT ![m] = row]
        PROVE  match' \in [Matches -> Row]
    BY <2>1, <2>3
  <2>. QED BY <1>1, <2>1, <2>2, <2>3, Writers
<1>4. recs' \in [Keys -> [status : StakeStatuses, stake : Nat]]
  <2>1. CASE recs' = recs
    BY <2>1 DEF TypeOK
  <2>. QED BY <1>1, <2>1, Writers, RecommendingKeepsTypes
<1>5. /\ tickets' \in [Keys -> Ticket \cup {Nothing}]
      /\ \A k \in Keys : tickets[k] # Nothing => tickets'[k] # Nothing
  <2>1. CASE tickets' = tickets
    BY <2>1 DEF TypeOK
  <2>. QED BY <1>1, <2>1, Writers, ConstructionKeepsTypes, ExecutedTypes
<1>6. /\ orders' \in [Keys -> [status : OrderStatuses, stake : Nat]]
      /\ ledger' \in Seq(Entry) /\ OpeningInv'
  <2>1. CASE UNCHANGED <<orders, recorded, ledger>>
    BY <2>1 DEF TypeOK, OpeningInv
  <2>. QED BY <1>1, <2>1, Writers, SettledTypes, ExecutedTypes
<1>7. account' \in Account
  <2>1. CASE account' = account
    BY <2>1 DEF TypeOK
  <2>2. ASSUME NEW p \in Pipelines, BankrollAccounting(p) PROVE account' \in Account
    <3>1. CASE ledger = <<>>
      BY <2>2, <3>1 DEF BankrollAccounting, Account
    <3>2. CASE ledger # <<>>
      <4>1. Len(ledger) \in DOMAIN ledger
        BY <3>2 DEF TypeOK
      <4>2. ledger[Len(ledger)] \in Entry
        BY <4>1 DEF TypeOK
      <4>3. account' = ledger[Len(ledger)].after
        BY <2>2, <3>2 DEF BankrollAccounting, Last
      <4>. QED BY <4>2, <4>3 DEF Entry
    <3>. QED BY <3>1, <3>2
  <2>. QED BY <1>1, <2>1, <2>2, Writers, SettledTypes, ExecutedTypes
<1>8. recorded' \in SUBSET Keys /\ pipe' \in [Pipelines -> [key : Keys, at : DOMAIN Stages] \cup {Nothing}]
  <2>1. DOMAIN Stages = 1 .. 8
    BY DEF Stages
  <2>. QED BY <1>1, <2>1 DEF BookInv, TablesInv, Job
<1>9. repeats' \in 0 .. MaxRepeats
  BY <1>1, Writers DEF TypeOK
<1>10. TicketsInv'
  BY <1>5, StepsKeepTickets
<1>. QED BY <1>2, <1>3, <1>4, <1>5, <1>6, <1>7, <1>8, <1>9, <1>10 DEF TypeOK

\* Every row, balance and entry keeps its type, whatever runs side by side.
THEOREM TypesHold == Spec => []TypeOK
<1>1. Spec => [](BookInv /\ TypesInv)
  BY InitBooks, InitTypes, StepsKeepBooks, StepsKeepTypes, PTL DEF Spec
<1>2. BookInv /\ TypesInv => TypeOK
  BY DEF TypesInv
<1>. QED BY <1>1, <1>2, PTL

-----------------------------------------------------------------------------
(* The money.                                                                 *)

LEMMA SumOfNothings ==
    ASSUME NEW f, NEW S, IsFiniteSet(S), \A x \in S : f[x] = 0
    PROVE  SumFunctionOnSet(f, S) = 0
<1>1. SumFunctionOnSet(f, S) = SumFunctionOnSet(f, S) + SumFunctionOnSet(f, S)
  <2>1. \A x \in S : f[x] \in Int /\ f[x] \in Int /\ f[x] = f[x] + f[x]
    OBVIOUS
  <2>. QED BY <2>1, SumOfSums
<1>2. SumFunctionOnSet(f, S) \in Int
  BY SumIsInteger
<1>. QED BY <1>1, <1>2

\* What a settlement pays out for its orders is their stakes and their results,
\* less the stakes of those that stay open.
LEMMA SettlementSums ==
    ASSUME TypeOK, NEW keys \in SUBSET Keys
    PROVE  LET left == {k \in keys : OutcomeStatus(k) = "OPEN"} IN
           PayoutsOf(keys) + StakesOf(left) = StakesOf(keys) + PnlOf(keys)
<1>. DEFINE stake == [k \in Keys |-> orders[k].stake]
            pay == [k \in Keys |-> Payout(k)]
            pnl == [k \in Keys |-> Pnl(k)]
            left == {k \in keys : OutcomeStatus(k) = "OPEN"}
            done == keys \ left
<1>1. /\ \A k \in keys : stake[k] \in Int /\ pay[k] \in Int /\ pnl[k] \in Int
      /\ \A k \in left : pay[k] = 0 /\ pnl[k] = 0
      /\ \A k \in done : pay[k] = stake[k] + pnl[k]
  BY OrderAmounts
<1>2. IsFiniteSet(left) /\ IsFiniteSet(done) /\ left \cap done = {} /\ left \cup done = keys
      /\ left \subseteq keys /\ done \subseteq keys
  BY MoneyTypes
<1>3. /\ StakesOf(keys) = SumFunctionOnSet(stake, keys) /\ StakesOf(left) = SumFunctionOnSet(stake, left)
      /\ PayoutsOf(keys) = SumFunctionOnSet(pay, keys) /\ PnlOf(keys) = SumFunctionOnSet(pnl, keys)
  BY DEF StakesOf, PayoutsOf, PnlOf
<1>. HIDE DEF stake, pay, pnl, left, done
<1>4. /\ SumFunctionOnSet(stake, keys) = SumFunctionOnSet(stake, left) + SumFunctionOnSet(stake, done)
      /\ SumFunctionOnSet(pay, keys) = SumFunctionOnSet(pay, left) + SumFunctionOnSet(pay, done)
      /\ SumFunctionOnSet(pnl, keys) = SumFunctionOnSet(pnl, left) + SumFunctionOnSet(pnl, done)
  BY <1>1, <1>2, SumOfParts
<1>5. SumFunctionOnSet(pay, left) = 0 /\ SumFunctionOnSet(pnl, left) = 0
  BY <1>1, <1>2, SumOfNothings
<1>6. SumFunctionOnSet(pay, done) = SumFunctionOnSet(stake, done) + SumFunctionOnSet(pnl, done)
  <2>1. \A k \in done : stake[k] \in Int /\ pnl[k] \in Int /\ pay[k] = stake[k] + pnl[k]
    BY <1>1, <1>2
  <2>. QED BY <1>2, <2>1, SumOfSums
<1>7. /\ SumFunctionOnSet(stake, left) \in Int /\ SumFunctionOnSet(stake, done) \in Int
      /\ SumFunctionOnSet(pnl, done) \in Int
  BY <1>1, <1>2, SumIsInteger
<1>. QED BY <1>3, <1>4, <1>5, <1>6, <1>7 DEF left

\* The balances that have to add up.
Equity == account.available + account.reserved + StakesOf(Stranded)

LEMMA EquityIsNumber ==
    ASSUME TypesInv'
    PROVE  Equity' \in Int /\ account'.realized \in Int
<1>1. StakesOf(Stranded)' \in Nat
  <2>. DEFINE stakes == [k \in Keys |-> orders'[k].stake]
  <2>1. Stranded' \subseteq Keys /\ IsFiniteSet(Stranded') /\ \A k \in Stranded' : stakes[k] \in Nat
    BY FS_Subset DEF TypesInv, TypeOK, Stranded, OpenKeys
  <2>. HIDE DEF stakes
  <2>2. SumFunctionOnSet(stakes, Stranded') \in Nat
    BY <2>1, SumIsNatural
  <2>. QED BY <2>2 DEF stakes, StakesOf
<1>2. account'.available \in Nat /\ account'.reserved \in Nat /\ account'.realized \in Int
  BY DEF TypesInv, TypeOK, Account
<1>. QED BY <1>1, <1>2 DEF Equity

LEMMA SettlementKeepsMoney ==
    ASSUME BookInv, TypesInv, SettleOpenOrders, ReservedIsCovered
    PROVE  ReservedIsCovered' /\ Equity' - account'.realized = Equity - account.realized
<1>. USE DEF TypesInv
<1>1. CASE DueEntries = {}
  <2>1. UNCHANGED <<orders, recorded, account, ledger>>
    BY <1>1 DEF SettleOpenOrders
  <2>2. UNCHANGED <<OpenKeys, Stranded>>
    BY <2>1 DEF OpenKeys, IsOpen, Stranded
  <2>3. StakesOf(OpenKeys \ recorded)' = StakesOf(OpenKeys \ recorded)
    BY <2>1, <2>2 DEF StakesOf
  <2>4. StakesOf(Stranded)' = StakesOf(Stranded)
    BY <2>1, <2>2 DEF StakesOf
  <2>. QED BY <2>1, <2>3, <2>4 DEF ReservedIsCovered, Equity
<1>2. CASE DueEntries # {}
  <2>. DEFINE stake == [k \in Keys |-> orders[k].stake]
              stakes == [k \in Keys |-> orders'[k].stake]
              open == OpenKeys \ recorded
              rest == open \ DueKeys
              left == {k \in DueKeys : OutcomeStatus(k) = "OPEN"}
  <2>1. /\ orders' = [k \in Keys |->
              IF k \in DueKeys THEN [status |-> OutcomeStatus(k), stake |-> orders[k].stake] ELSE orders[k]]
        /\ recorded' = recorded \cup DueKeys
        /\ account' = Settled(DueKeys)
    BY <1>2 DEF SettleOpenOrders
  <2>2. DueKeys \subseteq Keys \ recorded /\ DueKeys \subseteq OpenKeys
    BY DueOrdersAreOpen DEF OpenKeys
  <2>3. OpenKeys' = (OpenKeys \ DueKeys) \cup left
    BY <2>1, <2>2 DEF OpenKeys, IsOpen
  <2>4. (OpenKeys \ recorded)' = rest /\ Stranded' = Stranded \cup left /\ Stranded \cap left = {}
    BY <2>1, <2>2, <2>3 DEF Stranded
  <2>5. \A k \in Keys : stakes[k] = stake[k] /\ stake[k] \in Int
    BY <2>1, OrderAmounts
  <2>6. /\ open \subseteq Keys /\ rest \subseteq Keys /\ left \subseteq Keys /\ Stranded \subseteq Keys
        /\ DueKeys \subseteq Keys /\ open = rest \cup DueKeys /\ rest \cap DueKeys = {}
    BY <2>2 DEF OpenKeys, Stranded
  <2>7. /\ IsFiniteSet(open) /\ IsFiniteSet(rest) /\ IsFiniteSet(left) /\ IsFiniteSet(Stranded)
        /\ IsFiniteSet(DueKeys)
    BY <2>6, MoneyTypes
  <2>8. \A keys \in SUBSET Keys : StakesOf(keys) = SumFunctionOnSet(stake, keys)
    BY DEF StakesOf
  <2>9. /\ StakesOf(OpenKeys \ recorded)' = SumFunctionOnSet(stakes, rest)
        /\ StakesOf(Stranded)' = SumFunctionOnSet(stakes, Stranded \cup left)
    BY <2>4 DEF StakesOf
  <2>. HIDE DEF stake, stakes, open, rest, left
  <2>10. SumFunctionOnSet(stake, open) = SumFunctionOnSet(stake, rest) + SumFunctionOnSet(stake, DueKeys)
    BY <2>5, <2>6, <2>7, SumOfParts
  <2>11. SumFunctionOnSet(stakes, rest) = SumFunctionOnSet(stake, rest)
    BY <2>5, <2>6, <2>7, SumOfSameValues
  <2>12. SumFunctionOnSet(stakes, Stranded \cup left) = SumFunctionOnSet(stake, Stranded) + SumFunctionOnSet(stake, left)
    <3>1. IsFiniteSet(Stranded \cup left)
      BY <2>7, FS_Union
    <3>2. SumFunctionOnSet(stakes, Stranded \cup left) = SumFunctionOnSet(stake, Stranded \cup left)
      <4>1. \A k \in Stranded \cup left : stakes[k] = stake[k]
        BY <2>5, <2>6
      <4>. QED BY <3>1, <4>1, SumOfSameValues
    <3>3. SumFunctionOnSet(stake, Stranded \cup left) = SumFunctionOnSet(stake, Stranded) + SumFunctionOnSet(stake, left)
      <4>1. \A k \in Stranded \cup left : stake[k] \in Int
        BY <2>5, <2>6
      <4>. QED BY <2>4, <2>7, <4>1, SumOfParts
    <3>. QED BY <3>2, <3>3
  <2>13. PayoutsOf(DueKeys) + StakesOf(left) = StakesOf(DueKeys) + PnlOf(DueKeys)
    BY <2>6, SettlementSums DEF left
  <2>14. /\ StakesOf(rest) \in Nat /\ StakesOf(DueKeys) \in Nat /\ StakesOf(left) \in Nat
         /\ StakesOf(Stranded) \in Nat /\ PayoutsOf(DueKeys) \in Nat /\ PnlOf(DueKeys) \in Int
    BY <2>6, MoneyTypes
  <2>15. /\ account.available \in Nat /\ account.reserved \in Nat /\ account.realized \in Int
    BY AccountTypes
  <2>16. account.reserved = StakesOf(rest) + StakesOf(DueKeys)
    BY <2>6, <2>8, <2>10 DEF ReservedIsCovered, open
  <2>17. account'.reserved = StakesOf(rest)
    <3>1. account'.reserved = AtLeast(0, account.reserved - StakesOf(DueKeys))
      BY <2>1 DEF Settled
    <3>2. account.reserved - StakesOf(DueKeys) = StakesOf(rest)
      BY <2>14, <2>16
    <3>. QED BY <2>14, <3>1, <3>2 DEF AtLeast
  <2>18. /\ account'.available = account.available + PayoutsOf(DueKeys)
         /\ account'.realized = account.realized + PnlOf(DueKeys)
    BY <2>1 DEF Settled
  <2>19. /\ StakesOf(OpenKeys \ recorded)' = StakesOf(rest)
         /\ StakesOf(Stranded)' = StakesOf(Stranded) + StakesOf(left)
    BY <2>6, <2>8, <2>9, <2>11, <2>12
  <2>20. ReservedIsCovered'
    BY <2>17, <2>19 DEF ReservedIsCovered
  <2>21. Equity' = account'.available + account'.reserved + (StakesOf(Stranded) + StakesOf(left))
    BY <2>19 DEF Equity
  <2>22. Equity' - account'.realized = Equity - account.realized
    BY <2>13, <2>14, <2>15, <2>16, <2>17, <2>18, <2>21 DEF Equity
  <2>. QED BY <2>20, <2>22
<1>. QED BY <1>1, <1>2

\* The entry of a first execution is new and carries the account; the balance
\* pays for the stake as long as something is left of it.
LEMMA FirstExecutionAppends ==
    ASSUME BookInv, TypesInv, NEW p \in Pipelines, PaperExecution(p), repeats = 0, ledger' # ledger
    PROVE  \E i \in DOMAIN ledger' :
              /\ ledger'[i].after = account'
              /\ \A j \in DOMAIN ledger : j \in DOMAIN ledger' /\ ledger'[j] = ledger[j]
<1>. DEFINE key == pipe[p].key
            entry == [kind |-> "open", key |-> key, after |-> account']
<1>1. ~HasRow(orders, key) /\ key \in Keys
  BY ExecutedOrders
<1>2. ledger' = AppendLedger(ledger, "open", key, account')
  BY DEF PaperExecution
<1>3. ~\E i \in DOMAIN ledger : ledger[i].kind = "open" /\ ledger[i].key = key
  BY <1>1 DEF BookInv, LedgerInv
<1>4. ledger' = Append(ledger, entry)
  BY <1>2, <1>3 DEF AppendLedger
<1>5. entry.after = account'
  OBVIOUS
<1>. HIDE DEF entry
<1>6. Len(ledger) \in Nat /\ DOMAIN ledger = 1 .. Len(ledger) /\ IsLog(ledger)
  BY LogShape DEF BookInv, TablesInv
<1>7. /\ DOMAIN ledger' = 1 .. Len(ledger) + 1 /\ ledger'[Len(ledger) + 1] = entry
      /\ \A i \in 1 .. Len(ledger) : ledger'[i] = ledger[i]
  <2>. DEFINE new == Append(ledger, entry)
  <2>1. DOMAIN new = 1 .. Len(ledger) + 1 /\ new[Len(ledger) + 1] = entry
    BY <1>6, AppendLog
  <2>2. \A i \in 1 .. Len(ledger) : new[i] = ledger[i]
    BY <1>6, AppendLog
  <2>3. ledger' = new
    BY <1>4
  <2>. HIDE DEF new
  <2>. QED BY <2>1, <2>2, <2>3
<1>8. Len(ledger) + 1 \in DOMAIN ledger' /\ 1 .. Len(ledger) \subseteq DOMAIN ledger'
  BY <1>6, <1>7
<1>. QED BY <1>5, <1>6, <1>7, <1>8

LEMMA ExecutionKeepsMoney ==
    ASSUME BookInv, TypesInv, NEW p \in Pipelines, PaperExecution(p), repeats = 0, ReservedIsCovered
    PROVE  /\ ReservedIsCovered'
           /\ ledger' = ledger \/ account'.available > 0 \/ tickets[pipe[p].key].stake <= account.available =>
                 Equity' - account'.realized = Equity - account.realized
<1>. USE DEF TypesInv
<1>. DEFINE key == pipe[p].key
            placed == tickets[key].stake
            stake == [k \in Keys |-> orders[k].stake]
            stakes == [k \in Keys |-> orders'[k].stake]
            open == OpenKeys \ recorded
<1>1. CASE UNCHANGED <<orders, recorded, account, ledger>>
  <2>1. UNCHANGED <<OpenKeys, Stranded>>
    BY <1>1 DEF OpenKeys, IsOpen, Stranded
  <2>2. StakesOf(OpenKeys \ recorded)' = StakesOf(OpenKeys \ recorded)
    BY <1>1, <2>1 DEF StakesOf
  <2>3. StakesOf(Stranded)' = StakesOf(Stranded)
    BY <1>1, <2>1 DEF StakesOf
  <2>. QED BY <1>1, <2>2, <2>3 DEF ReservedIsCovered, Equity
<1>2. CASE ~UNCHANGED <<orders, recorded, account, ledger>>
  <2>1. /\ orders' = [orders EXCEPT ![key] = [status |-> "OPEN", stake |-> placed]]
        /\ account' = Reserve(placed) /\ recorded' = recorded
        /\ ledger' = AppendLedger(ledger, "open", key, account')
    BY <1>2 DEF PaperExecution
  <2>2. /\ pipe[p] # Nothing /\ pipe[p].at = 6 /\ key \in Keys /\ ~HasRow(orders, key)
        /\ DOMAIN orders = Keys
    BY ExecutedOrders DEF BookInv, TablesInv
  <2>3. key \notin OpenKeys /\ key \notin recorded
    BY <2>2 DEF OpenKeys, IsOpen, HasRow, BookInv, KnownInv
  <2>4. placed \in Nat
    <3>1. tickets[key] \in Ticket
      BY <2>2 DEF TicketsInv, TypeOK
    <3>. QED BY <3>1 DEF Ticket
  <2>5. OpenKeys' = OpenKeys \cup {key}
    BY <2>1, <2>2 DEF OpenKeys, IsOpen
  <2>6. (OpenKeys \ recorded)' = open \cup {key} /\ Stranded' = Stranded
    BY <2>1, <2>3, <2>5 DEF Stranded
  <2>7. /\ stakes[key] = placed /\ \A k \in Keys : stake[k] \in Int
        /\ \A k \in Keys : k # key => stakes[k] = stake[k]
    BY <2>1, <2>2, OrderAmounts
  <2>8. /\ open \subseteq Keys /\ Stranded \subseteq Keys /\ key \notin open /\ key \notin Stranded
        /\ StakesOf(open) = SumFunctionOnSet(stake, open)
        /\ StakesOf(Stranded) = SumFunctionOnSet(stake, Stranded)
    BY <2>3 DEF OpenKeys, Stranded, StakesOf
  <2>9. /\ StakesOf(OpenKeys \ recorded)' = SumFunctionOnSet(stakes, open \cup {key})
        /\ StakesOf(Stranded)' = SumFunctionOnSet(stakes, Stranded)
    BY <2>6 DEF StakesOf
  <2>10. account.reserved = StakesOf(open)
    BY DEF ReservedIsCovered
  <2>11. ledger' # ledger
    <3>1. \E i \in DOMAIN ledger' : ledger'[i].kind = "open" /\ ledger'[i].key = key
      <4>1. OpeningInv' /\ HasRow(orders', key)
        BY <2>1, <2>2, ExecutedTypes DEF HasRow
      <4>. QED BY <2>2, <4>1 DEF OpeningInv
    <3>2. ~\E i \in DOMAIN ledger : ledger[i].kind = "open" /\ ledger[i].key = key
      BY <2>2 DEF BookInv, LedgerInv
    <3>. QED BY <3>1, <3>2
  <2>. HIDE DEF key, placed, stake, stakes, open
  <2>12. IsFiniteSet(open) /\ IsFiniteSet(Stranded) /\ StakesOf(open) \in Nat /\ StakesOf(Stranded) \in Nat
    BY <2>8, MoneyTypes
  <2>13. SumFunctionOnSet(stakes, open \cup {key}) = StakesOf(open) + placed
    <3>1. \A k \in open : stakes[k] = stake[k]
      BY <2>7, <2>8
    <3>2. \A k \in open \cup {key} : stakes[k] \in Int
      BY <2>4, <2>7, <2>8
    <3>3. SumFunctionOnSet(stakes, open \cup {key}) = SumFunctionOnSet(stakes, open) + placed
      BY <2>7, <2>8, <2>12, <3>2, SumTakesIn
    <3>4. SumFunctionOnSet(stakes, open) = SumFunctionOnSet(stake, open)
      BY <2>12, <3>1, SumOfSameValues
    <3>. QED BY <2>8, <3>3, <3>4
  <2>14. SumFunctionOnSet(stakes, Stranded) = StakesOf(Stranded)
    <3>1. \A k \in Stranded : stakes[k] = stake[k]
      BY <2>7, <2>8
    <3>. QED BY <2>8, <2>12, <3>1, SumOfSameValues
  <2>15. /\ account.available \in Nat /\ account.reserved \in Nat /\ account.realized \in Int
         /\ DOMAIN account = {"available", "reserved", "realized"}
    BY DEF TypeOK, Account
  <2>16. /\ account'.available = AtLeast(0, account.available - placed)
         /\ account'.reserved = account.reserved + placed
         /\ account'.realized = account.realized
    BY <2>1, <2>15 DEF Reserve
  <2>17. ReservedIsCovered'
    BY <2>9, <2>10, <2>13, <2>16 DEF ReservedIsCovered
  <2>18. ASSUME account'.available > 0 \/ placed <= account.available
         PROVE  Equity' - account'.realized = Equity - account.realized
    <3>1. account'.available = account.available - placed
      BY <2>4, <2>15, <2>16, <2>18 DEF AtLeast
    <3>2. Equity' = account'.available + account'.reserved + StakesOf(Stranded)
      BY <2>9, <2>14 DEF Equity
    <3>. QED BY <2>4, <2>12, <2>15, <2>16, <3>1, <3>2 DEF Equity
  <2>. QED BY <2>11, <2>17, <2>18 DEF key, placed
<1>. QED BY <1>1, <1>2

\* The account that is rebuilt is the account it replaces.
LEMMA AccountingKeepsMoney ==
    ASSUME BookInv, TypesInv, NEW p \in Pipelines, BankrollAccounting(p), repeats = 0,
           ReservedIsCovered
    PROVE  /\ ReservedIsCovered'
           /\ Equity' = Start + account'.realized \/ (Equity' = Equity /\ account' = account)
<1>1. UNCHANGED <<orders, recorded, ledger>>
  BY DEF BankrollAccounting
<1>2. /\ UNCHANGED <<OpenKeys, Stranded>>
  BY <1>1 DEF OpenKeys, IsOpen, Stranded
<1>3. /\ StakesOf(OpenKeys \ recorded)' = StakesOf(OpenKeys \ recorded)
      /\ StakesOf(Stranded)' = StakesOf(Stranded)
  BY <1>1, <1>2 DEF StakesOf
<1>4. CASE ledger # <<>>
  <2>1. account' = account
    BY <1>4 DEF BankrollAccounting, BookInv, LedgerTailIsAccount
  <2>. QED BY <1>3, <2>1 DEF ReservedIsCovered, Equity
<1>5. CASE ledger = <<>>
  <2>1. account' = [available |-> Start, reserved |-> 0, realized |-> 0]
    BY <1>5 DEF BankrollAccounting
  <2>2. \A k \in Keys : ~HasRow(orders, k)
    <3>1. DOMAIN ledger = {}
      BY <1>5
    <3>. QED BY <3>1 DEF TypesInv, OpeningInv
  <2>3. OpenKeys = {} /\ OpenKeys \ recorded = {} /\ Stranded = {}
    BY <2>2 DEF OpenKeys, IsOpen, Stranded, HasRow
  <2>4. StakesOf({}) = 0
    BY SumOfNone DEF StakesOf
  <2>. QED BY <1>3, <2>1, <2>3, <2>4 DEF ReservedIsCovered, Equity
<1>. QED BY <1>4, <1>5

MoneyInv == ReservedCoversOpenOrders /\ EquityAccountedFor

LEMMA InitMoney == Init => MoneyInv
<1>. SUFFICES ASSUME Init PROVE MoneyInv
  OBVIOUS
<1>1. account.available = Start /\ account.reserved = 0 /\ account.realized = 0
  BY DEF Init
<1>2. OpenKeys \ recorded = {} /\ Stranded = {}
  BY DEF Init, NoRow, OpenKeys, IsOpen, Stranded
<1>3. StakesOf({}) = 0
  BY SumOfNone DEF StakesOf
<1>. QED BY <1>1, <1>2, <1>3 DEF MoneyInv, ReservedCoversOpenOrders, ReservedIsCovered, EquityAccountedFor

LEMMA StepsKeepMoney == BookInv /\ TypesInv /\ MoneyInv /\ [Next]_vars => MoneyInv'
<1>. SUFFICES ASSUME BookInv, TypesInv, MoneyInv, [Next]_vars, repeats' = 0
              PROVE  /\ ReservedIsCovered'
                     /\ (\A i \in DOMAIN ledger' : ledger'[i].after.available > 0) =>
                           Equity' = Start + account'.realized
  BY DEF MoneyInv, ReservedCoversOpenOrders, EquityAccountedFor, Equity
<1>. DEFINE Solvent == \A i \in DOMAIN ledger : ledger[i].after.available > 0
<1>1. repeats \in Nat /\ repeats = 0
  <2>1. repeats \in Nat
    BY DEF BookInv, TablesInv
  <2>. QED BY <2>1, Writers
<1>2. ReservedIsCovered /\ (Solvent => Equity = Start + account.realized)
  BY <1>1 DEF MoneyInv, ReservedCoversOpenOrders, EquityAccountedFor, Equity
<1>3. Equity \in Int /\ account.realized \in Int
  <2>1. StakesOf(Stranded) \in Nat
    BY MoneyTypes DEF TypesInv, Stranded, OpenKeys
  <2>. QED BY <2>1, AccountTypes DEF TypesInv, Equity
<1>4. TypesInv' /\ Equity' \in Int /\ account'.realized \in Int
  BY StepsKeepTypes, EquityIsNumber
<1>5. CASE SettleOpenOrders
  <2>1. ReservedIsCovered' /\ Equity' - account'.realized = Equity - account.realized
    BY <1>2, <1>5, SettlementKeepsMoney
  <2>2. \A i \in DOMAIN ledger : i \in DOMAIN ledger' /\ ledger'[i] = ledger[i]
    <3>1. CASE DueEntries = {}
      BY <1>5, <3>1 DEF SettleOpenOrders
    <3>2. CASE DueEntries # {}
      <4>1. /\ IsLog(ledger') /\ Len(ledger') >= Len(ledger)
            /\ \A i \in 1 .. Len(ledger) : ledger'[i] = ledger[i]
        <5>1. Len(ledger) \in Nat
          BY LogShape DEF BookInv, TablesInv
        <5>. QED BY <1>5, <3>2, <5>1, SettledLedger
      <4>2. /\ DOMAIN ledger = 1 .. Len(ledger) /\ DOMAIN ledger' = 1 .. Len(ledger')
            /\ Len(ledger) \in Nat /\ Len(ledger') \in Nat
        BY <4>1, LogShape DEF BookInv, TablesInv
      <4>. QED BY <4>1, <4>2
    <3>. QED BY <3>1, <3>2
  <2>3. ASSUME \A i \in DOMAIN ledger' : ledger'[i].after.available > 0
        PROVE  Equity' = Start + account'.realized
    <3>1. Solvent
      BY <2>2, <2>3
    <3>. QED BY <1>2, <1>3, <1>4, <2>1, <3>1
  <2>. QED BY <2>1, <2>3
<1>6. ASSUME NEW p \in Pipelines, PaperExecution(p)
      PROVE  /\ ReservedIsCovered'
             /\ (\A i \in DOMAIN ledger' : ledger'[i].after.available > 0) =>
                   Equity' = Start + account'.realized
  <2>1. ReservedIsCovered'
    BY <1>1, <1>2, <1>6, ExecutionKeepsMoney
  <2>2. ASSUME \A i \in DOMAIN ledger' : ledger'[i].after.available > 0
        PROVE  Equity' = Start + account'.realized
    <3>1. CASE ledger' = ledger
      <4>1. Solvent
        BY <2>2, <3>1
      <4>2. Equity' - account'.realized = Equity - account.realized
        BY <1>1, <1>2, <1>6, <3>1, ExecutionKeepsMoney
      <4>. QED BY <1>2, <1>3, <1>4, <4>1, <4>2
    <3>2. CASE ledger' # ledger
      <4>1. PICK i \in DOMAIN ledger' :
                /\ ledger'[i].after = account'
                /\ \A j \in DOMAIN ledger : j \in DOMAIN ledger' /\ ledger'[j] = ledger[j]
        BY <1>1, <1>6, <3>2, FirstExecutionAppends
      <4>2. Solvent /\ account'.available > 0
        BY <2>2, <4>1
      <4>3. Equity' - account'.realized = Equity - account.realized
        BY <1>1, <1>2, <1>6, <4>2, ExecutionKeepsMoney
      <4>. QED BY <1>2, <1>3, <1>4, <4>2, <4>3
    <3>. QED BY <3>1, <3>2
  <2>. QED BY <2>1, <2>2
<1>7. ASSUME NEW p \in Pipelines, BankrollAccounting(p)
      PROVE  /\ ReservedIsCovered'
             /\ (\A i \in DOMAIN ledger' : ledger'[i].after.available > 0) =>
                   Equity' = Start + account'.realized
  <2>1. ledger' = ledger
    BY <1>7 DEF BankrollAccounting
  <2>2. /\ ReservedIsCovered'
        /\ Equity' = Start + account'.realized \/ (Equity' = Equity /\ account' = account)
    BY <1>1, <1>2, <1>7, AccountingKeepsMoney
  <2>. QED BY <1>2, <2>1, <2>2
<1>8. CASE UNCHANGED <<orders, recorded, ledger, account>>
  <2>1. UNCHANGED <<OpenKeys, Stranded>>
    BY <1>8 DEF OpenKeys, IsOpen, Stranded
  <2>2. /\ StakesOf(OpenKeys \ recorded)' = StakesOf(OpenKeys \ recorded)
        /\ StakesOf(Stranded)' = StakesOf(Stranded)
    BY <1>8, <2>1 DEF StakesOf
  <2>. QED BY <1>2, <1>8, <2>2 DEF ReservedIsCovered, Equity
<1>. QED BY <1>1, <1>5, <1>6, <1>7, <1>8, Writers

\* The invariant all the results about the money rest on.
LEMMA MoneyHolds == Spec => [](BookInv /\ TypesInv /\ MoneyInv)
<1>. QED BY InitBooks, InitTypes, InitMoney, StepsKeepBooks, StepsKeepTypes, StepsKeepMoney, PTL DEF Spec

\* reserved_balance is what the open orders are worth: reserveForPaperOrder() and
\* settlePaperOrder() move the same stake, whatever runs between them.
THEOREM ReservationsAreCovered == Spec => []ReservedCoversOpenOrders
<1>1. MoneyInv => ReservedCoversOpenOrders
  BY DEF MoneyInv
<1>. QED BY <1>1, MoneyHolds, PTL

\* No money appears or is lost: available, reserved and stranded stakes are the
\* start and the realized results, until the balance was overdrawn once.
THEOREM NoMoneyIsLost == Spec => []EquityAccountedFor
<1>1. MoneyInv => EquityAccountedFor
  BY DEF MoneyInv
<1>. QED BY <1>1, MoneyHolds, PTL

-----------------------------------------------------------------------------
(* What the documents promise, and where it holds.                            *)

\* A settlement opens no order.
LEMMA SettlementOpensNone ==
    ASSUME BookInv, SettleOpenOrders
    PROVE  OpenKeys' \subseteq OpenKeys
<1>1. CASE DueEntries = {}
  BY <1>1 DEF SettleOpenOrders, OpenKeys, IsOpen
<1>2. CASE DueEntries # {}
  <2>1. orders' = [k \in Keys |->
            IF k \in DueKeys THEN [status |-> OutcomeStatus(k), stake |-> orders[k].stake] ELSE orders[k]]
    BY <1>2 DEF SettleOpenOrders
  <2>. QED BY <2>1, DueOrdersAreOpen DEF OpenKeys, IsOpen
<1>. QED BY <1>1, <1>2

\* An execution opens the order of its key or none, and only for a stake.
LEMMA ExecutionOpensOne ==
    ASSUME BookInv, NEW p \in Pipelines, PaperExecution(p)
    PROVE  \/ OpenKeys' \subseteq OpenKeys
           \/ tickets[pipe[p].key].stake > 0 /\ OpenKeys' = OpenKeys \cup {pipe[p].key}
<1>. DEFINE key == pipe[p].key
<1>1. key \in Keys /\ DOMAIN orders = Keys
  BY ExecutedOrders DEF BookInv, TablesInv
<1>2. CASE orders' = orders
  BY <1>2 DEF OpenKeys, IsOpen
<1>3. CASE orders' # orders
  <2>1. Placeable(key) /\ orders' = [orders EXCEPT ![key] = [status |-> "OPEN", stake |-> tickets[key].stake]]
    BY <1>3 DEF PaperExecution
  <2>. HIDE DEF key
  <2>2. orders'[key].status = "OPEN" /\ \A k \in Keys \ {key} : orders'[k] = orders[k]
    BY <1>1, <2>1
  <2>3. OpenKeys' = OpenKeys \cup {key}
    BY <1>1, <2>2 DEF OpenKeys, IsOpen
  <2>. QED BY <2>1, <2>3 DEF key, Placeable
<1>. QED BY <1>2, <1>3

\* Pipelines one after the other.
OneAtATime == \A p, q \in Pipelines : pipe[p] # Nothing /\ pipe[q] # Nothing => p = q

\* The order of k fits beside those that are open, if it is not one of them.
RoomFor(k) == Cardinality(OpenKeys \cup {k}) <= MaxConcurrent

\* What the CONCURRENT_OPEN rule found is still true when the order is placed.
CheckedInv ==
    /\ ConcurrentTicketsLimited
    /\ \A p \in Pipelines : pipe[p] # Nothing /\ pipe[p].at > 3 /\ recs[pipe[p].key].stake > 0
                            => RoomFor(pipe[p].key)
    /\ \A p \in Pipelines : pipe[p] # Nothing /\ pipe[p].at > 5 /\ tickets[pipe[p].key].stake > 0
                            => RoomFor(pipe[p].key)

\* Fewer open orders leave as much room.
LEMMA RoomStays ==
    ASSUME OpenKeys' \subseteq OpenKeys
    PROVE  /\ ConcurrentTicketsLimited => ConcurrentTicketsLimited'
           /\ \A k \in Keys : RoomFor(k) => RoomFor(k)'
<1>1. IsFiniteSet(OpenKeys)
  BY FS_Subset DEF OpenKeys
<1>2. Cardinality(OpenKeys') <= Cardinality(OpenKeys)
      /\ Cardinality(OpenKeys') \in Nat /\ Cardinality(OpenKeys) \in Nat
  BY <1>1, FS_Subset, FS_CardinalityType
<1>3. ASSUME NEW k \in Keys, RoomFor(k) PROVE RoomFor(k)'
  <2>1. IsFiniteSet(OpenKeys \cup {k}) /\ OpenKeys' \cup {k} \subseteq OpenKeys \cup {k}
    BY <1>1, FS_AddElement
  <2>2. /\ Cardinality(OpenKeys' \cup {k}) <= Cardinality(OpenKeys \cup {k})
        /\ Cardinality(OpenKeys' \cup {k}) \in Nat /\ Cardinality(OpenKeys \cup {k}) \in Nat
    BY <2>1, FS_Subset, FS_CardinalityType
  <2>. QED BY <1>3, <2>2 DEF RoomFor
<1>. QED BY <1>2, <1>3 DEF ConcurrentTicketsLimited

\* A stake that comes out of the check has room.
LEMMA GovernedHasRoom ==
    ASSUME TypeOK, NEW k \in Keys, NEW proposed \in Nat, Governed(k, proposed).stake > 0
    PROVE  RoomFor(k)
<1>1. ~Overexposed(AtMost(proposed, MatchRoom(MatchOf[k])))
  BY DEF Governed
<1>2. Cardinality(OpenKeys) + 1 <= MaxConcurrent
  <2>1. IsFiniteSet(OpenKeys)
    BY FS_Subset DEF OpenKeys
  <2>2. Cardinality(OpenKeys) \in Nat
    BY <2>1, FS_CardinalityType
  <2>. QED BY <1>1, <2>2 DEF Overexposed
<1>3. IsFiniteSet(OpenKeys)
  BY FS_Subset DEF OpenKeys
<1>4. Cardinality(OpenKeys \cup {k}) <= Cardinality(OpenKeys) + 1
      /\ Cardinality(OpenKeys) \in Nat /\ Cardinality(OpenKeys \cup {k}) \in Nat
  <2>. DEFINE S == OpenKeys
  <2>1. IsFiniteSet(S)
    BY <1>3
  <2>. HIDE DEF S
  <2>2. /\ IsFiniteSet(S \cup {k})
        /\ Cardinality(S \cup {k}) = IF k \in S THEN Cardinality(S) ELSE Cardinality(S) + 1
    BY <2>1, FS_AddElement
  <2>3. Cardinality(S) \in Nat /\ Cardinality(S \cup {k}) \in Nat
    BY <2>1, <2>2, FS_CardinalityType
  <2>4. Cardinality(S \cup {k}) <= Cardinality(S) + 1
    BY <2>2, <2>3
  <2>. QED BY <2>3, <2>4 DEF S
<1>. QED BY <1>2, <1>4 DEF RoomFor

\* The stages before the check and after it, of the only pipeline.
LEMMA StagesKeepRoom ==
    ASSUME BookInv, TypesInv, CheckedInv, OneAtATime, settings.exposure, NEW p \in Pipelines, Stage(p)
    PROVE  CheckedInv'
<1>. TypeOK
  BY DEF TypesInv
<1>1. pipe[p] # Nothing /\ Advance(p) /\ pipe[p].key \in Keys /\ pipe[p].at \in 1 .. 8
  <2>1. pipe[p] # Nothing /\ Advance(p)
    BY DEF Stage, At, StakeCandidateBuild, StakeSizing, ExposureCheck, CorrelationCheck,
           TicketConstruction, PaperExecution, Settlement, BankrollAccounting
  <2>. QED BY <2>1, StageNumbers DEF BookInv, Job
<1>. PICK k \in Keys : k = pipe[p].key
  BY <1>1
<1>. PICK at \in 1 .. 8 : at = pipe[p].at
  BY <1>1
<1>2. /\ \A q \in Pipelines : pipe'[q] # Nothing => q = p
      /\ pipe'[p] # Nothing => pipe'[p].key = k /\ pipe'[p].at = at + 1
  BY <1>1, Advances DEF OneAtATime, BookInv
<1>3. recs[k].stake \in Nat
  BY <1>1 DEF TypeOK
<1>5. at \in Int
  BY <1>1
<1>. DEFINE Goal == /\ ConcurrentTicketsLimited'
                    /\ at > 2 /\ recs'[k].stake > 0 => RoomFor(k)'
                    /\ at > 4 /\ tickets'[k].stake > 0 => RoomFor(k)'
<1>4. Goal
  <2>1. /\ at > 3 /\ recs[k].stake > 0 => RoomFor(k)
        /\ at > 5 /\ tickets[k].stake > 0 => RoomFor(k)
        /\ ConcurrentTicketsLimited
    BY <1>1 DEF CheckedInv
  <2>2. OpenKeys' \subseteq OpenKeys => /\ ConcurrentTicketsLimited'
                                        /\ RoomFor(k) => RoomFor(k)'
    BY <1>1, <2>1, RoomStays
  <2>3. CASE StakeCandidateBuild(p) \/ StakeSizing(p)
    <3>1. OpenKeys' \subseteq OpenKeys
      BY <2>3 DEF StakeCandidateBuild, StakeSizing, OpenKeys, IsOpen
    <3>2. at < 3
      BY <1>1, <2>3, StageNumbers DEF BookInv, StakeCandidateBuild, StakeSizing
    <3>. QED BY <1>5, <2>1, <2>2, <3>1, <3>2
  <2>4. CASE ExposureCheck(p)
    <3>1. OpenKeys' \subseteq OpenKeys /\ at = 3
      BY <1>1, <2>4, StageNumbers DEF BookInv, ExposureCheck, OpenKeys, IsOpen
    <3>2. recs'[k].stake > 0 => RoomFor(k)
      <4>1. CASE recs[k].stake > 0
        <5>1. recs' = [recs EXCEPT ![k] = Governed(k, recs[k].stake)]
          BY <2>4, <4>1 DEF ExposureCheck
        <5>2. recs'[k] = Governed(k, recs[k].stake)
          BY <1>1, <5>1 DEF TypeOK
        <5>. QED BY <1>1, <1>3, <5>2, GovernedHasRoom
      <4>2. CASE ~(recs[k].stake > 0)
        BY <2>4, <4>2 DEF ExposureCheck
      <4>. QED BY <4>1, <4>2
    <3>. QED BY <2>2, <3>1, <3>2
  <2>5. CASE CorrelationCheck(p)
    <3>1. OpenKeys' \subseteq OpenKeys /\ at = 4
      BY <1>1, <2>5, StageNumbers DEF BookInv, CorrelationCheck, OpenKeys, IsOpen
    <3>2. recs[k].stake > 0 \/ recs' = recs
      BY <2>5 DEF CorrelationCheck
    <3>. QED BY <2>1, <2>2, <3>1, <3>2
  <2>6. CASE TicketConstruction(p)
    <3>1. OpenKeys' \subseteq OpenKeys /\ at = 5 /\ recs' = recs
      BY <1>1, <2>6, StageNumbers DEF BookInv, TicketConstruction, OpenKeys, IsOpen
    <3>2. tickets'[k] = TicketFor(recs[k])
      BY <1>1, <2>6 DEF TicketConstruction, TypeOK
    <3>3. TicketFor(recs[k]).stake \in {0, recs[k].stake}
      BY DEF TicketFor
    <3>. QED BY <2>1, <2>2, <3>1, <3>2, <3>3
  <2>7. CASE PaperExecution(p)
    <3>1. at = 6 /\ recs' = recs
      BY <1>1, <2>7, StageNumbers DEF BookInv, PaperExecution
    <3>2. tickets'[k].stake = tickets[k].stake
      <4>1. CASE tickets' = tickets
        BY <4>1
      <4>2. CASE tickets' = [tickets EXCEPT ![k].status = "EXECUTED_PAPER"]
        <5>1. tickets[k] \in Ticket
          <6>1. pipe[p].at = 6
            BY <3>1
          <6>2. tickets[k] # Nothing
            BY <1>1, <6>1 DEF TypesInv, TicketsInv
          <6>. QED BY <6>2 DEF TypeOK
        <5>. QED BY <1>1, <4>2, <5>1 DEF TypeOK, Ticket
      <4>. QED BY <2>7, <4>1, <4>2 DEF PaperExecution
    <3>3. CASE OpenKeys' \subseteq OpenKeys
      BY <2>1, <2>2, <3>1, <3>2, <3>3
    <3>4. CASE tickets[k].stake > 0 /\ OpenKeys' = OpenKeys \cup {k}
      <4>1. RoomFor(k)
        BY <2>1, <3>1, <3>4
      <4>2. OpenKeys' \cup {k} = OpenKeys' /\ OpenKeys' = OpenKeys \cup {k}
        BY <3>4
      <4>3. ConcurrentTicketsLimited' /\ RoomFor(k)'
        BY <4>1, <4>2 DEF RoomFor, ConcurrentTicketsLimited
      <4>. QED BY <4>3
    <3>. QED BY <2>7, <3>3, <3>4, ExecutionOpensOne
  <2>8. CASE Settlement(p) \/ BankrollAccounting(p)
    <3>1. UNCHANGED <<recs, tickets>> /\ at > 6
      BY <1>1, <2>8, StageNumbers DEF BookInv, Settlement, BankrollAccounting
    <3>2. OpenKeys' \subseteq OpenKeys
      <4>1. CASE Settlement(p)
        BY <4>1, SettlementOpensNone DEF Settlement
      <4>2. CASE BankrollAccounting(p)
        BY <4>2 DEF BankrollAccounting, OpenKeys, IsOpen
      <4>. QED BY <2>8, <4>1, <4>2
    <3>. QED BY <1>5, <2>1, <2>2, <3>1, <3>2
  <2>. HIDE DEF Goal
  <2>. QED BY <2>3, <2>4, <2>5, <2>6, <2>7, <2>8 DEF Stage
<1>6. \A q \in Pipelines : pipe'[q] # Nothing => q = p /\ pipe'[q].key = k /\ pipe'[q].at = at + 1
  BY <1>2
<1>. QED BY <1>1, <1>4, <1>5, <1>6 DEF CheckedInv

\* What is written elsewhere, and pipelines that come no nearer, take no room.
LEMMA QuietStepsKeepRoom ==
    ASSUME CheckedInv, OpenKeys' \subseteq OpenKeys, UNCHANGED <<recs, tickets>>,
           \A p \in Pipelines, n \in {3, 5} : pipe'[p] # Nothing /\ pipe'[p].at > n =>
              /\ pipe[p] # Nothing /\ pipe[p].at > n /\ pipe[p].key \in Keys
              /\ pipe'[p].key = pipe[p].key
    PROVE  CheckedInv'
<1>1. ConcurrentTicketsLimited'
  BY RoomStays DEF CheckedInv
<1>2. \A k \in Keys : RoomFor(k) => RoomFor(k)'
  BY RoomStays
<1>3. ASSUME NEW p \in Pipelines, pipe'[p] # Nothing, pipe'[p].at > 3, recs'[pipe'[p].key].stake > 0
      PROVE  RoomFor(pipe[p].key)'
  <2>1. PICK k \in Keys : k = pipe[p].key /\ k = pipe'[p].key
    BY <1>3
  <2>2. RoomFor(k)
    BY <1>3, <2>1 DEF CheckedInv
  <2>. QED BY <1>2, <2>1, <2>2
<1>4. ASSUME NEW p \in Pipelines, pipe'[p] # Nothing, pipe'[p].at > 5,
             tickets'[pipe'[p].key].stake > 0
      PROVE  RoomFor(pipe[p].key)'
  <2>1. PICK k \in Keys : k = pipe[p].key /\ k = pipe'[p].key
    BY <1>4
  <2>2. RoomFor(k)
    BY <1>4, <2>1 DEF CheckedInv
  <2>. QED BY <1>2, <2>1, <2>2
<1>5. \A p \in Pipelines : pipe'[p] # Nothing /\ pipe'[p].at > 3 => pipe'[p].key = pipe[p].key
  OBVIOUS
<1>6. \A p \in Pipelines : pipe'[p] # Nothing /\ pipe'[p].at > 5 => pipe'[p].key = pipe[p].key
  OBVIOUS
<1>. QED BY <1>1, <1>3, <1>4, <1>5, <1>6 DEF CheckedInv

LEMMA StepsKeepRoom ==
    ASSUME BookInv, TypesInv, CheckedInv, OneAtATime, settings.exposure, [Next]_vars
    PROVE  CheckedInv'
<1>. DEFINE Rest == /\ UNCHANGED <<recs, tickets>> /\ OpenKeys' \subseteq OpenKeys
                    /\ \A p \in Pipelines, n \in {3, 5} : pipe'[p] # Nothing /\ pipe'[p].at > n =>
                         /\ pipe[p] # Nothing /\ pipe[p].at > n /\ pipe[p].key \in Keys
                         /\ pipe'[p].key = pipe[p].key
<1>1. /\ pipe \in [Pipelines -> Job \cup {Nothing}]
      /\ \A p \in Pipelines : pipe[p] # Nothing => pipe[p] \in Job /\ pipe[p].key \in Keys
                                                   /\ pipe[p].at \in 1 .. 8
  BY DEF BookInv, TablesInv, Job
<1>2. ASSUME UNCHANGED <<recs, tickets, pipe>>, UNCHANGED orders \/ SettleOpenOrders PROVE Rest
  <2>1. CASE UNCHANGED orders
    BY <1>1, <1>2, <2>1 DEF OpenKeys, IsOpen
  <2>2. CASE SettleOpenOrders
    BY <1>1, <1>2, <2>2, SettlementOpensNone
  <2>. QED BY <1>2, <2>1, <2>2
<1>3. CASE (\E m \in Matches : MatchEnds(m)) \/ (\E new \in SettingsSpace : StoreSettings(new)) \/ ProcessStarts
  <2>1. UNCHANGED <<recs, tickets, pipe, orders>>
    BY <1>3 DEF MatchEnds, StoreSettings, ProcessStarts, bankroll
  <2>. HIDE DEF Rest
  <2>. QED BY <1>2, <2>1, QuietStepsKeepRoom DEF Rest
<1>4. CASE ScheduledSettlement
  <2>1. UNCHANGED <<recs, tickets, pipe>> /\ SettleOpenOrders
    BY <1>4 DEF ScheduledSettlement
  <2>. HIDE DEF Rest
  <2>. QED BY <1>2, <2>1, QuietStepsKeepRoom DEF Rest
<1>5. CASE UNCHANGED vars
  <2>1. UNCHANGED <<recs, tickets, pipe, orders>>
    BY <1>5 DEF vars
  <2>. HIDE DEF Rest
  <2>. QED BY <1>2, <2>1, QuietStepsKeepRoom DEF Rest
<1>6. ASSUME NEW p \in Pipelines, NEW k \in Keys, HandOver(p, k) PROVE CheckedInv'
  <2>. DEFINE first == [key |-> k, at |-> 1]
  <2>1. UNCHANGED <<recs, tickets, orders>> /\ pipe' = [pipe EXCEPT ![p] = first]
    BY <1>6 DEF HandOver, bankroll
  <2>2. first.at = 1
    OBVIOUS
  <2>. HIDE DEF first
  <2>3. \A q \in Pipelines : q # p => pipe'[q] = pipe[q]
    BY <1>1, <2>1
  <2>4. pipe'[p] = first
    BY <1>1, <2>1
  <2>5. ~(pipe'[p].at > 3) /\ ~(pipe'[p].at > 5)
    BY <2>2, <2>4
  <2>6. Rest
    BY <1>1, <2>1, <2>3, <2>5 DEF OpenKeys, IsOpen
  <2>. QED BY <2>6, QuietStepsKeepRoom
<1>7. ASSUME NEW p \in Pipelines, Redeliver(p) PROVE CheckedInv'
  <2>1. /\ UNCHANGED <<recs, tickets, orders>> /\ pipe[p] # Nothing
        /\ pipe' = [pipe EXCEPT ![p].at = pipe[p].at - 1]
    BY <1>7 DEF Redeliver, bankroll
  <2>2. \A q \in Pipelines : q # p => pipe'[q] = pipe[q]
    BY <1>1, <2>1
  <2>3. pipe'[p].key = pipe[p].key /\ pipe'[p].at = pipe[p].at - 1
    BY <1>1, <2>1 DEF Job
  <2>4. (pipe'[p].at > 3 => pipe[p].at > 3) /\ (pipe'[p].at > 5 => pipe[p].at > 5)
    BY <1>1, <2>1, <2>3
  <2>5. Rest
    BY <1>1, <2>1, <2>2, <2>3, <2>4 DEF OpenKeys, IsOpen
  <2>. QED BY <2>5, QuietStepsKeepRoom
<1>8. ASSUME NEW p \in Pipelines, LosePipeline(p) PROVE CheckedInv'
  <2>1. UNCHANGED <<recs, tickets, orders>> /\ pipe' = [pipe EXCEPT ![p] = Nothing]
    BY <1>8 DEF LosePipeline, bankroll
  <2>2. Rest
    BY <1>1, <2>1 DEF OpenKeys, IsOpen
  <2>. QED BY <2>2, QuietStepsKeepRoom
<1>9. ASSUME NEW p \in Pipelines, Stage(p) PROVE CheckedInv'
  BY <1>9, StagesKeepRoom
<1>. QED BY <1>3, <1>4, <1>5, <1>6, <1>7, <1>8, <1>9 DEF Next

LEMMA InitRoom == Init => CheckedInv
<1>. SUFFICES ASSUME Init PROVE CheckedInv
  OBVIOUS
<1>1. OpenKeys = {}
  BY DEF Init, OpenKeys, IsOpen, NoRow
<1>2. Cardinality(OpenKeys) = 0 /\ MaxConcurrent \in Nat
  BY <1>1, FS_EmptySet, BankrollAssumption
<1>3. \A p \in Pipelines : pipe[p] = Nothing
  BY DEF Init
<1>. QED BY <1>2, <1>3 DEF CheckedInv, ConcurrentTicketsLimited

\* "max 30 concurrent open tickets" holds as long as one pipeline runs at a time
\* and the check is switched on: the CONCURRENT_OPEN rule counts the orders that
\* are open, and between its stage and the execution nothing else opens one.  Two
\* pipelines side by side are what breaks it.
THEOREM OnePipelineKeepsTheLimit ==
    Spec /\ []OneAtATime /\ [](settings.exposure) => []ConcurrentTicketsLimited
<1>1. BookInv /\ TypesInv /\ CheckedInv /\ OneAtATime /\ settings.exposure /\ [Next]_vars => CheckedInv'
  BY StepsKeepRoom
<1>2. CheckedInv => ConcurrentTicketsLimited
  BY DEF CheckedInv
<1>. QED BY <1>1, <1>2, InitRoom, MoneyHolds, PTL DEF Spec

\* The layer is switched off only while no pipeline runs.
SwitchedOffAtRest ==
    [][settings.enabled /\ ~settings'.enabled => \A p \in Pipelines : pipe[p] = Nothing]_vars

RestInv == ~settings.enabled => \A p \in Pipelines : pipe[p] = Nothing

LEMMA StepsAtRest ==
    ASSUME BookInv, RestInv, ~settings.enabled, [Next]_vars
    PROVE  UNCHANGED <<pipe, orders>>
<1>1. \A p \in Pipelines : pipe[p] = Nothing
  BY DEF RestInv
<1>2. ASSUME NEW p \in Pipelines, Stage(p) PROVE FALSE
  BY <1>1, <1>2 DEF Stage, At, StakeCandidateBuild, StakeSizing, ExposureCheck, CorrelationCheck,
                    TicketConstruction, PaperExecution, Settlement, BankrollAccounting
<1>3. ASSUME NEW p \in Pipelines, NEW k \in Keys, HandOver(p, k) PROVE FALSE
  BY <1>3 DEF HandOver
<1>4. ASSUME NEW p \in Pipelines, Redeliver(p) \/ LosePipeline(p) PROVE FALSE
  BY <1>1, <1>4 DEF Redeliver, LosePipeline
<1>5. ~ScheduledSettlement
  BY DEF ScheduledSettlement
<1>6. CASE (\E m \in Matches : MatchEnds(m)) \/ (\E new \in SettingsSpace : StoreSettings(new)) \/ ProcessStarts
  BY <1>6 DEF MatchEnds, StoreSettings, ProcessStarts, bankroll
<1>7. CASE UNCHANGED vars
  BY <1>7 DEF vars
<1>. QED BY <1>2, <1>3, <1>4, <1>5, <1>6, <1>7 DEF Next

\* "Emergency kill switch for bankroll flow": a switch that waits until no
\* pipeline runs stops every order.  Only HandOver reads the flag, so a pipeline
\* that was on its way goes on to its execution.
THEOREM SwitchAtRestStopsOrders == Spec /\ SwitchedOffAtRest => KillSwitchStopsOrders
<1>1. Init => RestInv
  BY DEF Init, RestInv
<1>2. BookInv /\ RestInv /\ [Next]_vars
      /\ [settings.enabled /\ ~settings'.enabled => \A p \in Pipelines : pipe[p] = Nothing]_vars
      => RestInv'
  <2>. SUFFICES ASSUME BookInv, RestInv, [Next]_vars, ~settings'.enabled,
                       [settings.enabled /\ ~settings'.enabled => \A p \in Pipelines : pipe[p] = Nothing]_vars
                PROVE  \A p \in Pipelines : pipe'[p] = Nothing
    BY DEF RestInv
  <2>1. CASE ~settings.enabled
    BY <2>1, StepsAtRest DEF RestInv
  <2>2. CASE settings.enabled
    <3>1. \A p \in Pipelines : pipe[p] = Nothing
      BY <2>2 DEF vars
    <3>2. pipe' = pipe
      <4>1. settings' # settings
        BY <2>2
      <4>2. ASSUME NEW p \in Pipelines, Stage(p) PROVE FALSE
        BY <3>1, <4>2 DEF Stage, At, StakeCandidateBuild, StakeSizing, ExposureCheck, CorrelationCheck,
                          TicketConstruction, PaperExecution, Settlement, BankrollAccounting
      <4>3. ASSUME NEW p \in Pipelines, \/ \E k \in Keys : HandOver(p, k)
                                       \/ Redeliver(p) \/ LosePipeline(p)
            PROVE  FALSE
        BY <4>1, <4>3 DEF HandOver, Redeliver, LosePipeline
      <4>. QED BY <4>1, <4>2, <4>3 DEF Next, MatchEnds, StoreSettings, ProcessStarts, ScheduledSettlement, vars
    <3>. QED BY <3>1, <3>2
  <2>. QED BY <2>1, <2>2
<1>3. BookInv /\ RestInv /\ [Next]_vars =>
      [~settings.enabled => \A k \in Keys : IsOpen(k)' => IsOpen(k)]_vars
  BY StepsAtRest DEF IsOpen
<1>. QED BY <1>1, <1>2, <1>3, BooksHold, PTL DEF Spec, SwitchedOffAtRest, KillSwitchStopsOrders

\* A cancelled match has no score; an order is settled without a decision only
\* when its match was cancelled.
DecidedInv ==
    /\ \A m \in Matches : match[m].status = "cancelled" => match[m].score = Nothing
    /\ \A k \in recorded : match[MatchOf[k]].status # "cancelled" =>
          orders[k].status \in {"WON", "LOST", "OPEN"}

LEMMA StepsKeepDecided ==
    ASSUME \A k \in Keys : SettledAs(MarketOf[k]) = "result",
           BookInv, TypesInv, DecidedInv, [Next]_vars
    PROVE  DecidedInv'
<1>1. repeats \in Nat /\ recorded \subseteq Keys /\ \A k \in Keys : MatchOf[k] \in Matches
  BY BankrollAssumption DEF BookInv, TablesInv
<1>2. \A m \in Matches : /\ match[m].status = "cancelled" => match'[m] = match[m]
                         /\ match'[m].status = "cancelled" => match'[m].score = Nothing
  <2>1. CASE match' = match
    BY <2>1 DEF DecidedInv
  <2>2. ASSUME NEW n \in Matches, MatchEnds(n)
        PROVE  \A m \in Matches : /\ match[m].status = "cancelled" => match'[m] = match[m]
                                  /\ match'[m].status = "cancelled" => match'[m].score = Nothing
    <3>1. PICK row : /\ match' = [match EXCEPT ![n] = row]
                     /\ row.status = "cancelled" => row.score = Nothing
      BY <2>2 DEF MatchEnds
    <3>2. match'[n] = row /\ \A m \in Matches \ {n} : match'[m] = match[m]
      BY <3>1 DEF TypesInv, TypeOK
    <3>. QED BY <2>2, <3>1, <3>2 DEF MatchEnds, DecidedInv
  <2>. QED BY <1>1, <2>1, <2>2, Writers
<1>3. ASSUME NEW k \in recorded', match'[MatchOf[k]].status # "cancelled"
      PROVE  orders'[k].status \in {"WON", "LOST", "OPEN"}
  <2>1. CASE UNCHANGED <<orders, recorded>>
    BY <1>1, <1>2, <1>3, <2>1 DEF DecidedInv
  <2>2. CASE SettleOpenOrders
    <3>1. k \in recorded => orders'[k] = orders[k]
      BY <2>2, SettledOrders
    <3>2. CASE k \in recorded
      BY <1>1, <1>2, <1>3, <3>1, <3>2 DEF DecidedInv
    <3>3. CASE k \notin recorded
      <4>1. DueEntries # {} /\ k \in DueKeys /\ k \in Keys
        BY <1>3, <2>2, <3>3, DueOrdersAreOpen DEF SettleOpenOrders
      <4>2. orders'[k].status = OutcomeStatus(k)
        BY <2>2, <4>1 DEF SettleOpenOrders
      <4>3. match[MatchOf[k]].status # "cancelled"
        BY <1>1, <1>2, <1>3, <4>1
      <4>4. OutcomeStatus(k) \in {"WON", "LOST", "OPEN"}
        BY <4>1, <4>3 DEF OutcomeStatus
      <4>. QED BY <4>2, <4>4
    <3>. QED BY <3>2, <3>3
  <2>3. ASSUME NEW p \in Pipelines, PaperExecution(p)
        PROVE  orders'[k].status \in {"WON", "LOST", "OPEN"}
    <3>1. k \in recorded /\ recorded' = recorded /\ k \in Keys /\ DOMAIN orders = Keys
      BY <1>1, <1>3, <2>3 DEF PaperExecution, BookInv, TablesInv
    <3>2. orders[k].status \in {"WON", "LOST", "OPEN"}
      BY <1>1, <1>2, <1>3, <3>1 DEF DecidedInv
    <3>3. orders'[k] = orders[k] \/ orders'[k].status = "OPEN"
      <4>. DEFINE key == pipe[p].key
                  row == [status |-> "OPEN", stake |-> tickets[key].stake]
      <4>1. orders' = orders \/ orders' = [orders EXCEPT ![key] = row]
        BY <2>3 DEF PaperExecution
      <4>2. row.status = "OPEN"
        OBVIOUS
      <4>. HIDE DEF key, row
      <4>. QED BY <3>1, <4>1, <4>2
    <3>. QED BY <3>2, <3>3
  <2>. QED BY <1>1, <2>1, <2>2, <2>3, Writers
<1>. QED BY <1>2, <1>3 DEF DecidedInv

\* Picks of the markets that evaluateSingleLeg() knows as results are won or lost
\* once their match has a score; it is the names it does not know that are not.
THEOREM KnownResultPicksAreDecided ==
    ASSUME \A k \in Keys : SettledAs(MarketOf[k]) = "result"
    PROVE  Spec => []ResultPicksAreDecided
<1>1. Init => DecidedInv
  BY DEF Init, DecidedInv
<1>2. BookInv /\ TypesInv /\ DecidedInv /\ [Next]_vars => DecidedInv'
  BY StepsKeepDecided
<1>3. BookInv /\ DecidedInv => ResultPicksAreDecided
  BY BankrollAssumption DEF BookInv, TablesInv, DecidedInv, ResultPicksAreDecided
<1>. QED BY <1>1, <1>2, <1>3, MoneyHolds, PTL DEF Spec

\* Every entry keeps its place, kind and order; its balances, too, while no
\* pipeline is repeated.
LedgerIsAppendOnly ==
    [][\A i \in DOMAIN ledger :
          /\ i \in DOMAIN ledger'
          /\ ledger'[i].kind = ledger[i].kind /\ ledger'[i].key = ledger[i].key
          /\ repeats' = 0 => ledger'[i] = ledger[i]]_vars

\* "All monetary mutations are ledger-based": no step of any pipeline removes or
\* moves an entry of the ledger, and only a repeated execution rewrites one.
THEOREM LedgerOnlyGrows == Spec => LedgerIsAppendOnly
<1>1. ASSUME BookInv, TypesInv, [Next]_vars, NEW i \in DOMAIN ledger
      PROVE  /\ i \in DOMAIN ledger'
             /\ ledger'[i].kind = ledger[i].kind /\ ledger'[i].key = ledger[i].key
             /\ repeats' = 0 => ledger'[i] = ledger[i]
  <2>1. /\ repeats \in Nat /\ IsLog(ledger) /\ Len(ledger) \in Nat
        /\ DOMAIN ledger = 1 .. Len(ledger)
    BY <1>1, LogShape DEF BookInv, TablesInv
  <2>2. CASE ledger' = ledger
    BY <2>2
  <2>3. CASE SettleOpenOrders /\ ledger' # ledger
    <3>1. DueEntries # {}
      BY <2>3 DEF SettleOpenOrders
    <3>2. \E n \in Nat : IsLog(ledger') /\ Len(ledger') = Len(ledger) + n
                         /\ \A j \in 1 .. Len(ledger) : ledger'[j] = ledger[j]
      BY <1>1, <2>3, <3>1, SettledLedger, Zenon
    <3>3. DOMAIN ledger' = 1 .. Len(ledger')
      BY <3>2, LogShape
    <3>. QED BY <2>1, <3>2, <3>3
  <2>4. ASSUME NEW p \in Pipelines, PaperExecution(p), ledger' # ledger
        PROVE  /\ i \in DOMAIN ledger'
               /\ ledger'[i].kind = ledger[i].kind /\ ledger'[i].key = ledger[i].key
               /\ repeats' = 0 => ledger'[i] = ledger[i]
    <3>. DEFINE key == pipe[p].key
                entry == [kind |-> "open", key |-> key, after |-> account']
    <3>1. ledger' = AppendLedger(ledger, "open", key, account') /\ repeats' = repeats
      BY <2>4 DEF PaperExecution
    <3>2. repeats = 0 => i \in DOMAIN ledger' /\ ledger'[i] = ledger[i]
      BY <1>1, <2>4, FirstExecutionAppends
    <3>3. CASE \E j \in DOMAIN ledger : ledger[j].kind = "open" /\ ledger[j].key = key
      <4>1. ledger' = [j \in DOMAIN ledger |->
               IF ledger[j].kind = "open" /\ ledger[j].key = key THEN entry ELSE ledger[j]]
        BY <3>1, <3>3 DEF AppendLedger
      <4>2. entry.kind = "open" /\ entry.key = key
        OBVIOUS
      <4>. HIDE DEF entry, key
      <4>. QED BY <3>1, <3>2, <4>1, <4>2
    <3>4. CASE ~\E j \in DOMAIN ledger : ledger[j].kind = "open" /\ ledger[j].key = key
      <4>1. ledger' = Append(ledger, entry)
        BY <3>1, <3>4 DEF AppendLedger
      <4>. HIDE DEF entry, key
      <4>2. DOMAIN ledger' = 1 .. Len(ledger) + 1 /\ \A j \in 1 .. Len(ledger) : ledger'[j] = ledger[j]
        BY <2>1, <4>1, AppendLog
      <4>. QED BY <2>1, <4>2
    <3>. QED BY <3>3, <3>4
  <2>. QED BY <1>1, <2>1, <2>2, <2>3, <2>4, Writers
<1>2. BookInv /\ TypesInv /\ [Next]_vars =>
      [\A i \in DOMAIN ledger :
          /\ i \in DOMAIN ledger'
          /\ ledger'[i].kind = ledger[i].kind /\ ledger'[i].key = ledger[i].key
          /\ repeats' = 0 => ledger'[i] = ledger[i]]_vars
  BY <1>1
<1>. QED BY <1>2, MoneyHolds, PTL DEF Spec, LedgerIsAppendOnly

\* A balance that is not used up covers the smallest stake.
BalanceCoversMinimum == account.available = 0 \/ account.available >= MinStake

EquityIsExact == repeats = 0 => Equity = Start + account.realized

\* What was sized for a pipeline can still be paid when it is executed.
StakesFunded ==
    /\ \A p \in Pipelines : pipe[p] # Nothing /\ pipe[p].at \in 3 .. 5 =>
          recs[pipe[p].key].stake <= account.available
    /\ \A p \in Pipelines : pipe[p] # Nothing /\ pipe[p].at = 6 =>
          tickets[pipe[p].key].stake <= account.available

FundedInv == EquityIsExact /\ (repeats = 0 => StakesFunded)

\* No sizing exceeds the balance, and the checks only take from a stake.
LEMMA StakesOnlyShrink ==
    ASSUME TypeOK, NEW k \in Keys, NEW stake \in Nat
    PROVE  /\ BalanceCoversMinimum =>
                 \A outcome \in SizingOutcomes(account.available) : outcome.stake <= account.available
           /\ Governed(k, stake).stake <= stake
           /\ stake > 0 => Decorrelated(k, stake).stake <= stake
           /\ \A rec : rec.stake = stake => TicketFor(rec).stake <= stake
<1>1. account.available \in Nat
  BY AccountTypes
<1>2. ASSUME BalanceCoversMinimum, NEW outcome \in SizingOutcomes(account.available)
      PROVE  outcome.stake <= account.available
  <2>1. CASE outcome.stake = 0
    BY <1>1, <2>1
  <2>2. CASE outcome.stake # 0
    <3>1. PICK r \in Recommendations : outcome = Sized(r) /\ r <= account.available /\ account.available # 0
      BY <1>2, <2>2 DEF SizingOutcomes
    <3>2. outcome.stake = AtLeast(MinStake, AtMost(MaxStake, r))
      BY <3>1 DEF Sized
    <3>3. MinStake <= account.available
      BY <1>2, <3>1 DEF BalanceCoversMinimum
    <3>. QED BY <1>1, <3>1, <3>2, <3>3 DEF AtLeast, AtMost
  <2>. QED BY <2>1, <2>2
<1>3. Governed(k, stake).stake <= stake
  <2>. DEFINE least == AtMost(stake, MatchRoom(MatchOf[k]))
  <2>1. least <= stake
    BY RoomIsNatural DEF AtMost
  <2>2. Governed(k, stake).stake \in {0, least}
    BY DEF Governed
  <2>. HIDE DEF least
  <2>. QED BY <2>1, <2>2
<1>4. ASSUME stake > 0 PROVE Decorrelated(k, stake).stake <= stake
  <2>1. Decorrelated(k, stake).stake \in {0, stake, (stake + 1) \div 2}
    BY DEF Decorrelated
  <2>2. (stake + 1) \div 2 <= stake
    BY <1>4
  <2>. QED BY <2>1, <2>2
<1>5. ASSUME NEW rec, rec.stake = stake PROVE TicketFor(rec).stake <= stake
  <2>1. TicketFor(rec).stake \in {0, stake}
    BY <1>5 DEF TicketFor
  <2>. QED BY <2>1
<1>. QED BY <1>2, <1>3, <1>4, <1>5

LEMMA StagesStayFunded ==
    ASSUME BookInv, TypesInv, StakesFunded, OneAtATime, BalanceCoversMinimum,
           NEW p \in Pipelines, Stage(p)
    PROVE  StakesFunded'
<1>. TypeOK
  BY DEF TypesInv
<1>1. pipe[p] # Nothing /\ Advance(p) /\ pipe[p].key \in Keys /\ pipe[p].at \in 1 .. 8
  <2>1. pipe[p] # Nothing /\ Advance(p)
    BY DEF Stage, At, StakeCandidateBuild, StakeSizing, ExposureCheck, CorrelationCheck,
           TicketConstruction, PaperExecution, Settlement, BankrollAccounting
  <2>. QED BY <2>1, StageNumbers DEF BookInv, Job
<1>. PICK k \in Keys : k = pipe[p].key
  BY <1>1
<1>. PICK at \in 1 .. 8 : at = pipe[p].at
  BY <1>1
<1>2. \A q \in Pipelines : pipe'[q] # Nothing => q = p /\ pipe'[q].key = k /\ pipe'[q].at = at + 1
  BY <1>1, Advances DEF OneAtATime, BookInv
<1>3. recs[k].stake \in Nat /\ recs \in [Keys -> [status : StakeStatuses, stake : Nat]]
      /\ tickets \in [Keys -> Ticket \cup {Nothing}]
  BY DEF TypeOK
<1>4. account.available \in Nat
  BY AccountTypes
<1>5. /\ at \in 3 .. 5 => recs[k].stake <= account.available
      /\ at = 6 => tickets[k].stake <= account.available
  BY <1>1 DEF StakesFunded
<1>. DEFINE Goal == /\ at \in 2 .. 4 => recs'[k].stake <= account'.available
                    /\ at = 5 => tickets'[k].stake <= account'.available
<1>6. Goal
  <2>1. CASE StakeSizing(p)
    <3>1. at = 2 /\ account' = account
      BY <1>1, <2>1, StageNumbers DEF BookInv, StakeSizing
    <3>2. PICK outcome \in SizingOutcomes(account.available) : recs' = [recs EXCEPT ![k] = outcome]
      BY <2>1 DEF StakeSizing
    <3>3. recs'[k] = outcome /\ outcome.stake <= account.available
      BY <1>3, <3>2, StakesOnlyShrink
    <3>. QED BY <3>1, <3>3
  <2>2. CASE ExposureCheck(p)
    <3>1. at = 3 /\ account' = account
      BY <1>1, <2>2, StageNumbers DEF BookInv, ExposureCheck
    <3>2. recs' = [recs EXCEPT ![k] = Governed(k, recs[k].stake)] \/ recs' = recs
      BY <2>2 DEF ExposureCheck
    <3>3. recs'[k].stake \in {recs[k].stake, Governed(k, recs[k].stake).stake}
      BY <1>3, <3>2
    <3>4. Governed(k, recs[k].stake).stake <= recs[k].stake /\ Governed(k, recs[k].stake).stake \in Nat
      BY <1>3, StakesOnlyShrink, RecommendedTypes
    <3>. QED BY <1>3, <1>4, <1>5, <3>1, <3>3, <3>4
  <2>3. CASE CorrelationCheck(p)
    <3>1. at = 4 /\ account' = account
      BY <1>1, <2>3, StageNumbers DEF BookInv, CorrelationCheck
    <3>2. (recs[k].stake > 0 /\ recs' = [recs EXCEPT ![k] = Decorrelated(k, recs[k].stake)]) \/ recs' = recs
      BY <2>3 DEF CorrelationCheck
    <3>3. \/ recs[k].stake > 0 /\ recs'[k].stake = Decorrelated(k, recs[k].stake).stake
          \/ recs'[k].stake = recs[k].stake
      BY <1>3, <3>2
    <3>4. /\ recs[k].stake > 0 => Decorrelated(k, recs[k].stake).stake <= recs[k].stake
          /\ Decorrelated(k, recs[k].stake).stake \in Nat
      BY <1>3, StakesOnlyShrink, RecommendedTypes
    <3>. QED BY <1>3, <1>4, <1>5, <3>1, <3>3, <3>4
  <2>4. CASE TicketConstruction(p)
    <3>1. at = 5 /\ account' = account
      BY <1>1, <2>4, StageNumbers DEF BookInv, TicketConstruction
    <3>2. tickets'[k] = TicketFor(recs[k])
      BY <1>3, <2>4 DEF TicketConstruction
    <3>3. TicketFor(recs[k]).stake <= recs[k].stake
      BY <1>3, StakesOnlyShrink
    <3>4. TicketFor(recs[k]).stake \in {0, recs[k].stake}
      BY DEF TicketFor
    <3>. QED BY <1>3, <1>4, <1>5, <3>1, <3>2, <3>4
  <2>5. CASE \/ StakeCandidateBuild(p) \/ PaperExecution(p) \/ Settlement(p) \/ BankrollAccounting(p)
    <3>1. pipe[p].at \in {1, 6, 7, 8}
      BY <1>1, <2>5, StageNumbers
         DEF BookInv, StakeCandidateBuild, PaperExecution, Settlement, BankrollAccounting
    <3>2. ~(at \in 2 .. 4) /\ at # 5
      BY <3>1
    <3>. QED BY <3>2
  <2>. HIDE DEF Goal
  <2>. QED BY <2>1, <2>2, <2>3, <2>4, <2>5 DEF Stage
<1>7. /\ at + 1 \in 3 .. 5 => at \in 2 .. 4
      /\ at + 1 = 6 => at = 5
  OBVIOUS
<1>. QED BY <1>2, <1>6, <1>7 DEF StakesFunded

\* Outside the pipelines the balance only grows.
LEMMA StepsKeepFunded ==
    ASSUME BookInv, TypesInv, StakesFunded, OneAtATime, BalanceCoversMinimum, [Next]_vars,
           repeats = 0, repeats' = 0
    PROVE  StakesFunded'
<1>1. pipe \in [Pipelines -> Job \cup {Nothing}]
  BY DEF BookInv, TablesInv
<1>2. account.available \in Nat /\ recs \in [Keys -> [status : StakeStatuses, stake : Nat]]
      /\ tickets \in [Keys -> Ticket \cup {Nothing}]
  BY AccountTypes DEF TypesInv, TypeOK
<1>3. ASSUME NEW p \in Pipelines, Stage(p) PROVE StakesFunded'
  BY <1>3, StagesStayFunded
<1>4. ASSUME NEW p \in Pipelines, NEW k \in Keys, HandOver(p, k) PROVE StakesFunded'
  <2>. DEFINE first == [key |-> k, at |-> 1]
  <2>1. UNCHANGED <<recs, tickets, account>> /\ pipe' = [pipe EXCEPT ![p] = first]
    BY <1>4 DEF HandOver, bankroll
  <2>2. first.at = 1
    OBVIOUS
  <2>. HIDE DEF first
  <2>3. pipe'[p] = first /\ \A q \in Pipelines : q # p => pipe'[q] = pipe[q]
    BY <1>1, <2>1
  <2>4. pipe'[p].at \notin 3 .. 5 /\ pipe'[p].at # 6
    BY <2>2, <2>3
  <2>. QED BY <2>1, <2>3, <2>4 DEF StakesFunded
<1>5. ASSUME NEW p \in Pipelines, LosePipeline(p) PROVE StakesFunded'
  <2>1. UNCHANGED <<recs, tickets, account>> /\ pipe' = [pipe EXCEPT ![p] = Nothing]
    BY <1>5 DEF LosePipeline, bankroll
  <2>. QED BY <1>1, <2>1 DEF StakesFunded
<1>6. ASSUME NEW p \in Pipelines, Redeliver(p) PROVE FALSE
  BY <1>6 DEF Redeliver
<1>7. CASE ScheduledSettlement
  <2>1. UNCHANGED <<recs, tickets, pipe>> /\ SettleOpenOrders
    BY <1>7 DEF ScheduledSettlement
  <2>2. account'.available >= account.available /\ account'.available \in Nat
    <3>1. CASE DueEntries = {}
      BY <1>2, <2>1, <3>1 DEF SettleOpenOrders
    <3>2. CASE DueEntries # {}
      <4>1. account'.available = account.available + PayoutsOf(DueKeys)
        BY <2>1, <3>2 DEF SettleOpenOrders, Settled
      <4>2. PayoutsOf(DueKeys) \in Nat
        BY DueOrdersAreOpen, MoneyTypes DEF TypesInv
      <4>. QED BY <1>2, <4>1, <4>2
    <3>. QED BY <3>1, <3>2
  <2>3. ASSUME NEW p \in Pipelines, pipe[p] # Nothing, pipe[p].at \in 3 .. 5
        PROVE  recs[pipe[p].key].stake <= account'.available
    <3>1. pipe[p].key \in Keys
      BY <1>1, <2>3 DEF Job
    <3>2. recs[pipe[p].key].stake \in Nat /\ recs[pipe[p].key].stake <= account.available
      BY <1>2, <2>3, <3>1 DEF StakesFunded
    <3>. QED BY <1>2, <2>2, <3>2
  <2>4. ASSUME NEW p \in Pipelines, pipe[p] # Nothing, pipe[p].at = 6
        PROVE  tickets[pipe[p].key].stake <= account'.available
    <3>1. pipe[p].key \in Keys
      BY <1>1, <2>4 DEF Job
    <3>2. tickets[pipe[p].key] \in Ticket
      BY <1>2, <2>4, <3>1 DEF TypesInv, TicketsInv
    <3>3. tickets[pipe[p].key].stake \in Nat /\ tickets[pipe[p].key].stake <= account.available
      BY <2>4, <3>2 DEF StakesFunded, Ticket
    <3>. QED BY <1>2, <2>2, <3>3
  <2>. QED BY <2>1, <2>3, <2>4 DEF StakesFunded
<1>8. CASE (\E m \in Matches : MatchEnds(m)) \/ (\E new \in SettingsSpace : StoreSettings(new)) \/ ProcessStarts
  <2>1. UNCHANGED <<recs, tickets, account, pipe>>
    BY <1>8 DEF MatchEnds, StoreSettings, ProcessStarts, bankroll
  <2>. QED BY <2>1 DEF StakesFunded
<1>9. CASE UNCHANGED vars
  BY <1>9 DEF vars, StakesFunded
<1>. QED BY <1>3, <1>4, <1>5, <1>6, <1>7, <1>8, <1>9 DEF Next

LEMMA StepsKeepEquity ==
    ASSUME BookInv, TypesInv, MoneyInv, FundedInv, [Next]_vars, repeats = 0
    PROVE  Equity' = Start + account'.realized
<1>1. repeats \in Nat /\ ReservedIsCovered /\ Equity = Start + account.realized /\ StakesFunded
  BY DEF BookInv, TablesInv, MoneyInv, ReservedCoversOpenOrders, FundedInv, EquityIsExact
<1>2. Equity \in Int /\ account.realized \in Int
  <2>1. StakesOf(Stranded) \in Nat
    BY MoneyTypes DEF TypesInv, Stranded, OpenKeys
  <2>. QED BY <2>1, AccountTypes DEF TypesInv, Equity
<1>3. Equity' \in Int /\ account'.realized \in Int
  BY StepsKeepTypes, EquityIsNumber
<1>4. CASE SettleOpenOrders
  <2>1. Equity' - account'.realized = Equity - account.realized
    BY <1>1, <1>4, SettlementKeepsMoney
  <2>. QED BY <1>1, <1>2, <1>3, <2>1
<1>5. ASSUME NEW p \in Pipelines, PaperExecution(p) PROVE Equity' = Start + account'.realized
  <2>1. tickets[pipe[p].key].stake <= account.available
    BY <1>1, <1>5, ExecutedOrders DEF StakesFunded
  <2>2. Equity' - account'.realized = Equity - account.realized
    BY <1>1, <1>5, <2>1, ExecutionKeepsMoney
  <2>. QED BY <1>1, <1>2, <1>3, <2>2
<1>6. ASSUME NEW p \in Pipelines, BankrollAccounting(p) PROVE Equity' = Start + account'.realized
  BY <1>1, <1>6, AccountingKeepsMoney
<1>7. CASE UNCHANGED <<orders, recorded, ledger, account>>
  <2>1. UNCHANGED Stranded
    BY <1>7 DEF OpenKeys, IsOpen, Stranded
  <2>2. StakesOf(Stranded)' = StakesOf(Stranded)
    BY <1>7, <2>1 DEF StakesOf
  <2>. QED BY <1>1, <1>7, <2>2 DEF Equity
<1>. QED BY <1>1, <1>4, <1>5, <1>6, <1>7, Writers

\* NoMoneyIsLost says "until the balance was overdrawn once".  One pipeline at a
\* time never overdraws it, unless StakeSizing raises a stake to a minimum that
\* the balance does not cover: an overdraft needs one of the two.
THEOREM OnePipelineNeverOverdraws ==
    Spec /\ []OneAtATime /\ []BalanceCoversMinimum => []EquityIsExact
<1>1. Init => FundedInv
  <2>. SUFFICES ASSUME Init PROVE FundedInv
    OBVIOUS
  <2>1. account.available = Start /\ account.reserved = 0 /\ account.realized = 0 /\ Stranded = {}
    BY DEF Init, NoRow, OpenKeys, IsOpen, Stranded
  <2>2. StakesOf({}) = 0
    BY SumOfNone DEF StakesOf
  <2>3. StakesFunded
    BY DEF Init, StakesFunded
  <2>. QED BY <2>1, <2>2, <2>3 DEF FundedInv, EquityIsExact, Equity
<1>2. BookInv /\ TypesInv /\ MoneyInv /\ FundedInv /\ OneAtATime /\ BalanceCoversMinimum /\ [Next]_vars
      => FundedInv'
  <2>. SUFFICES ASSUME BookInv, TypesInv, MoneyInv, FundedInv, OneAtATime, BalanceCoversMinimum,
                       [Next]_vars, repeats' = 0
                PROVE  Equity' = Start + account'.realized /\ StakesFunded'
    BY DEF FundedInv, EquityIsExact
  <2>1. repeats \in Nat
    BY DEF BookInv, TablesInv
  <2>2. repeats = 0
    BY <2>1, Writers
  <2>. QED BY <2>2, StepsKeepEquity, StepsKeepFunded DEF FundedInv
<1>3. FundedInv => EquityIsExact
  BY DEF FundedInv
<1>. QED BY <1>1, <1>2, <1>3, MoneyHolds, PTL DEF Spec

=============================================================================
