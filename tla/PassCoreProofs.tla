--------------------------- MODULE PassCoreProofs ---------------------------
(***************************************************************************)
(* Theorems about the core contract, for every number of accounts, tokens  *)
(* and plans and every bound on time: its types and terms, the ether it    *)
(* passes on, and the access its passes carry.  Before them, what these    *)
(* and all the proofs about money use about Sum.                           *)
(***************************************************************************)
EXTENDS PassCore, SequenceTheorems, FiniteSetTheorems, FunctionTheorems, TLAPS

-----------------------------------------------------------------------------
(* Totals.                                                                 *)

(* A finite set with natural summands has finitely many units, so its total
   is a natural number. *)
LEMMA SumNat ==
  ASSUME NEW S, IsFiniteSet(S), NEW f, \A i \in S : f[i] \in Nat
  PROVE  IsFiniteSet(Units(f, S)) /\ Sum(f, S) \in Nat
  <1> DEFINE cols == { {i} \X (1 .. f[i]) : i \in S }
             col == [i \in S |-> {i} \X (1 .. f[i])]
  <1>1. col \in Surjection(S, cols)
    <2>1. col \in [S -> cols]
      OBVIOUS
    <2>2. \A c \in cols : \E i \in S : col[i] = c
      OBVIOUS
    <2> QED
      BY <2>1, <2>2, Fun_IsSurj
  <1>2. IsFiniteSet(cols)
    BY <1>1, FS_Surjection
  <1>3. ASSUME NEW c \in cols PROVE IsFiniteSet(c)
    <2>1. PICK i \in S : c = {i} \X (1 .. f[i])
      OBVIOUS
    <2>2. IsFiniteSet({i})
      BY FS_Singleton
    <2>3. 1 \in Int /\ f[i] \in Int
      OBVIOUS
    <2>4. IsFiniteSet(1 .. f[i])
      BY <2>3, FS_Interval
    <2> QED
      BY <2>1, <2>2, <2>4, FS_Product
  <1>4. IsFiniteSet(UNION cols)
    BY <1>2, <1>3, FS_UNION
  <1> QED
    BY <1>4, FS_CardinalityType DEF Units, Sum

(* The total over no elements is zero. *)
LEMMA SumEmpty ==
  ASSUME NEW f
  PROVE  Sum(f, {}) = 0
  <1>1. Units(f, {}) = {}
    BY DEF Units
  <1> QED
    BY <1>1, FS_EmptySet DEF Sum

(* The total over one element is its summand. *)
LEMMA SumSingleton ==
  ASSUME NEW f, NEW i, f[i] \in Nat
  PROVE  Sum(f, {i}) = f[i]
  <1>1. Units(f, {i}) = {i} \X (1 .. f[i])
    BY DEF Units
  <1>2. IsFiniteSet({i}) /\ Cardinality({i}) = 1
    BY FS_Singleton
  <1>3. 1 \in Int /\ f[i] \in Int
    OBVIOUS
  <1>4. IsFiniteSet(1 .. f[i]) /\ Cardinality(1 .. f[i]) = f[i]
    BY <1>3, FS_Interval
  <1>5. Cardinality({i} \X (1 .. f[i])) = Cardinality({i}) * Cardinality(1 .. f[i])
    BY <1>2, <1>4, FS_Product
  <1>6. Cardinality({i} \X (1 .. f[i])) = f[i]
    BY <1>2, <1>4, <1>5
  <1> QED
    BY <1>1, <1>6 DEF Sum

(* Totals depend only on the summands. *)
LEMMA SumCong ==
  ASSUME NEW S, NEW f, NEW g, \A i \in S : f[i] = g[i]
  PROVE  Sum(f, S) = Sum(g, S)
  <1>1. Units(f, S) = Units(g, S)
    BY DEF Units
  <1> QED
    BY <1>1 DEF Sum

(* Totals over disjoint sets add up. *)
LEMMA SumDisjoint ==
  ASSUME NEW S, NEW T, IsFiniteSet(S), IsFiniteSet(T), S \cap T = {},
         NEW f, \A i \in S \cup T : f[i] \in Nat
  PROVE  Sum(f, S \cup T) = Sum(f, S) + Sum(f, T)
  <1>1. Units(f, S \cup T) = Units(f, S) \cup Units(f, T)
    BY DEF Units
  <1>2. Units(f, S) \cap Units(f, T) = {}
    BY DEF Units
  <1>3. IsFiniteSet(Units(f, S)) /\ IsFiniteSet(Units(f, T))
    BY SumNat
  <1>4. Cardinality(Units(f, S) \cap Units(f, T)) = 0
    BY <1>2, FS_EmptySet
  <1>5. Sum(f, S) \in Nat /\ Sum(f, T) \in Nat
    BY SumNat
  <1>6. Cardinality(Units(f, S) \cup Units(f, T))
          = Cardinality(Units(f, S)) + Cardinality(Units(f, T)) - 0
    BY <1>3, <1>4, FS_Union
  <1>7. Sum(f, S \cup T) = Sum(f, S) + Sum(f, T) - 0
    BY <1>1, <1>6 DEF Sum
  <1> QED
    BY <1>5, <1>7

(* Larger summands give a larger total. *)
LEMMA SumMonotone ==
  ASSUME NEW S, IsFiniteSet(S), NEW f, NEW g,
         \A i \in S : f[i] \in Nat /\ g[i] \in Nat /\ f[i] <= g[i]
  PROVE  Sum(f, S) <= Sum(g, S)
  <1>1. Units(f, S) \subseteq Units(g, S)
    <2> SUFFICES ASSUME NEW p \in Units(f, S)
                 PROVE  p \in Units(g, S)
      OBVIOUS
    <2>1. PICK i \in S : p \in {i} \X (1 .. f[i])
      BY DEF Units
    <2>2. p \in {i} \X (1 .. g[i])
      BY <2>1
    <2> QED
      BY <2>2 DEF Units
  <1>2. IsFiniteSet(Units(g, S))
    BY SumNat
  <1> QED
    BY <1>1, <1>2, FS_Subset DEF Sum

(* Taking one element out of a total. *)
LEMMA SumRemove ==
  ASSUME NEW S, IsFiniteSet(S), NEW f, \A j \in S : f[j] \in Nat, NEW i \in S
  PROVE  Sum(f, S) = Sum(f, S \ {i}) + f[i]
  <1>1. S = (S \ {i}) \cup {i}
    OBVIOUS
  <1>2. IsFiniteSet(S \ {i}) /\ IsFiniteSet({i})
    BY FS_RemoveElement, FS_Singleton
  <1>3. Sum(f, (S \ {i}) \cup {i}) = Sum(f, S \ {i}) + Sum(f, {i})
    BY <1>2, SumDisjoint
  <1>4. Sum(f, {i}) = f[i]
    BY SumSingleton
  <1> QED
    BY <1>1, <1>3, <1>4

(* Changing one summand changes the total by the difference. *)
LEMMA SumChangeOne ==
  ASSUME NEW S, IsFiniteSet(S), NEW f, NEW g, NEW i \in S,
         \A j \in S : f[j] \in Nat /\ g[j] \in Nat,
         \A j \in S \ {i} : f[j] = g[j]
  PROVE  Sum(f, S) + g[i] = Sum(g, S) + f[i]
  <1>1. Sum(f, S) = Sum(f, S \ {i}) + f[i]
    BY SumRemove
  <1>2. Sum(g, S) = Sum(g, S \ {i}) + g[i]
    BY SumRemove
  <1>3. Sum(f, S \ {i}) = Sum(g, S \ {i})
    BY SumCong
  <1>4. Sum(f, S \ {i}) \in Nat
    BY SumNat, FS_RemoveElement
  <1> QED
    BY <1>1, <1>2, <1>3, <1>4

(* A summand is at most the total. *)
LEMMA SumBoundsSummand ==
  ASSUME NEW S, IsFiniteSet(S), NEW f, \A j \in S : f[j] \in Nat, NEW i \in S
  PROVE  f[i] <= Sum(f, S)
  <1>1. Sum(f, S) = Sum(f, S \ {i}) + f[i]
    BY SumRemove
  <1>2. Sum(f, S \ {i}) \in Nat
    BY SumNat, FS_RemoveElement
  <1> QED
    BY <1>1, <1>2

(* Reading the summands through a bijection does not change the total. *)
LEMMA SumBijection ==
  ASSUME NEW S, NEW T, IsFiniteSet(S), NEW b \in Bijection(S, T),
         NEW f, NEW g, \A i \in S : f[i] \in Nat /\ f[i] = g[b[i]]
  PROVE  Sum(f, S) = Sum(g, T)
  <1> DEFINE U == Units(f, S)
             V == Units(g, T)
             m == [p \in U |-> <<b[p[1]], p[2]>>]
  <1>b. /\ b \in [S -> T]
        /\ \A x, y \in S : b[x] = b[y] => x = y
        /\ \A t \in T : \E s \in S : b[s] = t
    BY Fun_BijectionProperties
  <1>1. \A p \in U : p = <<p[1], p[2]>> /\ p[1] \in S /\ p[2] \in 1 .. f[p[1]]
    BY DEF Units
  <1>2. \A p \in V : p = <<p[1], p[2]>> /\ p[1] \in T /\ p[2] \in 1 .. g[p[1]]
    BY DEF Units
  <1>3. m \in [U -> V]
    <2> SUFFICES ASSUME NEW p \in U PROVE <<b[p[1]], p[2]>> \in V
      OBVIOUS
    <2>1. b[p[1]] \in T /\ p[2] \in 1 .. g[b[p[1]]]
      BY <1>1, <1>b
    <2> QED
      BY <2>1 DEF Units
  <1>4. \A p, q \in U : m[p] = m[q] => p = q
    <2> SUFFICES ASSUME NEW p \in U, NEW q \in U, m[p] = m[q] PROVE p = q
      OBVIOUS
    <2>1. b[p[1]] = b[q[1]] /\ p[2] = q[2]
      OBVIOUS
    <2>2. p[1] = q[1]
      BY <2>1, <1>1, <1>b
    <2> QED
      BY <2>1, <2>2, <1>1
  <1>5. \A v \in V : \E p \in U : m[p] = v
    <2> SUFFICES ASSUME NEW v \in V PROVE \E p \in U : m[p] = v
      OBVIOUS
    <2>1. v = <<v[1], v[2]>> /\ v[1] \in T /\ v[2] \in 1 .. g[v[1]]
      BY <1>2
    <2>2. PICK s \in S : b[s] = v[1]
      BY <2>1, <1>b
    <2>3. <<s, v[2]>> \in U
      BY <2>1, <2>2 DEF Units
    <2>4. m[<<s, v[2]>>] = v
      BY <2>1, <2>2, <2>3
    <2> QED
      BY <2>3, <2>4
  <1>6. m \in Bijection(U, V)
    BY <1>3, <1>4, <1>5, Fun_IsBij
  <1>7. ExistsBijection(U, V)
    BY <1>6, Fun_ExistsBij
  <1>8. IsFiniteSet(U)
    BY SumNat
  <1> HIDE DEF U, V
  <1>9. Cardinality(V) = Cardinality(U)
    BY <1>7, <1>8, FS_Bijection
  <1> QED
    BY <1>9 DEF Sum, U, V

(* A total of nothing but zeros is zero. *)
LEMMA SumOfZeros ==
  ASSUME NEW S, NEW f, \A i \in S : f[i] = 0
  PROVE  Sum(f, S) = 0
  <1>1. Units(f, S) = {}
    BY DEF Units
  <1> QED
    BY <1>1, FS_EmptySet DEF Sum

(* Equal summands are multiplied. *)
LEMMA SumOfEquals ==
  ASSUME NEW S, IsFiniteSet(S), NEW f, NEW q \in Nat, \A i \in S : f[i] = q
  PROVE  Sum(f, S) = Cardinality(S) * q
  <1>1. Units(f, S) = S \X (1 .. q)
    BY DEF Units
  <1>2. IsFiniteSet(1 .. q) /\ Cardinality(1 .. q) = q
    BY FS_Interval
  <1> QED
    BY <1>1, <1>2, FS_Product DEF Sum

(* Where two functions differ on part of a set only, so do their totals. *)
LEMMA SumExchange ==
  ASSUME NEW S, IsFiniteSet(S), NEW D \in SUBSET S, NEW f, NEW g,
         \A i \in S : f[i] \in Nat /\ g[i] \in Nat,
         \A i \in S \ D : f[i] = g[i]
  PROVE  /\ Sum(f, S) + Sum(g, D) = Sum(g, S) + Sum(f, D)
         /\ Sum(f, S) \in Nat /\ Sum(g, S) \in Nat
         /\ Sum(f, D) \in Nat /\ Sum(g, D) \in Nat
  <1>1. S = (S \ D) \cup D /\ (S \ D) \cap D = {}
    OBVIOUS
  <1>2. IsFiniteSet(S \ D) /\ IsFiniteSet(D)
    BY FS_Subset
  <1>3. /\ Sum(f, (S \ D) \cup D) = Sum(f, S \ D) + Sum(f, D)
        /\ Sum(g, (S \ D) \cup D) = Sum(g, S \ D) + Sum(g, D)
    BY <1>1, <1>2, SumDisjoint
  <1>4. Sum(f, S \ D) = Sum(g, S \ D)
    BY SumCong
  <1>5. /\ Sum(f, S \ D) \in Nat /\ Sum(f, D) \in Nat /\ Sum(g, D) \in Nat
        /\ Sum(f, S) \in Nat /\ Sum(g, S) \in Nat
    BY <1>2, SumNat
  <1>6. /\ Sum(f, S) = Sum(f, S \ D) + Sum(f, D)
        /\ Sum(g, S) = Sum(f, S \ D) + Sum(g, D)
    BY <1>1, <1>3, <1>4
  <1> QED
    BY <1>5, <1>6

(* The seconds of the windows S that open at lo[i] and close at hi[i], as pairs of a
   window and a second; there are as many as the lengths make together. *)
Windows(S, lo, hi) == UNION { {i} \X (lo[i] .. hi[i] - 1) : i \in S }

LEMMA WindowUnits ==
  ASSUME NEW T, IsFiniteSet(T), NEW S \in SUBSET T, NEW lo, NEW hi,
         \A i \in T : lo[i] \in Nat /\ hi[i] \in Nat,
         NEW len,
         \A i \in T : len[i] = IF i \in S /\ lo[i] < hi[i] THEN hi[i] - lo[i] ELSE 0
  PROVE  /\ IsFiniteSet(Windows(S, lo, hi))
         /\ Cardinality(Windows(S, lo, hi)) = Sum(len, T)
  <1> DEFINE P == UNION { {i} \X (lo[i] .. hi[i] - 1) : i \in S }
             U == Units(len, T)
             m == [u \in U |-> <<u[1], lo[u[1]] + u[2] - 1>>]
  <1>1. \A i \in T : len[i] \in Nat
    OBVIOUS
  <1>2. \A u \in U : /\ u = <<u[1], u[2]>> /\ u[1] \in S /\ u[2] \in Nat
                     /\ 1 <= u[2] /\ u[2] <= hi[u[1]] - lo[u[1]]
    <2> SUFFICES ASSUME NEW i \in T, NEW k \in 1 .. len[i]
                 PROVE  i \in S /\ k \in Nat /\ 1 <= k /\ k <= hi[i] - lo[i]
      BY DEF Units
    <2>1. len[i] \in Nat /\ len[i] >= 1
      BY <1>1
    <2>2. i \in S /\ len[i] = hi[i] - lo[i]
      BY <2>1
    <2> QED
      BY <2>1, <2>2
  <1>3. m \in [U -> P]
    <2> SUFFICES ASSUME NEW u \in U PROVE <<u[1], lo[u[1]] + u[2] - 1>> \in P
      OBVIOUS
    <2>1. lo[u[1]] + u[2] - 1 \in lo[u[1]] .. hi[u[1]] - 1
      BY <1>2
    <2>2. <<u[1], lo[u[1]] + u[2] - 1>> \in {u[1]} \X (lo[u[1]] .. hi[u[1]] - 1)
      BY <2>1
    <2> QED
      BY <1>2, <2>2
  <1>4. \A u, v \in U : m[u] = m[v] => u = v
    <2> SUFFICES ASSUME NEW u \in U, NEW v \in U, m[u] = m[v] PROVE u = v
      OBVIOUS
    <2>1. u[1] = v[1] /\ lo[u[1]] + u[2] - 1 = lo[v[1]] + v[2] - 1
      OBVIOUS
    <2>2. u[2] = v[2]
      BY <2>1, <1>2
    <2> QED
      BY <2>1, <2>2, <1>2
  <1>5. \A p \in P : \E u \in U : m[u] = p
    <2> SUFFICES ASSUME NEW p \in P PROVE \E u \in U : m[u] = p
      OBVIOUS
    <2>a. PICK i \in S : p \in {i} \X (lo[i] .. hi[i] - 1)
      OBVIOUS
    <2>0. PICK s \in lo[i] .. hi[i] - 1 : p = <<i, s>>
      BY <2>a
    <2>1. len[i] = hi[i] - lo[i] /\ s - lo[i] + 1 \in 1 .. len[i]
      OBVIOUS
    <2>2. <<i, s - lo[i] + 1>> \in U
      BY <2>1 DEF Units
    <2>3. lo[i] + (s - lo[i] + 1) - 1 = s
      OBVIOUS
    <2>4. m[<<i, s - lo[i] + 1>>] = <<i, s>>
      BY <2>2, <2>3
    <2> QED
      BY <2>0, <2>2, <2>4
  <1>6. ExistsBijection(U, P)
    <2> HIDE DEF U, P, m
    <2> QED
      BY <1>3, <1>4, <1>5, Fun_IsBij, Fun_ExistsBij
  <1>7. IsFiniteSet(U)
    BY <1>1, SumNat
  <1> HIDE DEF U, P, m
  <1>8. IsFiniteSet(P) /\ Cardinality(P) = Cardinality(U)
    BY <1>6, <1>7, FS_Bijection
  <1> QED
    BY <1>8 DEF Sum, U, P, Windows

(* Crediting an account adds the amount to the total of the sheet. *)
LEMMA CreditTotal ==
  ASSUME NEW S, IsFiniteSet(S), NEW f \in [S -> Nat], NEW a \in S, NEW v \in Nat
  PROVE  /\ Credit(f, a, v) \in [S -> Nat]
         /\ Sum(Credit(f, a, v), S) = Sum(f, S) + v
  <1> DEFINE g == Credit(f, a, v)
  <1>1. g \in [S -> Nat] /\ g[a] = f[a] + v /\ \A j \in S \ {a} : f[j] = g[j]
    BY DEF Credit
  <1> HIDE DEF g
  <1>2. Sum(f, S) + g[a] = Sum(g, S) + f[a]
    BY <1>1, SumChangeOne
  <1>3. Sum(f, S) \in Nat /\ Sum(g, S) \in Nat /\ f[a] \in Nat
    BY <1>1, SumNat
  <1>4. Sum(g, S) = Sum(f, S) + v
    BY <1>1, <1>2, <1>3
  <1> QED
    BY <1>1, <1>4 DEF g

(* Debiting an account that can bear it takes the amount off the total. *)
LEMMA DebitTotal ==
  ASSUME NEW S, IsFiniteSet(S), NEW f \in [S -> Nat], NEW a \in S,
         NEW v \in Nat, v <= f[a]
  PROVE  /\ Debit(f, a, v) \in [S -> Nat]
         /\ Sum(Debit(f, a, v), S) = Sum(f, S) - v
  <1> DEFINE g == Debit(f, a, v)
  <1>1. g \in [S -> Nat] /\ g[a] = f[a] - v /\ \A j \in S \ {a} : f[j] = g[j]
    BY DEF Debit
  <1> HIDE DEF g
  <1>2. Sum(f, S) + g[a] = Sum(g, S) + f[a]
    BY <1>1, SumChangeOne
  <1>3. Sum(f, S) \in Nat /\ Sum(g, S) \in Nat /\ f[a] \in Nat
    BY <1>1, SumNat
  <1>4. Sum(g, S) = Sum(f, S) - v
    BY <1>1, <1>2, <1>3
  <1> QED
    BY <1>1, <1>4 DEF g

(* A payment between two accounts of a sheet keeps its total. *)
LEMMA PaymentTotal ==
  ASSUME NEW S, IsFiniteSet(S), NEW f \in [S -> Nat], NEW a \in S, NEW b \in S,
         NEW v \in Nat, v <= f[a]
  PROVE  /\ Credit(Debit(f, a, v), b, v) \in [S -> Nat]
         /\ Sum(Credit(Debit(f, a, v), b, v), S) = Sum(f, S)
  <1> DEFINE g == Debit(f, a, v)
  <1>1. g \in [S -> Nat] /\ Sum(g, S) = Sum(f, S) - v
    BY DebitTotal
  <1> HIDE DEF g
  <1>2. Credit(g, b, v) \in [S -> Nat] /\ Sum(Credit(g, b, v), S) = Sum(g, S) + v
    BY <1>1, CreditTotal
  <1>3. Sum(f, S) \in Nat
    BY SumNat
  <1> QED
    BY <1>1, <1>2, <1>3 DEF g

-----------------------------------------------------------------------------
(* Types.                                                                  *)

(* The invariant the proofs carry: types, and blank ids from next_token_id. *)
CoreInv == TypeOK /\ FreshIdsBlank

LEMMA ConstantFacts ==
  /\ Tokens \subseteq Nat /\ Plans \subseteq Nat
  /\ IsFiniteSet(Tokens) /\ IsFiniteSet(Holders)
  /\ 0 \in Tokens /\ 0 \in Plans
  /\ Admin \in Addr /\ ZERO \notin Addr /\ ZERO \in Holders /\ Addr \subseteq Holders
  /\ U64Limit \in Nat /\ U64Limit > 0 /\ MaxTokens \in Nat /\ MaxTime \in Nat
  <1>1. MaxTokens \in Nat \ {0} /\ MaxPlans \in Nat \ {0}
    BY BoundsAssumption, MaxTimeAssumption
  <1>2. 0 \in Int /\ MaxTokens - 1 \in Int
    BY <1>1
  <1>3. IsFiniteSet(Tokens)
    BY <1>2, FS_Interval DEF Tokens
  <1>4. IsFiniteSet(Holders)
    BY AccountsAssumption, FS_AddElement DEF Holders
  <1> QED
    BY <1>1, <1>3, <1>4, BoundsAssumption, MaxTimeAssumption, AccountsAssumption,
       AdminAssumption
    DEF Tokens, Plans, Holders

(* Durations fit a u64 after conversion, and so does the expiry they give. *)
LEMMA ExpiryAfterNat ==
  ASSUME now \in Nat, NEW d \in Nat
  PROVE  ToU64(d) \in Nat /\ ExpiryAfter(d) \in Nat
  <1>1. U64Limit \in Nat /\ U64Limit > 0
    BY ConstantFacts
  <1>2. ToU64(d) \in Nat
    BY DEF ToU64
  <1> QED
    BY <1>1, <1>2 DEF ExpiryAfter

(* A list of ids, as bundle() is given it. *)
LEMMA IdListType ==
  ASSUME NEW ids \in IdLists
  PROVE  /\ Len(ids) \in Nat /\ DOMAIN ids = 1 .. Len(ids)
         /\ \A k \in 1 .. Len(ids) : ids[k] \in Tokens
  <1>1. PICK n \in 2 .. MaxBundle : ids \in [1 .. n -> Tokens]
    BY DEF IdLists
  <1>2. n \in Nat
    OBVIOUS
  <1>3. ids \in Seq(Tokens)
    BY <1>1, <1>2, SeqDef
  <1> QED
    BY <1>3, LenProperties

(* Slices are cut at natural times. *)
LEMMA SliceType ==
  ASSUME now \in Nat, NEW id, expiries[id] \in Nat, expiries[id] > now,
         NEW n \in Nat, n >= 2, NEW k \in 0 .. n - 1
  PROVE  Slices(id, n)[k].from \in Nat /\ Slices(id, n)[k].to \in Nat
  <1> DEFINE rest == expiries[id] - now
             length == rest \div n
  <1>1. rest \in Nat
    OBVIOUS
  <1>2. length \in Nat
    BY <1>1
  <1>3. k \in Nat
    OBVIOUS
  <1> HIDE DEF rest
  <1>4. length * k \in Nat
    <2> HIDE DEF length
    <2> QED
      BY <1>2, <1>3
  <1> HIDE DEF length
  <1>5. now + length * k \in Nat /\ now + length * k + length \in Nat
    BY <1>2, <1>4
  <1>6. Slices(id, n)[k].from = now + length * k
    BY DEF Slices, length, rest
  <1>7. Slices(id, n)[k].to \in {expiries[id], now + length * k + length}
    BY DEF Slices, length, rest
  <1> QED
    BY <1>5, <1>6, <1>7
-----------------------------------------------------------------------------
LEMMA InitType == Init => CoreInv
  BY ConstantFacts, BoundsAssumption, MaxTimeAssumption, AccountsAssumption
  DEF Init, ChainInit, NoPasses, CoreInv, TypeOK, ChainTypeOK, FreshIdsBlank, Holders

(* Each transaction preserves the invariant. *)
LEMMA SetIssuerType ==
  ASSUME CoreInv, NEW c \in Addr, NEW a \in NewIssuers, NEW allowed \in BOOLEAN,
         SetIssuer(c, a, allowed)
  PROVE  CoreInv'
  <1>1. a \in Addr
    BY InputsAssumption DEF SetIssuer, Holders
  <1> QED
    BY <1>1 DEF CoreInv, TypeOK, ChainTypeOK, FreshIdsBlank, SetIssuer, tokenVars, planVars

LEMMA SetMarketplaceType ==
  ASSUME CoreInv, NEW c \in Addr, NEW m \in Markets, SetMarketplace(c, m)
  PROVE  CoreInv'
  BY InputsAssumption
  DEF CoreInv, TypeOK, ChainTypeOK, FreshIdsBlank, SetMarketplace, tokenVars, planVars

LEMMA CreatePlanType ==
  ASSUME CoreInv, NEW c \in Addr, NEW price \in Prices, NEW d \in Durations,
         CreatePlan(c, price, d)
  PROVE  CoreInv'
  <1>1. c \in Holders /\ price \in Nat /\ d \in Nat
    BY InputsAssumption, ConstantFacts
  <1>2. FreshIdsBlank'
    BY DEF CoreInv, FreshIdsBlank, CreatePlan, tokenVars
  <1>3. next_plan_id + 1 \in 0 .. MaxPlans
    BY BoundsAssumption, MaxTimeAssumption DEF CoreInv, TypeOK, ChainTypeOK, CreatePlan
  <1>4. TypeOK'
    BY <1>1, <1>3 DEF CoreInv, TypeOK, ChainTypeOK, CreatePlan, tokenVars, roleVars
  <1> QED
    BY <1>2, <1>4 DEF CoreInv

LEMMA SetPlanOpenType ==
  ASSUME CoreInv, NEW c \in Addr, NEW p \in Plans, NEW open \in BOOLEAN,
         SetPlanOpen(c, p, open)
  PROVE  CoreInv'
  BY DEF CoreInv, TypeOK, ChainTypeOK, FreshIdsBlank, SetPlanOpen, tokenVars, roleVars

(* What a new pass does to the token mappings. *)
LEMMA NewPassType ==
  ASSUME CoreInv, NEW to \in Holders, NEW issuer \in Holders, NEW d \in Nat,
         NewPass(to, d, issuer)
  PROVE  /\ owners' \in [Tokens -> Holders] /\ issuers' \in [Tokens -> Holders]
         /\ expiries' \in [Tokens -> Nat] /\ starts' \in [Tokens -> Nat]
         /\ next_token_id \in Tokens /\ next_token_id' \in 0 .. MaxTokens
         /\ next_token_id' = next_token_id + 1
         /\ \A i \in Tokens : i >= next_token_id' =>
              /\ issuers'[i] = ZERO /\ expiries'[i] = 0 /\ starts'[i] = 0
  <1>1. ExpiryAfter(d) \in Nat
    BY ExpiryAfterNat DEF CoreInv, TypeOK, ChainTypeOK
  <1>2. next_token_id \in Tokens
    BY ConstantFacts DEF CoreInv, TypeOK, ChainTypeOK, NewPass, Tokens
  <1>3. \A i \in Tokens : i >= next_token_id + 1 => i # next_token_id /\ i >= next_token_id
    BY <1>2 DEF Tokens
  <1> QED
    BY <1>1, <1>2, <1>3, ConstantFacts DEF CoreInv, TypeOK, ChainTypeOK, FreshIdsBlank, NewPass

LEMMA MintType ==
  ASSUME CoreInv, NEW c \in Addr, NEW to \in Addr, NEW d \in Durations,
         Mint(c, to, d)
  PROVE  CoreInv'
  <1>1. to \in Holders /\ c \in Holders /\ d \in Nat
    BY InputsAssumption, ConstantFacts
  <1>2. NewPass(to, d, c)
    BY DEF Mint
  <1>3. \A i \in Tokens : i >= next_token_id' => i >= next_token_id
    BY <1>1, <1>2, NewPassType DEF Tokens
  <1>4. FreshIdsBlank'
    BY <1>1, <1>2, <1>3, NewPassType DEF CoreInv, FreshIdsBlank, Mint
  <1>5. TypeOK'
    BY <1>1, <1>2, NewPassType DEF CoreInv, TypeOK, ChainTypeOK, Mint, planVars, roleVars
  <1> QED
    BY <1>4, <1>5 DEF CoreInv

LEMMA BuyPassType ==
  ASSUME CoreInv, NEW c \in Addr, NEW p \in Plans, NEW v, BuyPass(c, p, v)
  PROVE  CoreInv'
  <1> DEFINE issuer == plan_issuers[p]
             price == plan_prices[p]
  <1>1. /\ c \in Holders /\ v \in Nat /\ issuer \in Holders /\ issuer \in Addr
        /\ price \in Nat /\ plan_durations[p] \in Nat
    BY ConstantFacts DEF CoreInv, TypeOK, ChainTypeOK, BuyPass, ExactlyPaid, Holders
  <1>2. NewPass(c, plan_durations[p], issuer)
    BY DEF BuyPass
  <1>3. next_token_id \in Tokens
    BY <1>1, <1>2, NewPassType
  <1>4. \A i \in Tokens : i >= next_token_id' => i >= next_token_id /\ i # next_token_id
    BY <1>1, <1>2, NewPassType DEF Tokens
  <1>5. /\ token_plans' = [token_plans EXCEPT ![next_token_id] = p]
        /\ token_paid' = [token_paid EXCEPT ![next_token_id] = price]
    BY DEF BuyPass
  <1>6. FreshIdsBlank'
    BY <1>1, <1>2, <1>3, <1>4, <1>5, NewPassType DEF CoreInv, TypeOK, ChainTypeOK, FreshIdsBlank
  <1>7. eth' \in [Holders -> Nat]
    <2>1. eth \in [Holders -> Nat] /\ v <= eth[c]
      BY DEF CoreInv, TypeOK, ChainTypeOK, BuyPass
    <2>2. Debit(eth, c, v) \in [Holders -> Nat]
      BY <1>1, <2>1, ConstantFacts, DebitTotal
    <2>3. Credit(Debit(eth, c, v), issuer, price) \in [Holders -> Nat]
      BY <1>1, <2>2, ConstantFacts, CreditTotal
    <2> QED
      BY <2>3 DEF BuyPass
  <1>8. token_plans' \in [Tokens -> Plans] /\ token_paid' \in [Tokens -> Nat]
    BY <1>1, <1>5 DEF CoreInv, TypeOK, ChainTypeOK
  <1>9. TypeOK'
    BY <1>1, <1>2, <1>7, <1>8, NewPassType
    DEF CoreInv, TypeOK, ChainTypeOK, BuyPass, planVars, roleVars
  <1> QED
    BY <1>6, <1>9 DEF CoreInv

LEMMA SplitType ==
  ASSUME CoreInv, NEW c \in Addr, NEW id \in Tokens, NEW parts \in PartCounts,
         Split(c, id, parts)
  PROVE  CoreInv'
  <1> DEFINE n == ToU64(parts)
             fresh == next_token_id .. next_token_id + n - 1
             slice(i) == Slices(id, n)[i - next_token_id]
  <1>1. /\ c \in Holders /\ now \in Nat /\ next_token_id \in Nat
        /\ owners \in [Tokens -> Holders] /\ expiries \in [Tokens -> Nat]
        /\ starts \in [Tokens -> Nat] /\ expiries[id] > now
        /\ issuers \in [Tokens -> Holders]
        /\ token_plans \in [Tokens -> Plans] /\ token_paid \in [Tokens -> Nat]
    BY ConstantFacts DEF CoreInv, TypeOK, ChainTypeOK, Split, is_active
  <1>2. n \in Nat /\ n >= 2
    BY InputsAssumption, ConstantFacts DEF Split, ToU64
  <1>3. ASSUME NEW i \in fresh
        PROVE  slice(i).from \in Nat /\ slice(i).to \in Nat
    <2>1. i - next_token_id \in 0 .. n - 1
      BY <1>1, <1>2
    <2> QED
      BY <1>1, <1>2, <2>1, SliceType
  <1>4. token_paid[id] \div n \in Nat
    BY <1>1, <1>2
  <1> HIDE DEF n
  <1>5. owners' \in [Tokens -> Holders]
    BY <1>1, ConstantFacts DEF Split, n
  <1>6. starts' \in [Tokens -> Nat]
    <2>1. starts' = [i \in Tokens |-> IF i \in fresh THEN slice(i).from ELSE starts[i]]
      BY DEF Split, n
    <2> QED
      BY <1>1, <1>3, <2>1
  <1>7. expiries' \in [Tokens -> Nat]
    <2>1. expiries' = [i \in Tokens |-> CASE i \in fresh -> slice(i).to
                                          [] i = id -> 0
                                          [] OTHER -> expiries[i]]
      BY DEF Split, n
    <2> QED
      BY <1>1, <1>3, <2>1
  <1>8. /\ issuers' \in [Tokens -> Holders] /\ token_plans' \in [Tokens -> Plans]
        /\ token_paid' \in [Tokens -> Nat]
    BY <1>1, <1>4 DEF Split, n
  <1>9. next_token_id' = next_token_id + n /\ next_token_id' \in 0 .. MaxTokens
    BY <1>1, <1>2, ConstantFacts DEF Split, n
  <1>10. TypeOK'
    BY <1>5, <1>6, <1>7, <1>8, <1>9 DEF CoreInv, TypeOK, ChainTypeOK, Split, planVars, roleVars
  <1>11. \A i \in Tokens : i >= next_token_id' => i >= next_token_id /\ i \notin fresh
    BY <1>1, <1>2, <1>9, ConstantFacts
  <1>12. id < next_token_id
    BY <1>1 DEF CoreInv, FreshIdsBlank, Tokens
  <1>13. \A i \in Tokens : i >= next_token_id' => i # id
    BY <1>1, <1>11, <1>12, ConstantFacts
  <1>14. FreshIdsBlank'
    BY <1>11, <1>13 DEF CoreInv, FreshIdsBlank, Split, n
  <1> QED
    BY <1>10, <1>14 DEF CoreInv

LEMMA BundleType ==
  ASSUME CoreInv, NEW c \in Addr, NEW ids \in IdLists, Bundle(c, ids)
  PROVE  CoreInv'
  <1> DEFINE turns == 1 .. Len(ids)
             rem == [k \in turns |-> remaining_seconds(ids[k])]
             paid == [k \in turns |-> token_paid[ids[k]]]
             burned == { ids[k] : k \in turns }
  <1>0. next_token_id < MaxTokens
    BY DEF Bundle
  <1>1. /\ c \in Holders /\ now \in Nat /\ next_token_id \in 0 .. MaxTokens
        /\ next_token_id < MaxTokens
        /\ owners \in [Tokens -> Holders] /\ expiries \in [Tokens -> Nat]
        /\ issuers \in [Tokens -> Holders]
        /\ token_plans \in [Tokens -> Plans] /\ token_paid \in [Tokens -> Nat]
    BY <1>0, ConstantFacts DEF CoreInv, TypeOK, ChainTypeOK
  <1>2. /\ Len(ids) \in Nat /\ Len(ids) >= 2 /\ \A k \in turns : ids[k] \in Tokens
    BY IdListType DEF Bundle
  <1>3. ids[1] \in Tokens /\ next_token_id \in Tokens
    BY <1>1, <1>2, ConstantFacts DEF Tokens
  <1>4. IsFiniteSet(turns)
    BY <1>2, FS_Interval
  <1>5. Sum(rem, turns) \in Nat
    <2>1. \A k \in turns : rem[k] \in Nat
      BY <1>1, <1>2 DEF remaining_seconds
    <2> QED
      BY <1>4, <2>1, SumNat
  <1>6. Sum(paid, turns) \in Nat
    <2>1. \A k \in turns : paid[k] \in Nat
      BY <1>1, <1>2
    <2> QED
      BY <1>4, <2>1, SumNat
  <1>7. owners' \in [Tokens -> Holders]
    BY <1>1, ConstantFacts DEF Bundle
  <1>8. expiries' \in [Tokens -> Nat]
    <2>1. expiries' = [i \in Tokens |-> CASE i = next_token_id -> now + Sum(rem, turns)
                                          [] i \in burned -> 0
                                          [] OTHER -> expiries[i]]
      BY DEF Bundle
    <2> HIDE DEF rem, turns
    <2> QED
      BY <1>1, <1>5, <2>1
  <1>9. token_paid' \in [Tokens -> Nat]
    <2>1. token_paid' = [token_paid EXCEPT ![next_token_id] = Sum(paid, turns)]
      BY DEF Bundle
    <2> HIDE DEF paid, turns
    <2> QED
      BY <1>1, <1>6, <2>1
  <1>10. issuers' \in [Tokens -> Holders] /\ token_plans' \in [Tokens -> Plans]
    BY <1>1, <1>3 DEF Bundle
  <1>11. next_token_id' = next_token_id + 1 /\ next_token_id' \in 0 .. MaxTokens
    BY <1>1, ConstantFacts DEF Bundle
  <1>12. TypeOK'
    BY <1>7, <1>8, <1>9, <1>10, <1>11
    DEF CoreInv, TypeOK, ChainTypeOK, Bundle, planVars, roleVars
  <1>13. \A i \in Tokens : i >= next_token_id' => i >= next_token_id /\ i # next_token_id
    BY <1>1, <1>11, ConstantFacts
  <1>14. \A i \in burned : i < next_token_id
    <2> SUFFICES ASSUME NEW k \in turns PROVE ids[k] < next_token_id
      OBVIOUS
    <2>1. expiries[ids[k]] > now
      BY <1>1, <1>2 DEF Bundle, is_active
    <2> QED
      BY <1>1, <1>2, <2>1, ConstantFacts DEF CoreInv, FreshIdsBlank
  <1>15. \A i \in Tokens : i >= next_token_id' => i \notin burned
    BY <1>1, <1>13, <1>14, ConstantFacts
  <1>16. FreshIdsBlank'
    BY <1>1, <1>3, <1>13, <1>15 DEF CoreInv, TypeOK, ChainTypeOK, FreshIdsBlank, Bundle
  <1> QED
    BY <1>12, <1>16 DEF CoreInv

LEMMA MoveType ==
  ASSUME CoreInv, NEW id \in Tokens, NEW to \in Holders, MovePass(id, to),
         UNCHANGED <<now, eth, planVars, roleVars>>
  PROVE  CoreInv'
  BY DEF CoreInv, TypeOK, ChainTypeOK, FreshIdsBlank, MovePass, planVars, roleVars

LEMMA TickType ==
  ASSUME CoreInv, Tick
  PROVE  CoreInv'
  <1>1. now' \in 1 .. MaxTime
    BY ConstantFacts DEF CoreInv, TypeOK, ChainTypeOK, Tick, TimePasses
  <1> QED
    BY <1>1 DEF CoreInv, TypeOK, ChainTypeOK, FreshIdsBlank, Tick, TimePasses, tokenVars, planVars, roleVars

LEMMA StepType == CoreInv /\ [Next]_coreVars => CoreInv'
  <1> SUFFICES ASSUME CoreInv, [Next]_coreVars PROVE CoreInv'
    OBVIOUS
  <1>1. CASE Tick
    BY <1>1, TickType
  <1>2. ASSUME NEW c \in Addr, CatalogueStep(c) PROVE CoreInv'
    BY <1>2, SetIssuerType, SetMarketplaceType, CreatePlanType, SetPlanOpenType
    DEF CatalogueStep
  <1>3. ASSUME NEW c \in Addr, IssueStep(c) PROVE CoreInv'
    BY <1>3, MintType, BuyPassType DEF IssueStep
  <1>4. ASSUME NEW c \in Addr, HolderStep(c) PROVE CoreInv'
    BY <1>4, SplitType, BundleType, MoveType, InputsAssumption DEF HolderStep, TransferPass
  <1>5. ASSUME NEW c \in Addr, NEW from \in Holders, NEW to \in Holders,
               NEW id \in Tokens, MarketTransfer(c, from, to, id)
        PROVE  CoreInv'
    BY <1>5, MoveType DEF MarketTransfer
  <1>6. CASE UNCHANGED coreVars
    BY <1>6
    DEF CoreInv, TypeOK, ChainTypeOK, FreshIdsBlank, coreVars, tokenVars, planVars, roleVars
  <1> QED
    BY <1>1, <1>2, <1>3, <1>4, <1>5, <1>6 DEF Next

(* Type correctness of the core contract, and that no id is handed out twice:
   lib.rs allocates with next_token_id in mint, buy_pass, split and bundle. *)
THEOREM CoreInvariant == Spec => []CoreInv
  <1>1. Init => CoreInv
    BY InitType
  <1>2. CoreInv /\ [Next]_coreVars => CoreInv'
    BY StepType
  <1> QED
    BY <1>1, <1>2, PTL DEF Spec

(* TypeOK for every value of the constants. *)
THEOREM TypeCorrect == Spec => []TypeOK
  <1>1. CoreInv => TypeOK
    BY DEF CoreInv
  <1> QED
    BY <1>1, CoreInvariant, PTL

(* FreshIdsBlank for every value of the constants: what the next issue writes
   to is never a pass somebody holds. *)
THEOREM IdsNeverReused == Spec => []FreshIdsBlank
  <1>1. CoreInv => FreshIdsBlank
    BY DEF CoreInv
  <1> QED
    BY <1>1, CoreInvariant, PTL

-----------------------------------------------------------------------------
(* The terms of issued passes.                                             *)

LEMMA NewPassKeepsTerms ==
  ASSUME CoreInv, NEW to \in Holders, NEW issuer \in Holders, NEW d \in Nat,
         NewPass(to, d, issuer), NEW i \in 0 .. next_token_id - 1
  PROVE  /\ i \in Tokens /\ i # next_token_id
         /\ issuers'[i] = issuers[i] /\ starts'[i] = starts[i]
         /\ expiries'[i] = expiries[i]
  <1>1. next_token_id \in Tokens
    BY NewPassType
  <1>2. i \in Tokens /\ i # next_token_id
    BY <1>1, ConstantFacts DEF Tokens
  <1> QED
    BY <1>2 DEF CoreInv, TypeOK, ChainTypeOK, NewPass

LEMMA StepKeepsTerms ==
  CoreInv /\ [Next]_coreVars
    => [\A i \in 0 .. next_token_id - 1 : TermsKept(i)]_coreVars
  <1> SUFFICES ASSUME CoreInv, Next, NEW i \in 0 .. next_token_id - 1
               PROVE  TermsKept(i)
    OBVIOUS
  <1>0. i \in Tokens /\ next_token_id \in Nat
    BY ConstantFacts DEF CoreInv, TypeOK, ChainTypeOK, Tokens
  <1>1. CASE UNCHANGED tokenVars
    BY <1>1 DEF TermsKept, tokenVars
  <1>2. ASSUME NEW c \in Addr, CatalogueStep(c) PROVE TermsKept(i)
    BY <1>1, <1>2
    DEF CatalogueStep, SetIssuer, SetMarketplace, CreatePlan, SetPlanOpen
  <1>3. ASSUME NEW c \in Addr, NEW to \in Addr, NEW d \in Durations, Mint(c, to, d)
        PROVE  TermsKept(i)
    <2>1. c \in Holders /\ to \in Holders /\ d \in Nat
      BY ConstantFacts, InputsAssumption
    <2>2. NewPass(to, d, c)
      BY <1>3 DEF Mint
    <2> QED
      BY <1>3, <2>1, <2>2, NewPassKeepsTerms DEF TermsKept, Mint
  <1>4. ASSUME NEW c \in Addr, NEW p \in Plans, NEW v \in Prices, BuyPass(c, p, v)
        PROVE  TermsKept(i)
    <2>1. c \in Holders /\ plan_issuers[p] \in Holders /\ plan_durations[p] \in Nat
      BY ConstantFacts DEF CoreInv, TypeOK, ChainTypeOK
    <2>2. NewPass(c, plan_durations[p], plan_issuers[p])
      BY <1>4 DEF BuyPass
    <2>3. /\ token_plans' = [token_plans EXCEPT ![next_token_id] = p]
          /\ token_paid' = [token_paid EXCEPT ![next_token_id] = plan_prices[p]]
      BY <1>4 DEF BuyPass
    <2>4. token_plans'[i] = token_plans[i] /\ token_paid'[i] = token_paid[i]
      BY <2>1, <2>2, <2>3, NewPassKeepsTerms DEF CoreInv, TypeOK, ChainTypeOK
    <2> QED
      BY <2>1, <2>2, <2>4, NewPassKeepsTerms DEF TermsKept
  <1>5. ASSUME NEW c \in Addr, NEW id \in Tokens, NEW n \in PartCounts, Split(c, id, n)
        PROVE  TermsKept(i)
    <2>1. i \notin next_token_id .. next_token_id + ToU64(n) - 1
      BY <1>0
    <2> QED
      BY <1>0, <1>5, <2>1 DEF TermsKept, Split, CoreInv, TypeOK
  <1>6. ASSUME NEW c \in Addr, NEW ids \in IdLists, Bundle(c, ids)
        PROVE  TermsKept(i)
    <2>1. i # next_token_id
      BY <1>0
    <2> QED
      BY <1>0, <1>6, <2>1 DEF TermsKept, Bundle, CoreInv, TypeOK
  <1>7. ASSUME NEW id \in Tokens, NEW to \in Holders, MovePass(id, to)
        PROVE  TermsKept(i)
    BY <1>7 DEF TermsKept, MovePass
  <1> QED
    BY <1>1, <1>2, <1>3, <1>4, <1>5, <1>6, <1>7, InputsAssumption
    DEF Next, Tick, TimePasses, IssueStep, HolderStep, TransferPass, MarketTransfer

(* PassTermsFixed for every value of the constants: no sequence of sales, gifts,
   splits and merges extends a pass, or rewrites who issued it, from which plan
   and for how much. *)
THEOREM TermsFixed == Spec => PassTermsFixed
  <1>1. CoreInv /\ [Next]_coreVars
          => [\A i \in 0 .. next_token_id - 1 : TermsKept(i)]_coreVars
    BY StepKeepsTerms
  <1> QED
    BY <1>1, CoreInvariant, PTL DEF Spec, PassTermsFixed

-----------------------------------------------------------------------------
(* Ether.                                                                  *)

LEMMA InitEthTotal == Init => EthConserved
  BY DEF Init, ChainInit, EthConserved

(* A primary sale, of whatever value the caller sends with it. *)
LEMMA BuyPassTotal ==
  ASSUME CoreInv, NEW c \in Addr, NEW p \in Plans, NEW v, BuyPass(c, p, v)
  PROVE  /\ Sum(eth', Holders) = Sum(eth, Holders)
         /\ \A h \in Refusing : h # c => eth'[h] = eth[h]
  <1> DEFINE issuer == plan_issuers[p]
  <1>1. /\ issuer \in Addr /\ v \in Nat /\ v <= eth[c] /\ v = plan_prices[p]
        /\ eth \in [Holders -> Nat] /\ issuer \notin Refusing
    BY DEF CoreInv, TypeOK, ChainTypeOK, BuyPass, ExactlyPaid, Holders
  <1>2. eth' = Credit(Debit(eth, c, v), issuer, v)
    BY <1>1 DEF BuyPass
  <1> HIDE DEF issuer
  <1>3. Sum(Credit(Debit(eth, c, v), issuer, v), Holders) = Sum(eth, Holders)
    BY <1>1, ConstantFacts, PaymentTotal
  <1>4. ASSUME NEW h \in Refusing, h # c
        PROVE  eth'[h] = eth[h]
    BY <1>1, <1>2, <1>4, AccountsAssumption DEF Credit, Debit, Holders
  <1> QED
    BY <1>2, <1>3, <1>4

(* No transaction on the core changes what the accounts hold together. *)
LEMMA StepKeepsEthTotal ==
  CoreInv /\ [Next]_coreVars => Sum(eth', Holders) = Sum(eth, Holders)
  <1> SUFFICES ASSUME CoreInv, [Next]_coreVars
               PROVE  Sum(eth', Holders) = Sum(eth, Holders)
    OBVIOUS
  <1>1. CASE UNCHANGED eth
    BY <1>1
  <1>2. ASSUME NEW c \in Addr, NEW p \in Plans, NEW v \in Prices, BuyPass(c, p, v)
        PROVE  Sum(eth', Holders) = Sum(eth, Holders)
    BY <1>2, BuyPassTotal
  <1>3. ASSUME NEW c \in Addr, CatalogueStep(c) PROVE UNCHANGED eth
    BY <1>3 DEF CatalogueStep, SetIssuer, SetMarketplace, CreatePlan, SetPlanOpen
  <1>4. ASSUME NEW c \in Addr, IssueStep(c)
        PROVE  Sum(eth', Holders) = Sum(eth, Holders)
    BY <1>1, <1>2, <1>4 DEF IssueStep, Mint
  <1>5. ASSUME NEW c \in Addr, HolderStep(c) PROVE UNCHANGED eth
    BY <1>5 DEF HolderStep, Split, Bundle, TransferPass
  <1> QED
    BY <1>1, <1>3, <1>4, <1>5 DEF Next, coreVars, Tick, TimePasses, MarketTransfer

(* EthConserved for every value of the constants: a primary sale pays the issuer
   what the buyer sent, and the core keeps nothing. *)
THEOREM NoEthKept == Spec => []EthConserved
  <1>1. CoreInv /\ EthConserved /\ [Next]_coreVars => EthConserved'
    BY StepKeepsEthTotal DEF EthConserved
  <1> QED
    BY <1>1, InitEthTotal, CoreInvariant, PTL DEF Spec

-----------------------------------------------------------------------------
(* For the contracts around the core: payments, and who moves a pass.      *)

(* A payment between two accounts: nothing is lost, and the payer has that much
   less. *)
LEMMA PaymentFacts ==
  ASSUME NEW sheet \in [Holders -> Nat], NEW a \in Holders, NEW b \in Holders, a # b,
         NEW v \in Nat, v <= sheet[a]
  PROVE  /\ Payment(sheet, a, b, v) \in [Holders -> Nat]
         /\ Sum(Payment(sheet, a, b, v), Holders) = Sum(sheet, Holders)
         /\ Payment(sheet, a, b, v)[a] = sheet[a] - v
         /\ Payment(sheet, a, b, v)[b] = sheet[b] + v
  <1>1. IsFiniteSet(Holders)
    BY ConstantFacts
  <1>2. /\ Payment(sheet, a, b, v) \in [Holders -> Nat]
        /\ Sum(Payment(sheet, a, b, v), Holders) = Sum(sheet, Holders)
    BY <1>1, PaymentTotal DEF Payment
  <1> QED
    BY <1>2 DEF Payment, Credit, Debit

(* A payment leaves nobody but the payer with less. *)
LEMMA PaymentToOthers ==
  ASSUME NEW sheet \in [Holders -> Nat], NEW a \in Holders, NEW b \in Holders,
         NEW v \in Nat, NEW h \in Holders, h # a
  PROVE  Payment(sheet, a, b, v)[h] >= sheet[h]
  <1>1. Debit(sheet, a, v)[h] = sheet[h] /\ sheet[h] \in Nat
    BY DEF Debit
  <1>2. Payment(sheet, a, b, v)[h] \in {sheet[h], sheet[h] + v}
    <2> DEFINE d == Debit(sheet, a, v)
    <2>1. DOMAIN d = Holders /\ d[h] = sheet[h]
      BY <1>1 DEF Debit
    <2>2. Payment(sheet, a, b, v) = [d EXCEPT ![b] = @ + v]
      BY DEF Payment, Credit
    <2> HIDE DEF d
    <2> QED
      BY <2>1, <2>2
  <1> QED
    BY <1>1, <1>2

(* What holders and issuers do never touches an account that refuses ether. *)
LEMMA RefusingSpared ==
  ASSUME CoreInv, NEW c \in Addr, IssueStep(c) \/ HolderStep(c),
         NEW h \in Refusing, h # c
  PROVE  eth'[h] = eth[h]
  <1>1. h \in Holders
    BY AccountsAssumption DEF Holders
  <1>2. ASSUME NEW p \in Plans, NEW v \in Prices, BuyPass(c, p, v)
        PROVE  eth'[h] = eth[h]
    BY <1>2, BuyPassTotal
  <1> QED
    BY <1>2 DEF IssueStep, HolderStep, Mint, Split, Bundle, TransferPass

(* Ids are only ever handed out upwards. *)
LEMMA IdsOnlyGrow ==
  CoreInv /\ [Next]_coreVars => next_token_id' >= next_token_id
  <1> SUFFICES ASSUME CoreInv, [Next]_coreVars
               PROVE  next_token_id' >= next_token_id
    OBVIOUS
  <1>0. next_token_id \in Nat /\ U64Limit \in Nat /\ U64Limit > 0
    BY ConstantFacts DEF CoreInv, TypeOK, ChainTypeOK
  <1>1. CASE UNCHANGED next_token_id
    BY <1>0, <1>1
  <1>2. CASE next_token_id' = next_token_id + 1
    BY <1>0, <1>2
  <1>3. ASSUME NEW c \in Addr, NEW id \in Tokens, NEW n \in PartCounts, Split(c, id, n)
        PROVE  next_token_id' >= next_token_id
    <2>1. ToU64(n) \in Nat
      BY <1>0, InputsAssumption DEF ToU64
    <2> QED
      BY <1>0, <1>3, <2>1 DEF Split
  <1> QED
    BY <1>1, <1>2, <1>3
    DEF Next, coreVars, tokenVars, Tick, TimePasses, CatalogueStep, SetIssuer, SetMarketplace,
        CreatePlan, SetPlanOpen, IssueStep, Mint, BuyPass, NewPass, HolderStep, Bundle,
        TransferPass, MarketTransfer, MovePass

(* An id not issued yet has no owner.  (The core alone does not ensure it:
   market_transfer would give such an id away.  The contracts it is deployed with
   call it for active passes only.) *)
FreshIdsUnowned == \A i \in Tokens : i >= next_token_id => owners[i] = ZERO

(* An issue writes to an id nobody owns. *)
LEMMA IssueOwners ==
  ASSUME CoreInv, FreshIdsUnowned, NEW c \in Addr, IssueStep(c), NEW i \in Tokens
  PROVE  /\ i >= next_token_id' => owners'[i] = ZERO
         /\ owners'[i] = owners[i] \/ owners[i] = ZERO
  <1>1. /\ owners \in [Tokens -> Holders] /\ next_token_id \in Nat /\ i \in Nat
        /\ i >= next_token_id => owners[i] = ZERO
    BY ConstantFacts DEF CoreInv, TypeOK, FreshIdsUnowned
  <1>2. ASSUME NEW to, NEW d, NEW issuer, NewPass(to, d, issuer)
        PROVE  /\ owners' = [owners EXCEPT ![next_token_id] = to]
               /\ next_token_id' = next_token_id + 1
    BY <1>2 DEF NewPass
  <1>3. \E to : owners' = [owners EXCEPT ![next_token_id] = to]
    BY <1>2 DEF IssueStep, Mint, BuyPass
  <1>4. next_token_id' = next_token_id + 1
    BY <1>2 DEF IssueStep, Mint, BuyPass
  <1>5. i # next_token_id => owners'[i] = owners[i]
    BY <1>1, <1>3
  <1> QED
    BY <1>1, <1>4, <1>5

LEMMA HolderOwns ==
  ASSUME CoreInv, NEW c \in Addr, NEW ids \in IdLists, Bundle(c, ids),
         NEW k \in 1 .. Len(ids)
  PROVE  owners[ids[k]] = c
  <1>1. OwnerAtTurn(ids, k) = c /\ c # ZERO
    BY ConstantFacts DEF Bundle
  <1> QED
    BY <1>1 DEF OwnerAtTurn

(* Splits, merges and gifts take only what the caller owns. *)
LEMMA HolderOwners ==
  ASSUME CoreInv, FreshIdsUnowned, NEW c \in Addr, HolderStep(c), NEW i \in Tokens
  PROVE  /\ i >= next_token_id' => owners'[i] = ZERO
         /\ owners'[i] = owners[i] \/ owners[i] \in {ZERO, c}
  <1> DEFINE Kept == /\ i >= next_token_id' => owners'[i] = ZERO
                     /\ owners'[i] = owners[i] \/ owners[i] \in {ZERO, c}
  <1>1. /\ owners \in [Tokens -> Holders] /\ next_token_id \in Nat /\ Tokens \subseteq Nat
        /\ U64Limit \in Nat /\ U64Limit > 0 /\ ZERO \notin Addr
        /\ i >= next_token_id => owners[i] = ZERO
    BY ConstantFacts DEF CoreInv, TypeOK, FreshIdsUnowned
  <1>2. ASSUME NEW id \in Tokens, NEW n \in PartCounts, Split(c, id, n)
        PROVE  Kept
    <2> DEFINE fresh == next_token_id .. next_token_id + ToU64(n) - 1
    <2>1. ToU64(n) \in Nat
      BY <1>1, InputsAssumption DEF ToU64
    <2>2. /\ owners' = [j \in Tokens |-> CASE j \in fresh -> c
                                           [] j = id -> ZERO
                                           [] OTHER -> owners[j]]
          /\ next_token_id' = next_token_id + ToU64(n)
          /\ owners[id] = c
      BY <1>2 DEF Split
    <2>3. i \in fresh <=> next_token_id <= i /\ i < next_token_id'
      BY <1>1, <2>1, <2>2
    <2> HIDE DEF fresh
    <2> QED
      BY <1>1, <2>1, <2>2, <2>3
  <1>3. ASSUME NEW ids \in IdLists, Bundle(c, ids)
        PROVE  Kept
    <2> DEFINE burned == { ids[k] : k \in 1 .. Len(ids) }
    <2>1. \A b \in burned : owners[b] = c
      BY <1>3, HolderOwns
    <2>2. /\ owners' = [j \in Tokens |-> CASE j = next_token_id -> c
                                           [] j \in burned -> ZERO
                                           [] OTHER -> owners[j]]
          /\ next_token_id' = next_token_id + 1
      BY <1>3 DEF Bundle
    <2> HIDE DEF burned
    <2> QED
      BY <1>1, <2>1, <2>2
  <1>4. ASSUME NEW id \in Tokens, NEW to \in Recipients, TransferPass(c, to, id)
        PROVE  Kept
    <2>1. /\ owners[id] = c /\ owners' = [owners EXCEPT ![id] = to]
          /\ next_token_id' = next_token_id
      BY <1>4 DEF TransferPass, MovePass
    <2> QED
      BY <1>1, <2>1
  <1> QED
    BY <1>2, <1>3, <1>4 DEF HolderStep

-----------------------------------------------------------------------------
(* Access: slices tile the window they are cut from, paidOf comes from sales only, and
   the core implements the access ledger.                                  *)

(* The types of what the steps below read. *)
LEMMA StateFacts ==
  ASSUME CoreInv
  PROVE  /\ now \in Nat /\ next_token_id \in Nat /\ next_token_id <= MaxTokens
         /\ owners \in [Tokens -> Holders] /\ expiries \in [Tokens -> Nat]
         /\ starts \in [Tokens -> Nat] /\ token_paid \in [Tokens -> Nat]
         /\ \A i \in Tokens : i >= next_token_id =>
              expiries[i] = 0 /\ starts[i] = 0 /\ token_paid[i] = 0
  BY ConstantFacts DEF CoreInv, TypeOK, ChainTypeOK, FreshIdsBlank

-----------------------------------------------------------------------------
(* Slices.                                                                 *)

(* Second s lies before the end of one of n stretches of the same length that
   begin at 0, or in the last, which is longer. *)
LEMMA StretchOf ==
  ASSUME NEW length \in Nat, NEW n \in Nat, n >= 1, NEW s \in Nat
  PROVE  \E k \in 0 .. n - 1 : /\ length * k <= s
                               /\ k + 1 = n \/ s < length * k + length
  <1>1. CASE length = 0
    <2>1. length * (n - 1) = 0
      BY <1>1
    <2> QED
      BY <2>1
  <1>2. CASE length > 0
    <2> DEFINE q == s \div length
    <2>1. q \in Nat /\ length * q <= s /\ s < length * (q + 1)
      BY <1>2
    <2>2. length * (q + 1) = length * q + length
      BY <2>1
    <2> HIDE DEF q
    <2>3. CASE q <= n - 1
      BY <2>1, <2>2, <2>3
    <2>4. CASE q > n - 1
      <3>1. length * (n - 1) <= length * q
        BY <2>1, <2>4
      <3>2. length * (n - 1) \in Nat /\ length * q \in Nat
        BY <2>1
      <3>3. length * (n - 1) <= s
        BY <2>1, <3>1, <3>2
      <3> QED
        BY <3>3
    <2> QED
      BY <2>1, <2>3, <2>4
  <1> QED
    BY <1>1, <1>2

(* An earlier stretch ends before a later one begins. *)
LEMMA StretchesApart ==
  ASSUME NEW length \in Nat, NEW j \in Nat, NEW k \in Nat, j < k
  PROVE  length * j + length <= length * k
  <1>1. length * (j + 1) <= length * k
    OBVIOUS
  <1>2. length * (j + 1) = length * j + length
    OBVIOUS
  <1> QED
    BY <1>1, <1>2

(* The slices of a window in progress follow one another: each second of the window
   that is still to come lies in exactly one, and no slice reaches beyond it. *)
LEMMA SlicesTile ==
  ASSUME now \in Nat, NEW id, expiries[id] \in Nat, now < expiries[id],
         NEW n \in Nat, n >= 2
  PROVE  LET slice == Slices(id, n)
         IN  /\ \A k \in 0 .. n - 1 : /\ slice[k].from \in Nat /\ slice[k].to \in Nat
                                      /\ now <= slice[k].from
                                      /\ slice[k].to <= expiries[id]
             /\ \A t \in now .. expiries[id] - 1 :
                  \E k \in 0 .. n - 1 :
                    /\ slice[k].from <= t /\ t < slice[k].to
                    /\ \A j \in 0 .. n - 1 : slice[j].from <= t /\ t < slice[j].to
                                               => j = k
  <1> DEFINE rest == expiries[id] - now
             length == rest \div n
             slice == Slices(id, n)
  <1>1. rest \in Nat /\ rest > 0 /\ length \in Nat /\ n * length <= rest
    OBVIOUS
  <1>2. \A k \in 0 .. n - 1 : /\ slice[k].from = now + length * k
                              /\ slice[k].to = IF k + 1 = n THEN expiries[id]
                                               ELSE now + length * k + length
    BY DEF Slices
  <1> HIDE DEF length, slice
  <1>3. \A k \in 0 .. n - 1 : /\ length * k \in Nat
                              /\ length * k <= rest
                              /\ k + 1 # n => length * k + length <= rest
    <2> SUFFICES ASSUME NEW k \in 0 .. n - 1
                 PROVE  /\ length * k \in Nat
                        /\ length * k <= rest
                        /\ k + 1 # n => length * k + length <= rest
      OBVIOUS
    <2>1. length * k + length <= length * n
      BY <1>1, StretchesApart
    <2>2. length * k \in Nat /\ length * n = n * length /\ n * length \in Nat
      BY <1>1
    <2> QED
      BY <1>1, <2>1, <2>2
  <1>4. \A k \in 0 .. n - 1 : /\ slice[k].from \in Nat /\ slice[k].to \in Nat
                              /\ now <= slice[k].from /\ slice[k].to <= expiries[id]
    <2> SUFFICES ASSUME NEW k \in 0 .. n - 1
                 PROVE  /\ slice[k].from \in Nat /\ slice[k].to \in Nat
                        /\ now <= slice[k].from /\ slice[k].to <= expiries[id]
      OBVIOUS
    <2>1. slice[k].from \in Nat /\ now <= slice[k].from
      BY <1>2, <1>3
    <2>2. CASE k + 1 = n
      BY <1>2, <2>1, <2>2
    <2>3. CASE k + 1 # n
      <3>1. slice[k].to = now + length * k + length
        BY <1>2, <2>3
      <3>2. length * k \in Nat /\ length * k + length <= rest
        BY <1>3, <2>3
      <3> QED
        BY <1>1, <2>1, <3>1, <3>2
    <2> QED
      BY <2>2, <2>3
  <1>5. ASSUME NEW t \in now .. expiries[id] - 1
        PROVE  \E k \in 0 .. n - 1 :
                 /\ slice[k].from <= t /\ t < slice[k].to
                 /\ \A j \in 0 .. n - 1 : slice[j].from <= t /\ t < slice[j].to => j = k
    <2> DEFINE s == t - now
    <2>1. s \in Nat /\ n >= 1
      OBVIOUS
    <2> HIDE DEF s
    <2>2. PICK k \in 0 .. n - 1 : /\ length * k <= s
                                  /\ k + 1 = n \/ s < length * k + length
      BY <1>1, <2>1, StretchOf
    <2>3. slice[k].from <= t /\ t < slice[k].to
      BY <1>1, <1>2, <1>3, <2>2 DEF s
    <2>4. ASSUME NEW j \in 0 .. n - 1, NEW i \in 0 .. n - 1, j < i,
                 slice[j].from <= t, t < slice[j].to, slice[i].from <= t
          PROVE  FALSE
      <3>1. length * j + length <= length * i
        BY <1>1, <2>4, StretchesApart
      <3>2. j + 1 # n /\ slice[j].to = now + length * j + length
        BY <1>2, <2>4
      <3>3. slice[i].from = now + length * i
        BY <1>2
      <3> QED
        BY <1>1, <1>3, <2>4, <3>1, <3>2, <3>3
    <2> QED
      BY <2>3, <2>4
  <1> QED
    BY <1>4, <1>5 DEF slice

(* What a split does to the passes, with the slices named by the ids they get. *)
LEMMA SplitFacts ==
  ASSUME CoreInv, NEW c \in Addr, NEW id \in Tokens, NEW parts \in PartCounts,
         Split(c, id, parts)
  PROVE  LET n == ToU64(parts)
             fresh == next_token_id .. next_token_id + n - 1
         IN  /\ n \in Nat /\ n >= 2 /\ fresh \subseteq Tokens /\ id \notin fresh
             /\ owners[id] = c /\ starts[id] <= now /\ now < expiries[id] /\ now' = now
             /\ owners'[id] = ZERO /\ expiries'[id] = 0
             /\ \A i \in fresh :
                  /\ expiries[i] = 0 /\ token_paid[i] = 0
                  /\ owners'[i] = c /\ token_paid'[i] = token_paid[id] \div n
                  /\ now <= starts'[i] /\ expiries'[i] <= expiries[id]
             /\ \A i \in Tokens \ (fresh \cup {id}) :
                  /\ owners'[i] = owners[i] /\ token_paid'[i] = token_paid[i]
                  /\ starts'[i] = starts[i] /\ expiries'[i] = expiries[i]
             /\ \A t \in now .. expiries[id] - 1 :
                  \E i \in fresh :
                    /\ starts'[i] <= t /\ t < expiries'[i]
                    /\ \A j \in fresh : starts'[j] <= t /\ t < expiries'[j] => j = i
  <1> DEFINE n == ToU64(parts)
             fresh == next_token_id .. next_token_id + n - 1
             slice == Slices(id, n)
  <1>1. /\ now \in Nat /\ next_token_id \in Nat /\ MaxTokens \in Nat
        /\ owners \in [Tokens -> Holders] /\ expiries \in [Tokens -> Nat]
        /\ starts \in [Tokens -> Nat] /\ token_paid \in [Tokens -> Nat]
        /\ \A i \in Tokens : i >= next_token_id => expiries[i] = 0 /\ token_paid[i] = 0
    BY StateFacts, ConstantFacts
  <1>2. owners[id] = c /\ starts[id] <= now /\ now < expiries[id] /\ now' = now
    BY DEF Split, is_active
  <1>3. n \in Nat /\ n >= 2 /\ next_token_id + n <= MaxTokens
    BY InputsAssumption, ConstantFacts DEF Split, ToU64
  <1>4. /\ owners' = [i \in Tokens |-> CASE i \in fresh -> c
                                         [] i = id -> ZERO
                                         [] OTHER -> owners[i]]
        /\ starts' = [i \in Tokens |-> IF i \in fresh THEN slice[i - next_token_id].from
                                                      ELSE starts[i]]
        /\ expiries' = [i \in Tokens |-> CASE i \in fresh -> slice[i - next_token_id].to
                                           [] i = id -> 0
                                           [] OTHER -> expiries[i]]
        /\ token_paid' = [i \in Tokens |-> IF i \in fresh THEN token_paid[id] \div n
                                                          ELSE token_paid[i]]
    BY DEF Split
  <1> HIDE DEF n
  <1>5. /\ \A k \in 0 .. n - 1 : now <= slice[k].from /\ slice[k].to <= expiries[id]
        /\ \A t \in now .. expiries[id] - 1 :
             \E k \in 0 .. n - 1 :
               /\ slice[k].from <= t /\ t < slice[k].to
               /\ \A j \in 0 .. n - 1 : slice[j].from <= t /\ t < slice[j].to => j = k
    BY <1>1, <1>2, <1>3, SlicesTile
  <1> HIDE DEF slice
  <1>6. fresh \subseteq Tokens /\ id \notin fresh /\ \A i \in fresh : i >= next_token_id
    BY <1>1, <1>2, <1>3 DEF Tokens
  <1>7. \A i \in fresh : i - next_token_id \in 0 .. n - 1
    BY <1>1, <1>3
  <1>8. \A k \in 0 .. n - 1 : k + next_token_id \in fresh
                              /\ (k + next_token_id) - next_token_id = k
    BY <1>1, <1>3
  <1>9. \A i \in fresh : /\ owners'[i] = c /\ starts'[i] = slice[i - next_token_id].from
                         /\ expiries'[i] = slice[i - next_token_id].to
                         /\ token_paid'[i] = token_paid[id] \div n
    BY <1>4, <1>6
  <1> HIDE DEF fresh
  <1>10. owners'[id] = ZERO /\ expiries'[id] = 0
    BY <1>4, <1>6
  <1>11. \A i \in Tokens \ (fresh \cup {id}) :
           /\ owners'[i] = owners[i] /\ token_paid'[i] = token_paid[i]
           /\ starts'[i] = starts[i] /\ expiries'[i] = expiries[i]
    BY <1>4
  <1>12. \A i \in fresh : now <= starts'[i] /\ expiries'[i] <= expiries[id]
    BY <1>5, <1>7, <1>9
  <1>13. ASSUME NEW t \in now .. expiries[id] - 1
         PROVE  \E i \in fresh :
                  /\ starts'[i] <= t /\ t < expiries'[i]
                  /\ \A j \in fresh : starts'[j] <= t /\ t < expiries'[j] => j = i
    <2>1. PICK k \in 0 .. n - 1 :
            /\ slice[k].from <= t /\ t < slice[k].to
            /\ \A j \in 0 .. n - 1 : slice[j].from <= t /\ t < slice[j].to => j = k
      BY <1>5
    <2>2. starts'[k + next_token_id] <= t /\ t < expiries'[k + next_token_id]
      BY <1>8, <1>9, <2>1
    <2>3. ASSUME NEW j \in fresh, starts'[j] <= t, t < expiries'[j]
          PROVE  j = k + next_token_id
      <3>1. j - next_token_id = k
        BY <1>7, <1>9, <2>1, <2>3
      <3>2. j \in Int
        BY <1>6 DEF Tokens
      <3> QED
        BY <1>1, <3>1, <3>2
    <2> QED
      BY <1>8, <2>2, <2>3
  <1>14. \A i \in fresh : expiries[i] = 0 /\ token_paid[i] = 0
    BY <1>1, <1>6
  <1> QED
    BY <1>2, <1>3, <1>6, <1>9, <1>10, <1>11, <1>12, <1>13, <1>14 DEF n, fresh

-----------------------------------------------------------------------------
(* Cover.                                                                  *)

(* A split leaves as many passes over every second to come as there were: the one
   slice over a second takes the place of the pass that was split. *)
LEMMA SplitKeepsCover ==
  ASSUME CoreInv, CoreInv', NEW c \in Addr, NEW id \in Tokens, NEW parts \in PartCounts,
         Split(c, id, parts), NEW t \in Nat, now <= t
  PROVE  Cover(t)' = Cover(t)
  <1> DEFINE n == ToU64(parts)
             fresh == next_token_id .. next_token_id + n - 1
             over == { i \in Tokens : starts[i] <= t /\ t < expiries[i] }
             overAfter == { i \in Tokens : starts'[i] <= t /\ t < expiries'[i] }
  <1>1. /\ fresh \subseteq Tokens /\ id \notin fresh
        /\ starts[id] <= now /\ now < expiries[id] /\ expiries'[id] = 0
        /\ \A i \in fresh : expiries[i] = 0 /\ expiries'[i] <= expiries[id]
        /\ \A i \in Tokens \ (fresh \cup {id}) :
             starts'[i] = starts[i] /\ expiries'[i] = expiries[i]
        /\ \A s \in now .. expiries[id] - 1 :
             \E i \in fresh :
               /\ starts'[i] <= s /\ s < expiries'[i]
               /\ \A j \in fresh : starts'[j] <= s /\ s < expiries'[j] => j = i
    BY SplitFacts
  <1>2. /\ now \in Nat /\ expiries \in [Tokens -> Nat] /\ starts \in [Tokens -> Nat]
        /\ expiries' \in [Tokens -> Nat] /\ starts' \in [Tokens -> Nat]
        /\ IsFiniteSet(Tokens)
    BY ConstantFacts DEF CoreInv, TypeOK, ChainTypeOK
  <1> HIDE DEF fresh
  <1>3. IsFiniteSet(over)
    BY <1>2, FS_Subset
  <1>4. CASE t >= expiries[id]
    <2>1. \A i \in Tokens : (starts'[i] <= t /\ t < expiries'[i])
                              <=> (starts[i] <= t /\ t < expiries[i])
      <3> SUFFICES ASSUME NEW i \in Tokens
                   PROVE  (starts'[i] <= t /\ t < expiries'[i])
                            <=> (starts[i] <= t /\ t < expiries[i])
        OBVIOUS
      <3>1. CASE i \in fresh
        BY <1>1, <1>2, <1>4, <3>1
      <3>2. CASE i = id
        BY <1>1, <1>2, <1>4, <3>2
      <3>3. CASE i \in Tokens \ (fresh \cup {id})
        BY <1>1, <3>3
      <3> QED
        BY <3>1, <3>2, <3>3
    <2>2. overAfter = over
      BY <2>1
    <2> QED
      BY <2>2 DEF Cover
  <1>5. CASE t < expiries[id]
    <2>1. t \in now .. expiries[id] - 1
      BY <1>2, <1>5
    <2>2. PICK f \in fresh :
            /\ starts'[f] <= t /\ t < expiries'[f]
            /\ \A j \in fresh : starts'[j] <= t /\ t < expiries'[j] => j = f
      BY <1>1, <2>1
    <2>3. id \in over /\ f \notin over
      BY <1>1, <1>2, <1>5
    <2>4. overAfter = (over \ {id}) \cup {f}
      <3> SUFFICES ASSUME NEW i \in Tokens
                   PROVE  (starts'[i] <= t /\ t < expiries'[i])
                            <=> i = f \/ (i # id /\ starts[i] <= t /\ t < expiries[i])
        BY <1>1
      <3>1. CASE i \in fresh
        BY <1>1, <1>2, <2>2, <3>1
      <3>2. CASE i = id
        BY <1>1, <1>2, <2>2, <3>2
      <3>3. CASE i \in Tokens \ (fresh \cup {id})
        BY <1>1, <2>2, <3>3
      <3> QED
        BY <3>1, <3>2, <3>3
    <2> HIDE DEF over, overAfter
    <2>5. /\ IsFiniteSet(over \ {id})
          /\ Cardinality(over \ {id}) = Cardinality(over) - 1
      BY <1>3, <2>3, FS_RemoveElement
    <2>6. Cardinality((over \ {id}) \cup {f}) = Cardinality(over \ {id}) + 1
      BY <2>3, <2>5, FS_AddElement
    <2>7. Cardinality(over) \in Nat
      BY <1>3, FS_CardinalityType
    <2>8. Cardinality(overAfter) = Cardinality(over)
      BY <2>4, <2>5, <2>6, <2>7
    <2> QED
      BY <2>8 DEF Cover, over, overAfter
  <1> QED
    BY <1>2, <1>4, <1>5

(* SplitTilesWindow for every value of the constants: however unevenly a window
   divides, the slices leave neither a gap nor an overlap in it. *)
THEOREM SlicesTileWindow == Spec => SplitTilesWindow
  <1>1. ASSUME CoreInv, CoreInv', NEW c \in Addr, NEW id \in Tokens,
               NEW n \in PartCounts, Split(c, id, n), NEW t \in now .. U64Limit
        PROVE  Cover(t)' = Cover(t)
    <2>1. t \in Nat /\ now <= t
      BY <1>1, StateFacts, ConstantFacts
    <2> QED
      BY <1>1, <2>1, SplitKeepsCover
  <1>2. CoreInv /\ CoreInv' =>
          [(\E c \in Addr, id \in Tokens, n \in PartCounts : Split(c, id, n))
             => \A t \in now .. U64Limit : Cover(t)' = Cover(t)]_coreVars
    BY <1>1
  <1> QED
    BY <1>2, CoreInvariant, PTL DEF SplitTilesWindow

-----------------------------------------------------------------------------
(* Merging.                                                                *)

(* What a merge does to the passes.  The loop would find an id met twice to be
   burned, so the turns name distinct passes. *)
LEMMA BundleFacts ==
  ASSUME CoreInv, NEW c \in Addr, NEW ids \in IdLists, Bundle(c, ids)
  PROVE  LET turns == 1 .. Len(ids)
             burned == { ids[k] : k \in turns }
             new == next_token_id
         IN  /\ IsFiniteSet(turns) /\ 1 \in turns
             /\ [k \in turns |-> ids[k]] \in Bijection(turns, burned)
             /\ burned \subseteq Tokens /\ new \in Tokens \ burned
             /\ now' = now /\ starts' = starts
             /\ \A i \in burned : /\ owners[i] = c /\ starts[i] <= now /\ now < expiries[i]
                                  /\ owners'[i] = ZERO /\ expiries'[i] = 0
             /\ owners'[new] = c
             /\ expiries'[new]
                  = now + Sum([k \in turns |-> remaining_seconds(ids[k])], turns)
             /\ token_paid'[new] = Sum([k \in turns |-> token_paid[ids[k]]], turns)
             /\ \A i \in Tokens \ (burned \cup {new}) :
                  /\ owners'[i] = owners[i] /\ expiries'[i] = expiries[i]
             /\ \A i \in Tokens \ {new} : token_paid'[i] = token_paid[i]
  <1> DEFINE turns == 1 .. Len(ids)
             burned == { ids[k] : k \in turns }
             new == next_token_id
             b == [k \in turns |-> ids[k]]
  <1>1. /\ now \in Nat /\ new \in Nat /\ MaxTokens \in Nat
        /\ owners \in [Tokens -> Holders] /\ expiries \in [Tokens -> Nat]
        /\ starts \in [Tokens -> Nat] /\ token_paid \in [Tokens -> Nat]
        /\ \A i \in Tokens : i >= new => expiries[i] = 0
        /\ c # ZERO
    BY StateFacts, ConstantFacts
  <1>2. /\ Len(ids) \in Nat /\ Len(ids) >= 2 /\ \A k \in turns : ids[k] \in Tokens
        /\ new < MaxTokens /\ now' = now /\ starts' = starts
    BY IdListType DEF Bundle
  <1>3. IsFiniteSet(turns) /\ 1 \in turns
    BY <1>2, FS_Interval
  <1>4. \A k \in turns : /\ OwnerAtTurn(ids, k) = c
                         /\ starts[ids[k]] <= now /\ now < expiries[ids[k]]
    BY DEF Bundle, is_active
  <1>5. \A k \in turns : /\ owners[ids[k]] = c
                         /\ ~ \E j \in 1 .. k - 1 : ids[j] = ids[k]
    BY <1>1, <1>4 DEF OwnerAtTurn
  <1>6. \A j, k \in turns : ids[j] = ids[k] => j = k
    <2> SUFFICES ASSUME NEW j \in turns, NEW k \in turns, ids[j] = ids[k], j # k
                 PROVE  FALSE
      OBVIOUS
    <2>1. j \in 1 .. k - 1 \/ k \in 1 .. j - 1
      BY <1>2
    <2> QED
      BY <1>5, <2>1
  <1>7. b \in Bijection(turns, burned)
    <2>1. b \in [turns -> burned] /\ \A j, k \in turns : b[j] = b[k] => j = k
      BY <1>6
    <2>2. \A i \in burned : \E k \in turns : b[k] = i
      OBVIOUS
    <2> QED
      BY <2>1, <2>2, Fun_IsBij
  <1>8. burned \subseteq Tokens
    BY <1>2
  <1>9. new \in Tokens \ burned
    BY <1>1, <1>2, <1>4 DEF Tokens
  <1>10. /\ owners' = [i \in Tokens |-> CASE i = new -> c
                                         [] i \in burned -> ZERO
                                         [] OTHER -> owners[i]]
         /\ expiries' = [i \in Tokens |-> CASE i = new ->
                              now + Sum([k \in turns |-> remaining_seconds(ids[k])], turns)
                                           [] i \in burned -> 0
                                           [] OTHER -> expiries[i]]
         /\ token_paid' = [token_paid EXCEPT ![new] =
                              Sum([k \in turns |-> token_paid[ids[k]]], turns)]
    BY DEF Bundle
  <1>11. \A i \in burned : owners[i] = c /\ starts[i] <= now /\ now < expiries[i]
    BY <1>4, <1>5
  <1> HIDE DEF turns, burned, new
  <1>12. \A i \in burned : owners'[i] = ZERO /\ expiries'[i] = 0
    BY <1>8, <1>9, <1>10
  <1>13. /\ owners'[new] = c
         /\ expiries'[new] = now + Sum([k \in turns |-> remaining_seconds(ids[k])], turns)
         /\ token_paid'[new] = Sum([k \in turns |-> token_paid[ids[k]]], turns)
    BY <1>1, <1>9, <1>10
  <1>14. /\ \A i \in Tokens \ (burned \cup {new}) :
              owners'[i] = owners[i] /\ expiries'[i] = expiries[i]
         /\ \A i \in Tokens \ {new} : token_paid'[i] = token_paid[i]
    BY <1>1, <1>10
  <1> QED
    BY <1>2, <1>3, <1>7, <1>8, <1>9, <1>11, <1>12, <1>13, <1>14 DEF turns, burned, new

-----------------------------------------------------------------------------
(* What the outstanding passes are recorded to have cost.                  *)

paidParts == [i \in Tokens |-> IF expiries[i] = 0 THEN 0 ELSE token_paid[i]]

LEMMA PaidFacts ==
  ASSUME CoreInv, CoreInv'
  PROVE  /\ PaidTotal = Sum(paidParts, Tokens) /\ PaidTotal' = Sum(paidParts', Tokens)
         /\ \A i \in Tokens : paidParts[i] \in Nat /\ paidParts'[i] \in Nat
         /\ PaidTotal \in Nat /\ PaidTotal' \in Nat /\ IsFiniteSet(Tokens)
         /\ \A i \in Tokens :
              /\ paidParts[i] = IF expiries[i] = 0 THEN 0 ELSE token_paid[i]
              /\ paidParts'[i] = IF expiries'[i] = 0 THEN 0 ELSE token_paid'[i]
  <1>1. IsFiniteSet(Tokens)
    BY ConstantFacts
  <1>2. \A i \in Tokens : paidParts[i] \in Nat /\ paidParts'[i] \in Nat
    BY DEF CoreInv, TypeOK, paidParts
  <1>3. Sum(paidParts, Tokens) \in Nat /\ Sum(paidParts', Tokens) \in Nat
    BY <1>1, <1>2, SumNat
  <1>4. PaidTotal = Sum(paidParts, Tokens) /\ PaidTotal' = Sum(paidParts', Tokens)
    BY DEF PaidTotal, paidParts
  <1>5. \A i \in Tokens :
          /\ paidParts[i] = IF expiries[i] = 0 THEN 0 ELSE token_paid[i]
          /\ paidParts'[i] = IF expiries'[i] = 0 THEN 0 ELSE token_paid'[i]
    BY DEF paidParts
  <1> QED
    BY <1>1, <1>2, <1>3, <1>4, <1>5

(* The slices of a pass are not recorded to have cost more than it did. *)
LEMMA SplitPaid ==
  ASSUME CoreInv, CoreInv', NEW c \in Addr, NEW id \in Tokens, NEW parts \in PartCounts,
         Split(c, id, parts)
  PROVE  PaidTotal' <= PaidTotal
  <1> DEFINE n == ToU64(parts)
             fresh == next_token_id .. next_token_id + n - 1
             q == token_paid[id] \div n
             shares == [i \in fresh |-> q]
             changed == fresh \cup {id}
  <1>1. /\ n \in Nat /\ n >= 2 /\ fresh \subseteq Tokens /\ id \notin fresh
        /\ now < expiries[id] /\ expiries'[id] = 0
        /\ \A i \in fresh : expiries[i] = 0 /\ token_paid'[i] = q
        /\ \A i \in Tokens \ (fresh \cup {id}) :
             token_paid'[i] = token_paid[i] /\ expiries'[i] = expiries[i]
    BY SplitFacts
  <1>2. token_paid[id] \in Nat /\ expiries[id] \in Nat /\ next_token_id \in Nat /\ now \in Nat
    BY StateFacts
  <1>3. q \in Nat /\ n * q <= token_paid[id]
    BY <1>1, <1>2
  <1>4. IsFiniteSet(fresh) /\ Cardinality(fresh) = n
    <2> HIDE DEF n, q
    <2>1. next_token_id \in Int /\ next_token_id + n - 1 \in Int
      BY <1>1, <1>2
    <2>2. /\ IsFiniteSet(fresh)
          /\ Cardinality(fresh)
               = IF next_token_id > next_token_id + n - 1 THEN 0
                 ELSE (next_token_id + n - 1) - next_token_id + 1
      BY <2>1, FS_Interval
    <2> QED
      BY <1>1, <1>2, <2>2
  <1> HIDE DEF n, fresh, q
  <1>5. \A i \in Tokens \ changed : paidParts[i] = paidParts'[i]
    BY <1>1, PaidFacts
  <1>6. /\ Sum(paidParts, Tokens) + Sum(paidParts', changed)
             = Sum(paidParts', Tokens) + Sum(paidParts, changed)
        /\ Sum(paidParts', changed) \in Nat /\ Sum(paidParts, changed) \in Nat
    BY <1>1, <1>5, PaidFacts, SumExchange
  <1>7. /\ IsFiniteSet(changed) /\ changed \ {id} = fresh
        /\ \A i \in changed : paidParts[i] \in Nat /\ paidParts'[i] \in Nat
    BY <1>1, <1>4, FS_AddElement, PaidFacts
  <1>8. Sum(paidParts, changed) = token_paid[id]
    <2>1. Sum(paidParts, changed) = Sum(paidParts, fresh) + paidParts[id]
      BY <1>7, SumRemove
    <2>2. \A i \in fresh : paidParts[i] = 0
      BY <1>1, PaidFacts
    <2>3. Sum(paidParts, fresh) = 0
      BY <2>2, SumOfZeros
    <2>4. paidParts[id] = token_paid[id]
      BY <1>1, <1>2, PaidFacts
    <2> QED
      BY <1>2, <2>1, <2>3, <2>4
  <1>9. Sum(paidParts', changed) <= n * q
    <2>1. Sum(paidParts', changed) = Sum(paidParts', fresh) + paidParts'[id]
      BY <1>7, SumRemove
    <2>2. paidParts'[id] = 0
      BY <1>1, PaidFacts
    <2>3. \A i \in fresh : /\ paidParts'[i] \in Nat /\ shares[i] \in Nat
                           /\ paidParts'[i] <= shares[i]
      BY <1>1, <1>3, PaidFacts
    <2>4. Sum(paidParts', fresh) <= Sum(shares, fresh)
      BY <1>4, <2>3, SumMonotone
    <2>5. Sum(shares, fresh) = n * q
      BY <1>3, <1>4, SumOfEquals
    <2>6. Sum(paidParts', fresh) \in Nat
      BY <1>4, <2>3, SumNat
    <2> QED
      BY <2>1, <2>2, <2>4, <2>5, <2>6
  <1>10. n * q \in Nat
    BY <1>1, <1>3
  <1> QED
    BY <1>2, <1>3, <1>6, <1>8, <1>9, <1>10, PaidFacts

(* A merged pass is recorded to have cost what the merged ones did, together. *)
LEMMA BundlePaid ==
  ASSUME CoreInv, CoreInv', NEW c \in Addr, NEW ids \in IdLists, Bundle(c, ids)
  PROVE  PaidTotal' = PaidTotal
  <1> DEFINE turns == 1 .. Len(ids)
             burned == { ids[k] : k \in turns }
             new == next_token_id
             b == [k \in turns |-> ids[k]]
             paid == [k \in turns |-> token_paid[ids[k]]]
             changed == burned \cup {new}
  <1>1. /\ IsFiniteSet(turns) /\ 1 \in turns /\ b \in Bijection(turns, burned)
        /\ burned \subseteq Tokens /\ new \in Tokens \ burned
        /\ \A i \in burned : now < expiries[i] /\ expiries'[i] = 0
        /\ expiries'[new] = now + Sum([k \in turns |-> remaining_seconds(ids[k])], turns)
        /\ token_paid'[new] = Sum(paid, turns)
        /\ \A i \in Tokens \ changed :
             expiries'[i] = expiries[i] /\ token_paid'[i] = token_paid[i]
    BY BundleFacts, ZenonT(60)
  <1>2. /\ now \in Nat /\ now > 0 /\ expiries \in [Tokens -> Nat]
        /\ token_paid \in [Tokens -> Nat] /\ expiries[new] = 0
    <2>1. now > 0
      BY DEF CoreInv, TypeOK, ChainTypeOK
    <2>2. next_token_id \in Tokens
      BY <1>1
    <2> HIDE DEF turns, burned
    <2> QED
      BY <2>1, <2>2, StateFacts
  <1>3. \A k \in turns : ids[k] \in burned
    OBVIOUS
  <1> HIDE DEF turns, burned, new
  <1>4. Sum([k \in turns |-> remaining_seconds(ids[k])], turns) \in Nat
    <2>1. \A k \in turns : remaining_seconds(ids[k]) \in Nat
      BY <1>1, <1>2, <1>3 DEF remaining_seconds
    <2> QED
      BY <1>1, <2>1, SumNat
  <1>5. expiries'[new] # 0
    BY <1>1, <1>2, <1>4
  <1>6. /\ changed \subseteq Tokens /\ changed \ {new} = burned
        /\ IsFiniteSet(changed) /\ IsFiniteSet(burned)
        /\ \A i \in changed : paidParts[i] \in Nat /\ paidParts'[i] \in Nat
    <2>1. changed \subseteq Tokens /\ changed \ {new} = burned
      BY <1>1
    <2> QED
      BY <2>1, PaidFacts, FS_Subset
  <1>7. \A i \in Tokens \ changed : paidParts[i] = paidParts'[i]
    BY <1>1, PaidFacts
  <1>8. /\ Sum(paidParts, Tokens) + Sum(paidParts', changed)
             = Sum(paidParts', Tokens) + Sum(paidParts, changed)
        /\ Sum(paidParts', changed) \in Nat /\ Sum(paidParts, changed) \in Nat
    BY <1>6, <1>7, PaidFacts, SumExchange
  <1>9. Sum(paidParts, burned) = Sum(paid, turns)
    <2>1. \A k \in turns : paid[k] \in Nat /\ paid[k] = paidParts[b[k]]
      BY <1>1, <1>2, <1>3, PaidFacts
    <2> HIDE DEF paid, b
    <2> QED
      BY <1>1, <2>1, SumBijection
  <1>10. Sum(paidParts, changed) = Sum(paid, turns)
    <2>1. Sum(paidParts, changed) = Sum(paidParts, burned) + paidParts[new]
      BY <1>6, SumRemove
    <2>2. paidParts[new] = 0
      BY <1>1, <1>2, PaidFacts
    <2>3. Sum(paidParts, burned) \in Nat
      BY <1>6, SumNat
    <2> QED
      BY <1>9, <2>1, <2>2, <2>3
  <1>11. Sum(paidParts', changed) = Sum(paid, turns)
    <2>1. Sum(paidParts', changed) = Sum(paidParts', burned) + paidParts'[new]
      BY <1>6, SumRemove
    <2>2. \A i \in burned : paidParts'[i] = 0
      BY <1>1, <1>6, PaidFacts
    <2>3. Sum(paidParts', burned) = 0
      BY <2>2, SumOfZeros
    <2>4. paidParts'[new] = Sum(paid, turns) /\ paidParts'[new] \in Nat
      BY <1>1, <1>5, PaidFacts
    <2> QED
      BY <2>1, <2>3, <2>4
  <1> QED
    BY <1>8, <1>10, <1>11, PaidFacts
(* What an issue does to the passes: it writes the first blank one. *)
LEMMA IssueFacts ==
  ASSUME CoreInv, NEW to \in Holders, NEW issuer \in Holders, NEW d \in Nat,
         NewPass(to, d, issuer)
  PROVE  /\ next_token_id \in Tokens
         /\ expiries[next_token_id] = 0 /\ token_paid[next_token_id] = 0
         /\ starts[next_token_id] = 0 /\ starts' = starts
         /\ owners'[next_token_id] = to /\ expiries'[next_token_id] = ExpiryAfter(d)
         /\ \A i \in Tokens \ {next_token_id} :
              owners'[i] = owners[i] /\ expiries'[i] = expiries[i]
  <1>1. next_token_id \in Tokens
    BY NewPassType
  <1> QED
    BY <1>1, StateFacts DEF NewPass

LEMMA MintPaid ==
  ASSUME CoreInv, CoreInv', NEW c \in Addr, NEW to \in Addr, NEW d \in Durations,
         Mint(c, to, d)
  PROVE  PaidTotal' = PaidTotal
  <1>1. c \in Holders /\ to \in Holders /\ d \in Nat /\ NewPass(to, d, c)
        /\ token_paid' = token_paid
    BY ConstantFacts, InputsAssumption DEF Mint
  <1>2. \A i \in Tokens : paidParts'[i] = paidParts[i]
    BY <1>1, IssueFacts, PaidFacts
  <1>3. Sum(paidParts', Tokens) = Sum(paidParts, Tokens)
    BY <1>2, SumCong
  <1> QED
    BY <1>3, PaidFacts

LEMMA BuyPaid ==
  ASSUME CoreInv, CoreInv', NEW c \in Addr, NEW p \in Plans, NEW v \in Prices,
         BuyPass(c, p, v)
  PROVE  PaidTotal' \in {PaidTotal, PaidTotal + v}
  <1> DEFINE new == next_token_id
  <1>1. /\ c \in Holders /\ plan_issuers[p] \in Holders /\ plan_durations[p] \in Nat
        /\ token_paid \in [Tokens -> Nat]
    BY ConstantFacts DEF CoreInv, TypeOK, ChainTypeOK
  <1>2. /\ NewPass(c, plan_durations[p], plan_issuers[p])
        /\ token_paid' = [token_paid EXCEPT ![new] = v]
    BY DEF BuyPass, ExactlyPaid
  <1>3. /\ new \in Tokens /\ expiries[new] = 0
        /\ \A i \in Tokens \ {new} : expiries'[i] = expiries[i]
    BY <1>1, <1>2, IssueFacts
  <1>4. paidParts[new] = 0 /\ paidParts'[new] \in {0, v}
    BY <1>1, <1>2, <1>3, PaidFacts
  <1>5. \A i \in Tokens \ {new} : paidParts[i] = paidParts'[i]
    BY <1>1, <1>2, <1>3, PaidFacts
  <1>6. Sum(paidParts, Tokens) + paidParts'[new] = Sum(paidParts', Tokens) + paidParts[new]
    BY <1>3, <1>5, PaidFacts, SumChangeOne
  <1> QED
    BY <1>3, <1>4, <1>6, PaidFacts

(* PaidOnlyBySale for every value of the constants: splitting and merging passes, in
   whatever order, never raises what an owner can show to have paid. *)
THEOREM OnlySalesArePaid == Spec => PaidOnlyBySale
  <1> DEFINE Sold == \E c \in Addr, p \in Plans, v \in Prices :
                       BuyPass(c, p, v) /\ PaidTotal' = PaidTotal + v
  <1>1. ASSUME CoreInv, CoreInv', Next
        PROVE  PaidTotal' <= PaidTotal \/ Sold
    <2>1. PaidTotal \in Nat /\ PaidTotal' \in Nat
      BY <1>1, PaidFacts
    <2>2. CASE UNCHANGED <<expiries, token_paid>>
      BY <2>1, <2>2 DEF PaidTotal
    <2>3. ASSUME NEW c \in Addr, NEW p \in Plans, NEW v \in Prices, BuyPass(c, p, v)
          PROVE  PaidTotal' <= PaidTotal \/ Sold
      BY <1>1, <2>1, <2>3, BuyPaid
    <2>4. ASSUME NEW c \in Addr, NEW to \in Addr, NEW d \in Durations, Mint(c, to, d)
          PROVE  PaidTotal' <= PaidTotal
      BY <1>1, <2>1, <2>4, MintPaid
    <2>5. ASSUME NEW c \in Addr, NEW id \in Tokens, NEW n \in PartCounts, Split(c, id, n)
          PROVE  PaidTotal' <= PaidTotal
      BY <1>1, <2>5, SplitPaid
    <2>6. ASSUME NEW c \in Addr, NEW ids \in IdLists, Bundle(c, ids)
          PROVE  PaidTotal' <= PaidTotal
      BY <1>1, <2>1, <2>6, BundlePaid
    <2> HIDE DEF Sold
    <2> QED
      BY <1>1, <2>2, <2>3, <2>4, <2>5, <2>6
      DEF Next, Tick, CatalogueStep, SetIssuer, SetMarketplace, CreatePlan, SetPlanOpen,
          IssueStep, HolderStep, TransferPass, MarketTransfer, MovePass, tokenVars
  <1>2. CoreInv /\ CoreInv' /\ [Next]_coreVars
          => [\/ PaidTotal' <= PaidTotal
              \/ \E c \in Addr, p \in Plans, v \in Prices :
                   /\ BuyPass(c, p, v)
                   /\ PaidTotal' = PaidTotal + v]_coreVars
    BY <1>1
  <1> QED
    BY <1>2, CoreInvariant, PTL DEF Spec, PaidOnlyBySale

-----------------------------------------------------------------------------
(* The ledger.                                                             *)

accessHeld == [h \in Holders |-> AccessLeft(HeldBy(h))]

(* The seconds of access that each pass gives h. *)
secondsOf(h) ==
  [i \in Tokens |-> IF owners[i] = h /\ Later(now, starts[i]) < expiries[i]
                    THEN expiries[i] - Later(now, starts[i]) ELSE 0]

(* The access of a holder is the total of what its passes give it. *)
LEMMA AccessNow ==
  ASSUME CoreInv, NEW h \in Holders
  PROVE  accessHeld[h] = Sum(secondsOf(h), Tokens)
  <1> DEFINE lo == [i \in Tokens |-> Later(now, starts[i])]
             len == secondsOf(h)
  <1>1. \A i \in Tokens : lo[i] \in Nat /\ expiries[i] \in Nat
    BY StateFacts DEF Later
  <1>2. \A i \in Tokens : len[i] = IF i \in HeldBy(h) /\ lo[i] < expiries[i]
                                            THEN expiries[i] - lo[i] ELSE 0
    BY DEF secondsOf, HeldBy
  <1>3. Windows(HeldBy(h), lo, expiries) = UNION { {i} \X SecondsLeft(i) : i \in HeldBy(h) }
    BY DEF SecondsLeft, HeldBy, Windows
  <1>4. HeldBy(h) \in SUBSET Tokens
    BY DEF HeldBy
  <1> HIDE DEF lo, len
  <1>5. Cardinality(Windows(HeldBy(h), lo, expiries)) = Sum(len, Tokens)
    <2>1. IsFiniteSet(Tokens)
      BY ConstantFacts
    <2> QED
      BY ONLY <1>1, <1>2, <1>4, <2>1, WindowUnits
  <1> QED
    BY <1>3, <1>5 DEF len, accessHeld, AccessLeft

LEMMA AccessThen ==
  ASSUME CoreInv', NEW h \in Holders
  PROVE  accessHeld'[h] = Sum(secondsOf(h)', Tokens)
  <1> DEFINE lo == [i \in Tokens |-> Later(now', starts'[i])]
             held == { i \in Tokens : owners'[i] = h }
             len == secondsOf(h)'
  <1>1. \A i \in Tokens : lo[i] \in Nat /\ expiries'[i] \in Nat
    BY DEF Later, CoreInv, TypeOK, ChainTypeOK
  <1>2. \A i \in Tokens : len[i] = IF i \in held /\ lo[i] < expiries'[i]
                                             THEN expiries'[i] - lo[i] ELSE 0
    BY DEF secondsOf
  <1>3. Windows(held, lo, expiries') = (UNION { {i} \X SecondsLeft(i) : i \in HeldBy(h) })'
    BY DEF SecondsLeft, HeldBy, Windows
  <1>4. held \in SUBSET Tokens
    OBVIOUS
  <1> HIDE DEF lo, held, len
  <1>5. Cardinality(Windows(held, lo, expiries')) = Sum(len, Tokens)
    <2>1. IsFiniteSet(Tokens)
      BY ConstantFacts
    <2> QED
      BY ONLY <1>1, <1>2, <1>4, <2>1, WindowUnits
  <1> QED
    BY <1>3, <1>5 DEF len, accessHeld, AccessLeft

LEMMA AccessFacts ==
  ASSUME CoreInv, CoreInv', NEW h \in Holders
  PROVE  /\ accessHeld[h] = Sum(secondsOf(h), Tokens) /\ accessHeld'[h] = Sum(secondsOf(h)', Tokens)
         /\ accessHeld[h] \in Nat /\ accessHeld'[h] \in Nat
         /\ \A i \in Tokens :
              /\ secondsOf(h)[i] \in Nat /\ secondsOf(h)'[i] \in Nat
              /\ secondsOf(h)[i] = IF owners[i] = h /\ Later(now, starts[i]) < expiries[i]
                                   THEN expiries[i] - Later(now, starts[i]) ELSE 0
              /\ secondsOf(h)'[i] =
                   IF owners'[i] = h /\ Later(now', starts'[i]) < expiries'[i]
                   THEN expiries'[i] - Later(now', starts'[i]) ELSE 0
  <1>1. IsFiniteSet(Tokens)
    BY ConstantFacts
  <1>2. \A i \in Tokens :
          /\ secondsOf(h)[i] = IF owners[i] = h /\ Later(now, starts[i]) < expiries[i]
                               THEN expiries[i] - Later(now, starts[i]) ELSE 0
          /\ secondsOf(h)'[i] = IF owners'[i] = h /\ Later(now', starts'[i]) < expiries'[i]
                                THEN expiries'[i] - Later(now', starts'[i]) ELSE 0
    BY DEF secondsOf, Later
  <1>3. \A i \in Tokens :
          /\ Later(now, starts[i]) \in Nat /\ expiries[i] \in Nat
          /\ Later(now', starts'[i]) \in Nat /\ expiries'[i] \in Nat
    BY DEF CoreInv, TypeOK, ChainTypeOK, Later
  <1>4. \A i \in Tokens : secondsOf(h)[i] \in Nat /\ secondsOf(h)'[i] \in Nat
    BY <1>2, <1>3
  <1>5. Sum(secondsOf(h), Tokens) \in Nat /\ Sum(secondsOf(h)', Tokens) \in Nat
    BY <1>1, <1>4, SumNat
  <1> QED
    BY <1>2, <1>4, <1>5, AccessNow, AccessThen

(* Where every pass gives h what it gave before, h has the access it had. *)
LEMMA SameAccess ==
  ASSUME CoreInv, CoreInv', NEW h \in Holders,
         \A i \in Tokens : secondsOf(h)[i] = secondsOf(h)'[i]
  PROVE  accessHeld'[h] = accessHeld[h]
  <1>1. Sum(secondsOf(h), Tokens) = Sum(secondsOf(h)', Tokens)
    BY SumCong
  <1> QED
    BY <1>1, AccessFacts

(* Where one pass makes a difference to h, it is the difference to its access. *)
LEMMA AccessByOne ==
  ASSUME CoreInv, CoreInv', NEW h \in Holders, NEW id \in Tokens,
         \A i \in Tokens \ {id} : secondsOf(h)[i] = secondsOf(h)'[i]
  PROVE  accessHeld'[h] = accessHeld[h] + secondsOf(h)'[id] - secondsOf(h)[id]
  <1> DEFINE f == secondsOf(h)
             g == secondsOf(h)'
  <1>1. /\ IsFiniteSet(Tokens) /\ \A i \in Tokens : f[i] \in Nat /\ g[i] \in Nat
        /\ accessHeld[h] = Sum(f, Tokens) /\ accessHeld'[h] = Sum(g, Tokens)
        /\ accessHeld[h] \in Nat /\ accessHeld'[h] \in Nat
    BY AccessFacts, ConstantFacts
  <1> HIDE DEF f, g
  <1>2. \A i \in Tokens \ {id} : f[i] = g[i]
    BY DEF f, g
  <1>3. Sum(f, Tokens) + g[id] = Sum(g, Tokens) + f[id]
    BY <1>1, <1>2, SumChangeOne
  <1>4. accessHeld'[h] = accessHeld[h] + g[id] - f[id]
    BY <1>1, <1>3
  <1> QED
    BY <1>4 DEF f, g

(* Time takes access away and gives none. *)
LEMMA TickAccess ==
  ASSUME CoreInv, CoreInv', Tick, NEW h \in Holders
  PROVE  accessHeld'[h] \in 0 .. accessHeld[h]
  <1>1. \A i \in Tokens : secondsOf(h)'[i] <= secondsOf(h)[i]
    <2> SUFFICES ASSUME NEW i \in Tokens PROVE secondsOf(h)'[i] <= secondsOf(h)[i]
      OBVIOUS
    <2>1. now' = now + 1 /\ UNCHANGED <<owners, starts, expiries>>
      BY DEF Tick, TimePasses, tokenVars
    <2>2. now \in Nat /\ starts[i] \in Nat /\ expiries[i] \in Nat
      BY StateFacts
    <2>3. Later(now, starts[i]) <= Later(now', starts'[i])
      BY <2>1, <2>2 DEF Later
    <2>4. Later(now, starts[i]) \in Nat /\ Later(now', starts'[i]) \in Nat
      BY <2>1, <2>2 DEF Later
    <2> QED
      BY <2>1, <2>2, <2>3, <2>4, AccessFacts
  <1>2. Sum(secondsOf(h)', Tokens) <= Sum(secondsOf(h), Tokens)
    BY <1>1, AccessFacts, ConstantFacts, SumMonotone
  <1> QED
    BY <1>2, AccessFacts

(* A pass that changes hands takes its seconds from one holder's access to another's. *)
LEMMA MoveAccess ==
  ASSUME CoreInv, CoreInv', NEW id \in Tokens, NEW to \in Holders, MovePass(id, to),
         now' = now, NEW from \in Holders, owners[id] = from
  PROVE  LET given == secondsOf(from)[id]
         IN  /\ given \in 0 .. accessHeld[from]
             /\ accessHeld' = IF to = from THEN accessHeld
                          ELSE [accessHeld EXCEPT ![from] = @ - given, ![to] = @ + given]
  <1> DEFINE given == secondsOf(from)[id]
  <1>1. /\ owners'[id] = to /\ UNCHANGED <<expiries, starts>>
        /\ \A i \in Tokens \ {id} : owners'[i] = owners[i]
    BY StateFacts DEF MovePass
  <1>2. ASSUME NEW h \in Holders
        PROVE  /\ \A i \in Tokens \ {id} : secondsOf(h)[i] = secondsOf(h)'[i]
               /\ secondsOf(h)[id] = IF h = from THEN given ELSE 0
               /\ secondsOf(h)'[id] = IF h = to THEN given ELSE 0
    BY <1>1, AccessFacts
  <1>3. given \in Nat /\ given <= accessHeld[from]
    <2>1. given <= Sum(secondsOf(from), Tokens)
      BY AccessFacts, ConstantFacts, SumBoundsSummand
    <2> QED
      BY <2>1, AccessFacts
  <1> HIDE DEF given
  <1>4. \A h \in Holders : accessHeld'[h] = accessHeld[h] + (IF h = to THEN given ELSE 0)
                                          - (IF h = from THEN given ELSE 0)
    BY <1>2, AccessByOne
  <1>5. \A h \in Holders : accessHeld[h] \in Nat
    BY AccessFacts
  <1>6. accessHeld = [h \in Holders |-> accessHeld[h]] /\ accessHeld' = [h \in Holders |-> accessHeld'[h]]
    BY DEF accessHeld
  <1>7. CASE to = from
    BY <1>3, <1>4, <1>5, <1>6, <1>7 DEF given
  <1>8. CASE to # from
    <2>1. accessHeld' = [accessHeld EXCEPT ![from] = @ - given, ![to] = @ + given]
      BY <1>3, <1>4, <1>5, <1>6, <1>8
    <2> QED
      BY <1>3, <1>5, <1>8, <2>1 DEF given
  <1> QED
    BY <1>7, <1>8
(* An issue gives access to one holder, and no more than the term: an expiry that wraps
   gives none. *)
LEMMA IssueAccess ==
  ASSUME CoreInv, CoreInv', NEW to \in Holders, NEW issuer \in Holders, NEW d \in Nat,
         NewPass(to, d, issuer), now' = now
  PROVE  /\ accessHeld'[to] - accessHeld[to] \in 0 .. ToU64(d)
         /\ accessHeld' = [accessHeld EXCEPT ![to] = accessHeld'[to]]
  <1> DEFINE new == next_token_id
             expiry == ExpiryAfter(d)
  <1>1. /\ new \in Tokens /\ expiries[new] = 0 /\ starts[new] = 0 /\ starts' = starts
        /\ owners'[new] = to /\ expiries'[new] = expiry
        /\ \A i \in Tokens \ {new} : owners'[i] = owners[i] /\ expiries'[i] = expiries[i]
    BY IssueFacts
  <1>2. now \in Nat
    BY StateFacts
  <1>3. ToU64(d) \in Nat /\ expiry \in Nat /\ expiry <= now + ToU64(d)
    <2>1. U64Limit \in Nat /\ U64Limit > 0
      BY ConstantFacts
    <2>2. ToU64(d) \in Nat
      BY DEF ToU64
    <2> QED
      BY <1>2, <2>1, <2>2 DEF ExpiryAfter
  <1> HIDE DEF expiry, new
  <1>4. ASSUME NEW h \in Holders
        PROVE  /\ \A i \in Tokens \ {new} : secondsOf(h)[i] = secondsOf(h)'[i]
               /\ secondsOf(h)[new] = 0
               /\ secondsOf(h)'[new] = IF h = to /\ now < expiry THEN expiry - now ELSE 0
    <2>1. Later(now, 0) = now
      BY <1>2 DEF Later
    <2>2. \A i \in Tokens \ {new} : secondsOf(h)[i] = secondsOf(h)'[i]
      BY <1>1, AccessFacts
    <2>3. secondsOf(h)[new] = 0
      BY <1>1, <1>2, <2>1, AccessFacts
    <2>4. secondsOf(h)'[new] = IF h = to /\ now < expiry THEN expiry - now ELSE 0
      BY <1>1, <2>1, AccessFacts
    <2> QED
      BY <2>2, <2>3, <2>4
  <1>5. \A h \in Holders :
          accessHeld'[h] = accessHeld[h] + IF h = to /\ now < expiry THEN expiry - now ELSE 0
    BY <1>1, <1>2, <1>3, <1>4, AccessByOne, AccessFacts
  <1>6. \A h \in Holders : accessHeld[h] \in Nat
    BY AccessFacts
  <1>7. accessHeld = [h \in Holders |-> accessHeld[h]] /\ accessHeld' = [h \in Holders |-> accessHeld'[h]]
    BY DEF accessHeld
  <1>8. \A h \in Holders \ {to} : accessHeld'[h] = accessHeld[h]
    BY <1>5, <1>6
  <1>9. accessHeld'[to] - accessHeld[to] \in 0 .. ToU64(d)
    BY <1>2, <1>3, <1>5, <1>6
  <1> QED
    BY <1>7, <1>8, <1>9

(* A split hands the seconds of the pass to the slices, each second to one of them. *)
LEMMA SplitAccess ==
  ASSUME CoreInv, CoreInv', NEW c \in Addr, NEW id \in Tokens, NEW parts \in PartCounts,
         Split(c, id, parts), NEW h \in Holders
  PROVE  accessHeld'[h] = accessHeld[h]
  <1> DEFINE n == ToU64(parts)
             fresh == next_token_id .. next_token_id + n - 1
             changed == fresh \cup {id}
             f == secondsOf(h)
             g == secondsOf(h)'
             seconds == now .. expiries[id] - 1
  <1>1. /\ fresh \subseteq Tokens /\ id \in Tokens \ fresh /\ now' = now
        /\ owners[id] = c /\ starts[id] <= now /\ now < expiries[id]
        /\ owners'[id] = ZERO /\ expiries'[id] = 0
        /\ \A i \in fresh : /\ expiries[i] = 0 /\ owners'[i] = c
                            /\ now <= starts'[i] /\ expiries'[i] <= expiries[id]
        /\ \A i \in Tokens \ changed : /\ owners'[i] = owners[i]
                                       /\ starts'[i] = starts[i] /\ expiries'[i] = expiries[i]
        /\ \A t \in seconds :
             \E i \in fresh :
               /\ starts'[i] <= t /\ t < expiries'[i]
               /\ \A j \in fresh : starts'[j] <= t /\ t < expiries'[j] => j = i
    BY SplitFacts
  <1>2. /\ now \in Nat /\ IsFiniteSet(Tokens)
        /\ \A i \in Tokens : /\ expiries[i] \in Nat /\ starts[i] \in Nat
                             /\ expiries'[i] \in Nat /\ starts'[i] \in Nat
    BY ConstantFacts DEF CoreInv, TypeOK, ChainTypeOK
  <1> HIDE DEF fresh
  <1>3. /\ \A i \in Tokens \ changed : f[i] = g[i]
        /\ \A i \in fresh : f[i] = 0
        /\ \A i \in fresh : g[i] = IF h = c /\ starts'[i] < expiries'[i]
                                   THEN expiries'[i] - starts'[i] ELSE 0
        /\ f[id] = IF h = c THEN expiries[id] - now ELSE 0
        /\ g[id] = 0
    <2>1. \A i \in Tokens : /\ Later(now, starts[i]) \in Nat
                            /\ now <= starts'[i] => Later(now', starts'[i]) = starts'[i]
                            /\ Later(now', starts'[i]) \in Nat
      BY <1>1, <1>2 DEF Later
    <2>2. Later(now, starts[id]) = now
      BY <1>1, <1>2 DEF Later
    <2>3. \A i \in Tokens \ changed : f[i] = g[i]
      BY <1>1, AccessFacts
    <2>4. \A i \in fresh : f[i] = 0
      BY <1>1, <2>1, AccessFacts
    <2>5. \A i \in fresh : g[i] = IF h = c /\ starts'[i] < expiries'[i]
                                  THEN expiries'[i] - starts'[i] ELSE 0
      BY <1>1, <2>1, AccessFacts
    <2>6. f[id] = IF h = c THEN expiries[id] - now ELSE 0
      BY <1>1, <2>2, AccessFacts
    <2>7. g[id] = 0
      BY <1>1, <2>1, AccessFacts
    <2> QED
      BY <2>3, <2>4, <2>5, <2>6, <2>7
  <1>4. /\ \A i \in Tokens : f[i] \in Nat /\ g[i] \in Nat
        /\ accessHeld[h] = Sum(f, Tokens) /\ accessHeld'[h] = Sum(g, Tokens)
    BY AccessFacts
  <1> HIDE DEF f, g
  <1>5. /\ changed \subseteq Tokens /\ changed \ {id} = fresh
        /\ IsFiniteSet(changed) /\ IsFiniteSet(fresh)
    <2>1. changed \subseteq Tokens /\ changed \ {id} = fresh
      BY <1>1
    <2> QED
      BY <1>1, <1>2, <2>1, FS_Subset
  <1>6. /\ Sum(f, Tokens) + Sum(g, changed) = Sum(g, Tokens) + Sum(f, changed)
        /\ Sum(f, Tokens) \in Nat /\ Sum(g, Tokens) \in Nat
        /\ Sum(f, changed) \in Nat /\ Sum(g, changed) \in Nat
    BY <1>2, <1>3, <1>4, <1>5, SumExchange
  <1>7. Sum(f, changed) = f[id]
    <2>1. Sum(f, changed) = Sum(f, fresh) + f[id]
      BY <1>4, <1>5, SumRemove
    <2>2. Sum(f, fresh) = 0
      BY <1>3, SumOfZeros
    <2> QED
      BY <1>1, <1>4, <2>1, <2>2
  <1>8. Sum(g, changed) = Sum(g, fresh)
    <2>1. Sum(g, changed) = Sum(g, fresh) + g[id]
      BY <1>4, <1>5, SumRemove
    <2>2. Sum(g, fresh) \in Nat
      BY <1>1, <1>4, <1>5, SumNat
    <2> QED
      BY <1>3, <2>1, <2>2
  <1>9. Sum(g, fresh) = f[id]
    <2>1. CASE h # c
      BY <1>3, <2>1, SumOfZeros
    <2>2. CASE h = c
      <3> DEFINE W == Windows(fresh, starts', expiries')
                 second == [p \in W |-> p[2]]
      <3>1. IsFiniteSet(W) /\ Cardinality(W) = Sum(g, fresh)
        <4>1. \A i \in fresh : /\ starts'[i] \in Nat /\ expiries'[i] \in Nat
                               /\ g[i] = IF i \in fresh /\ starts'[i] < expiries'[i]
                                         THEN expiries'[i] - starts'[i] ELSE 0
          BY <1>1, <1>2, <1>3, <2>2
        <4>2. fresh \in SUBSET fresh
          OBVIOUS
        <4> QED
          BY ONLY <1>5, <4>1, <4>2, WindowUnits
      <3>2. \A p \in W : /\ p = <<p[1], p[2]>> /\ p[1] \in fresh /\ p[2] \in Nat
                         /\ starts'[p[1]] <= p[2] /\ p[2] < expiries'[p[1]]
        BY <1>1, <1>2 DEF Windows
      <3>3. \A i \in fresh, t \in Nat : starts'[i] <= t /\ t < expiries'[i] => <<i, t>> \in W
        <4> SUFFICES ASSUME NEW i \in fresh, NEW t \in Nat, starts'[i] <= t, t < expiries'[i]
                     PROVE  <<i, t>> \in W
          OBVIOUS
        <4>1. <<i, t>> \in {i} \X (starts'[i] .. expiries'[i] - 1)
          BY <1>1, <1>2
        <4> QED
          BY <4>1 DEF Windows
      <3> HIDE DEF W
      <3>4. second \in [W -> seconds]
        BY <1>1, <1>2, <3>2
      <3>5. \A p, q \in W : second[p] = second[q] => p = q
        <4> SUFFICES ASSUME NEW p \in W, NEW q \in W, p[2] = q[2]
                     PROVE  p = q
          OBVIOUS
        <4>1. p[2] \in seconds
          BY <1>1, <1>2, <3>2
        <4>2. p[1] = q[1]
          BY <1>1, <3>2, <4>1
        <4> QED
          BY <3>2, <4>2
      <3>6. \A t \in seconds : \E p \in W : second[p] = t
        <4> SUFFICES ASSUME NEW t \in seconds PROVE \E p \in W : second[p] = t
          OBVIOUS
        <4>1. PICK i \in fresh : starts'[i] <= t /\ t < expiries'[i]
          BY <1>1
        <4>2. <<i, t>> \in W
          BY <1>2, <3>3, <4>1
        <4> QED
          BY <4>2
      <3>7. ExistsBijection(W, seconds)
        <4> HIDE DEF second, seconds
        <4> QED
          BY <3>4, <3>5, <3>6, Fun_IsBij, Fun_ExistsBij
      <3>8. Cardinality(seconds) = Cardinality(W)
        <4> HIDE DEF seconds
        <4> QED
          BY <3>1, <3>7, FS_Bijection
      <3>9. Cardinality(seconds) = expiries[id] - now
        <4>1. now \in Int /\ expiries[id] - 1 \in Int
          BY <1>1, <1>2
        <4>2. Cardinality(seconds) = IF now > expiries[id] - 1 THEN 0
                                     ELSE (expiries[id] - 1) - now + 1
          BY <4>1, FS_Interval
        <4> QED
          BY <1>1, <1>2, <4>2
      <3> QED
        BY <1>3, <2>2, <3>1, <3>8, <3>9
    <2> QED
      BY <2>1, <2>2
  <1> QED
    BY <1>4, <1>6, <1>7, <1>8, <1>9
(* A merged pass carries the seconds of the merged ones, together. *)
LEMMA BundleAccess ==
  ASSUME CoreInv, CoreInv', NEW c \in Addr, NEW ids \in IdLists, Bundle(c, ids),
         NEW h \in Holders
  PROVE  accessHeld'[h] = accessHeld[h]
  <1> DEFINE turns == 1 .. Len(ids)
             burned == { ids[k] : k \in turns }
             new == next_token_id
             b == [k \in turns |-> ids[k]]
             rem == [k \in turns |-> remaining_seconds(ids[k])]
             total == Sum(rem, turns)
             changed == burned \cup {new}
             f == secondsOf(h)
             g == secondsOf(h)'
  <1>1. /\ IsFiniteSet(turns) /\ b \in Bijection(turns, burned)
        /\ burned \subseteq Tokens /\ new \in Tokens \ burned
        /\ now' = now /\ starts' = starts
        /\ \A i \in burned : /\ owners[i] = c /\ starts[i] <= now /\ now < expiries[i]
                             /\ owners'[i] = ZERO /\ expiries'[i] = 0
        /\ owners'[new] = c /\ expiries'[new] = now + total
        /\ \A i \in Tokens \ changed : owners'[i] = owners[i] /\ expiries'[i] = expiries[i]
    BY BundleFacts
  <1>2. \A k \in turns : /\ ids[k] \in burned /\ b[k] = ids[k]
                         /\ rem[k] = IF expiries[ids[k]] > now
                                     THEN expiries[ids[k]] - now ELSE 0
    BY DEF remaining_seconds
  <1>3. /\ now \in Nat /\ IsFiniteSet(Tokens)
        /\ \A i \in Tokens : expiries[i] \in Nat /\ starts[i] \in Nat
        /\ expiries[new] = 0 /\ starts[new] = 0
    <2>1. next_token_id \in Tokens
      BY <1>1
    <2> HIDE DEF turns, burned
    <2> QED
      BY <2>1, StateFacts, ConstantFacts
  <1> HIDE DEF turns, burned, new, b, rem
  <1>4. total \in Nat
    <2>1. \A k \in turns : rem[k] \in Nat
      BY <1>1, <1>2, <1>3
    <2> QED
      BY <1>1, <2>1, SumNat
  <1> HIDE DEF total
  <1>5. /\ \A i \in Tokens \ changed : f[i] = g[i]
        /\ \A i \in burned : f[i] = IF h = c THEN expiries[i] - now ELSE 0
        /\ \A i \in burned : g[i] = 0
        /\ f[new] = 0
        /\ g[new] = IF h = c THEN total ELSE 0
    <2>1. \A i \in Tokens : /\ Later(now, starts[i]) \in Nat
                            /\ starts[i] <= now => Later(now, starts[i]) = now
      BY <1>3 DEF Later
    <2>2. \A i \in Tokens : Later(now', starts'[i]) = Later(now, starts[i])
      BY <1>1
    <2>3. \A i \in Tokens \ changed : f[i] = g[i]
      BY <1>1, <2>2, AccessFacts
    <2>4. \A i \in burned : f[i] = IF h = c THEN expiries[i] - now ELSE 0
      BY <1>1, <1>3, <2>1, AccessFacts
    <2>5. \A i \in burned : g[i] = 0
      BY <1>1, <2>1, <2>2, AccessFacts
    <2>6. f[new] = 0
      BY <1>1, <1>3, <2>1, AccessFacts
    <2>7. Later(now', starts'[new]) = now
      BY <1>1, <1>3, <2>1, <2>2
    <2>8. g[new] = IF h = c THEN total ELSE 0
      BY <1>1, <1>3, <1>4, <2>7, AccessFacts
    <2> QED
      BY <2>3, <2>4, <2>5, <2>6, <2>8
  <1>6. /\ \A i \in Tokens : f[i] \in Nat /\ g[i] \in Nat
        /\ accessHeld[h] = Sum(f, Tokens) /\ accessHeld'[h] = Sum(g, Tokens)
    BY AccessFacts
  <1> HIDE DEF f, g
  <1>7. /\ changed \subseteq Tokens /\ changed \ {new} = burned
        /\ IsFiniteSet(changed) /\ IsFiniteSet(burned)
    <2>1. changed \subseteq Tokens /\ changed \ {new} = burned
      BY <1>1
    <2> QED
      BY <1>1, <1>3, <2>1, FS_Subset
  <1>8. /\ Sum(f, Tokens) + Sum(g, changed) = Sum(g, Tokens) + Sum(f, changed)
        /\ Sum(f, Tokens) \in Nat /\ Sum(g, Tokens) \in Nat
        /\ Sum(f, changed) \in Nat /\ Sum(g, changed) \in Nat
    BY <1>3, <1>5, <1>6, <1>7, SumExchange
  <1>9. /\ Sum(f, changed) = Sum(f, burned) + f[new]
        /\ Sum(g, changed) = Sum(g, burned) + g[new]
    BY <1>1, <1>6, <1>7, SumRemove
  <1>10. Sum(g, burned) = 0
    BY <1>5, SumOfZeros
  <1>11. Sum(f, burned) = IF h = c THEN total ELSE 0
    <2>1. CASE h # c
      BY <1>5, <2>1, SumOfZeros
    <2>2. CASE h = c
      <3>1. \A k \in turns : rem[k] \in Nat /\ rem[k] = f[b[k]]
        BY <1>1, <1>2, <1>3, <1>5, <2>2
      <3>2. Sum(rem, turns) = Sum(f, burned)
        BY <1>1, <3>1, SumBijection
      <3> QED
        BY <2>2, <3>2 DEF total
    <2> QED
      BY <2>1, <2>2
  <1> QED
    BY <1>4, <1>5, <1>6, <1>8, <1>9, <1>10, <1>11

-----------------------------------------------------------------------------
(* The refinement.                                                         *)

(* A plan that was created sells one of the terms that create_plan was given. *)
PlanTermsOffered ==
  \A p \in Plans : plan_issuers[p] # ZERO => plan_durations[p] \in Durations

LEMMA PlanTermsInv ==
  /\ Init => PlanTermsOffered
  /\ CoreInv /\ PlanTermsOffered /\ [Next]_coreVars => PlanTermsOffered'
  <1>1. Init => PlanTermsOffered
    BY DEF Init, PlanTermsOffered
  <1>2. ASSUME CoreInv, PlanTermsOffered, [Next]_coreVars
        PROVE  PlanTermsOffered'
    <2>1. CASE UNCHANGED <<plan_issuers, plan_durations>>
      BY <1>2, <2>1 DEF PlanTermsOffered
    <2>2. ASSUME NEW c \in Addr, NEW price \in Prices, NEW d \in Durations,
                 CreatePlan(c, price, d)
          PROVE  PlanTermsOffered'
      BY <1>2, <2>2 DEF PlanTermsOffered, CreatePlan, CoreInv, TypeOK
    <2>3. ASSUME NEW c \in Addr, IssueStep(c)
          PROVE  UNCHANGED <<plan_issuers, plan_durations>>
      BY <2>3 DEF IssueStep, Mint, BuyPass, planVars
    <2>4. ASSUME NEW c \in Addr, HolderStep(c)
          PROVE  UNCHANGED <<plan_issuers, plan_durations>>
      BY <2>4 DEF HolderStep, Split, Bundle, TransferPass, MarketTransfer, planVars
    <2>5. ASSUME NEW c \in Addr, CatalogueStep(c)
          PROVE  PlanTermsOffered'
      BY <2>1, <2>2, <2>5 DEF CatalogueStep, SetIssuer, SetMarketplace, SetPlanOpen, planVars
    <2> QED
      BY <1>2, <2>1, <2>3, <2>4, <2>5 DEF Next, coreVars, planVars, Tick, MarketTransfer
  <1> QED
    BY <1>1, <1>2

(* No term offered is longer than the longest. *)
LEMMA LongestTermBounds ==
  ASSUME NEW d \in Durations
  PROVE  ToU64(d) \in Nat /\ LongestTerm \in Nat /\ ToU64(d) <= LongestTerm
  <1> DEFINE terms == { ToU64(e) : e \in Durations }
             rests == { U64Limit - e : e \in terms }
  <1>1. U64Limit \in Nat /\ U64Limit > 0 /\ Durations \subseteq Nat
    BY ConstantFacts, InputsAssumption
  <1>2. \A e \in terms : e \in Nat /\ e < U64Limit
    BY <1>1 DEF ToU64
  <1>3. ToU64(d) \in terms
    OBVIOUS
  <1> HIDE DEF terms
  <1>4. rests \subseteq Nat /\ rests # {}
    BY <1>1, <1>2, <1>3
  <1>5. PICK r \in rests : \A q \in rests : ~ (<<q, r>> \in OpToRel(<, Nat))
    <2> HIDE DEF rests
    <2> QED
      BY <1>4, NatLessThanWellFounded, WFMin
  <1>6. \A q \in rests : r <= q
    <2> HIDE DEF rests
    <2> SUFFICES ASSUME NEW q \in rests, q < r PROVE FALSE
      BY <1>4
    <2>1. <<q, r>> \in OpToRel(<, Nat)
      BY <1>4 DEF OpToRel
    <2> QED
      BY <1>5, <2>1
  <1>7. PICK m \in terms : r = U64Limit - m
    OBVIOUS
  <1>8. \A e \in terms : e <= m
    <2> SUFFICES ASSUME NEW e \in terms PROVE e <= m
      OBVIOUS
    <2>1. U64Limit - m <= U64Limit - e
      BY <1>6, <1>7
    <2> QED
      BY <1>1, <1>2, <2>1
  <1>9. LongestTerm \in terms /\ \A e \in terms : e <= LongestTerm
    BY <1>8 DEF LongestTerm, terms
  <1> QED
    BY <1>2, <1>3, <1>9

LEMMA LedgerStarts ==
  ASSUME ChainInit, NoPasses
  PROVE  Ledger!Init
  <1>1. ASSUME NEW h \in Holders PROVE AccessLeft(HeldBy(h)) = 0
    <2>1. \A i \in Tokens : SecondsLeft(i) = {}
      BY DEF ChainInit, NoPasses, SecondsLeft, Later
    <2>2. UNION { {i} \X SecondsLeft(i) : i \in HeldBy(h) } = {}
      BY <2>1 DEF HeldBy
    <2> QED
      BY <2>2, FS_EmptySet DEF AccessLeft
  <1>2. now \in Nat
    BY DEF ChainInit
  <1> QED
    BY <1>1, <1>2 DEF Ledger!Init

(* A step of the ledger, in terms of access. *)
LEMMA LedgerStep ==
  ASSUME CoreInv, CoreInv',
         \/ now' > now /\ \A h \in Holders : accessHeld'[h] \in 0 .. accessHeld[h]
         \/ /\ now' = now
            /\ \E h \in Holders : /\ accessHeld'[h] - accessHeld[h] \in 0 .. LongestTerm
                                  /\ accessHeld' = [accessHeld EXCEPT ![h] = accessHeld'[h]]
         \/ /\ now' = now
            /\ \E giver, taker \in Holders, given \in Nat :
                 /\ giver # taker /\ given \in 0 .. accessHeld[giver]
                 /\ accessHeld' = [accessHeld EXCEPT ![giver] = @ - given, ![taker] = @ + given]
         \/ now' = now /\ accessHeld' = accessHeld
  PROVE  [Ledger!Next]_<<now, accessHeld>>
  <1>1. \A h \in Holders : accessHeld[h] \in Nat
    BY AccessFacts
  <1>2. accessHeld = [h \in Holders |-> accessHeld[h]] /\ accessHeld' = [h \in Holders |-> accessHeld'[h]]
    BY DEF accessHeld
  <1>3. CASE now' > now /\ \A h \in Holders : accessHeld'[h] \in 0 .. accessHeld[h]
    <2>1. Ledger!Lapse(accessHeld, accessHeld')
      BY <1>2, <1>3 DEF Ledger!Lapse
    <2> QED
      BY <2>1 DEF Ledger!Next, accessHeld
  <1>4. ASSUME now' = now, NEW h \in Holders,
               accessHeld'[h] - accessHeld[h] \in 0 .. LongestTerm,
               accessHeld' = [accessHeld EXCEPT ![h] = accessHeld'[h]]
        PROVE  Ledger!Next
    <2>1. Ledger!Grant(accessHeld, accessHeld', h)
      BY <1>4 DEF Ledger!Grant
    <2> QED
      BY <2>1 DEF Ledger!Next, accessHeld
  <1>5. ASSUME now' = now, NEW giver \in Holders, NEW taker \in Holders, NEW given \in Nat,
               giver # taker, given \in 0 .. accessHeld[giver],
               accessHeld' = [accessHeld EXCEPT ![giver] = @ - given, ![taker] = @ + given]
        PROVE  Ledger!Next
    <2>1. accessHeld[giver] - accessHeld'[giver] = given
      BY <1>1, <1>2, <1>5
    <2>2. Ledger!Give(accessHeld, accessHeld', giver, taker)
      BY <1>5, <2>1 DEF Ledger!Give
    <2> QED
      BY <2>2 DEF Ledger!Next, accessHeld
  <1> QED
    BY <1>3, <1>4, <1>5

(* A pass that changes hands takes its access along, whoever moves it. *)
LEMMA MoveIsLedgerStep ==
  ASSUME CoreInv, CoreInv', NEW id \in Tokens, NEW to \in Holders, MovePass(id, to), now' = now
  PROVE  [Ledger!Next]_<<now, accessHeld>>
  <1> DEFINE from == owners[id]
             given == secondsOf(from)[id]
  <1>1. from \in Holders
    BY StateFacts
  <1>2. /\ given \in 0 .. accessHeld[from]
        /\ accessHeld' = IF to = from THEN accessHeld
                     ELSE [accessHeld EXCEPT ![from] = @ - given, ![to] = @ + given]
    BY <1>1, MoveAccess
  <1>3. given \in Nat
    BY <1>1, AccessFacts
  <1> HIDE DEF from, given
  <1>4. CASE to = from
    BY <1>2, <1>4, LedgerStep
  <1>5. CASE to # from
    BY <1>1, <1>2, <1>3, <1>5, LedgerStep
  <1> QED
    BY <1>4, <1>5

(* Every transaction is a step of the ledger, or one it does not see. *)
LEMMA StepIsLedgerStep ==
  ASSUME CoreInv, CoreInv', PlanTermsOffered, Next
  PROVE  [Ledger!Next]_<<now, accessHeld>>
  <1>1. accessHeld = [h \in Holders |-> accessHeld[h]] /\ accessHeld' = [h \in Holders |-> accessHeld'[h]]
    BY DEF accessHeld
  <1>2. CASE Tick
    <2>1. now' > now
      BY <1>2, StateFacts DEF Tick, TimePasses
    <2> QED
      BY <1>2, <2>1, TickAccess, LedgerStep
  <1>3. ASSUME now' = now, \A h \in Holders : accessHeld'[h] = accessHeld[h]
        PROVE  [Ledger!Next]_<<now, accessHeld>>
    BY <1>1, <1>3, LedgerStep
  <1>4. ASSUME NEW c \in Addr, CatalogueStep(c)
        PROVE  [Ledger!Next]_<<now, accessHeld>>
    <2>1. now' = now /\ UNCHANGED tokenVars
      BY <1>4 DEF CatalogueStep, SetIssuer, SetMarketplace, CreatePlan, SetPlanOpen
    <2>2. accessHeld' = accessHeld
      BY <2>1 DEF tokenVars, accessHeld, AccessLeft, HeldBy, SecondsLeft, Later
    <2> QED
      BY <1>3, <2>1, <2>2
  <1>5. ASSUME NEW to \in Holders, NEW issuer \in Holders, NEW d \in Durations,
               NewPass(to, d, issuer), now' = now
        PROVE  [Ledger!Next]_<<now, accessHeld>>
    <2>1. d \in Nat /\ ToU64(d) \in Nat /\ LongestTerm \in Nat /\ ToU64(d) <= LongestTerm
      BY InputsAssumption, LongestTermBounds
    <2>2. /\ accessHeld'[to] - accessHeld[to] \in 0 .. ToU64(d)
          /\ accessHeld' = [accessHeld EXCEPT ![to] = accessHeld'[to]]
      BY <1>5, <2>1, IssueAccess
    <2>3. accessHeld'[to] - accessHeld[to] \in 0 .. LongestTerm
      BY <2>1, <2>2
    <2> QED
      BY <1>5, <2>2, <2>3, LedgerStep
  <1>6. ASSUME NEW c \in Addr, NEW to \in Addr, NEW d \in Durations, Mint(c, to, d)
        PROVE  [Ledger!Next]_<<now, accessHeld>>
    BY <1>5, <1>6, ConstantFacts DEF Mint
  <1>7. ASSUME NEW c \in Addr, NEW p \in Plans, NEW v \in Prices, BuyPass(c, p, v)
        PROVE  [Ledger!Next]_<<now, accessHeld>>
    <2>1. /\ c \in Holders /\ plan_issuers[p] \in Holders /\ plan_issuers[p] # ZERO
          /\ NewPass(c, plan_durations[p], plan_issuers[p]) /\ now' = now
      BY <1>7, ConstantFacts DEF BuyPass, CoreInv, TypeOK
    <2>2. plan_durations[p] \in Durations
      BY <2>1 DEF PlanTermsOffered
    <2> QED
      BY <1>5, <2>1, <2>2
  <1>8. ASSUME NEW c \in Addr, NEW id \in Tokens, NEW n \in PartCounts, Split(c, id, n)
        PROVE  [Ledger!Next]_<<now, accessHeld>>
    <2>1. now' = now
      BY <1>8 DEF Split
    <2> QED
      BY <1>3, <1>8, <2>1, SplitAccess
  <1>9. ASSUME NEW c \in Addr, NEW ids \in IdLists, Bundle(c, ids)
        PROVE  [Ledger!Next]_<<now, accessHeld>>
    <2>1. now' = now
      BY <1>9 DEF Bundle
    <2> QED
      BY <1>3, <1>9, <2>1, BundleAccess
  <1>10. ASSUME NEW id \in Tokens, NEW to \in Holders, MovePass(id, to), now' = now
         PROVE  [Ledger!Next]_<<now, accessHeld>>
    BY <1>10, MoveIsLedgerStep
  <1>11. ASSUME NEW c \in Addr, NEW to \in Recipients, NEW id \in Tokens,
                TransferPass(c, to, id)
         PROVE  [Ledger!Next]_<<now, accessHeld>>
    BY <1>10, <1>11, InputsAssumption DEF TransferPass
  <1>12. ASSUME NEW c \in Addr, NEW from \in Holders, NEW to \in Holders,
                NEW id \in Tokens, MarketTransfer(c, from, to, id)
         PROVE  [Ledger!Next]_<<now, accessHeld>>
    BY <1>10, <1>12 DEF MarketTransfer
  <1> QED
    BY <1>2, <1>4, <1>6, <1>7, <1>8, <1>9, <1>11, <1>12 DEF Next, IssueStep, HolderStep

(* ImplementsLedger for every value of the constants: with passes forgotten, all the
   registry does to a holder's access is to let it lapse, to grant at most the longest
   term, or to hand it on. *)
THEOREM CoreImplementsLedger == Spec => ImplementsLedger
  <1>1. Init => Ledger!Init
    BY LedgerStarts DEF Init
  <1>2. ASSUME CoreInv, CoreInv', PlanTermsOffered, [Next]_coreVars
        PROVE  [Ledger!Next]_<<now, accessHeld>>
    <2>1. CASE Next
      BY <1>2, <2>1, StepIsLedgerStep
    <2>2. CASE UNCHANGED coreVars
      <3>1. now' = now /\ accessHeld' = accessHeld
        BY <2>2
        DEF coreVars, tokenVars, accessHeld, AccessLeft, HeldBy, SecondsLeft, Later
      <3> QED
        BY <3>1
    <2> QED
      BY <1>2, <2>1, <2>2
  <1>3. CoreInv /\ CoreInv' /\ PlanTermsOffered /\ [Next]_coreVars
          => [Ledger!Next]_<<now, [h \in Holders |-> AccessLeft(HeldBy(h))]>>
    BY <1>2 DEF accessHeld
  <1>4. /\ Init => PlanTermsOffered
        /\ CoreInv /\ PlanTermsOffered /\ [Next]_coreVars => PlanTermsOffered'
    BY PlanTermsInv
  <1> QED
    BY <1>1, <1>3, <1>4, CoreInvariant, PTL DEF Spec, ImplementsLedger, Ledger!Spec
=============================================================================
