---- MODULE BooksSafety ----
(***************************************************************************)
(* Proofs about the two components whose books are sums: the Solana        *)
(* programs, whose supply is what all token accounts hold, and the         *)
(* theater, whose channel state is what the invoices paid on it cost.      *)
(* First the lemmas both need: the sum of a function over a finite set, as *)
(* Functions.tla folds it, changes by what one argument's value changes    *)
(* by.                                                                     *)
(*                                                                         *)
(* The library's induction theorems take the induction hypothesis as an    *)
(* operator.  Here it is a set: of the sets for which the claim holds.     *)
(***************************************************************************)
EXTENDS XmssVault, Theater, Integers, FiniteSets, Functions, FiniteSetTheorems,
        SequenceTheorems, WellFoundedInduction, TLAPS

(* A set of naturals that is not empty has a least member.                 *)
LEMMA LeastMember ==
    ASSUME NEW S, S \subseteq Nat, S # {}
    PROVE  \E m \in S : \A n \in S : m <= n
<1> DEFINE Below == OpToRel(<, Nat)
<1>1. \A x, y \in Nat : <<x, y>> \in Below <=> x < y
  BY DEF OpToRel
<1>2. \E x \in S : \A y \in S : ~(<<y, x>> \in Below)
  <2> HIDE DEF Below
  <2>1. IsWellFoundedOn(Below, Nat)
    BY NatLessThanWellFounded DEF Below
  <2> QED
    BY <2>1, WFMin
<1>3. PICK x \in S : \A y \in S : ~(<<y, x>> \in Below)
  BY <1>2
<1>4. ASSUME NEW y \in S PROVE x <= y
  <2>1. x \in Nat /\ y \in Nat
    OBVIOUS
  <2>2. ~(y < x)
    BY <1>1, <1>3, <2>1, Zenon
  <2> QED
    BY <2>1, <2>2
<1> QED
  BY <1>4

(* What holds of a set once it holds of all its proper subsets holds of    *)
(* every subset of a finite set.                                           *)
LEMMA SubsetInduction ==
    ASSUME NEW S, IsFiniteSet(S), NEW Good,
           \A T \in SUBSET S : (\A U \in SUBSET T : U # T => U \in Good) => T \in Good
    PROVE  \A T \in SUBSET S : T \in Good
<1> DEFINE Bad == {T \in SUBSET S : T \notin Good}
           Sizes == {Cardinality(T) : T \in Bad}
<1> SUFFICES ASSUME Bad # {} PROVE FALSE
  OBVIOUS
<1>1. \A T \in SUBSET S : IsFiniteSet(T) /\ Cardinality(T) \in Nat
  BY FS_Subset, FS_CardinalityType
<1>2. Sizes \subseteq Nat /\ Sizes # {}
  BY <1>1
<1>3. PICK T \in Bad : \A U \in Bad : Cardinality(T) <= Cardinality(U)
  <2> HIDE DEF Bad
  <2>1. \E m \in Sizes : \A n \in Sizes : m <= n
    <3> HIDE DEF Sizes
    <3> QED
      BY <1>2, LeastMember
  <2> QED
    BY <2>1
<1>4. ASSUME NEW U \in SUBSET T, U # T PROVE U \in Good
  <2>1. U \in SUBSET S /\ T \in SUBSET S
    OBVIOUS
  <2>2. Cardinality(U) <= Cardinality(T) /\ Cardinality(T) # Cardinality(U)
    BY <1>1, <1>4, <2>1, FS_Subset
  <2>3. Cardinality(U) \in Nat /\ Cardinality(T) \in Nat
    BY <1>1, <2>1
  <2> QED
    BY <1>3, <2>1, <2>2, <2>3
<1> QED
  BY <1>4

-----------------------------------------------------------------------------
(* The fold of the community modules, as a recursion over subsets.         *)

Folds(f, s, g) == IF s = {} THEN 0 ELSE LET x == CHOOSE x \in s : TRUE IN f[x] + g[s \ {x}]

IsFold(f, S, g) == g = [s \in SUBSET S |-> Folds(f, s, g)]

Fold(f, S) == CHOOSE g : IsFold(f, S, g)

LEMMA SumIsFold ==
    ASSUME NEW f, NEW S
    PROVE  SumFunctionOnSet(f, S) = Fold(f, S)[S]
BY DEF SumFunctionOnSet, FoldFunctionOnSet, MapThenFoldSet, Fold, IsFold, Folds

(* Such functions agree where both are defined.                            *)
LEMMA FoldsAgree ==
    ASSUME NEW f, NEW A, NEW B, NEW g, NEW h,
           IsFold(f, A, g), IsFold(f, B, h),
           NEW S, IsFiniteSet(S), S \subseteq A, S \subseteq B
    PROVE  g[S] = h[S]
<1> DEFINE Good == {T \in SUBSET S : g[T] = h[T]}
<1>1. ASSUME NEW T \in SUBSET S, \A U \in SUBSET T : U # T => U \in Good
      PROVE  T \in Good
  <2>1. g[T] = Folds(f, T, g) /\ h[T] = Folds(f, T, h)
    <3>1. T \in SUBSET A /\ T \in SUBSET B
      OBVIOUS
    <3> QED
      BY <3>1 DEF IsFold
  <2>2. CASE T = {}
    BY <2>1, <2>2 DEF Folds
  <2>3. CASE T # {}
    <3> DEFINE x == CHOOSE x \in T : TRUE
    <3>1. x \in T
      BY <2>3
    <3>2. T \ {x} \in SUBSET T /\ T \ {x} # T
      BY <3>1
    <3>3. g[T \ {x}] = h[T \ {x}]
      BY <1>1, <3>2
    <3> QED
      BY <2>1, <2>3, <3>3 DEF Folds
  <2> QED
    BY <2>2, <2>3
<1>2. \A T \in SUBSET S : T \in Good
  <2> HIDE DEF Good
  <2> QED
    BY <1>1, SubsetInduction
<1> QED
  BY <1>2

(* There is such a function on the subsets of a finite set: there is one   *)
(* on the subsets of each of its subsets.                                  *)
LEMMA FoldExists ==
    ASSUME NEW f, NEW S, IsFiniteSet(S)
    PROVE  IsFold(f, S, Fold(f, S))
<1> DEFINE Good == {T \in SUBSET S : IsFold(f, T, Fold(f, T))}
<1>1. ASSUME NEW T \in SUBSET S, \A U \in SUBSET T : U # T => U \in Good
      PROVE  T \in Good
  <2> DEFINE last == [u \in SUBSET T |-> Fold(f, u)[u]]
             g == [s \in SUBSET T |-> Folds(f, s, last)]
  <2>1. ASSUME NEW u \in SUBSET T, u # T PROVE g[u] = last[u]
    <3>1. IsFold(f, u, Fold(f, u))
      BY <1>1, <2>1
    <3>2. last[u] = Folds(f, u, Fold(f, u))
      <4>1. last[u] = Fold(f, u)[u]
        OBVIOUS
      <4>2. u \in SUBSET u
        OBVIOUS
      <4> HIDE DEF last
      <4> QED
        BY <3>1, <4>1, <4>2 DEF IsFold
    <3>3. g[u] = Folds(f, u, last)
      OBVIOUS
    <3>4. CASE u = {}
      BY <3>2, <3>3, <3>4 DEF Folds
    <3>5. CASE u # {}
      <4> DEFINE y == CHOOSE y \in u : TRUE
                 w == u \ {y}
      <4>1. y \in u
        BY <3>5
      <4>2. w \in SUBSET T /\ w # T /\ w \subseteq u
        BY <4>1
      <4>3. IsFold(f, w, Fold(f, w))
        BY <1>1, <4>2
      <4>4. IsFiniteSet(w)
        <5>1. w \in SUBSET S
          BY <4>2
        <5> QED
          BY <5>1, FS_Subset
      <4>5. Fold(f, u)[w] = Fold(f, w)[w]
        <5>1. w \subseteq u /\ w \subseteq w
          BY <4>2
        <5> HIDE DEF w
        <5> QED
          BY <3>1, <4>3, <4>4, <5>1, FoldsAgree
      <4>6. last[w] = Fold(f, w)[w]
        BY <4>2
      <4>7. Fold(f, u)[u \ {y}] = last[u \ {y}]
        BY <4>5, <4>6
      <4> HIDE DEF last
      <4> QED
        BY <3>2, <3>3, <3>5, <4>7 DEF Folds
    <3> QED
      BY <3>4, <3>5
  <2>2. ASSUME NEW s \in SUBSET T PROVE Folds(f, s, last) = Folds(f, s, g)
    <3>1. CASE s = {}
      BY <3>1 DEF Folds
    <3>2. CASE s # {}
      <4> DEFINE x == CHOOSE x \in s : TRUE
      <4>1. x \in s
        BY <3>2
      <4>2. s \ {x} \in SUBSET T /\ s \ {x} # T
        BY <4>1
      <4>3. g[s \ {x}] = last[s \ {x}]
        BY <2>1, <4>2
      <4> HIDE DEF last, g
      <4> QED
        BY <3>2, <4>3 DEF Folds
    <3> QED
      BY <3>1, <3>2
  <2>3. g = [s \in SUBSET T |-> Folds(f, s, g)]
    <3>1. \A s \in SUBSET T : g[s] = Folds(f, s, g)
      BY <2>2
    <3> QED
      BY <3>1, Zenon
  <2>4. \E h : IsFold(f, T, h)
    <3> HIDE DEF g
    <3> QED
      BY <2>3 DEF IsFold
  <2> QED
    BY <2>4 DEF Fold
<1>2. \A T \in SUBSET S : T \in Good
  <2> HIDE DEF Good
  <2> QED
    BY <1>1, SubsetInduction
<1> QED
  BY <1>2

-----------------------------------------------------------------------------
(* Sums                                                                    *)

LEMMA SumEmpty == ASSUME NEW f PROVE SumFunctionOnSet(f, {}) = 0
<1>1. IsFold(f, {}, Fold(f, {}))
  BY FoldExists, FS_EmptySet
<1> QED
  BY <1>1, SumIsFold DEF IsFold, Folds

(* The element the fold happens to take ...                                *)
LEMMA SumTakes ==
    ASSUME NEW f, NEW S, IsFiniteSet(S), S # {}
    PROVE  \E c \in S : SumFunctionOnSet(f, S) = f[c] + SumFunctionOnSet(f, S \ {c})
<1> DEFINE c == CHOOSE x \in S : TRUE
           R == S \ {c}
<1>1. c \in S
  OBVIOUS
<1>2. IsFiniteSet(R)
  BY FS_RemoveElement
<1>3. IsFold(f, S, Fold(f, S)) /\ IsFold(f, R, Fold(f, R))
  BY <1>2, FoldExists
<1>4. Fold(f, S)[R] = Fold(f, R)[R]
  <2>1. R \subseteq S /\ R \subseteq R
    OBVIOUS
  <2> HIDE DEF R
  <2> QED
    BY <1>2, <1>3, <2>1, FoldsAgree
<1>5. Fold(f, S)[S] = f[c] + Fold(f, S)[R]
  BY <1>3 DEF IsFold, Folds
<1>6. SumFunctionOnSet(f, S) = f[c] + SumFunctionOnSet(f, R)
  <2> HIDE DEF R, c
  <2> QED
    BY <1>4, <1>5, SumIsFold
<1> HIDE DEF c
<1> QED
  BY <1>1, <1>6

LEMMA SumIsInteger ==
    ASSUME NEW f, NEW S, IsFiniteSet(S), \A s \in S : f[s] \in Int
    PROVE  \A T \in SUBSET S : SumFunctionOnSet(f, T) \in Int
<1> DEFINE Good == {T \in SUBSET S : SumFunctionOnSet(f, T) \in Int}
<1>1. ASSUME NEW T \in SUBSET S, \A U \in SUBSET T : U # T => U \in Good
      PROVE  T \in Good
  <2>1. CASE T = {}
    BY <2>1, SumEmpty
  <2>2. CASE T # {}
    <3>1. IsFiniteSet(T)
      BY FS_Subset
    <3>2. PICK c \in T : SumFunctionOnSet(f, T) = f[c] + SumFunctionOnSet(f, T \ {c})
      BY <2>2, <3>1, SumTakes
    <3>3. T \ {c} \in SUBSET T /\ T \ {c} # T
      OBVIOUS
    <3>4. SumFunctionOnSet(f, T \ {c}) \in Int
      BY <1>1, <3>3
    <3> QED
      BY <3>2, <3>4
  <2> QED
    BY <2>1, <2>2
<1>2. \A T \in SUBSET S : T \in Good
  <2> HIDE DEF Good
  <2> QED
    BY <1>1, SubsetInduction
<1> QED
  BY <1>2

(* ... might have been any.                                                *)
LEMMA SumRemoves ==
    ASSUME NEW f, NEW S, IsFiniteSet(S), \A s \in S : f[s] \in Int, NEW x \in S
    PROVE  SumFunctionOnSet(f, S) = f[x] + SumFunctionOnSet(f, S \ {x})
<1> DEFINE Good == {T \in SUBSET S : \A y \in T :
                        SumFunctionOnSet(f, T) = f[y] + SumFunctionOnSet(f, T \ {y})}
<1>1. ASSUME NEW T \in SUBSET S, \A U \in SUBSET T : U # T => U \in Good
      PROVE  T \in Good
  <2> SUFFICES ASSUME NEW y \in T
               PROVE  SumFunctionOnSet(f, T) = f[y] + SumFunctionOnSet(f, T \ {y})
    OBVIOUS
  <2>1. IsFiniteSet(T)
    BY FS_Subset
  <2>2. PICK c \in T : SumFunctionOnSet(f, T) = f[c] + SumFunctionOnSet(f, T \ {c})
    BY <2>1, SumTakes
  <2>3. CASE c = y
    BY <2>2, <2>3
  <2>4. CASE c # y
    <3> DEFINE U == T \ {c}
               V == T \ {y}
               W == T \ {c, y}
    <3>1. U \in SUBSET T /\ U # T /\ V \in SUBSET T /\ V # T
      OBVIOUS
    <3>2. y \in U /\ c \in V /\ U \ {y} = W /\ V \ {c} = W
      BY <2>4
    <3>3. U \in Good /\ V \in Good
      BY <1>1, <3>1
    <3>4. SumFunctionOnSet(f, U) = f[y] + SumFunctionOnSet(f, W)
      BY <3>2, <3>3
    <3>5. SumFunctionOnSet(f, V) = f[c] + SumFunctionOnSet(f, W)
      BY <3>2, <3>3
    <3>6. W \in SUBSET S
      OBVIOUS
    <3>7. SumFunctionOnSet(f, W) \in Int /\ f[c] \in Int /\ f[y] \in Int
      <4> HIDE DEF W
      <4> QED
        BY <3>6, SumIsInteger
    <3> HIDE DEF U, V, W
    <3>8. SumFunctionOnSet(f, T) = f[y] + SumFunctionOnSet(f, V)
      <4>1. SumFunctionOnSet(f, T) = f[c] + SumFunctionOnSet(f, U)
        BY <2>2 DEF U
      <4> QED
        BY <3>4, <3>5, <3>7, <4>1
    <3> QED
      BY <3>8 DEF V
  <2> QED
    BY <2>3, <2>4
<1>2. \A T \in SUBSET S : T \in Good
  <2> HIDE DEF Good
  <2> QED
    BY <1>1, SubsetInduction
<1> QED
  BY <1>2

(* A sum depends on the values over its set only.                          *)
LEMMA SumAgrees ==
    ASSUME NEW f, NEW g, NEW S, IsFiniteSet(S),
           \A s \in S : f[s] \in Int /\ g[s] = f[s]
    PROVE  SumFunctionOnSet(g, S) = SumFunctionOnSet(f, S)
<1> DEFINE Good == {T \in SUBSET S : SumFunctionOnSet(g, T) = SumFunctionOnSet(f, T)}
<1>1. ASSUME NEW T \in SUBSET S, \A U \in SUBSET T : U # T => U \in Good
      PROVE  T \in Good
  <2>1. CASE T = {}
    BY <2>1, SumEmpty
  <2>2. CASE T # {}
    <3>1. IsFiniteSet(T) /\ \A s \in T : f[s] \in Int /\ g[s] \in Int
      BY FS_Subset
    <3>2. PICK c : c \in T
      BY <2>2
    <3>3. SumFunctionOnSet(f, T) = f[c] + SumFunctionOnSet(f, T \ {c})
      BY <3>1, <3>2, SumRemoves
    <3>4. SumFunctionOnSet(g, T) = g[c] + SumFunctionOnSet(g, T \ {c})
      BY <3>1, <3>2, SumRemoves
    <3>5. T \ {c} \in SUBSET T /\ T \ {c} # T
      BY <3>2
    <3>6. SumFunctionOnSet(g, T \ {c}) = SumFunctionOnSet(f, T \ {c})
      BY <1>1, <3>5
    <3>7. g[c] = f[c]
      BY <3>2
    <3> QED
      BY <3>3, <3>4, <3>6, <3>7
  <2> QED
    BY <2>1, <2>2
<1>2. \A T \in SUBSET S : T \in Good
  <2> HIDE DEF Good
  <2> QED
    BY <1>1, SubsetInduction
<1> QED
  BY <1>2

(* Where one value changes, the sum changes by as much.                    *)
LEMMA SumChanges ==
    ASSUME NEW f, NEW g, NEW S, IsFiniteSet(S), NEW x \in S,
           \A s \in S : f[s] \in Int /\ g[s] \in Int,
           \A s \in S : s # x => g[s] = f[s]
    PROVE  /\ SumFunctionOnSet(f, S) \in Int
           /\ SumFunctionOnSet(g, S) = SumFunctionOnSet(f, S) - f[x] + g[x]
<1> DEFINE R == S \ {x}
<1>1. SumFunctionOnSet(f, S) = f[x] + SumFunctionOnSet(f, R)
  BY SumRemoves
<1>2. SumFunctionOnSet(g, S) = g[x] + SumFunctionOnSet(g, R)
  BY SumRemoves
<1>3. SumFunctionOnSet(g, R) = SumFunctionOnSet(f, R)
  <2>1. IsFiniteSet(R) /\ \A s \in R : f[s] \in Int /\ g[s] = f[s]
    BY FS_RemoveElement
  <2> HIDE DEF R
  <2> QED
    BY <2>1, SumAgrees
<1>4. SumFunctionOnSet(f, R) \in Int
  BY SumIsInteger
<1> QED
  BY <1>1, <1>2, <1>3, <1>4

LEMMA SumOfZeros ==
    ASSUME NEW f, NEW S, IsFiniteSet(S), \A s \in S : f[s] = 0
    PROVE  SumFunctionOnSet(f, S) = 0
<1> DEFINE Good == {T \in SUBSET S : SumFunctionOnSet(f, T) = 0}
<1>1. ASSUME NEW T \in SUBSET S, \A U \in SUBSET T : U # T => U \in Good
      PROVE  T \in Good
  <2>1. CASE T = {}
    BY <2>1, SumEmpty
  <2>2. CASE T # {}
    <3>1. IsFiniteSet(T)
      BY FS_Subset
    <3>2. PICK c \in T : SumFunctionOnSet(f, T) = f[c] + SumFunctionOnSet(f, T \ {c})
      BY <2>2, <3>1, SumTakes
    <3>3. T \ {c} \in SUBSET T /\ T \ {c} # T
      OBVIOUS
    <3>4. SumFunctionOnSet(f, T \ {c}) = 0
      BY <1>1, <3>3
    <3> QED
      BY <3>2, <3>4
  <2> QED
    BY <2>1, <2>2
<1>2. \A T \in SUBSET S : T \in Good
  <2> HIDE DEF Good
  <2> QED
    BY <1>1, SubsetInduction
<1> QED
  BY <1>2

(***************************************************************************)
(* The two Solana programs.                                                *)
(***************************************************************************)

(* The fields and histories the arguments below count with.                *)
BridgeFields ==
    {"mint", "threshold", "totalBurned", "totalMinted", "vaultBalance", "dailyLimit",
     "dailyVolume", "lastEpoch", "paused", "nonce"}

CounterTypes ==
    /\ DOMAIN bridge = BridgeFields
    /\ bridge.dailyLimit \in Nat
    /\ bridge.dailyVolume \in Nat
    /\ bridge.lastEpoch \in 0 .. MaxEpoch
    /\ epoch \in 0 .. MaxEpoch
    /\ spent \in [0 .. MaxEpoch -> Nat]
    /\ processed \in [Txids -> Nat]
    /\ minted \in [Txids -> Nat]

(* The volume kept is the last epoch's, nothing is spent after it, and no  *)
(* epoch's burns exceed the limit.                                         *)
VolumeInv ==
    /\ bridge.lastEpoch <= epoch
    /\ ~Opened => bridge.lastEpoch = 0 /\ bridge.dailyVolume = 0
                  /\ spent = [e \in 0 .. MaxEpoch |-> 0]
    /\ spent[bridge.lastEpoch] = bridge.dailyVolume
    /\ \A e \in 0 .. MaxEpoch : e > bridge.lastEpoch => spent[e] = 0
    /\ EpochWithinLimit

(* A deposit was minted for once when its account exists, and never before.*)
DepositInv == \A t \in Txids : minted[t] = IF processed[t] = 0 THEN 0 ELSE 1

BridgeInv == CounterTypes /\ VolumeInv /\ DepositInv

VaultFields == {"active", "leaf", "depth", "mint", "bridged", "operations"}

(* The leaves used are exactly those before the index, in their order.     *)
LeafInv ==
    /\ DOMAIN vault = Vaults
    /\ DOMAIN signed = Vaults
    /\ \A v \in Vaults :
        /\ DOMAIN vault[v] = VaultFields
        /\ vault[v].leaf \in Nat
        /\ signed[v] = [i \in 1 .. vault[v].leaf |-> i - 1]
        /\ ~vault[v].active => vault[v].leaf = 0
        /\ vault[v].active => /\ vault[v].depth \in Depths
                              /\ vault[v].leaf <= MaxSignatures(vault[v].depth)

-----------------------------------------------------------------------------
(* The bridge's counters.                                                  *)

(* Before initialize nothing is counted.                                   *)
LEMMA BridgeStarts == BridgeInit => BridgeInv
BY AmountAssumption, AccountAssumption
DEF BridgeInit, BridgeInv, BridgeFields, CounterTypes, VolumeInv, DepositInv, EpochWithinLimit, Opened

(* What the counters and histories are kept by, whatever is done to the    *)
(* pause flag, the mint in use and the attested balance.                   *)
LEMMA BridgeRest ==
    ASSUME BridgeInv, Opened, Opened',
           UNCHANGED <<epoch, spent, processed, minted>>,
           DOMAIN bridge' = DOMAIN bridge,
           bridge'.dailyLimit = bridge.dailyLimit,
           bridge'.dailyVolume = bridge.dailyVolume,
           bridge'.lastEpoch = bridge.lastEpoch
    PROVE  BridgeInv'
BY DEF BridgeInv, CounterTypes, VolumeInv, DepositInv, EpochWithinLimit

(* A burn adds the same to the epoch's history and to its volume, and only *)
(* if the sum is within the limit.                                         *)
LEMMA BurnKeeps ==
    ASSUME BridgeInv, NEW o \in Owners, NEW a \in Amounts, Burn(o, a)
    PROVE  BridgeInv'
<1> USE AmountAssumption
<1>1. /\ a \in Nat /\ Opened
      /\ bridge' = Counted(a)
      /\ spent' = [spent EXCEPT ![epoch] = @ + a]
      /\ UNCHANGED <<processed, epoch, minted>>
  BY DEF Burn, Running
<1>2. /\ Volume \in Nat
      /\ spent[epoch] = Volume
      /\ Volume + a <= bridge.dailyLimit
  <2>1. Volume + a <= bridge.dailyLimit
    BY DEF Burn, WithinLimit
  <2>2. Volume \in Nat /\ spent[epoch] = Volume
    BY DEF BridgeInv, CounterTypes, BridgeFields, VolumeInv, Volume
  <2> QED
    BY <2>1, <2>2
<1>3. bridge' = [bridge EXCEPT !.totalBurned = @ + a, !.dailyVolume = Volume + a,
                   !.lastEpoch = epoch, !.nonce = @ + 1]
  BY <1>1 DEF Counted
<1>4. CounterTypes'
  <2>1. /\ DOMAIN bridge' = BridgeFields
        /\ bridge'.dailyLimit \in Nat
        /\ bridge'.dailyVolume \in Nat
        /\ bridge'.lastEpoch \in 0 .. MaxEpoch
    BY <1>1, <1>2, <1>3 DEF BridgeInv, CounterTypes, BridgeFields
  <2>2. spent' \in [0 .. MaxEpoch -> Nat]
    BY <1>1, <1>2 DEF BridgeInv, CounterTypes
  <2> QED
    BY <1>1, <2>1, <2>2 DEF BridgeInv, CounterTypes
<1>5. VolumeInv'
  <2>1. Opened' /\ bridge'.lastEpoch = epoch /\ bridge'.dailyVolume = Volume + a
        /\ bridge'.dailyLimit = bridge.dailyLimit
    BY <1>1, <1>3 DEF BridgeInv, CounterTypes, BridgeFields, Opened
  <2>2. \A e \in 0 .. MaxEpoch : spent'[e] = IF e = epoch THEN Volume + a ELSE spent[e]
    BY <1>1, <1>2 DEF BridgeInv, CounterTypes
  <2>3. \A e \in 0 .. MaxEpoch : e > epoch => spent[e] = 0
    BY DEF BridgeInv, CounterTypes, VolumeInv, BridgeFields
  <2> QED
    BY <1>1, <1>2, <2>1, <2>2, <2>3 DEF BridgeInv, CounterTypes, VolumeInv, EpochWithinLimit
<1>6. DepositInv'
  BY <1>1 DEF BridgeInv, DepositInv
<1> QED
  BY <1>4, <1>5, <1>6 DEF BridgeInv

(* A mint makes its deposit's account.                                     *)
LEMMA MintKeeps ==
    ASSUME BridgeInv, NEW o \in Owners, NEW t \in Txids, NEW a \in Amounts, NEW n \in Nat,
           Fresh(t), MintTo(o, t, a, n)
    PROVE  BridgeInv'
<1> USE AmountAssumption
<1>1. /\ a \in Nat /\ a >= MinTransfer /\ Opened /\ processed[t] = 0
      /\ processed' = [processed EXCEPT ![t] = a]
      /\ bridge' = [bridge EXCEPT !.totalMinted = @ + Net(a)]
      /\ minted' = [minted EXCEPT ![t] = @ + 1]
      /\ UNCHANGED <<epoch, spent>>
  BY DEF MintTo, Fresh, Running
<1>2. Net(a) \in Nat
  BY <1>1 DEF Net, Fee
<1>3. CounterTypes'
  <2>1. /\ DOMAIN bridge' = BridgeFields
        /\ bridge'.dailyLimit \in Nat
        /\ bridge'.dailyVolume \in Nat
        /\ bridge'.lastEpoch \in 0 .. MaxEpoch
    BY <1>1, <1>2 DEF BridgeInv, CounterTypes, BridgeFields
  <2>2. processed' \in [Txids -> Nat]
    BY <1>1 DEF BridgeInv, CounterTypes
  <2>3. minted' \in [Txids -> Nat]
    BY <1>1 DEF BridgeInv, CounterTypes
  <2>4. epoch' \in 0 .. MaxEpoch /\ spent' \in [0 .. MaxEpoch -> Nat]
    BY <1>1 DEF BridgeInv, CounterTypes
  <2> QED
    BY <2>1, <2>2, <2>3, <2>4 DEF CounterTypes
<1>4. VolumeInv'
  BY <1>1 DEF BridgeInv, CounterTypes, BridgeFields, VolumeInv, EpochWithinLimit, Opened
<1>5. DepositInv'
  <2> SUFFICES ASSUME NEW x \in Txids
               PROVE  minted'[x] = IF processed'[x] = 0 THEN 0 ELSE 1
    BY DEF DepositInv
  <2>1. minted[x] = IF processed[x] = 0 THEN 0 ELSE 1
    BY DEF BridgeInv, DepositInv
  <2>2. CASE x = t
    BY <1>1, <2>1, <2>2 DEF BridgeInv, CounterTypes
  <2>3. CASE x # t
    BY <1>1, <2>1, <2>3 DEF BridgeInv, CounterTypes
  <2> QED
    BY <2>2, <2>3
<1> QED
  BY <1>3, <1>4, <1>5 DEF BridgeInv

(* Every instruction of the bridge keeps its counters.                     *)
LEMMA BridgeStep == BridgeInv /\ BridgeNext => BridgeInv'
<1> SUFFICES ASSUME BridgeInv, BridgeNext PROVE BridgeInv'
  OBVIOUS
<1> USE AmountAssumption, AccountAssumption
<1>1. CASE \E m \in Mints, th \in Thresholds, l \in Limits : Initialize(m, th, l)
  <2> PICK m \in Mints, th \in Thresholds, l \in Limits : Initialize(m, th, l)
    BY <1>1
  <2>1. CounterTypes'
    <3>1. l \in Nat
      OBVIOUS
    <3>2. DOMAIN bridge' = BridgeFields
      BY DEF Initialize, BridgeFields
    <3>3. bridge'.dailyLimit = l /\ bridge'.dailyVolume = 0 /\ bridge'.lastEpoch = epoch
      BY DEF Initialize
    <3>4. UNCHANGED <<epoch, spent, processed, minted>>
      BY DEF Initialize
    <3> QED
      BY <3>1, <3>2, <3>3, <3>4 DEF BridgeInv, CounterTypes
  <2>2. VolumeInv'
    BY DEF BridgeInv, CounterTypes, VolumeInv, EpochWithinLimit, Initialize, Opened
  <2>3. DepositInv'
    BY DEF BridgeInv, DepositInv, Initialize
  <2> QED
    BY <2>1, <2>2, <2>3 DEF BridgeInv
<1>2. CASE \E u \in Users, a \in Amounts : BurnForRedemption(u, a)
  BY <1>2, BurnKeeps DEF BurnForRedemption
<1>3. CASE \E o \in Owners, t \in Txids, a \in Amounts, n \in 0 .. MaxNamed :
             \/ MintFromDeposit(o, t, a, n)
             \/ MintToVault(o, t, a, n)
  BY <1>3, MintKeeps DEF MintFromDeposit, MintToVault
<1>4. CASE \E b \in Attestable, n \in 0 .. MaxNamed : UpdateVaultBalance(b, n)
  <2> PICK b \in Attestable : Opened /\ bridge' = [bridge EXCEPT !.vaultBalance = b]
                              /\ UNCHANGED <<epoch, spent, processed, minted>>
    BY <1>4 DEF UpdateVaultBalance
  <2> QED
    BY BridgeRest DEF BridgeInv, CounterTypes, BridgeFields, Opened
<1>5. CASE \E flag \in BOOLEAN : SetPaused(flag)
  <2> PICK flag \in BOOLEAN : Opened /\ bridge' = [bridge EXCEPT !.paused = flag]
                             /\ UNCHANGED <<epoch, spent, processed, minted>>
    BY <1>5 DEF SetPaused
  <2> QED
    BY BridgeRest DEF BridgeInv, CounterTypes, BridgeFields, Opened
<1>6. CASE \E m \in Mints : SetMint(m)
  <2> PICK m \in Mints : Opened /\ bridge' = [bridge EXCEPT !.mint = m]
                        /\ UNCHANGED <<epoch, spent, processed, minted>>
    BY <1>6 DEF SetMint
  <2> QED
    BY BridgeRest DEF BridgeInv, CounterTypes, BridgeFields, Opened
<1>7. CASE NextEpoch
  BY <1>7 DEF NextEpoch, BridgeInv, CounterTypes, VolumeInv, DepositInv, EpochWithinLimit, Opened
<1>8. CASE \E m \in Mints : \/ HandOver(m)
                           \/ \E o \in Owners, a \in Amounts : MintOutside(o, m, a)
                           \/ \E u \in Users, b \in Amounts : BurnOutside(u, m, b)
  <2>1. UNCHANGED <<bridge, processed, epoch, minted, spent>>
    BY <1>8 DEF HandOver, MintOutside, BurnOutside
  <2> QED
    BY <2>1 DEF BridgeInv, CounterTypes, VolumeInv, DepositInv, EpochWithinLimit, Opened
<1> QED
  BY <1>1, <1>2, <1>3, <1>4, <1>5, <1>6, <1>7, <1>8 DEF BridgeNext

(* An instruction of the vault program changes the counters by a burn of   *)
(* the bridge's or not at all.                                             *)
LEMMA VaultKeepsBridge == BridgeInv /\ VaultNext => BridgeInv'
<1> SUFFICES ASSUME BridgeInv, VaultNext PROVE BridgeInv'
  OBVIOUS
<1>1. \/ UNCHANGED <<bridge, processed, epoch, minted, spent>>
      \/ \E v \in Vaults, a \in Amounts : Burn(v, a)
  <2>1. ASSUME NEW v \in Vaults, NEW d, NEW m, NEW b, OpenXmssVault(v, d, m, b)
        PROVE  UNCHANGED <<bridge, processed, epoch, minted, spent>>
    BY <2>1 DEF OpenXmssVault
  <2>2. ASSUME NEW x, NEW y, NEW m, NEW a, Transfer(x, y, m, a)
        PROVE  UNCHANGED <<bridge, processed, epoch, minted, spent>>
    BY <2>2 DEF Transfer
  <2> QED
    BY <2>1, <2>2 DEF VaultNext, WithdrawFromVault, DepositToVault, BridgeOutFromVault
<1>2. CASE UNCHANGED <<bridge, processed, epoch, minted, spent>>
  BY <1>2 DEF BridgeInv, CounterTypes, VolumeInv, DepositInv, EpochWithinLimit, Opened
<1>3. CASE \E v \in Vaults, a \in Amounts : Burn(v, a)
  BY <1>3, BurnKeeps, VaultAssumption
<1> QED
  BY <1>1, <1>2, <1>3

(* Both programs keep the bridge's counters as BridgeInv says.             *)
THEOREM CountersHold == Spec => []BridgeInv
<1>1. Init => BridgeInv
  BY BridgeStarts DEF Init
<1>2. BridgeInv /\ [Next]_vars => BridgeInv'
  <2> SUFFICES ASSUME BridgeInv, [Next]_vars PROVE BridgeInv'
    OBVIOUS
  <2>1. CASE Next
    BY <2>1, BridgeStep, VaultKeepsBridge DEF Next
  <2>2. CASE UNCHANGED vars
    BY <2>2 DEF vars, bridgeVars, BridgeInv, CounterTypes, VolumeInv, DepositInv,
        EpochWithinLimit, Opened
  <2> QED
    BY <2>1, <2>2
<1> QED
  BY <1>1, <1>2, PTL DEF Spec

(* The circuit breaker holds: no epoch's burns, by wallets and by vaults,  *)
(* exceed the daily limit.                                                 *)
THEOREM LimitHolds == Spec => []EpochWithinLimit
<1>1. BridgeInv => EpochWithinLimit
  BY DEF BridgeInv, VolumeInv
<1> QED
  BY CountersHold, <1>1, PTL

(* No deposit is minted for twice, by the same or by both instructions.    *)
THEOREM DepositsMintOnce == Spec => []MintedOnce
<1>1. BridgeInv => MintedOnce
  BY DEF BridgeInv, DepositInv, MintedOnce
<1> QED
  BY CountersHold, <1>1, PTL

-----------------------------------------------------------------------------
(* The vaults' leaves.                                                     *)

(* However deep the tree, the index's width never counts more leaves than  *)
(* the tree has.                                                           *)
LEMMA SignaturesAreLeaves ==
    ASSUME NEW d \in Depths
    PROVE  MaxSignatures(d) \in Nat /\ MaxSignatures(d) <= Leaves(d)
BY LeavesAssumption, VaultAssumption DEF MaxSignatures

(* An accepted signature is of the leaf the index stands at, and the index *)
(* moves past it.                                                          *)
LEMMA SignKeeps ==
    ASSUME LeafInv, NEW v \in Vaults, NEW i, Sign(v, i)
    PROVE  LeafInv'
<1>1. /\ vault[v].active /\ vault[v].leaf \in Nat /\ vault[v].depth \in Depths
      /\ i = vault[v].leaf
      /\ vault' = [vault EXCEPT ![v] = Used(vault[v])]
      /\ signed' = [signed EXCEPT ![v] = Append(signed[v], i)]
  BY DEF Sign, LeafInv, VaultFields
<1>2. vault[v].leaf + 1 <= MaxSignatures(vault[v].depth)
  BY <1>1, SignaturesAreLeaves DEF Sign, IsExhausted
<1>3. vault'[v] = [vault[v] EXCEPT !.leaf = @ + 1, !.operations = @ + 1]
  BY <1>1 DEF LeafInv, Used
<1>4. /\ vault'[v].leaf = vault[v].leaf + 1
      /\ vault'[v].active /\ vault'[v].depth = vault[v].depth
      /\ DOMAIN vault'[v] = VaultFields
  <2>1. DOMAIN vault[v] = VaultFields
    BY DEF LeafInv
  <2>2. DOMAIN vault'[v] = VaultFields
    BY <1>3, <2>1
  <2>3. vault'[v].leaf = vault[v].leaf + 1 /\ vault'[v].depth = vault[v].depth
    BY <1>3, <2>1 DEF VaultFields
  <2>4. vault'[v].active = vault[v].active
    BY <1>3, <2>1 DEF VaultFields
  <2> QED
    BY <1>1, <2>2, <2>3, <2>4
<1>5. signed'[v] = [j \in 1 .. vault[v].leaf + 1 |-> j - 1]
  <2>1. signed[v] = [j \in 1 .. vault[v].leaf |-> j - 1]
    BY DEF LeafInv
  <2>2. signed[v] \in Seq(Int) /\ Len(signed[v]) = vault[v].leaf
    BY <1>1, <2>1
  <2> QED
    BY <1>1, <2>1, <2>2 DEF LeafInv
<1>6. \A w \in Vaults : w # v => vault'[w] = vault[w] /\ signed'[w] = signed[w]
  BY <1>1 DEF LeafInv
<1>7. DOMAIN vault' = Vaults
  BY <1>1 DEF LeafInv
<1>8. DOMAIN signed' = Vaults
  BY <1>1 DEF LeafInv
<1>9. ASSUME NEW w \in Vaults
      PROVE  /\ DOMAIN vault'[w] = VaultFields
             /\ vault'[w].leaf \in Nat
             /\ signed'[w] = [j \in 1 .. vault'[w].leaf |-> j - 1]
             /\ ~vault'[w].active => vault'[w].leaf = 0
             /\ vault'[w].active => /\ vault'[w].depth \in Depths
                                    /\ vault'[w].leaf <= MaxSignatures(vault'[w].depth)
  <2>1. CASE w = v
    <3>1. vault'[v].leaf = vault[v].leaf + 1 /\ vault[v].leaf \in Nat
      BY <1>1, <1>4
    <3>2. vault'[v].leaf \in Nat
      BY <3>1
    <3>3. signed'[v] = [j \in 1 .. vault'[v].leaf |-> j - 1]
      BY <1>5, <3>1
    <3>4. vault'[v].leaf \in Nat /\ signed'[v] = [j \in 1 .. vault'[v].leaf |-> j - 1]
      BY <3>2, <3>3
    <3>5. vault'[v].depth \in Depths /\ vault'[v].leaf <= MaxSignatures(vault'[v].depth)
      BY <1>1, <1>2, <1>4
    <3>6. DOMAIN vault'[w] = VaultFields /\ vault'[w].leaf \in Nat
      BY <1>4, <2>1, <3>4
    <3>7. signed'[w] = [j \in 1 .. vault'[w].leaf |-> j - 1]
      BY <2>1, <3>4
    <3>8. vault'[w].active
      BY <1>4, <2>1
    <3>9. vault'[w].depth \in Depths /\ vault'[w].leaf <= MaxSignatures(vault'[w].depth)
      BY <2>1, <3>5
    <3> QED
      BY <3>6, <3>7, <3>8, <3>9
  <2>2. CASE w # v
    BY <1>6, <2>2 DEF LeafInv
  <2> QED
    BY <2>1, <2>2
<1> QED
  BY <1>7, <1>8, <1>9 DEF LeafInv

(* Opening starts at leaf 0, with nothing signed.                          *)
LEMMA OpenKeeps ==
    ASSUME LeafInv, NEW v \in Vaults, NEW d \in Depths, NEW m \in Mints, NEW b \in BOOLEAN,
           OpenXmssVault(v, d, m, b)
    PROVE  LeafInv'
<1>1. /\ vault[v].leaf = 0
      /\ vault' = [vault EXCEPT ![v] = [active |-> TRUE, leaf |-> 0, depth |-> d,
                                        mint |-> m, bridged |-> b, operations |-> 0]]
      /\ signed' = signed
  BY DEF OpenXmssVault, LeafInv, VaultFields
<1>2. 0 <= MaxSignatures(d)
  BY SignaturesAreLeaves
<1> QED
  BY <1>1, <1>2 DEF LeafInv, VaultFields

(* The leaves a vault has used are always those before its index.          *)
THEOREM LeavesHold == Spec => []LeafInv
<1>1. Init => LeafInv
  BY DEF Init, LeafInv, VaultFields
<1>2. LeafInv /\ [Next]_vars => LeafInv'
  <2> SUFFICES ASSUME LeafInv, [Next]_vars PROVE LeafInv'
    OBVIOUS
  <2>1. \/ UNCHANGED <<vault, signed>>
        \/ \E v \in Vaults, d \in Depths, m \in Mints, b \in BOOLEAN :
               OpenXmssVault(v, d, m, b)
        \/ \E v \in Vaults : \E i : Sign(v, i)
    BY DEF Next, VaultNext, WithdrawFromVault, DepositToVault, BridgeOutFromVault, vars
  <2>2. CASE UNCHANGED <<vault, signed>>
    BY <2>2 DEF LeafInv
  <2> QED
    BY <2>1, <2>2, OpenKeeps, SignKeeps
<1> QED
  BY <1>1, <1>2, PTL DEF Spec

(* No leaf signs twice, none beyond the tree, in whatever order a vault's  *)
(* withdrawals and bridge-outs come.                                       *)
THEOREM LeavesSignOnce == Spec => []LeafSignsOnce
<1>1. LeafInv => LeafSignsOnce
  <2> SUFFICES ASSUME LeafInv, NEW v \in Vaults,
                      NEW i \in 1 .. Len(signed[v]), NEW j \in 1 .. Len(signed[v])
               PROVE  /\ i # j => signed[v][i] # signed[v][j]
                      /\ signed[v][i] < Leaves(vault[v].depth)
    BY DEF LeafSignsOnce
  <2>1. signed[v] = [k \in 1 .. vault[v].leaf |-> k - 1] /\ vault[v].leaf \in Nat
    BY DEF LeafInv, VaultFields
  <2>2. Len(signed[v]) = vault[v].leaf
    BY <2>1
  <2>3. signed[v][i] = i - 1 /\ signed[v][j] = j - 1 /\ i <= vault[v].leaf
    BY <2>1, <2>2
  <2>4. vault[v].depth \in Depths /\ vault[v].leaf <= MaxSignatures(vault[v].depth)
    BY <2>2, <2>1 DEF LeafInv
  <2>5. vault[v].leaf <= Leaves(vault[v].depth)
    BY <2>1, <2>4, SignaturesAreLeaves, LeavesAssumption
  <2> QED
    BY <2>1, <2>3, <2>4, <2>5, LeavesAssumption
<1> QED
  BY LeavesHold, <1>1, PTL

-----------------------------------------------------------------------------
(* The balances.                                                           *)

Balances == Owners \X Mints

BalanceTypes ==
    /\ held \in [Balances -> Nat]
    /\ accounts \subseteq Balances
    /\ owed \in Int
    /\ outside \in Int
    /\ DOMAIN bridge = BridgeFields
    /\ bridge.mint \in Mints \cup {NoMint}
    /\ bridge.totalMinted \in Int
    /\ bridge.totalBurned \in Int

(* Before initialize nothing is in circulation but what came without the   *)
(* bridge: it sets the counters to 0.                                      *)
BalanceInv ==
    /\ BalanceTypes
    /\ ~Opened => bridge.totalMinted = 0 /\ bridge.totalBurned = 0
    /\ CountersTellSupply
    /\ ClaimsCover

(* The two sums are integers, and a change of one balance, or of one       *)
(* deposit's account, changes them by as much.                             *)
LEMMA SupplyChanges ==
    ASSUME BalanceTypes, held' \in [Balances -> Nat],
           NEW x \in Balances, \A y \in Balances : y # x => held'[y] = held[y]
    PROVE  AllSupply \in Int /\ AllSupply' = AllSupply - held[x] + held'[x]
<1>1. IsFiniteSet(Balances)
  BY AccountAssumption, FS_Product DEF Balances
<1>2. DOMAIN held = Balances /\ DOMAIN held' = Balances
  BY DEF BalanceTypes
<1>3. \A y \in Balances : held[y] \in Int /\ held'[y] \in Int
  BY DEF BalanceTypes
<1>4. /\ SumFunctionOnSet(held, Balances) \in Int
      /\ SumFunctionOnSet(held', Balances)
           = SumFunctionOnSet(held, Balances) - held[x] + held'[x]
  BY <1>1, <1>3, SumChanges
<1>5. AllSupply = SumFunctionOnSet(held, Balances)
  BY <1>2 DEF AllSupply, SumFunction
<1>6. AllSupply' = SumFunctionOnSet(held', Balances)
  BY <1>2 DEF AllSupply, SumFunction
<1> QED
  BY <1>4, <1>5, <1>6

LEMMA ClaimedChanges ==
    ASSUME processed \in [Txids -> Nat], processed' \in [Txids -> Nat],
           NEW t \in Txids, \A u \in Txids : u # t => processed'[u] = processed[u]
    PROVE  Claimed \in Int /\ Claimed' = Claimed - processed[t] + processed'[t]
<1>1. DOMAIN processed = Txids /\ DOMAIN processed' = Txids
  OBVIOUS
<1>2. \A u \in Txids : processed[u] \in Int /\ processed'[u] \in Int
  OBVIOUS
<1>3. /\ SumFunctionOnSet(processed, Txids) \in Int
      /\ SumFunctionOnSet(processed', Txids)
           = SumFunctionOnSet(processed, Txids) - processed[t] + processed'[t]
  BY <1>2, AccountAssumption, SumChanges
<1>4. Claimed = SumFunctionOnSet(processed, Txids)
  BY <1>1 DEF Claimed, SumFunction
<1>5. Claimed' = SumFunctionOnSet(processed', Txids)
  BY <1>1 DEF Claimed, SumFunction
<1> QED
  BY <1>3, <1>4, <1>5

LEMMA SumsAreIntegers ==
    ASSUME BalanceTypes, CounterTypes
    PROVE  AllSupply \in Int /\ Claimed \in Int
<1>1. IsFiniteSet(Balances) /\ IsFiniteSet(Txids)
  BY AccountAssumption, FS_Product DEF Balances
<1>2. AllSupply = SumFunctionOnSet(held, Balances)
  BY DEF BalanceTypes, AllSupply, SumFunction
<1>3. Claimed = SumFunctionOnSet(processed, Txids)
  BY DEF CounterTypes, Claimed, SumFunction
<1>4. \A y \in Balances : held[y] \in Int
  BY DEF BalanceTypes
<1>5. \A t \in Txids : processed[t] \in Int
  BY DEF CounterTypes
<1> QED
  BY <1>1, <1>2, <1>3, <1>4, <1>5, SumIsInteger

(* The fee is part of the amount.                                          *)
LEMMA NetIsPart ==
    ASSUME NEW a \in Nat
    PROVE  Net(a) \in Nat /\ Net(a) <= a
BY AmountAssumption DEF Net, Fee

(* Nothing is in circulation, claimed or owed at first.                    *)
LEMMA BalancesStart == BridgeInit => BalanceInv
<1> SUFFICES ASSUME BridgeInit PROVE BalanceInv
  OBVIOUS
<1>1. BalanceTypes
  <2>1. held \in [Balances -> Nat] /\ owed \in Int /\ outside \in Int
    BY DEF BridgeInit, Balances
  <2>2. accounts \subseteq Balances
    BY AccountAssumption DEF BridgeInit, Balances
  <2>3. /\ DOMAIN bridge = BridgeFields
        /\ bridge.mint = NoMint /\ bridge.totalMinted = 0 /\ bridge.totalBurned = 0
    BY DEF BridgeInit, BridgeFields
  <2> QED
    BY <2>1, <2>2, <2>3 DEF BalanceTypes
<1>2. IsFiniteSet(Balances) /\ IsFiniteSet(Txids)
  BY AccountAssumption, FS_Product DEF Balances
<1>3. AllSupply = 0
  <2>1. DOMAIN held = Balances /\ \A y \in Balances : held[y] = 0
    BY DEF BridgeInit, Balances
  <2>2. SumFunctionOnSet(held, Balances) = 0
    BY <1>2, <2>1, SumOfZeros
  <2> QED
    BY <2>1, <2>2 DEF AllSupply, SumFunction
<1>4. Claimed = 0
  <2>1. DOMAIN processed = Txids /\ \A t \in Txids : processed[t] = 0
    BY DEF BridgeInit
  <2>2. SumFunctionOnSet(processed, Txids) = 0
    BY <1>2, <2>1, SumOfZeros
  <2> QED
    BY <2>1, <2>2 DEF Claimed, SumFunction
<1>5. bridge.totalMinted = 0 /\ bridge.totalBurned = 0 /\ owed = 0 /\ outside = 0
  BY DEF BridgeInit
<1> QED
  BY <1>1, <1>3, <1>4, <1>5 DEF BalanceInv, CountersTellSupply, ClaimsCover

(* What moves no token and makes no deposit's account keeps the books.     *)
LEMMA BalancesRest ==
    ASSUME BalanceInv, UNCHANGED <<held, processed, owed, outside>>,
           accounts' \subseteq Balances,
           DOMAIN bridge' = BridgeFields,
           bridge'.mint \in Mints \cup {NoMint},
           bridge'.totalMinted = bridge.totalMinted,
           bridge'.totalBurned = bridge.totalBurned,
           Opened => Opened'
    PROVE  BalanceInv'
<1>1. AllSupply' = AllSupply /\ Claimed' = Claimed
  BY DEF AllSupply, Claimed
<1>2. BalanceTypes'
  BY DEF BalanceInv, BalanceTypes
<1> QED
  BY <1>1, <1>2 DEF BalanceInv, CountersTellSupply, ClaimsCover

(* A burn takes the amount out of circulation and owes no more than it.    *)
LEMMA BurnBalances ==
    ASSUME BalanceInv, CounterTypes, NEW o \in Owners, NEW a \in Amounts, Burn(o, a)
    PROVE  BalanceInv'
<1>1. /\ a \in Nat /\ Opened
      /\ held[<<o, bridge.mint>>] >= a
      /\ bridge' = Counted(a)
      /\ held' = [held EXCEPT ![<<o, bridge.mint>>] = @ - a]
      /\ owed' = owed + Net(a)
      /\ UNCHANGED <<processed, accounts, outside>>
  BY AmountAssumption DEF Burn, Running
<1> DEFINE x == <<o, bridge.mint>>
<1>2. x \in Balances
  BY <1>1 DEF BalanceInv, BalanceTypes, Balances, Opened
<1>3. /\ held' \in [Balances -> Nat] /\ held'[x] = held[x] - a /\ held[x] \in Nat
      /\ \A y \in Balances : y # x => held'[y] = held[y]
  BY <1>1, <1>2 DEF BalanceInv, BalanceTypes
<1>4. /\ DOMAIN bridge' = BridgeFields
      /\ bridge'.mint = bridge.mint
      /\ bridge'.totalMinted = bridge.totalMinted
      /\ bridge'.totalBurned = bridge.totalBurned + a
  BY <1>1 DEF Counted, BalanceInv, BalanceTypes, BridgeFields
<1>5. AllSupply \in Int /\ AllSupply' = AllSupply - a
  <2>1. AllSupply \in Int /\ AllSupply' = AllSupply - held[x] + held'[x]
    <3> HIDE DEF x
    <3> QED
      BY <1>2, <1>3, SupplyChanges DEF BalanceInv
  <2> HIDE DEF x
  <2> QED
    BY <1>1, <1>3, <2>1
<1>6. Claimed' = Claimed /\ Claimed \in Int
  BY <1>1, SumsAreIntegers DEF Claimed, BalanceInv
<1>7. Net(a) \in Nat /\ Net(a) <= a
  BY <1>1, NetIsPart
<1>8. BalanceTypes'
  BY <1>1, <1>3, <1>4, <1>7 DEF BalanceInv, BalanceTypes
<1>9. CountersTellSupply'
  BY <1>1, <1>4, <1>5 DEF BalanceInv, BalanceTypes, CountersTellSupply
<1>10. ClaimsCover'
  BY <1>1, <1>5, <1>6, <1>7 DEF BalanceInv, BalanceTypes, ClaimsCover
<1>11. Opened'
  BY <1>1, <1>4 DEF Opened
<1> QED
  BY <1>8, <1>9, <1>10, <1>11 DEF BalanceInv

(* A mint puts no more into circulation than it claims was deposited.      *)
LEMMA MintBalances ==
    ASSUME BalanceInv, CounterTypes, CounterTypes',
           NEW o \in Owners, NEW t \in Txids, NEW a \in Amounts, NEW n,
           Fresh(t), MintTo(o, t, a, n)
    PROVE  BalanceInv'
<1>1. /\ a \in Nat /\ Opened /\ processed[t] = 0
      /\ <<o, bridge.mint>> \in accounts
      /\ processed' = [processed EXCEPT ![t] = a]
      /\ held' = [held EXCEPT ![<<o, bridge.mint>>] = @ + Net(a)]
      /\ bridge' = [bridge EXCEPT !.totalMinted = @ + Net(a)]
      /\ UNCHANGED <<accounts, owed, outside>>
  BY AmountAssumption DEF MintTo, Fresh, Running, Credit
<1> DEFINE x == <<o, bridge.mint>>
<1>2. x \in Balances
  BY <1>1 DEF BalanceInv, BalanceTypes
<1>3. Net(a) \in Nat /\ Net(a) <= a
  BY <1>1, NetIsPart
<1>4. /\ held' \in [Balances -> Nat] /\ held'[x] = held[x] + Net(a) /\ held[x] \in Nat
      /\ \A y \in Balances : y # x => held'[y] = held[y]
  BY <1>1, <1>2, <1>3 DEF BalanceInv, BalanceTypes
<1>5. /\ DOMAIN bridge' = BridgeFields
      /\ bridge'.mint = bridge.mint
      /\ bridge'.totalMinted = bridge.totalMinted + Net(a)
      /\ bridge'.totalBurned = bridge.totalBurned
  BY <1>1 DEF BalanceInv, BalanceTypes, BridgeFields
<1>6. AllSupply \in Int /\ AllSupply' = AllSupply + Net(a)
  <2>1. AllSupply \in Int /\ AllSupply' = AllSupply - held[x] + held'[x]
    <3> HIDE DEF x
    <3> QED
      BY <1>2, <1>4, SupplyChanges DEF BalanceInv
  <2> HIDE DEF x
  <2> QED
    BY <1>3, <1>4, <2>1
<1>7. Claimed \in Int /\ Claimed' = Claimed + a
  <2>1. \A u \in Txids : u # t => processed'[u] = processed[u]
    BY <1>1 DEF CounterTypes
  <2>2. Claimed \in Int /\ Claimed' = Claimed - processed[t] + processed'[t]
    BY <2>1, ClaimedChanges DEF CounterTypes
  <2>3. processed'[t] = a
    BY <1>1 DEF CounterTypes
  <2> QED
    BY <1>1, <2>2, <2>3
<1>8. BalanceTypes'
  BY <1>1, <1>3, <1>4, <1>5 DEF BalanceInv, BalanceTypes
<1>9. CountersTellSupply'
  BY <1>1, <1>3, <1>5, <1>6 DEF BalanceInv, BalanceTypes, CountersTellSupply
<1>10. ClaimsCover'
  BY <1>1, <1>3, <1>6, <1>7 DEF BalanceInv, BalanceTypes, ClaimsCover
<1>11. Opened'
  BY <1>1, <1>5 DEF Opened
<1> QED
  BY <1>8, <1>9, <1>10, <1>11 DEF BalanceInv

(* A transfer moves what it takes.                                         *)
LEMMA TransferBalances ==
    ASSUME BalanceInv, NEW from, NEW to, NEW m, NEW a \in Amounts,
           Transfer(from, to, m, a)
    PROVE  BalanceInv'
<1> DEFINE x == <<from, m>>
           y == <<to, m>>
           taken == [held EXCEPT ![x] = @ - a]
<1>1. /\ a \in Nat /\ x \in Balances /\ y \in Balances /\ held[x] >= a
      /\ held' = [held EXCEPT ![x] = @ - a, ![y] = @ + a]
      /\ UNCHANGED <<bridge, processed, accounts, owed, outside>>
  BY AmountAssumption DEF Transfer, BalanceInv, BalanceTypes
<1>2. held \in [Balances -> Nat]
  BY DEF BalanceInv, BalanceTypes
<1> HIDE DEF x, y
<1>3. CASE x = y
  <2>1. \A z \in Balances : held'[z] = held[z]
    BY <1>1, <1>2, <1>3
  <2>2. held' = held
    BY <1>1, <1>2, <2>1
  <2> QED
    BY <1>1, <2>2 DEF BalanceInv, BalanceTypes, CountersTellSupply, ClaimsCover, AllSupply,
        Claimed, Opened
<1>4. CASE x # y
  <2>1. /\ taken \in [Balances -> Nat] /\ taken[x] = held[x] - a /\ taken[y] = held[y]
        /\ \A z \in Balances : z # x => taken[z] = held[z]
    BY <1>1, <1>2, <1>4
  <2>2. held' = [taken EXCEPT ![y] = @ + a]
    BY <1>1, <1>2, <1>4
  <2> HIDE DEF taken
  <2>3. /\ held' \in [Balances -> Nat] /\ held'[y] = taken[y] + a
        /\ \A z \in Balances : z # y => held'[z] = taken[z]
    BY <1>1, <2>1, <2>2
  <2>4. IsFiniteSet(Balances)
    BY AccountAssumption, FS_Product DEF Balances
  <2>5. /\ \A z \in Balances : held[z] \in Int /\ taken[z] \in Int /\ held'[z] \in Int
        /\ held[x] \in Int /\ held[y] \in Int
    BY <1>1, <1>2, <2>1, <2>3
  <2>6. /\ SumFunctionOnSet(held, Balances) \in Int
        /\ SumFunctionOnSet(taken, Balances)
             = SumFunctionOnSet(held, Balances) - held[x] + taken[x]
    BY <1>1, <2>1, <2>4, <2>5, SumChanges
  <2>7. SumFunctionOnSet(held', Balances)
          = SumFunctionOnSet(taken, Balances) - taken[y] + held'[y]
    <3> DEFINE after == held'
    <3>1. /\ \A z \in Balances : taken[z] \in Int /\ after[z] \in Int
          /\ \A z \in Balances : z # y => after[z] = taken[z]
          /\ y \in Balances
      BY <1>1, <2>3, <2>5
    <3> HIDE DEF after
    <3>2. SumFunctionOnSet(after, Balances)
            = SumFunctionOnSet(taken, Balances) - taken[y] + after[y]
      BY <2>4, <3>1, SumChanges
    <3> QED
      BY <3>2 DEF after
  <2>8. SumFunctionOnSet(held', Balances) = SumFunctionOnSet(held, Balances)
    BY <1>1, <2>1, <2>3, <2>5, <2>6, <2>7
  <2>9. AllSupply = SumFunctionOnSet(held, Balances)
    BY <1>2 DEF AllSupply, SumFunction
  <2>10. AllSupply' = SumFunctionOnSet(held', Balances)
    BY <2>3 DEF AllSupply, SumFunction
  <2>11. AllSupply' = AllSupply /\ Claimed' = Claimed
    BY <1>1, <2>8, <2>9, <2>10 DEF Claimed
  <2> QED
    BY <1>1, <2>3, <2>11 DEF BalanceInv, BalanceTypes, CountersTellSupply, ClaimsCover, Opened
<1> QED
  BY <1>3, <1>4

(* What is minted or burned without the bridge is counted as that.         *)
LEMMA OutsideBalances ==
    ASSUME BalanceInv, CounterTypes, NEW x \in Balances, NEW d \in Int,
           held[x] + d \in Nat,
           held' = [held EXCEPT ![x] = held[x] + d],
           outside' = outside + d,
           UNCHANGED <<bridge, processed, accounts, owed>>
    PROVE  BalanceInv'
<1>1. /\ held' \in [Balances -> Nat] /\ held'[x] = held[x] + d /\ held[x] \in Nat
      /\ \A y \in Balances : y # x => held'[y] = held[y]
  BY DEF BalanceInv, BalanceTypes
<1>2. AllSupply \in Int /\ AllSupply' = AllSupply - held[x] + held'[x]
  BY <1>1, SupplyChanges DEF BalanceInv
<1>3. AllSupply' = AllSupply + d
  BY <1>1, <1>2
<1>4. Claimed' = Claimed /\ Claimed \in Int
  BY SumsAreIntegers DEF Claimed, BalanceInv
<1>5. BalanceTypes'
  BY <1>1 DEF BalanceInv, BalanceTypes
<1> QED
  BY <1>2, <1>3, <1>4, <1>5
  DEF BalanceInv, BalanceTypes, CountersTellSupply, ClaimsCover, Opened

(* Every instruction of the bridge keeps the books.                        *)
LEMMA BridgeBalances ==
    ASSUME BalanceInv, CounterTypes, CounterTypes', BridgeNext
    PROVE  BalanceInv'
<1> USE AmountAssumption, AccountAssumption
<1>1. CASE \E m \in Mints, th \in Thresholds, l \in Limits : Initialize(m, th, l)
  <2> PICK m \in Mints, th \in Thresholds, l \in Limits : Initialize(m, th, l)
    BY <1>1
  <2>1. /\ bridge.totalMinted = 0 /\ bridge.totalBurned = 0
        /\ UNCHANGED <<held, processed, owed, outside, accounts>>
    BY DEF Initialize, BalanceInv
  <2>2. /\ DOMAIN bridge' = BridgeFields /\ bridge'.mint = m
        /\ bridge'.totalMinted = 0 /\ bridge'.totalBurned = 0
    BY DEF Initialize, BridgeFields
  <2>3. bridge'.mint \in Mints \cup {NoMint} /\ Opened'
    BY <2>2 DEF Opened
  <2> QED
    BY <2>1, <2>2, <2>3, BalancesRest DEF BalanceInv, BalanceTypes
<1>2. CASE \E u \in Users, a \in Amounts : BurnForRedemption(u, a)
  BY <1>2, BurnBalances DEF BurnForRedemption
<1>3. CASE \E o \in Owners, t \in Txids, a \in Amounts, n \in 0 .. MaxNamed :
             \/ MintFromDeposit(o, t, a, n)
             \/ MintToVault(o, t, a, n)
  BY <1>3, MintBalances DEF MintFromDeposit, MintToVault
<1>4. CASE \E b \in Attestable, n \in 0 .. MaxNamed : UpdateVaultBalance(b, n)
  <2> PICK b \in Attestable : Opened /\ bridge' = [bridge EXCEPT !.vaultBalance = b]
                              /\ UNCHANGED <<held, processed, owed, outside, accounts>>
    BY <1>4 DEF UpdateVaultBalance
  <2> QED
    BY BalancesRest DEF BalanceInv, BalanceTypes, BridgeFields, Opened
<1>5. CASE \E flag \in BOOLEAN : SetPaused(flag)
  <2> PICK flag \in BOOLEAN : Opened /\ bridge' = [bridge EXCEPT !.paused = flag]
                             /\ UNCHANGED <<held, processed, owed, outside, accounts>>
    BY <1>5 DEF SetPaused
  <2> QED
    BY BalancesRest DEF BalanceInv, BalanceTypes, BridgeFields, Opened
<1>6. CASE \E m \in Mints : SetMint(m)
  <2> PICK m \in Mints : Opened /\ bridge' = [bridge EXCEPT !.mint = m]
                        /\ UNCHANGED <<held, processed, owed, outside, accounts>>
    BY <1>6 DEF SetMint
  <2> QED
    BY BalancesRest DEF BalanceInv, BalanceTypes, BridgeFields, Opened
<1>7. CASE NextEpoch
  <2>1. UNCHANGED <<bridge, held, processed, owed, outside, accounts>>
    BY <1>7 DEF NextEpoch
  <2> QED
    BY <2>1, BalancesRest DEF BalanceInv, BalanceTypes, Opened
<1>8. CASE \E m \in Mints : HandOver(m)
  <2>1. UNCHANGED <<bridge, held, processed, owed, outside, accounts>>
    BY <1>8 DEF HandOver
  <2> QED
    BY <2>1, BalancesRest DEF BalanceInv, BalanceTypes, Opened
<1>9. CASE \E m \in Mints, o \in Owners, a \in Amounts : MintOutside(o, m, a)
  <2> PICK m \in Mints, o \in Owners, a \in Amounts : MintOutside(o, m, a)
    BY <1>9
  <2>1. /\ <<o, m>> \in Balances /\ a \in Nat
        /\ held' = [held EXCEPT ![<<o, m>>] = held[<<o, m>>] + a]
        /\ outside' = outside + a
        /\ UNCHANGED <<bridge, processed, accounts, owed>>
    BY DEF MintOutside, Balances
  <2>2. held[<<o, m>>] + a \in Nat /\ a \in Int
    BY <2>1 DEF BalanceInv, BalanceTypes
  <2> DEFINE x == <<o, m>>
  <2>3. /\ x \in Balances /\ held[x] + a \in Nat
        /\ held' = [held EXCEPT ![x] = held[x] + a]
    BY <2>1, <2>2
  <2> HIDE DEF x
  <2> QED
    BY <2>1, <2>2, <2>3, OutsideBalances
<1>10. CASE \E m \in Mints, u \in Users, a \in Amounts : BurnOutside(u, m, a)
  <2> PICK m \in Mints, u \in Users, a \in Amounts : BurnOutside(u, m, a)
    BY <1>10
  <2> DEFINE d == -a
  <2>1. /\ <<u, m>> \in Balances /\ a \in Nat /\ held[<<u, m>>] >= a
        /\ held' = [held EXCEPT ![<<u, m>>] = held[<<u, m>>] - a]
        /\ outside' = outside - a
        /\ UNCHANGED <<bridge, processed, accounts, owed>>
    BY DEF BurnOutside, Balances
  <2>2. held[<<u, m>>] \in Nat /\ outside \in Int
    BY <2>1 DEF BalanceInv, BalanceTypes
  <2>3. /\ d \in Int /\ held[<<u, m>>] + d \in Nat
        /\ held[<<u, m>>] - a = held[<<u, m>>] + d
        /\ outside - a = outside + d
    BY <2>1, <2>2
  <2>4. held' = [held EXCEPT ![<<u, m>>] = held[<<u, m>>] + d] /\ outside' = outside + d
    BY <2>1, <2>3
  <2> DEFINE x == <<u, m>>
  <2>5. /\ x \in Balances /\ held[x] + d \in Nat
        /\ held' = [held EXCEPT ![x] = held[x] + d]
    BY <2>1, <2>3, <2>4
  <2> HIDE DEF d, x
  <2> QED
    BY <2>1, <2>3, <2>4, <2>5, OutsideBalances
<1> QED
  BY <1>1, <1>2, <1>3, <1>4, <1>5, <1>6, <1>7, <1>8, <1>9, <1>10 DEF BridgeNext

(* An instruction of the vault program opens an account, moves tokens, or  *)
(* burns them through the bridge; the vault's mint is one of the bridge's  *)
(* where there are tokens to move.                                         *)
LEMMA VaultBalances ==
    ASSUME BalanceInv, CounterTypes, VaultNext
    PROVE  BalanceInv'
<1>1. ASSUME NEW v \in Vaults, NEW d, NEW m \in Mints, NEW b, OpenXmssVault(v, d, m, b)
      PROVE  BalanceInv'
  <2>1. /\ accounts' = accounts \cup {<<v, m>>}
        /\ UNCHANGED <<bridge, held, processed, owed, outside>>
    BY <1>1 DEF OpenXmssVault
  <2>2. accounts' \subseteq Balances
    BY <2>1, VaultAssumption DEF BalanceInv, BalanceTypes, Balances
  <2> QED
    BY <2>1, <2>2, BalancesRest DEF BalanceInv, BalanceTypes, Opened
<1>2. \/ \E v \in Vaults, d \in Depths, m \in Mints, b \in BOOLEAN :
             OpenXmssVault(v, d, m, b)
      \/ \E from \in Owners, to \in Owners, a \in Amounts : \E m : Transfer(from, to, m, a)
      \/ \E v \in Owners, a \in Amounts : Burn(v, a)
  BY VaultAssumption, AccountAssumption
  DEF VaultNext, WithdrawFromVault, DepositToVault, BridgeOutFromVault
<1> QED
  BY <1>1, <1>2, TransferBalances, BurnBalances

(* The books of both programs balance: the tokens in circulation are those *)
(* the counters tell and those that came without the bridge, and what the  *)
(* mint instructions claimed, less what is owed, covers the bridge's.      *)
THEOREM BalancesHold == Spec => []BalanceInv
<1>1. Init => BalanceInv
  BY BalancesStart DEF Init
<1>2. BalanceInv /\ BridgeInv /\ BridgeInv' /\ [Next]_vars => BalanceInv'
  <2> SUFFICES ASSUME BalanceInv, BridgeInv, BridgeInv', [Next]_vars PROVE BalanceInv'
    OBVIOUS
  <2>1. CounterTypes /\ CounterTypes'
    BY DEF BridgeInv
  <2>2. CASE Next
    BY <2>1, <2>2, BridgeBalances, VaultBalances DEF Next
  <2>3. CASE UNCHANGED vars
    BY <2>3 DEF vars, bridgeVars, BalanceInv, BalanceTypes, CountersTellSupply, ClaimsCover,
        AllSupply, Claimed, Opened
  <2> QED
    BY <2>2, <2>3
<1> QED
  BY <1>1, <1>2, CountersHold, PTL DEF Spec

(* What the bridge has minted less what was burned through it is in        *)
(* circulation, in wallets and vaults together, but for exactly what was   *)
(* minted and burned without it, in whatever mints the bridge was told to  *)
(* use (lib.rs:97, 169, 286, 317-331).                                     *)
THEOREM CountersTell == Spec => []CountersTellSupply
<1>1. BalanceInv => CountersTellSupply
  BY DEF BalanceInv
<1> QED
  BY BalancesHold, <1>1, PTL

(* What the mint instructions claimed was deposited covers every token that*)
(* came by the bridge, with every release the burns ask for paid: no fee,  *)
(* rounding or order of instructions takes more.  That a claimed deposit   *)
(* was made is not checked by the code and not claimed here (lib.rs:81-82, *)
(* 139-150).                                                               *)
THEOREM ClaimsCoverBridged == Spec => []ClaimsCover
<1>1. BalanceInv => ClaimsCover
  BY DEF BalanceInv
<1> QED
  BY BalancesHold, <1>1, PTL

(***************************************************************************)
(* The theater.                                                            *)
(***************************************************************************)

(* The types of the books, and of what payers and programs go through.     *)
Invoices ==
    [price : Nat, status : {"pending", "paid", "redeemed", "expired"}, for : Payers, on : Nat]
States == [index : Nat, peer : Nat]
Posts == [invoice : Nat, channel : Nat \ {0}, index : Nat, peer : Nat]
Calls ==
    {Calm} \cup [at : {"loading", "faucet", "plain"}, invoice : Nat]
           \cup [at : {"reading"}, invoice : Nat, channel : Nat \ {0}]
           \cup [at : {"posting"}, post : Posts]
Left == Nat \ {0}
Doings ==
    {Off} \cup [at : {"turn", "channel", "view"}, left : Left]
          \cup [at : {"paying", "redeem"}, left : Left, invoice : Nat]
          \cup [at : {"lap"}, left : Left, channel : Nat \ {0}, view : States]
          \cup [at : {"first", "again", "reread"}, left : Left, invoice : Nat,
                channel : Nat \ {0}, view : States]

TheaterTypes ==
    /\ cached \in 0 .. Len(channels)
    /\ saved \in 0 .. Len(channels)
    /\ call \in [Payers -> Calls]
    /\ act \in [Payers -> Doings]
    /\ late \subseteq Posts
    /\ faults \in Nat
    /\ settled \in Nat

(* The provider's books.                                                   *)
LedgerInv ==
    /\ invoices \in Seq(Invoices)
    /\ channels \in Seq(States)
    /\ \A i \in DOMAIN invoices :
        /\ invoices[i].on \in 0 .. Len(channels)
        /\ Status(i) \in {"paid", "redeemed"} <=> invoices[i].on # 0
    /\ BooksBalance

(* A view tells a state its channel was in, which is the channel's own as  *)
(* long as the index is; and what is posted from it comes to the balance   *)
(* and the invoice's price.                                                *)
Tells(view, c) ==
    /\ c \in DOMAIN channels
    /\ view.index <= channels[c].index
    /\ view.index = channels[c].index => view.peer = channels[c].peer

Follows(post) ==
    /\ post.invoice \in DOMAIN invoices
    /\ post.channel \in DOMAIN channels
    /\ post.index <= channels[post.channel].index + 1
    /\ post.index = channels[post.channel].index + 1 =>
         post.peer = channels[post.channel].peer + invoices[post.invoice].price

(* Invoice i is payer p's, at a price.                                     *)
Owes(p, i, price) ==
    /\ i \in DOMAIN invoices
    /\ invoices[i].for = p
    /\ invoices[i].price = price

(* Payer p's program, and the call it makes: an ask's invoice is paid by   *)
(* nothing but the post it is about to make.                               *)
Unnamed(i) == \A post \in late : post.invoice # i

ProgramInv(p) ==
    /\ act[p].at \in {"paying", "redeem"} => Owes(p, act[p].invoice, AskPrice)
    /\ act[p].at = "redeem" => Status(act[p].invoice) = "paid"
    /\ act[p].at = "paying" =>
         Status(act[p].invoice) \in {"pending", "expired"} /\ Unnamed(act[p].invoice)
    /\ act[p].at = "lap" => Tells(act[p].view, act[p].channel)
    /\ act[p].at \in {"first", "again", "reread"} =>
         Owes(p, act[p].invoice, LapPrice) /\ act[p].channel \in DOMAIN channels

CallInv(p) ==
    /\ call[p] # Calm => act[p].at \in {"paying", "view", "first", "again"}
    /\ call[p].at \in {"loading", "faucet", "plain", "reading"} =>
         \/ act[p].at = "paying" /\ call[p].invoice = act[p].invoice
         \/ act[p].at = "view" /\ call[p].invoice = NoInvoice
    /\ call[p].at = "reading" => call[p].channel \in DOMAIN channels
    /\ call[p].at = "posting" =>
         /\ Follows(call[p].post)
         /\ \/ act[p].at = "paying" /\ call[p].post.invoice = act[p].invoice
            \/ /\ act[p].at \in {"first", "again"}
               /\ call[p].post = Post(act[p].invoice, LapPrice, act[p].channel, act[p].view)

LateInv ==
    /\ \A post \in late : Follows(post)
    /\ late # {} => faults > 0

(* What is counted is what was paid, but for an answer still awaited.      *)
Unsettled == {act[p].invoice : p \in {q \in Payers : act[q].at = "redeem"}}
Reckoned == PaidInvoices \ Unsettled

MeterInv ==
    /\ settled <= SumFunctionOnSet(Prices, Reckoned)
    /\ faults = 0 => settled = SumFunctionOnSet(Prices, Reckoned)

TheaterInv ==
    /\ TheaterTypes /\ LedgerInv /\ LateInv /\ MeterInv
    /\ \A p \in Payers : ProgramInv(p) /\ CallInv(p)

-----------------------------------------------------------------------------
(* A sum of naturals is one, and counts at least what a part of it does.   *)
LEMMA SumGrows ==
    ASSUME NEW f, NEW S, IsFiniteSet(S), \A s \in S : f[s] \in Nat
    PROVE  \A T \in SUBSET S : \A V \in SUBSET T :
             /\ SumFunctionOnSet(f, V) \in Nat
             /\ SumFunctionOnSet(f, V) <= SumFunctionOnSet(f, T)
<1> DEFINE Good == {T \in SUBSET S : \A V \in SUBSET T :
                        /\ SumFunctionOnSet(f, V) \in Nat
                        /\ SumFunctionOnSet(f, V) <= SumFunctionOnSet(f, T)}
<1>1. ASSUME NEW T \in SUBSET S, \A U \in SUBSET T : U # T => U \in Good
      PROVE  T \in Good
  <2>1. IsFiniteSet(T)
    BY FS_Subset
  <2>2. SumFunctionOnSet(f, T) \in Nat
    <3>1. CASE T = {}
      BY <3>1, SumEmpty
    <3>2. CASE T # {}
      <4>1. PICK c \in T : SumFunctionOnSet(f, T) = f[c] + SumFunctionOnSet(f, T \ {c})
        BY <2>1, <3>2, SumTakes
      <4>2. SumFunctionOnSet(f, T \ {c}) \in Nat
        <5>1. T \ {c} \in Good
          BY <1>1, <4>1
        <5> QED
          BY <5>1
      <4> QED
        BY <4>1, <4>2
    <3> QED
      BY <3>1, <3>2
  <2>3. ASSUME NEW V \in SUBSET T, V # T
        PROVE  /\ SumFunctionOnSet(f, V) \in Nat
               /\ SumFunctionOnSet(f, V) <= SumFunctionOnSet(f, T)
    <3>1. PICK x \in T : x \notin V
      BY <2>3
    <3>2. T \ {x} \in Good /\ V \in SUBSET (T \ {x})
      BY <1>1, <3>1
    <3>3. /\ SumFunctionOnSet(f, V) \in Nat
          /\ SumFunctionOnSet(f, V) <= SumFunctionOnSet(f, T \ {x})
          /\ SumFunctionOnSet(f, T \ {x}) \in Nat
      BY <3>2
    <3>4. SumFunctionOnSet(f, T) = f[x] + SumFunctionOnSet(f, T \ {x})
      <4>1. \A s \in T : f[s] \in Int
        OBVIOUS
      <4> QED
        BY <2>1, <4>1, SumRemoves
    <3>5. f[x] \in Nat
      OBVIOUS
    <3> HIDE DEF Good
    <3> QED
      BY <3>3, <3>4, <3>5
  <2> QED
    BY <2>2, <2>3
<1>2. \A T \in SUBSET S : T \in Good
  <2> HIDE DEF Good
  <2> QED
    BY <1>1, SubsetInduction
<1> QED
  BY <1>2

-----------------------------------------------------------------------------
(* The provider's books.                                                   *)
LEMMA LedgerFacts ==
    ASSUME LedgerInv
    PROVE  /\ Len(invoices) \in Nat /\ DOMAIN invoices = 1 .. Len(invoices)
           /\ Len(channels) \in Nat /\ DOMAIN channels = 1 .. Len(channels)
           /\ IsFiniteSet(DOMAIN invoices)
           /\ \A i \in DOMAIN invoices : invoices[i] \in Invoices
           /\ \A c \in DOMAIN channels : channels[c] \in States
           /\ \A i \in DOMAIN invoices : Prices[i] = invoices[i].price /\ Prices[i] \in Nat
<1>1. /\ Len(invoices) \in Nat /\ DOMAIN invoices = 1 .. Len(invoices)
      /\ Len(channels) \in Nat /\ DOMAIN channels = 1 .. Len(channels)
      /\ \A i \in DOMAIN invoices : invoices[i] \in Invoices
      /\ \A c \in DOMAIN channels : channels[c] \in States
  BY DEF LedgerInv
<1>2. IsFiniteSet(DOMAIN invoices)
  BY <1>1, FS_Interval
<1>3. \A i \in DOMAIN invoices : Prices[i] = invoices[i].price /\ Prices[i] \in Nat
  BY <1>1 DEF Prices, Invoices
<1> QED
  BY <1>1, <1>2, <1>3

(* What is on the books stays: an invoice its price and payer, a channel   *)
(* its state until a later one.                                            *)
Grows ==
    /\ \A i \in DOMAIN invoices :
        /\ i \in DOMAIN invoices'
        /\ invoices'[i].price = invoices[i].price
        /\ invoices'[i].for = invoices[i].for
    /\ \A c \in DOMAIN channels :
        /\ c \in DOMAIN channels'
        /\ channels'[c] = channels[c] \/ channels'[c].index > channels[c].index

(* No invoice but those of S has been paid or redeemed.                    *)
MovesOnly(S) ==
    \A i \in DOMAIN invoices : i \notin S =>
        \/ Status(i)' = Status(i)
        \/ Status(i) = "pending" /\ Status(i)' = "expired"

(* Where nothing is paid the books balance as before.                      *)
LEMMA BooksKeep ==
    ASSUME LedgerInv,
           Len(channels') \in Nat, DOMAIN channels' = 1 .. Len(channels'),
           Len(channels) <= Len(channels'), DOMAIN invoices \subseteq DOMAIN invoices',
           \A i \in DOMAIN invoices :
               invoices'[i].price = invoices[i].price /\ invoices'[i].on = invoices[i].on,
           \A i \in DOMAIN invoices' : i \notin DOMAIN invoices => invoices'[i].on = 0,
           \A c \in DOMAIN channels : channels'[c] = channels[c],
           \A c \in DOMAIN channels' : c \notin DOMAIN channels =>
               channels'[c].index = 0 /\ channels'[c].peer = 0
    PROVE  BooksBalance'
<1> SUFFICES ASSUME NEW c \in DOMAIN channels'
             PROVE  /\ channels'[c].peer = SumFunctionOnSet(Prices', PaidOn(c)')
                    /\ channels'[c].index = Cardinality(PaidOn(c)')
  BY DEF BooksBalance
<1>1. c # 0
  OBVIOUS
<1>2. PaidOn(c)' = PaidOn(c)
  BY <1>1 DEF PaidOn
<1>3. PaidOn(c) \subseteq DOMAIN invoices /\ IsFiniteSet(PaidOn(c))
  <2>1. PaidOn(c) \subseteq DOMAIN invoices
    BY DEF PaidOn
  <2> QED
    BY <2>1, LedgerFacts, FS_Subset
<1>4. CASE c \in DOMAIN channels
  <2>1. /\ channels[c].peer = SumFunctionOnSet(Prices, PaidOn(c))
        /\ channels[c].index = Cardinality(PaidOn(c))
    BY <1>4 DEF LedgerInv, BooksBalance
  <2>2. \A i \in PaidOn(c) : Prices[i] \in Int /\ Prices'[i] = Prices[i]
    BY <1>3, LedgerFacts DEF Prices
  <2>3. SumFunctionOnSet(Prices', PaidOn(c)) = SumFunctionOnSet(Prices, PaidOn(c))
    BY <1>3, <2>2, SumAgrees
  <2> QED
    BY <1>2, <1>4, <2>1, <2>3
<1>5. CASE c \notin DOMAIN channels
  <2>1. PaidOn(c) = {}
    <3>1. \A i \in DOMAIN invoices : invoices[i].on \in 0 .. Len(channels)
      BY DEF LedgerInv
    <3>2. \A i \in DOMAIN invoices : invoices[i].on # c
      BY <1>1, <1>5, <3>1, LedgerFacts
    <3> QED
      BY <3>2 DEF PaidOn
  <2> QED
    BY <1>2, <1>5, <2>1, SumEmpty, FS_EmptySet
<1> QED
  BY <1>4, <1>5

LEMMA LedgerRests ==
    ASSUME LedgerInv, UNCHANGED lspVars
    PROVE  LedgerInv' /\ Grows /\ MovesOnly({})
<1>1. invoices' = invoices /\ channels' = channels
  BY DEF lspVars
<1>2. Prices' = Prices /\ \A c \in DOMAIN channels : PaidOn(c)' = PaidOn(c)
  BY <1>1 DEF Prices, PaidOn
<1>3. BooksBalance'
  BY <1>1, <1>2 DEF LedgerInv, BooksBalance
<1> QED
  BY <1>1, <1>3 DEF LedgerInv, Grows, MovesOnly, Status

LEMMA LedgerIssues ==
    ASSUME LedgerInv, NEW price \in Nat, NEW p \in Payers, Issue(price, p), UNCHANGED channels
    PROVE  /\ LedgerInv' /\ Grows /\ MovesOnly({})
           /\ Len(invoices) \in Nat /\ Issued \in Nat \ {0} /\ Issued \notin DOMAIN invoices
           /\ DOMAIN invoices' = DOMAIN invoices \cup {Issued}
           /\ invoices'[Issued].price = price /\ invoices'[Issued].for = p
           /\ invoices'[Issued].status = "pending"
<1> DEFINE new == [price |-> price, status |-> "pending", for |-> p, on |-> 0]
<1>1. invoices' = Append(invoices, new) /\ new \in Invoices
  BY DEF Issue, Invoices
<1>2. /\ Len(invoices) \in Nat /\ DOMAIN invoices = 1 .. Len(invoices)
      /\ Len(channels) \in Nat /\ DOMAIN channels = 1 .. Len(channels)
  BY LedgerFacts
<1>3. /\ invoices' \in Seq(Invoices) /\ Len(invoices') = Len(invoices) + 1
      /\ \A i \in DOMAIN invoices : invoices'[i] = invoices[i]
      /\ invoices'[Issued] = new
  <2>1. invoices \in Seq(Invoices)
    BY DEF LedgerInv
  <2> HIDE DEF new
  <2> QED
    BY <1>1, <1>2, <2>1 DEF Issued
<1>4. /\ new.price = price /\ new.for = p /\ new.status = "pending" /\ new.on = 0
  OBVIOUS
<1> HIDE DEF new
<1>5. /\ DOMAIN invoices' = DOMAIN invoices \cup {Issued}
      /\ Issued \notin DOMAIN invoices /\ Issued \in Nat \ {0}
  <2>1. DOMAIN invoices' = 1 .. Len(invoices')
    BY <1>3
  <2> QED
    BY <1>2, <1>3, <2>1 DEF Issued
<1>6. BooksBalance'
  BY <1>2, <1>3, <1>4, <1>5, BooksKeep
<1>7. LedgerInv'
  <2>1. ASSUME NEW i \in DOMAIN invoices'
        PROVE  /\ invoices'[i].on \in 0 .. Len(channels')
               /\ Status(i)' \in {"paid", "redeemed"} <=> invoices'[i].on # 0
    <3>1. CASE i \in DOMAIN invoices
      BY <1>3, <3>1 DEF LedgerInv, Status
    <3>2. CASE i = Issued
      BY <1>2, <1>3, <1>4, <3>2 DEF Status
    <3> QED
      BY <1>5, <3>1, <3>2
  <2> QED
    BY <1>3, <1>6, <2>1 DEF LedgerInv
<1>8. Grows /\ MovesOnly({})
  BY <1>3, <1>5 DEF Grows, MovesOnly, Status
<1> QED
  BY <1>2, <1>3, <1>4, <1>5, <1>7, <1>8

LEMMA LedgerOpens ==
    ASSUME LedgerInv, OpenChannel, UNCHANGED invoices
    PROVE  /\ LedgerInv' /\ Grows /\ MovesOnly({})
           /\ Len(channels) \in Nat /\ Len(channels') = Len(channels) + 1
<1> DEFINE new == [index |-> 0, peer |-> 0]
<1>1. channels' = Append(channels, new) /\ new \in States
  BY DEF OpenChannel, States
<1>2. /\ Len(invoices) \in Nat /\ DOMAIN invoices = 1 .. Len(invoices)
      /\ Len(channels) \in Nat /\ DOMAIN channels = 1 .. Len(channels)
  BY LedgerFacts
<1>3. new.index = 0 /\ new.peer = 0
  OBVIOUS
<1> HIDE DEF new
<1>4. /\ channels' \in Seq(States) /\ Len(channels') = Len(channels) + 1
      /\ DOMAIN channels' = 1 .. Len(channels')
      /\ \A c \in DOMAIN channels : channels'[c] = channels[c]
      /\ channels'[Len(channels) + 1] = new
  <2>1. channels \in Seq(States)
    BY DEF LedgerInv
  <2> QED
    BY <1>1, <1>2, <2>1
<1>5. BooksBalance'
  <2>1. \A c \in DOMAIN channels' : c \notin DOMAIN channels =>
          channels'[c].index = 0 /\ channels'[c].peer = 0
    BY <1>2, <1>3, <1>4
  <2>2. /\ Len(channels') \in Nat /\ DOMAIN channels' = 1 .. Len(channels')
        /\ Len(channels) <= Len(channels')
    BY <1>2, <1>4
  <2> QED
    BY <1>4, <2>1, <2>2, BooksKeep
<1>6. LedgerInv'
  <2>1. ASSUME NEW i \in DOMAIN invoices'
        PROVE  /\ invoices'[i].on \in 0 .. Len(channels')
               /\ Status(i)' \in {"paid", "redeemed"} <=> invoices'[i].on # 0
    BY <1>2, <1>4 DEF LedgerInv, Status
  <2>2. invoices' \in Seq(Invoices)
    BY DEF LedgerInv
  <2> QED
    BY <1>4, <1>5, <2>1, <2>2 DEF LedgerInv
<1>7. Grows /\ MovesOnly({})
  BY <1>2, <1>4 DEF Grows, MovesOnly, Status
<1> QED
  BY <1>2, <1>4, <1>6, <1>7

(* One invoice changes its status, and nothing is paid.                    *)
LEMMA LedgerMarks ==
    ASSUME LedgerInv, NEW i \in DOMAIN invoices, NEW status \in {"expired", "redeemed"},
           Status(i) = (IF status = "expired" THEN "pending" ELSE "paid"),
           invoices' = [invoices EXCEPT ![i].status = status], UNCHANGED channels
    PROVE  /\ LedgerInv' /\ Grows
           /\ DOMAIN invoices' = DOMAIN invoices
           /\ Status(i)' = status
           /\ \A j \in DOMAIN invoices : j # i => invoices'[j] = invoices[j]
<1>1. /\ Len(invoices) \in Nat /\ DOMAIN invoices = 1 .. Len(invoices)
      /\ Len(channels) \in Nat /\ DOMAIN channels = 1 .. Len(channels)
      /\ invoices[i] \in Invoices
  BY LedgerFacts
<1> DEFINE new == [invoices[i] EXCEPT !.status = status]
<1>2. /\ new \in Invoices /\ new.status = status /\ new.price = invoices[i].price
      /\ new.for = invoices[i].for /\ new.on = invoices[i].on
  BY <1>1 DEF Invoices
<1>3. /\ DOMAIN invoices' = DOMAIN invoices
      /\ invoices'[i] = new
      /\ \A j \in DOMAIN invoices : j # i => invoices'[j] = invoices[j]
      /\ invoices' = [invoices EXCEPT ![i] = new]
  OBVIOUS
<1> HIDE DEF new
<1>4. invoices' \in Seq(Invoices)
  <2>1. invoices \in Seq(Invoices)
    BY DEF LedgerInv
  <2> QED
    BY <1>1, <1>2, <1>3, <2>1
<1>5. \A j \in DOMAIN invoices :
        /\ invoices'[j].price = invoices[j].price /\ invoices'[j].on = invoices[j].on
        /\ invoices'[j].for = invoices[j].for
  BY <1>2, <1>3
<1>6. BooksBalance'
  BY <1>1, <1>3, <1>5, BooksKeep
<1>7. LedgerInv'
  <2>1. ASSUME NEW j \in DOMAIN invoices'
        PROVE  /\ invoices'[j].on \in 0 .. Len(channels')
               /\ Status(j)' \in {"paid", "redeemed"} <=> invoices'[j].on # 0
    <3>1. /\ invoices[j].on \in 0 .. Len(channels)
          /\ Status(j) \in {"paid", "redeemed"} <=> invoices[j].on # 0
      BY <1>3 DEF LedgerInv
    <3> QED
      BY <1>2, <1>3, <3>1 DEF Status
  <2>2. channels' \in Seq(States)
    BY DEF LedgerInv
  <2> QED
    BY <1>4, <1>6, <2>1, <2>2 DEF LedgerInv
<1>8. Grows
  BY <1>3, <1>5 DEF Grows
<1> QED
  BY <1>2, <1>3, <1>7, <1>8 DEF Status

(* An invoice is paid: the channel is one state on, and its peer holds the *)
(* price more.                                                             *)
LEMMA LedgerPays ==
    ASSUME LedgerInv, NEW post \in Posts, Follows(post), Accepts(post), Lands(post)
    PROVE  /\ LedgerInv' /\ Grows
           /\ DOMAIN invoices' = DOMAIN invoices
           /\ Status(post.invoice) = "pending" /\ Status(post.invoice)' = "paid"
           /\ \A j \in DOMAIN invoices : j # post.invoice => invoices'[j] = invoices[j]
           /\ DOMAIN channels' = DOMAIN channels
           /\ Len(channels') = Len(channels)
           /\ channels'[post.channel] = [index |-> post.index, peer |-> post.peer]
<1> DEFINE i == post.invoice
           c == post.channel
           new == [[invoices[i] EXCEPT !.status = "paid"] EXCEPT !.on = c]
           state == [index |-> post.index, peer |-> post.peer]
<1>1. /\ Len(invoices) \in Nat /\ DOMAIN invoices = 1 .. Len(invoices)
      /\ Len(channels) \in Nat /\ DOMAIN channels = 1 .. Len(channels)
      /\ i \in DOMAIN invoices /\ c \in DOMAIN channels
      /\ invoices[i] \in Invoices /\ channels[c] \in States
  BY LedgerFacts DEF Follows
<1>2. /\ new \in Invoices /\ new.status = "paid" /\ new.price = invoices[i].price
      /\ new.for = invoices[i].for /\ new.on = c
  <2>1. c \in Nat
    BY DEF Posts
  <2> QED
    BY <1>1, <2>1 DEF Invoices
<1>3. state \in States /\ state.index = post.index /\ state.peer = post.peer
  BY DEF Posts, States
<1>4. /\ channels' = [channels EXCEPT ![c] = state]
      /\ invoices' = [invoices EXCEPT ![i].status = "paid", ![i].on = c]
  BY Zenon DEF Lands
<1>5. /\ DOMAIN invoices' = DOMAIN invoices
      /\ invoices'[i] = new
      /\ \A j \in DOMAIN invoices : j # i => invoices'[j] = invoices[j]
  BY <1>1, <1>4
<1>6. /\ DOMAIN channels' = DOMAIN channels
      /\ channels'[c] = state
      /\ \A d \in DOMAIN channels : d # c => channels'[d] = channels[d]
  <2> HIDE DEF state
  <2> QED
    BY <1>1, <1>4
<1>7. state.index = channels[c].index + 1 /\ state.peer = channels[c].peer + invoices[i].price
  BY <1>3 DEF Accepts, Follows
<1>8. Status(i) = "pending" /\ invoices[i].on = 0
  <2>1. Status(i) = "pending"
    BY DEF Accepts
  <2>2. Status(i) \in {"paid", "redeemed"} <=> invoices[i].on # 0
    BY <1>1 DEF LedgerInv
  <2> QED
    BY <2>1, <2>2
<1> HIDE DEF new, state, i, c
<1>9. /\ invoices' \in Seq(Invoices) /\ Len(invoices') = Len(invoices)
      /\ channels' \in Seq(States) /\ Len(channels') = Len(channels)
  <2>1. invoices \in Seq(Invoices) /\ channels \in Seq(States)
    BY DEF LedgerInv
  <2>2. invoices' = [invoices EXCEPT ![i] = new]
    <3>1. invoices' = [j \in DOMAIN invoices |-> invoices'[j]]
      BY <1>4
    <3> QED
      BY <1>1, <1>5, <3>1
  <2>3. channels' \in Seq(States) /\ Len(channels') = Len(channels)
    BY <1>1, <1>3, <1>4, <2>1
  <2>4. invoices' \in Seq(Invoices) /\ Len(invoices') = Len(invoices)
    BY <1>1, <1>2, <2>1, <2>2
  <2> QED
    BY <2>3, <2>4
<1>10. \A j \in DOMAIN invoices :
        /\ invoices'[j].price = invoices[j].price /\ invoices'[j].for = invoices[j].for
        /\ j # i => invoices'[j].on = invoices[j].on
  BY <1>2, <1>5
<1>11. \A j \in DOMAIN invoices : Prices[j] \in Int /\ Prices[j] \in Nat /\ Prices'[j] = Prices[j]
  BY <1>5, <1>10, LedgerFacts DEF Prices
<1>12. /\ PaidOn(c)' = PaidOn(c) \cup {i} /\ i \notin PaidOn(c)
       /\ \A d \in DOMAIN channels : d # c => PaidOn(d)' = PaidOn(d)
  <2>1. invoices'[i].on = c
    BY <1>2, <1>5
  <2>2. c # 0 /\ \A d \in DOMAIN channels : d # 0
    BY <1>1
  <2>3. PaidOn(c)' = PaidOn(c) \cup {i}
    BY <1>1, <1>5, <1>10, <2>1 DEF PaidOn
  <2>4. i \notin PaidOn(c)
    BY <1>8, <2>2 DEF PaidOn
  <2>5. \A d \in DOMAIN channels : d # c => PaidOn(d)' = PaidOn(d)
    BY <1>5, <1>8, <1>10, <2>1, <2>2 DEF PaidOn
  <2> QED
    BY <2>3, <2>4, <2>5
<1>13. \A d \in DOMAIN channels :
         /\ PaidOn(d) \subseteq DOMAIN invoices /\ IsFiniteSet(PaidOn(d))
         /\ Cardinality(PaidOn(d)) \in Nat
         /\ SumFunctionOnSet(Prices', PaidOn(d)) = SumFunctionOnSet(Prices, PaidOn(d))
         /\ channels[d].peer = SumFunctionOnSet(Prices, PaidOn(d))
         /\ channels[d].index = Cardinality(PaidOn(d))
  <2> TAKE d \in DOMAIN channels
  <2>1. PaidOn(d) \subseteq DOMAIN invoices
    BY DEF PaidOn
  <2>2. IsFiniteSet(PaidOn(d)) /\ Cardinality(PaidOn(d)) \in Nat
    BY <2>1, LedgerFacts, FS_Subset, FS_CardinalityType
  <2>3. \A s \in PaidOn(d) : Prices[s] \in Int /\ Prices'[s] = Prices[s]
    BY <1>11, <2>1
  <2>4. SumFunctionOnSet(Prices', PaidOn(d)) = SumFunctionOnSet(Prices, PaidOn(d))
    BY <2>2, <2>3, SumAgrees
  <2> QED
    BY <2>1, <2>2, <2>4 DEF LedgerInv, BooksBalance
<1>14. ASSUME NEW d \in DOMAIN channels'
       PROVE  /\ channels'[d].peer = SumFunctionOnSet(Prices', PaidOn(d)')
              /\ channels'[d].index = Cardinality(PaidOn(d)')
  <2>1. CASE d # c
    BY <1>6, <1>12, <1>13, <2>1
  <2>2. CASE d = c
    <3> DEFINE S == PaidOn(c)
               T == S \cup {i}
    <3>1. IsFiniteSet(S) /\ S \subseteq DOMAIN invoices /\ i \notin S
      BY <1>1, <1>12, <1>13
    <3>2. IsFiniteSet(T) /\ Cardinality(T) = Cardinality(S) + 1
      BY <3>1, FS_AddElement
    <3>3. \A s \in T : Prices'[s] \in Int
      BY <1>1, <1>11, <3>1
    <3>4. T \ {i} = S /\ i \in T
      BY <3>1
    <3> HIDE DEF T
    <3>5. SumFunctionOnSet(Prices', T) = Prices'[i] + SumFunctionOnSet(Prices', T \ {i})
      BY <3>2, <3>3, <3>4, SumRemoves
    <3>6. Prices'[i] = invoices[i].price /\ Prices'[i] \in Nat
      BY <1>1, <1>11, LedgerFacts
    <3>7. /\ SumFunctionOnSet(Prices', S) = channels[c].peer
          /\ Cardinality(S) = channels[c].index
      BY <1>1, <1>13
    <3>8. channels[c].index \in Nat /\ channels[c].peer \in Nat
      BY <1>1 DEF States
    <3>9. PaidOn(c)' = T
      BY <1>12 DEF T
    <3> HIDE DEF S
    <3>10. PaidOn(d)' = PaidOn(c)'
      BY <2>2 DEF PaidOn
    <3>11. channels'[c].peer = SumFunctionOnSet(Prices', T)
      <4>1. SumFunctionOnSet(Prices', T) = invoices[i].price + channels[c].peer
        BY <3>4, <3>5, <3>6, <3>7, Zenon
      <4>2. invoices[i].price \in Nat
        BY <3>6
      <4>3. channels'[c].peer = channels[c].peer + invoices[i].price
        BY <1>6, <1>7
      <4> QED
        BY <3>8, <4>1, <4>2, <4>3
    <3>12. channels'[c].index = Cardinality(T)
      BY <1>6, <1>7, <3>2, <3>7, <3>8
    <3> QED
      BY <2>2, <3>9, <3>10, <3>11, <3>12
  <2> QED
    BY <2>1, <2>2
<1>15. LedgerInv'
  <2>1. ASSUME NEW j \in DOMAIN invoices'
        PROVE  /\ invoices'[j].on \in 0 .. Len(channels')
               /\ Status(j)' \in {"paid", "redeemed"} <=> invoices'[j].on # 0
    <3>1. /\ invoices[j].on \in 0 .. Len(channels)
          /\ Status(j) \in {"paid", "redeemed"} <=> invoices[j].on # 0
      BY <1>5, <2>1 DEF LedgerInv
    <3>2. CASE j = i
      BY <1>1, <1>2, <1>5, <1>9, <3>2 DEF Status
    <3>3. CASE j # i
      BY <1>5, <1>9, <3>1, <3>3, <2>1 DEF Status
    <3> QED
      BY <3>2, <3>3
  <2> QED
    BY <1>9, <1>14, <2>1 DEF LedgerInv, BooksBalance
<1>16. Grows
  <2>1. channels'[c].index > channels[c].index
    BY <1>1, <1>6, <1>7 DEF States
  <2> QED
    BY <1>5, <1>6, <1>10, <2>1 DEF Grows
<1> QED
  BY <1>2, <1>5, <1>6, <1>8, <1>9, <1>15, <1>16 DEF Status, i, c, state

(* What was told of the books, or posted, follows them still.              *)
LEMMA StillTells ==
    ASSUME LedgerInv, LedgerInv', Grows, NEW view \in States, NEW c, Tells(view, c)
    PROVE  Tells(view, c)'
<1>1. /\ c \in DOMAIN channels /\ channels[c] \in States
      /\ c \in DOMAIN channels' /\ channels'[c] \in States
  <2>1. c \in DOMAIN channels
    BY DEF Tells
  <2>2. c \in DOMAIN channels'
    BY <2>1 DEF Grows
  <2> QED
    BY <2>1, <2>2 DEF LedgerInv
<1> QED
  BY <1>1 DEF Grows, Tells, States

LEMMA StillFollows ==
    ASSUME LedgerInv, LedgerInv', Grows, NEW post \in Posts, Follows(post)
    PROVE  Follows(post)'
<1>1. /\ post.channel \in DOMAIN channels /\ channels[post.channel] \in States
      /\ post.channel \in DOMAIN channels' /\ channels'[post.channel] \in States
  <2>1. post.channel \in DOMAIN channels
    BY DEF Follows
  <2>2. post.channel \in DOMAIN channels'
    BY <2>1 DEF Grows
  <2> QED
    BY <2>1, <2>2 DEF LedgerInv
<1>2. post.index \in Nat /\ post.invoice \in DOMAIN invoices
  BY DEF Posts, Follows
<1>3. /\ post.invoice \in DOMAIN invoices'
      /\ invoices'[post.invoice].price = invoices[post.invoice].price
  BY <1>2 DEF Grows
<1>4. post.index <= channels'[post.channel].index + 1
  BY <1>1, <1>2 DEF Grows, Follows, States
<1>5. post.index = channels'[post.channel].index + 1 =>
        post.peer = channels'[post.channel].peer + invoices'[post.invoice].price
  BY <1>1, <1>2, <1>3 DEF Grows, Follows, States
<1> QED
  BY <1>1, <1>3, <1>4, <1>5 DEF Follows

-----------------------------------------------------------------------------
(* The invoices paid, and those counted.                                   *)
LEMMA PaidStays ==
    ASSUME LedgerInv, DOMAIN invoices \subseteq DOMAIN invoices',
           \A i \in DOMAIN invoices : \/ Status(i)' = Status(i)
                                      \/ Status(i) = "pending" /\ Status(i)' = "expired"
                                      \/ Status(i) = "paid" /\ Status(i)' = "redeemed",
           \A i \in DOMAIN invoices' : i \notin DOMAIN invoices => Status(i)' = "pending"
    PROVE  PaidInvoices' = PaidInvoices
<1>1. \A i \in DOMAIN invoices : Status(i)' \in {"paid", "redeemed"} <=> Status(i) \in {"paid", "redeemed"}
  OBVIOUS
<1> QED
  BY <1>1 DEF PaidInvoices

LEMMA PaidGrows ==
    ASSUME NEW i \in DOMAIN invoices, DOMAIN invoices' = DOMAIN invoices,
           Status(i) = "pending", Status(i)' = "paid",
           \A j \in DOMAIN invoices : j # i => invoices'[j] = invoices[j]
    PROVE  PaidInvoices' = PaidInvoices \cup {i} /\ i \notin PaidInvoices
<1>1. \A j \in DOMAIN invoices : j # i => Status(j)' = Status(j)
  BY DEF Status
<1> QED
  BY <1>1 DEF PaidInvoices

(* Payer p takes no part in what the others have awaited.                  *)
LEMMA UnsettledMoves ==
    ASSUME NEW p \in Payers, \A q \in Payers : q # p => act'[q] = act[q]
    PROVE  /\ act[p].at # "redeem" /\ act'[p].at # "redeem" => Unsettled' = Unsettled
           /\ act[p].at # "redeem" /\ act'[p].at = "redeem" =>
                Unsettled' = Unsettled \cup {act'[p].invoice}
           /\ act'[p].at # "redeem" => Unsettled' \subseteq Unsettled
<1>1. /\ \A i \in Unsettled : \E q \in Payers : act[q].at = "redeem" /\ act[q].invoice = i
      /\ \A q \in Payers : act[q].at = "redeem" => act[q].invoice \in Unsettled
      /\ \A i \in Unsettled' : \E q \in Payers : act'[q].at = "redeem" /\ act'[q].invoice = i
      /\ \A q \in Payers : act'[q].at = "redeem" => act'[q].invoice \in Unsettled'
  BY DEF Unsettled
<1> HIDE DEF Unsettled
<1>2. act[p].at # "redeem" => \A i \in Unsettled : i \in Unsettled'
  BY <1>1
<1>3. act'[p].at # "redeem" => \A i \in Unsettled' : i \in Unsettled
  BY <1>1
<1>4. act'[p].at = "redeem" => \A i \in Unsettled' : i = act'[p].invoice \/ i \in Unsettled
  BY <1>1
<1> QED
  BY <1>1, <1>2, <1>3, <1>4

LEMMA CountedSums ==
    ASSUME LedgerInv
    PROVE  /\ Reckoned \subseteq DOMAIN invoices /\ IsFiniteSet(Reckoned)
           /\ \A S \in SUBSET DOMAIN invoices :
                /\ IsFiniteSet(S) /\ SumFunctionOnSet(Prices, S) \in Nat
                /\ \A T \in SUBSET S : SumFunctionOnSet(Prices, T) <= SumFunctionOnSet(Prices, S)
<1>1. Reckoned \subseteq DOMAIN invoices
  BY DEF Reckoned, PaidInvoices
<1>2. /\ IsFiniteSet(DOMAIN invoices)
      /\ \A i \in DOMAIN invoices : Prices[i] \in Nat
  BY LedgerFacts
<1>3. \A S \in SUBSET DOMAIN invoices : IsFiniteSet(S)
  BY <1>2, FS_Subset
<1>4. \A T \in SUBSET DOMAIN invoices : \A V \in SUBSET T :
        /\ SumFunctionOnSet(Prices, V) \in Nat
        /\ SumFunctionOnSet(Prices, V) <= SumFunctionOnSet(Prices, T)
  BY <1>2, SumGrows
<1>5. \A S \in SUBSET DOMAIN invoices : S \in SUBSET S
  OBVIOUS
<1> QED
  BY <1>1, <1>3, <1>4, <1>5

(* Prices stay, so the count of what was counted does.                     *)
LEMMA CountStays ==
    ASSUME LedgerInv, Grows
    PROVE  /\ Reckoned \subseteq DOMAIN invoices'
           /\ SumFunctionOnSet(Prices', Reckoned) = SumFunctionOnSet(Prices, Reckoned)
<1>1. Reckoned \subseteq DOMAIN invoices /\ IsFiniteSet(Reckoned)
  BY CountedSums
<1>2. Reckoned \subseteq DOMAIN invoices'
  BY <1>1 DEF Grows
<1>3. \A i \in Reckoned : Prices[i] \in Int /\ Prices'[i] = Prices[i]
  <2>1. \A i \in Reckoned : Prices[i] \in Nat /\ Prices[i] = invoices[i].price
    BY <1>1, LedgerFacts
  <2>2. \A i \in Reckoned : Prices'[i] = invoices'[i].price
    BY <1>2 DEF Prices
  <2> QED
    BY <1>1, <2>1, <2>2 DEF Grows
<1>4. SumFunctionOnSet(Prices', Reckoned) = SumFunctionOnSet(Prices, Reckoned)
  <2> DEFINE C == Reckoned
  <2>1. /\ IsFiniteSet(C)
        /\ \A i \in C : Prices[i] \in Int /\ Prices'[i] = Prices[i]
    BY <1>1, <1>3
  <2> HIDE DEF C
  <2>2. SumFunctionOnSet(Prices', C) = SumFunctionOnSet(Prices, C)
    BY <2>1, SumAgrees
  <2> QED
    BY <2>2 DEF C
<1> QED
  BY <1>2, <1>4

(* Nothing is settled, and without a fault nothing more is counted.        *)
LEMMA MeterStays ==
    ASSUME LedgerInv, LedgerInv', Grows, MeterInv, settled \in Nat, faults \in Nat, faults' \in Nat,
           UNCHANGED settled, faults <= faults',
           Reckoned \subseteq Reckoned', faults' = 0 => Reckoned' = Reckoned
    PROVE  MeterInv'
<1>1. /\ Reckoned' \subseteq DOMAIN invoices'
      /\ SumFunctionOnSet(Prices', Reckoned') \in Nat
      /\ \A T \in SUBSET Reckoned' :
           SumFunctionOnSet(Prices', T) <= SumFunctionOnSet(Prices', Reckoned')
  <2>1. /\ (Reckoned \subseteq DOMAIN invoices)'
        /\ (\A S \in SUBSET DOMAIN invoices :
                /\ IsFiniteSet(S) /\ SumFunctionOnSet(Prices, S) \in Nat
                /\ \A T \in SUBSET S : SumFunctionOnSet(Prices, T) <= SumFunctionOnSet(Prices, S))'
    BY CountedSums, PTL
  <2> QED
    BY <2>1
<1>2. SumFunctionOnSet(Prices', Reckoned) = SumFunctionOnSet(Prices, Reckoned)
  BY CountStays
<1>3. SumFunctionOnSet(Prices', Reckoned) <= SumFunctionOnSet(Prices', Reckoned')
  BY <1>1
<1>4. SumFunctionOnSet(Prices, Reckoned) \in Nat
  BY CountedSums
<1> QED
  BY <1>1, <1>2, <1>3, <1>4 DEF MeterInv

(* What is settled is the price of the one invoice counted besides.        *)
LEMMA MeterSettles ==
    ASSUME LedgerInv, LedgerInv', Grows, MeterInv, settled \in Nat,
           NEW x \in DOMAIN invoices', x \notin Reckoned, Reckoned' = Reckoned \cup {x},
           settled' = settled + invoices'[x].price, UNCHANGED faults
    PROVE  MeterInv' /\ settled' \in Nat
<1>1. /\ IsFiniteSet(Reckoned')
      /\ \A j \in DOMAIN invoices' : Prices'[j] = invoices'[j].price /\ Prices'[j] \in Nat
      /\ Reckoned' \subseteq DOMAIN invoices'
  <2>1. (/\ Reckoned \subseteq DOMAIN invoices /\ IsFiniteSet(Reckoned))'
    BY CountedSums, PTL
  <2>2. \A j \in DOMAIN invoices' : Prices'[j] = invoices'[j].price /\ Prices'[j] \in Nat
    <3>1. \A j \in DOMAIN invoices' : invoices'[j] \in Invoices
      BY DEF LedgerInv
    <3> QED
      BY <3>1 DEF Prices, Invoices
  <2> QED
    BY <2>1, <2>2
<1>2. /\ SumFunctionOnSet(Prices', Reckoned) = SumFunctionOnSet(Prices, Reckoned)
      /\ SumFunctionOnSet(Prices, Reckoned) \in Nat
  BY CountStays, CountedSums
<1>3. SumFunctionOnSet(Prices', Reckoned') = Prices'[x] + SumFunctionOnSet(Prices', Reckoned)
  <2> DEFINE D == Reckoned'
  <2>1. IsFiniteSet(D) /\ x \in D /\ \A j \in D : Prices'[j] \in Int
    BY <1>1
  <2>2. D \ {x} = Reckoned
    OBVIOUS
  <2> HIDE DEF D
  <2>3. SumFunctionOnSet(Prices', D) = Prices'[x] + SumFunctionOnSet(Prices', D \ {x})
    BY <2>1, SumRemoves
  <2>4. SumFunctionOnSet(Prices', D) = Prices'[x] + SumFunctionOnSet(Prices', Reckoned)
    BY <2>2, <2>3, Zenon
  <2> QED
    BY <2>4 DEF D
<1>4. Prices'[x] = invoices'[x].price /\ invoices'[x].price \in Nat
  BY <1>1
<1> DEFINE before == SumFunctionOnSet(Prices, Reckoned)
           after == SumFunctionOnSet(Prices', Reckoned')
<1>5. after = before + invoices'[x].price /\ before \in Nat
  <2>1. after = Prices'[x] + SumFunctionOnSet(Prices, Reckoned)
    BY <1>2, <1>3, Zenon
  <2>2. SumFunctionOnSet(Prices, Reckoned) = before
    OBVIOUS
  <2> HIDE DEF after, before
  <2> QED
    BY <1>2, <1>4, <2>1, <2>2
<1>6. settled <= before /\ (faults = 0 => settled = before)
  BY DEF MeterInv
<1> HIDE DEF before, after
<1>7. settled' <= after /\ (faults' = 0 => settled' = after) /\ settled' \in Nat
  BY <1>4, <1>5, <1>6
<1> QED
  BY <1>7 DEF MeterInv, after

-----------------------------------------------------------------------------
(* A step that pays nothing payer q owes, and posts nothing late for it,   *)
(* leaves what q is doing as it was.                                       *)
Aside(q) ==
    /\ \A i \in DOMAIN invoices : invoices[i].for = q =>
        \/ Status(i)' = Status(i)
        \/ Status(i) = "pending" /\ Status(i)' = "expired"
        \/ Status(i) = "pending" /\ ~Unnamed(i)
    /\ \A post \in late' : \/ post \in late
                           \/ post.invoice \in DOMAIN invoices /\ invoices[post.invoice].for # q

LEMMA DoingTypes ==
    ASSUME NEW a \in Doings
    PROVE  /\ a.at \in {"turn", "channel", "view", "paying", "redeem", "lap", "first", "again",
                        "reread"} => a.left \in Left
           /\ a.at \in {"turn", "channel", "view"} => a = [at |-> a.at, left |-> a.left]
           /\ a.at \in {"paying", "redeem"} =>
                a.invoice \in Nat /\ a = [at |-> a.at, left |-> a.left, invoice |-> a.invoice]
           /\ a.at = "lap" =>
                /\ a.channel \in Nat \ {0} /\ a.view \in States
                /\ a = [at |-> a.at, left |-> a.left, channel |-> a.channel, view |-> a.view]
           /\ a.at \in {"first", "again", "reread"} =>
                /\ a.invoice \in Nat /\ a.channel \in Nat \ {0} /\ a.view \in States
                /\ a = [at |-> a.at, left |-> a.left, invoice |-> a.invoice,
                        channel |-> a.channel, view |-> a.view]
           /\ a.at \in {"off", "turn", "channel", "view", "paying", "redeem", "lap", "first",
                        "again", "reread"}
           /\ a.at = "off" <=> a = Off
BY DEF Doings, Off

LEMMA CallTypes ==
    ASSUME NEW c \in Calls
    PROVE  /\ c.at \in {"calm", "loading", "faucet", "plain", "reading", "posting"}
           /\ c.at = "calm" <=> c = Calm
           /\ c.at \in {"loading", "faucet", "plain"} =>
                c.invoice \in Nat /\ c = [at |-> c.at, invoice |-> c.invoice]
           /\ c.at = "reading" => c.invoice \in Nat /\ c.channel \in Nat \ {0}
           /\ c.at = "posting" => c.post \in Posts
BY DEF Calls, Calm

LEMMA ProgramStays ==
    ASSUME TheaterTypes, LedgerInv, LedgerInv', Grows,
           NEW q \in Payers, ProgramInv(q), Aside(q), act'[q] = act[q]
    PROVE  ProgramInv(q)'
<1>1. act'[q] = act[q] /\ act[q] \in Doings
  BY DEF TheaterTypes
<1>2. \A i, price : Owes(q, i, price) => Owes(q, i, price)'
  BY DEF Owes, Grows
<1>3. \A i \in DOMAIN invoices : Unnamed(i) /\ invoices[i].for = q => Unnamed(i)'
  BY DEF Aside, Unnamed
<1>4. \A c \in DOMAIN channels : c \in DOMAIN channels'
  BY DEF Grows
<1>5. ProgramInv(q)'
  <2>1. act[q].at \in {"paying", "redeem"} => Owes(q, act[q].invoice, AskPrice)'
    BY <1>1, <1>2 DEF ProgramInv, Owes
  <2>2. act[q].at = "redeem" => Status(act[q].invoice)' = "paid"
    <3>1. act[q].at = "redeem" =>
            /\ act[q].invoice \in DOMAIN invoices /\ invoices[act[q].invoice].for = q
            /\ Status(act[q].invoice) = "paid"
      BY DEF ProgramInv, Owes
    <3> QED
      BY <1>1, <3>1 DEF Aside, Status
  <2>3. act[q].at = "paying" =>
          Status(act[q].invoice)' \in {"pending", "expired"} /\ Unnamed(act[q].invoice)'
    <3>1. act[q].at = "paying" =>
            /\ act[q].invoice \in DOMAIN invoices /\ invoices[act[q].invoice].for = q
            /\ Status(act[q].invoice) \in {"pending", "expired"}
            /\ Unnamed(act[q].invoice)
      BY DEF ProgramInv, Owes
    <3>2. \A i \in DOMAIN invoices :
            invoices[i].for = q /\ Status(i) \in {"pending", "expired"} /\ Unnamed(i) =>
              Status(i)' \in {"pending", "expired"}
      BY DEF Aside
    <3>3. act[q].at = "paying" => Status(act[q].invoice)' \in {"pending", "expired"}
      BY <1>1, <3>1, <3>2 DEF Status
    <3>4. act[q].at = "paying" => Unnamed(act[q].invoice)'
      BY <1>1, <1>3, <3>1 DEF Unnamed
    <3> QED
      BY <3>3, <3>4
  <2>4. act[q].at = "lap" => Tells(act[q].view, act[q].channel)'
    <3>1. act[q].at = "lap" => Tells(act[q].view, act[q].channel) /\ act[q].view \in States
      BY <1>1, DoingTypes DEF ProgramInv
    <3>2. \A view \in States : \A c : Tells(view, c) => Tells(view, c)'
      BY StillTells
    <3> QED
      BY <1>1, <3>1, <3>2 DEF Tells
  <2>5. act[q].at \in {"first", "again", "reread"} =>
          Owes(q, act[q].invoice, LapPrice)' /\ act[q].channel \in DOMAIN channels'
    BY <1>1, <1>2, <1>4 DEF ProgramInv, Owes
  <2> QED
    BY <1>1, <2>1, <2>2, <2>3, <2>4, <2>5 DEF ProgramInv
<1> QED
  BY <1>5

LEMMA CallStays ==
    ASSUME TheaterTypes, LedgerInv, LedgerInv', Grows,
           NEW q \in Payers, CallInv(q), act'[q] = act[q], call'[q] = call[q]
    PROVE  CallInv(q)'
<1>1. act'[q] = act[q] /\ call'[q] = call[q] /\ call[q] \in Calls
  BY DEF TheaterTypes
<1>2. \A c \in DOMAIN channels : c \in DOMAIN channels'
  BY DEF Grows
<1>3. call[q].at = "reading" => call[q].channel \in DOMAIN channels'
  BY <1>2 DEF CallInv
<1>4. call[q].at = "posting" => Follows(call[q].post)'
  <2>1. call[q].at = "posting" => Follows(call[q].post) /\ call[q].post \in Posts
    BY <1>1, CallTypes DEF CallInv
  <2>2. \A post \in Posts : Follows(post) => Follows(post)'
    BY StillFollows
  <2> QED
    BY <1>1, <2>1, <2>2 DEF Follows
<1> QED
  BY <1>1, <1>3, <1>4 DEF CallInv

LEMMA ActEdit ==
    ASSUME TheaterTypes, NEW p \in Payers, NEW a \in Doings, Acts(p, a)
    PROVE  /\ act' \in [Payers -> Doings] /\ act'[p] = a
           /\ \A q \in Payers : q # p => act'[q] = act[q]
BY DEF TheaterTypes, Acts

LEMMA CallEdit ==
    ASSUME TheaterTypes, NEW p \in Payers, NEW c \in Calls, Calling(p, c)
    PROVE  /\ call' \in [Payers -> Calls] /\ call'[p] = c
           /\ \A q \in Payers : q # p => call'[q] = call[q]
BY DEF TheaterTypes, Calling

(* Late posts follow the books still; there are none without a fault.      *)
LEMMA LateStays ==
    ASSUME TheaterTypes, LedgerInv, LedgerInv', Grows, LateInv, faults' \in Nat,
           \A post \in late' : post \in late \/ (post \in Posts /\ Follows(post)),
           (late' \subseteq late /\ faults <= faults') \/ faults' > 0
    PROVE  LateInv' /\ late' \subseteq Posts
<1>1. \A post \in late' : post \in Posts /\ Follows(post)
  BY DEF TheaterTypes, LateInv
<1>2. \A post \in Posts : Follows(post) => Follows(post)'
  BY StillFollows
<1>3. late' # {} => faults' > 0
  BY DEF TheaterTypes, LateInv
<1>4. \A post \in late' : Follows(post)'
  BY <1>1, <1>2
<1> QED
  BY <1>1, <1>3, <1>4 DEF LateInv

(* The step of one payer, and what it comes to for the others.             *)
LEMMA StepKeeps ==
    ASSUME TheaterInv, NEW p \in Payers, TheaterTypes', LedgerInv', Grows, LateInv', MeterInv',
           \A q \in Payers : q # p => Aside(q) /\ act'[q] = act[q] /\ call'[q] = call[q],
           ProgramInv(p)', CallInv(p)'
    PROVE  TheaterInv'
<1>1. ASSUME NEW q \in Payers PROVE ProgramInv(q)' /\ CallInv(q)'
  <2>1. CASE q = p
    BY <2>1 DEF ProgramInv, CallInv
  <2>2. CASE q # p
    <3>1. TheaterTypes /\ LedgerInv /\ ProgramInv(q) /\ CallInv(q)
      BY DEF TheaterInv
    <3>2. Aside(q) /\ act'[q] = act[q] /\ call'[q] = call[q]
      BY <2>2
    <3> QED
      BY <3>1, <3>2, ProgramStays, CallStays
  <2> QED
    BY <2>1, <2>2
<1> QED
  BY <1>1 DEF TheaterInv

(* What payer p owes moves, and nothing is paid or settled.                *)
Own(p) == {i \in DOMAIN invoices : invoices[i].for = p}

LEMMA QuietStep ==
    ASSUME TheaterInv, NEW p \in Payers, LedgerInv', Grows, MovesOnly(Own(p)),
           PaidInvoices' = PaidInvoices, UNCHANGED <<late, settled>>,
           faults' \in {faults, faults + 1},
           cached' \in 0 .. Len(channels'), saved' \in 0 .. Len(channels'),
           act' \in [Payers -> Doings], call' \in [Payers -> Calls],
           \A q \in Payers : q # p => act'[q] = act[q] /\ call'[q] = call[q],
           act[p].at = "redeem" => faults' = faults + 1, act'[p].at # "redeem",
           ProgramInv(p)', CallInv(p)'
    PROVE  TheaterInv'
<1>1. /\ TheaterTypes /\ LedgerInv /\ LateInv /\ MeterInv
      /\ faults \in Nat /\ settled \in Nat /\ late \subseteq Posts
  BY DEF TheaterInv, TheaterTypes
<1>2. faults' \in Nat /\ faults <= faults'
  BY <1>1
<1>3. LateInv'
  BY <1>1, <1>2, LateStays
<1>4. TheaterTypes'
  BY <1>1, <1>2 DEF TheaterTypes
<1>5. Reckoned \subseteq Reckoned' /\ (faults' = 0 => Reckoned' = Reckoned)
  <2>1. /\ act[p].at # "redeem" => Unsettled' = Unsettled
        /\ Unsettled' \subseteq Unsettled
    BY UnsettledMoves
  <2>2. faults' = 0 => act[p].at # "redeem"
    BY <1>1
  <2> QED
    BY <2>1, <2>2 DEF Reckoned
<1>6. MeterInv'
  BY <1>1, <1>2, <1>5, MeterStays
<1>7. ASSUME NEW q \in Payers, q # p PROVE Aside(q)
  <2>1. \A i \in DOMAIN invoices : invoices[i].for = q => i \notin Own(p)
    BY <1>7 DEF Own
  <2> QED
    BY <2>1 DEF Aside, MovesOnly
<1> QED
  BY <1>3, <1>4, <1>6, <1>7, StepKeeps

-----------------------------------------------------------------------------
(* What is known of a payer before its step.                               *)
LEMMA PayerFacts ==
    ASSUME TheaterInv, NEW p \in Payers
    PROVE  /\ TheaterTypes /\ LedgerInv /\ LateInv /\ MeterInv
           /\ act[p] \in Doings /\ call[p] \in Calls /\ ProgramInv(p) /\ CallInv(p)
           /\ faults \in Nat /\ settled \in Nat
           /\ act[p].at \notin {"paying", "view", "first", "again"} => call[p] = Calm
           /\ Posted(p) =>
                /\ call[p].post \in Posts /\ Follows(call[p].post)
                /\ act[p].at \in {"paying", "first", "again"}
                /\ call[p].post.invoice = act[p].invoice
                /\ act[p].invoice \in DOMAIN invoices /\ invoices[act[p].invoice].for = p
<1>1. /\ TheaterTypes /\ LedgerInv /\ LateInv /\ MeterInv
      /\ act[p] \in Doings /\ call[p] \in Calls /\ ProgramInv(p) /\ CallInv(p)
      /\ faults \in Nat /\ settled \in Nat
  BY DEF TheaterInv, TheaterTypes
<1>2. act[p].at \notin {"paying", "view", "first", "again"} => call[p] = Calm
  BY <1>1 DEF CallInv
<1>3. ASSUME Posted(p)
      PROVE  /\ call[p].post \in Posts /\ Follows(call[p].post)
             /\ act[p].at \in {"paying", "first", "again"}
             /\ call[p].post.invoice = act[p].invoice
             /\ act[p].invoice \in DOMAIN invoices /\ invoices[act[p].invoice].for = p
  <2>1. call[p].at = "posting"
    BY <1>3 DEF Posted
  <2>2. call[p].post \in Posts /\ Follows(call[p].post)
    BY <1>1, <2>1, CallTypes DEF CallInv
  <2>3. /\ act[p].at \in {"paying", "first", "again"}
        /\ call[p].post.invoice = act[p].invoice
    BY <1>1, <2>1 DEF CallInv, Post
  <2>4. act[p].invoice \in DOMAIN invoices /\ invoices[act[p].invoice].for = p
    BY <1>1, <2>3 DEF ProgramInv, Owes
  <2> QED
    BY <2>2, <2>3, <2>4
<1> QED
  BY <1>1, <1>2, <1>3

LEMMA Calms ==
    ASSUME NEW p \in Payers, call'[p] = Calm
    PROVE  CallInv(p)'
BY DEF CallInv, Calm

(* A program that has no invoice and no lap under way asks for nothing.    *)
LEMMA Idles ==
    ASSUME NEW p \in Payers, act'[p].at \in {"off", "turn", "channel", "view"}
    PROVE  ProgramInv(p)'
BY DEF ProgramInv

LEMMA StutterKeeps ==
    ASSUME TheaterInv, UNCHANGED <<railVars, act, settled>>
    PROVE  TheaterInv'
<1>1. UNCHANGED <<invoices, channels, cached, saved, call, late, faults, act, settled>>
  BY DEF railVars, lspVars, clientVars
<1>2. TheaterTypes' /\ LedgerInv' /\ LateInv'
  <2>1. BooksBalance'
    BY <1>1 DEF TheaterInv, LedgerInv, BooksBalance, Prices, PaidOn
  <2> QED
    BY <1>1, <2>1 DEF TheaterInv, TheaterTypes, LedgerInv, LateInv, Follows, Status
<1>3. MeterInv'
  <2>1. Reckoned' = Reckoned /\ Prices' = Prices
    BY <1>1 DEF Reckoned, Unsettled, PaidInvoices, Status, Prices
  <2> QED
    BY <1>1, <2>1 DEF TheaterInv, MeterInv
<1>4. \A p \in Payers : ProgramInv(p)' /\ CallInv(p)'
  <2> TAKE p \in Payers
  <2>1. ProgramInv(p) /\ CallInv(p)
    BY DEF TheaterInv
  <2>2. ProgramInv(p)'
    BY <1>1, <2>1 DEF ProgramInv, Owes, Tells, Unnamed, Status
  <2>3. CallInv(p)'
    BY <1>1, <2>1 DEF CallInv, Follows
  <2> QED
    BY <2>2, <2>3
<1> QED
  BY <1>2, <1>3, <1>4 DEF TheaterInv

LEMMA ProgramStarts ==
    ASSUME TheaterInv, NEW p \in Payers, NEW program \in Programs, act[p] = Off,
           Acts(p, Opening(program)), UNCHANGED <<railVars, settled>>
    PROVE  TheaterInv'
<1>1. UNCHANGED <<invoices, channels, cached, saved, call, late, faults, settled>> /\ UNCHANGED lspVars
  BY DEF railVars, lspVars, clientVars
<1>2. Opening(program) \in Doings /\ Opening(program).at \in {"turn", "channel"}
  BY TheaterAssumption DEF Opening, Doings, Left
<1>3. /\ TheaterTypes /\ LedgerInv /\ call[p] = Calm /\ faults \in Nat
  BY PayerFacts DEF Off
<1>4. /\ act' \in [Payers -> Doings] /\ act'[p] = Opening(program)
      /\ \A q \in Payers : q # p => act'[q] = act[q]
  BY <1>2, <1>3, ActEdit
<1>5. ProgramInv(p)' /\ CallInv(p)'
  BY <1>1, <1>2, <1>3, <1>4, Idles, Calms
<1>6. LedgerInv' /\ Grows /\ MovesOnly(Own(p)) /\ PaidInvoices' = PaidInvoices
  <2>1. LedgerInv' /\ Grows /\ MovesOnly({})
    BY <1>1, <1>3, LedgerRests
  <2> QED
    BY <1>1, <2>1 DEF MovesOnly, PaidInvoices, Status
<1>7. act[p].at # "redeem" /\ act'[p].at # "redeem"
  BY <1>2, <1>4 DEF Off
<1> QED
  BY <1>1, <1>3, <1>4, <1>5, <1>6, <1>7, QuietStep DEF TheaterTypes

LEMMA StartsKeep ==
    ASSUME TheaterInv,
           HeartbeatStarts \/ \E v \in Visitors, r \in Programs : VisitorStarts(v, r)
    PROVE  TheaterInv'
<1>1. CASE HeartbeatStarts
  <2>1. "heartbeat" \in Payers /\ {"race", "ask"} \subseteq Programs
    BY TheaterAssumption DEF Programs
  <2>2. \E r \in Programs : act["heartbeat"] = Off /\ Acts("heartbeat", Opening(r))
                            /\ UNCHANGED <<railVars, settled>>
    BY <1>1, <2>1 DEF HeartbeatStarts
  <2> QED
    BY <2>1, <2>2, ProgramStarts
<1>2. ASSUME NEW v \in Visitors, NEW r \in Programs, VisitorStarts(v, r) PROVE TheaterInv'
  <2>1. v \in Payers /\ act[v] = Off /\ UNCHANGED <<railVars, settled>>
    BY <1>2, TheaterAssumption DEF VisitorStarts
  <2>2. Acts(v, Opening(r)) \/ UNCHANGED act
    BY <1>2 DEF VisitorStarts
  <2> QED
    BY <2>1, <2>2, ProgramStarts, StutterKeeps
<1> QED
  BY <1>1, <1>2

-----------------------------------------------------------------------------
(* ensureChannel, and what is read before a payment.                       *)
LEMMA RailQuiet ==
    ASSUME TheaterInv, NEW p \in Payers, NEW c \in Calls, Calling(p, c),
           LedgerInv', Grows, MovesOnly({}), PaidInvoices' = PaidInvoices,
           UNCHANGED <<late, settled, act>>, faults' \in {faults, faults + 1},
           cached' \in 0 .. Len(channels'), saved' \in 0 .. Len(channels'),
           act[p].at \in {"paying", "view"}, CallInv(p)'
    PROVE  TheaterInv'
<1>1. TheaterTypes /\ LedgerInv /\ ProgramInv(p)
  BY PayerFacts
<1>2. /\ call' \in [Payers -> Calls]
      /\ \A q \in Payers : q # p => call'[q] = call[q]
  BY <1>1, CallEdit
<1>3. act' \in [Payers -> Doings] /\ \A q \in Payers : act'[q] = act[q]
  BY <1>1 DEF TheaterTypes
<1>4. Aside(p)
  BY DEF Aside, MovesOnly
<1>5. ProgramInv(p)'
  BY <1>1, <1>3, <1>4, ProgramStays
<1>6. MovesOnly(Own(p))
  BY DEF MovesOnly
<1> QED
  BY <1>2, <1>3, <1>5, <1>6, QuietStep

LEMMA ChannelIsNext ==
    ASSUME TheaterInv, NEW p \in Payers, NEW c \in Calls, Calling(p, c), UNCHANGED act,
           call[p].at \in {"loading", "faucet", "plain"},
           \/ c = [at |-> c.at, invoice |-> call[p].invoice]
                /\ c.at \in {"loading", "faucet", "plain"}
           \/ \E d \in DOMAIN channels' : c = [at |-> "reading", invoice |-> call[p].invoice, channel |-> d]
    PROVE  CallInv(p)' /\ act[p].at \in {"paying", "view"}
<1>1. TheaterTypes /\ CallInv(p)
  BY PayerFacts
<1>2. call'[p] = c /\ act'[p] = act[p]
  BY <1>1, CallEdit
<1>3. \/ act[p].at = "paying" /\ call[p].invoice = act[p].invoice
      \/ act[p].at = "view" /\ call[p].invoice = NoInvoice
  BY <1>1 DEF CallInv
<1>4. /\ c.at \in {"loading", "faucet", "plain", "reading"} /\ c.invoice = call[p].invoice
      /\ c.at = "reading" => c.channel \in DOMAIN channels'
  OBVIOUS
<1> QED
  BY <1>2, <1>3, <1>4 DEF CallInv

LEMMA ChannelLoadsKeeps ==
    ASSUME TheaterInv, NEW p \in Payers, ChannelLoads(p), UNCHANGED <<act, settled>>
    PROVE  TheaterInv'
<1>1. /\ TheaterTypes /\ LedgerInv /\ call[p] \in Calls /\ faults \in Nat
      /\ call[p].at = "loading" /\ UNCHANGED <<lspVars, invoices, channels, saved, late>>
  BY PayerFacts DEF ChannelLoads, lspVars
<1>2. call[p].invoice \in Nat /\ call[p] = [at |-> "loading", invoice |-> call[p].invoice]
  BY <1>1, CallTypes
<1>3. LedgerInv' /\ Grows /\ MovesOnly({}) /\ PaidInvoices' = PaidInvoices
  <2>1. LedgerInv' /\ Grows /\ MovesOnly({})
    BY <1>1, LedgerRests
  <2> QED
    BY <1>1, <2>1 DEF PaidInvoices, Status
<1>4. /\ cached \in 0 .. Len(channels) /\ saved \in 0 .. Len(channels) /\ Len(channels) \in Nat
      /\ DOMAIN channels = 1 .. Len(channels)
  BY <1>1, LedgerFacts DEF TheaterTypes
<1>5. CASE saved # 0 /\ Reading(p, saved) /\ cached' = saved /\ UNCHANGED faults
  <2> DEFINE c == [at |-> "reading", invoice |-> call[p].invoice, channel |-> saved]
  <2>1. c \in Calls /\ saved \in DOMAIN channels'
    BY <1>1, <1>2, <1>4, <1>5 DEF Calls
  <2>2. Calling(p, c)
    BY <1>5 DEF Reading
  <2>3. CallInv(p)' /\ act[p].at \in {"paying", "view"}
    BY <1>1, <2>1, <2>2, ChannelIsNext
  <2> HIDE DEF c
  <2>4. cached' \in 0 .. Len(channels') /\ saved' \in 0 .. Len(channels') /\ faults' \in {faults, faults + 1}
    BY <1>1, <1>4, <1>5
  <2> QED
    BY <1>1, <1>3, <2>1, <2>2, <2>3, <2>4, RailQuiet
<1>6. CASE /\ IF saved = 0 THEN UNCHANGED faults ELSE Fault
           /\ Calling(p, [call[p] EXCEPT !.at = "faucet"])
           /\ UNCHANGED cached
  <2> DEFINE c == [at |-> "faucet", invoice |-> call[p].invoice]
  <2>1. c \in Calls /\ c = [call[p] EXCEPT !.at = "faucet"]
    BY <1>2 DEF Calls
  <2>2. Calling(p, c)
    BY <1>6, <2>1
  <2>3. c = [at |-> c.at, invoice |-> call[p].invoice] /\ c.at = "faucet"
    OBVIOUS
  <2> HIDE DEF c
  <2>4. CallInv(p)' /\ act[p].at \in {"paying", "view"}
    BY <1>1, <2>1, <2>2, <2>3, ChannelIsNext
  <2>5. cached' \in 0 .. Len(channels') /\ saved' \in 0 .. Len(channels') /\ faults' \in {faults, faults + 1}
    BY <1>1, <1>4, <1>6 DEF Fault
  <2> QED
    BY <1>1, <1>3, <2>1, <2>2, <2>4, <2>5, RailQuiet
<1> QED
  BY <1>5, <1>6 DEF ChannelLoads

(* A channel is opened, or the faucet declined before one was.             *)
LEMMA OpenMoves ==
    ASSUME TheaterInv, UNCHANGED invoices, OpenChannel \/ UNCHANGED channels
    PROVE  /\ LedgerInv' /\ Grows /\ MovesOnly({}) /\ PaidInvoices' = PaidInvoices
           /\ Len(channels) \in Nat /\ DOMAIN channels' = 1 .. Len(channels')
           /\ OpenChannel => Len(channels') = Len(channels) + 1
           /\ cached \in 0 .. Len(channels') /\ saved \in 0 .. Len(channels')
<1>1. LedgerInv /\ TheaterTypes
  BY DEF TheaterInv
<1>2. /\ LedgerInv' /\ Grows /\ MovesOnly({})
      /\ OpenChannel => Len(channels') = Len(channels) + 1
  BY <1>1, LedgerRests, LedgerOpens DEF lspVars
<1>3. PaidInvoices' = PaidInvoices
  BY DEF PaidInvoices, Status
<1>4. Len(channels) \in Nat /\ Len(channels') \in {Len(channels), Len(channels) + 1}
  BY <1>1, <1>2, LedgerFacts
<1>5. cached \in 0 .. Len(channels') /\ saved \in 0 .. Len(channels')
  BY <1>1, <1>4 DEF TheaterTypes
<1>6. DOMAIN channels' = 1 .. Len(channels')
  BY <1>2 DEF LedgerInv
<1> QED
  BY <1>2, <1>3, <1>4, <1>5, <1>6

LEMMA FaucetFailsKeeps ==
    ASSUME TheaterInv, NEW p \in Payers, FaucetFails(p), UNCHANGED <<act, settled>>
    PROVE  TheaterInv'
<1>1. /\ TheaterTypes /\ call[p] \in Calls /\ faults \in Nat
      /\ call[p].at = "faucet" /\ UNCHANGED <<invoices, cached, saved, late>>
      /\ OpenChannel \/ UNCHANGED channels
      /\ faults' \in {faults, faults + 1}
  BY PayerFacts DEF FaucetFails, Fault
<1> DEFINE c == [at |-> "plain", invoice |-> call[p].invoice]
<1>2. c \in Calls /\ c = [call[p] EXCEPT !.at = "plain"]
  <2>1. call[p].invoice \in Nat /\ call[p] = [at |-> "faucet", invoice |-> call[p].invoice]
    BY <1>1, CallTypes
  <2> QED
    BY <2>1 DEF Calls
<1>3. Calling(p, c)
  BY <1>2 DEF FaucetFails
<1>4. c = [at |-> c.at, invoice |-> call[p].invoice] /\ c.at = "plain"
  OBVIOUS
<1> HIDE DEF c
<1>5. CallInv(p)' /\ act[p].at \in {"paying", "view"}
  BY <1>1, <1>2, <1>3, <1>4, ChannelIsNext
<1>6. /\ LedgerInv' /\ Grows /\ MovesOnly({}) /\ PaidInvoices' = PaidInvoices
      /\ cached' \in 0 .. Len(channels') /\ saved' \in 0 .. Len(channels')
  BY <1>1, OpenMoves
<1> QED
  BY <1>1, <1>2, <1>3, <1>5, <1>6, RailQuiet

LEMMA ChannelOpensKeeps ==
    ASSUME TheaterInv, NEW p \in Payers, ChannelOpens(p), UNCHANGED <<act, settled>>
    PROVE  TheaterInv'
<1>1. /\ TheaterTypes /\ call[p] \in Calls /\ faults \in Nat
      /\ call[p].at \in {"faucet", "plain"} /\ UNCHANGED <<invoices, late>>
      /\ OpenChannel /\ faults' \in {faults, faults + 1}
      /\ cached' = Len(channels) + 1 /\ saved' = Len(channels) + 1
  BY PayerFacts DEF ChannelOpens
<1>2. /\ LedgerInv' /\ Grows /\ MovesOnly({}) /\ PaidInvoices' = PaidInvoices
      /\ Len(channels) \in Nat /\ DOMAIN channels' = 1 .. Len(channels')
      /\ Len(channels') = Len(channels) + 1
  BY <1>1, OpenMoves
<1> DEFINE d == Len(channels) + 1
           c == [at |-> "reading", invoice |-> call[p].invoice, channel |-> d]
<1>3. c \in Calls /\ d \in DOMAIN channels'
  BY <1>1, <1>2, CallTypes DEF Calls
<1>4. Calling(p, c)
  BY DEF ChannelOpens, Reading
<1>5. CallInv(p)' /\ act[p].at \in {"paying", "view"}
  BY <1>1, <1>3, <1>4, ChannelIsNext
<1>6. cached' \in 0 .. Len(channels') /\ saved' \in 0 .. Len(channels')
  BY <1>1, <1>2
<1> HIDE DEF c, d
<1> QED
  BY <1>1, <1>2, <1>3, <1>4, <1>5, <1>6, RailQuiet

(* A post is made of the state it follows.                                 *)
LEMMA PostTypes ==
    ASSUME NEW i \in Nat, NEW price \in Nat, NEW c \in Nat \ {0}, NEW view \in States
    PROVE  /\ Post(i, price, c, view) \in Posts
           /\ Post(i, price, c, view).invoice = i /\ Post(i, price, c, view).channel = c
           /\ Post(i, price, c, view).index = view.index + 1
           /\ Post(i, price, c, view).peer = view.peer + price
           /\ [at |-> "posting", post |-> Post(i, price, c, view)] \in Calls
BY DEF Post, Posts, States, Calls

LEMMA PostFollows ==
    ASSUME LedgerInv, NEW i \in DOMAIN invoices, NEW c, NEW view \in States, Tells(view, c)
    PROVE  Follows(Post(i, invoices[i].price, c, view))
<1>1. /\ i \in Nat /\ invoices[i].price \in Nat /\ c \in DOMAIN channels
      /\ c \in Nat \ {0} /\ channels[c] \in States
  BY LedgerFacts DEF Tells, Invoices
<1>2. channels[c].index \in Nat /\ channels[c].peer \in Nat /\ view.index \in Nat /\ view.peer \in Nat
  BY <1>1 DEF States
<1> DEFINE post == Post(i, invoices[i].price, c, view)
<1>3. /\ post.invoice = i /\ post.channel = c /\ post.index = view.index + 1
      /\ post.peer = view.peer + invoices[i].price
  BY DEF Post
<1>4. /\ view.index <= channels[c].index
      /\ view.index = channels[c].index => view.peer = channels[c].peer
  BY DEF Tells
<1> HIDE DEF post
<1>5. /\ post.index <= channels[c].index + 1
      /\ post.index = channels[c].index + 1 => post.peer = channels[c].peer + invoices[i].price
  BY <1>2, <1>3, <1>4
<1>6. Follows(post)
  BY <1>1, <1>3, <1>5 DEF Follows
<1> QED
  BY <1>6 DEF post

LEMMA ViewIsReadKeeps ==
    ASSUME TheaterInv, NEW p \in Payers, ViewIsRead(p), UNCHANGED <<act, settled>>
    PROVE  TheaterInv'
<1> DEFINE i == call[p].invoice
           c == call[p].channel
           post == Post(i, invoices[i].price, c, View(c))
<1>1. /\ TheaterTypes /\ LedgerInv /\ CallInv(p) /\ ProgramInv(p) /\ faults \in Nat
      /\ call[p].at = "reading" /\ i # NoInvoice
      /\ UNCHANGED <<lspVars, invoices, channels, cached, saved, late, faults>>
      /\ Calling(p, [at |-> "posting", post |-> post])
  BY PayerFacts DEF ViewIsRead, Reads, lspVars, Posting
<1>2. act[p].at = "paying" /\ act[p].invoice = i /\ i \in DOMAIN invoices /\ c \in DOMAIN channels
  BY <1>1 DEF CallInv, ProgramInv, Owes
<1>3. /\ View(c) \in States /\ Tells(View(c), c) /\ c \in Nat \ {0}
      /\ i \in Nat /\ invoices[i].price \in Nat
  BY <1>1, <1>2, LedgerFacts DEF View, Tells, Invoices, States
<1>4. Follows(post) /\ post.invoice = i /\ [at |-> "posting", post |-> post] \in Calls
  BY <1>1, <1>2, <1>3, PostFollows, PostTypes
<1> HIDE DEF post, i, c
<1>5. call'[p] = [at |-> "posting", post |-> post] /\ act'[p] = act[p]
  BY <1>1, <1>4, CallEdit
<1>6. CallInv(p)'
  <2>1. call'[p].at = "posting" /\ call'[p].post = post /\ act'[p].at = "paying" /\ act'[p].invoice = i
    BY <1>2, <1>5
  <2>2. Follows(call[p].post)'
    BY <1>1, <1>4, <2>1 DEF Follows
  <2> QED
    BY <1>4, <2>1, <2>2 DEF CallInv
<1>7. LedgerInv' /\ Grows /\ MovesOnly({}) /\ PaidInvoices' = PaidInvoices
  <2>1. LedgerInv' /\ Grows /\ MovesOnly({})
    BY <1>1, LedgerRests
  <2> QED
    BY <1>1, <2>1 DEF PaidInvoices, Status
<1>8. cached' \in 0 .. Len(channels') /\ saved' \in 0 .. Len(channels') /\ faults' \in {faults, faults + 1}
  BY <1>1 DEF TheaterTypes
<1> QED
  BY <1>1, <1>2, <1>4, <1>6, <1>7, <1>8, RailQuiet

LEMMA RailStepKeeps ==
    ASSUME TheaterInv, NEW p \in Payers, RailStep(p), UNCHANGED <<act, settled>>
    PROVE  TheaterInv'
BY ChannelLoadsKeeps, FaucetFailsKeeps, ChannelOpensKeeps, ViewIsReadKeeps DEF RailStep

-----------------------------------------------------------------------------
(* An invoice to pay, and a race to enter.                                 *)
LEMMA PayBeginsWell ==
    ASSUME TheaterTypes, LedgerInv, NEW p \in Payers, NEW i \in Nat, PayBegins(p, i)
    PROVE  /\ UNCHANGED <<channels, cached, saved, late>>
           /\ \E c \in Calls :
                /\ Calling(p, c) /\ c.at \in {"loading", "reading"} /\ c.invoice = i
                /\ c.at = "reading" => c.channel \in DOMAIN channels
<1>1. /\ UNCHANGED <<channels, cached, saved, late>>
      /\ cached \in 0 .. Len(channels) /\ Len(channels) \in Nat /\ DOMAIN channels = 1 .. Len(channels)
  BY LedgerFacts DEF PayBegins, TheaterTypes
<1>2. CASE cached = 0
  <2>1. [at |-> "loading", invoice |-> i] \in Calls
    BY DEF Calls
  <2>2. Calling(p, [at |-> "loading", invoice |-> i])
    BY <1>2 DEF PayBegins
  <2> QED
    BY <1>1, <2>1, <2>2
<1>3. CASE cached # 0
  <2> DEFINE c == [at |-> "reading", invoice |-> i, channel |-> cached]
  <2>1. c \in Calls
    BY <1>1, <1>3 DEF Calls
  <2>2. Calling(p, c)
    BY <1>3 DEF PayBegins
  <2>3. c.at = "reading" /\ c.invoice = i /\ c.channel \in DOMAIN channels
    BY <1>1, <1>3
  <2> HIDE DEF c
  <2> QED
    BY <1>1, <2>1, <2>2, <2>3
<1> QED
  BY <1>2, <1>3

LEMMA IssueMoves ==
    ASSUME TheaterInv, NEW price \in Nat, NEW p \in Payers, Issue(price, p),
           UNCHANGED <<channels, cached, saved, late>>
    PROVE  /\ LedgerInv' /\ Grows /\ MovesOnly(Own(p)) /\ PaidInvoices' = PaidInvoices
           /\ Issued \in Nat \ {0} /\ Issued \in DOMAIN invoices'
           /\ invoices'[Issued].price = price /\ invoices'[Issued].for = p
           /\ invoices'[Issued].status = "pending"
           /\ \A post \in late' : post.invoice # Issued
           /\ cached' \in 0 .. Len(channels') /\ saved' \in 0 .. Len(channels')
<1>1. LedgerInv /\ TheaterTypes /\ LateInv
  BY DEF TheaterInv
<1>2. /\ LedgerInv' /\ Grows /\ MovesOnly({})
      /\ Issued \in Nat \ {0} /\ Issued \notin DOMAIN invoices
      /\ DOMAIN invoices' = DOMAIN invoices \cup {Issued}
      /\ invoices'[Issued].price = price /\ invoices'[Issued].for = p
      /\ invoices'[Issued].status = "pending"
  BY <1>1, LedgerIssues
<1>3. MovesOnly(Own(p))
  BY <1>2 DEF MovesOnly
<1>4. PaidInvoices' = PaidInvoices
  <2>1. DOMAIN invoices \subseteq DOMAIN invoices'
    BY <1>2
  <2>2. \A i \in DOMAIN invoices :
           Status(i)' = Status(i) \/ (Status(i) = "pending" /\ Status(i)' = "expired")
    BY <1>2 DEF MovesOnly
  <2>3. \A i \in DOMAIN invoices' : i \notin DOMAIN invoices => Status(i)' = "pending"
    BY <1>2 DEF Status
  <2> QED
    BY <1>1, <2>1, <2>2, <2>3, PaidStays
<1>5. \A post \in late' : post.invoice # Issued
  BY <1>1, <1>2 DEF LateInv, Follows
<1>6. cached' \in 0 .. Len(channels') /\ saved' \in 0 .. Len(channels')
  BY <1>1 DEF TheaterTypes
<1> QED
  BY <1>2, <1>3, <1>4, <1>5, <1>6

LEMMA ChallengedKeeps ==
    ASSUME TheaterInv, NEW p \in Payers, Challenged(p)
    PROVE  TheaterInv'
<1> DEFINE i == Issued
           a == [at |-> "paying", left |-> act[p].left, invoice |-> i]
<1>1. /\ TheaterTypes /\ LedgerInv /\ act[p] \in Doings
      /\ act[p].at = "turn" /\ Issue(AskPrice, p) /\ PayBegins(p, i) /\ Acts(p, a)
      /\ UNCHANGED <<faults, settled>>
  BY PayerFacts DEF Challenged, sessionVars
<1>2. /\ UNCHANGED <<channels, cached, saved, late>>
      /\ \E c \in Calls :
                /\ Calling(p, c) /\ c.at \in {"loading", "reading"} /\ c.invoice = i
                /\ c.at = "reading" => c.channel \in DOMAIN channels
  <2>1. UNCHANGED <<channels, cached, saved, late>>
    BY <1>1 DEF PayBegins
  <2>2. i \in Nat
    BY <1>1, LedgerFacts DEF Issued
  <2> QED
    BY <1>1, <2>1, <2>2, PayBeginsWell
<1>3. /\ LedgerInv' /\ Grows /\ MovesOnly(Own(p)) /\ PaidInvoices' = PaidInvoices
      /\ i \in Nat \ {0} /\ i \in DOMAIN invoices'
      /\ invoices'[i].price = AskPrice /\ invoices'[i].for = p /\ invoices'[i].status = "pending"
      /\ \A post \in late' : post.invoice # i
      /\ cached' \in 0 .. Len(channels') /\ saved' \in 0 .. Len(channels')
  <2>1. AskPrice \in Nat
    BY DEF AskPrice
  <2> QED
    BY <1>1, <1>2, <2>1, IssueMoves
<1> HIDE DEF i
<1>4. PICK c \in Calls :
        /\ Calling(p, c) /\ c.at \in {"loading", "reading"} /\ c.invoice = i
        /\ c.at = "reading" => c.channel \in DOMAIN channels
  BY <1>2
<1>5. a \in Doings
  BY <1>1, <1>3, DoingTypes DEF Doings
<1>6. a.at = "paying" /\ a.invoice = i
  OBVIOUS
<1> HIDE DEF a
<1>7. /\ act' \in [Payers -> Doings] /\ act'[p] = a
      /\ call' \in [Payers -> Calls] /\ call'[p] = c
      /\ \A q \in Payers : q # p => act'[q] = act[q] /\ call'[q] = call[q]
  BY <1>1, <1>4, <1>5, ActEdit, CallEdit
<1>8. ProgramInv(p)'
  BY <1>3, <1>6, <1>7 DEF ProgramInv, Owes, Status, Unnamed
<1>9. CallInv(p)'
  <2>1. c.at # "posting" /\ c # Calm
    BY <1>4 DEF Calm
  <2> QED
    BY <1>2, <1>4, <1>6, <1>7, <2>1 DEF CallInv
<1>10. act[p].at # "redeem" /\ act'[p].at # "redeem" /\ faults' \in {faults, faults + 1}
  BY <1>1, <1>6, <1>7
<1> QED
  BY <1>1, <1>2, <1>3, <1>7, <1>8, <1>9, <1>10, QuietStep

(* The books rest, and the payer moves.                                    *)
LEMMA RestMoves ==
    ASSUME TheaterInv, UNCHANGED lspVars
    PROVE  /\ LedgerInv' /\ Grows /\ MovesOnly({}) /\ PaidInvoices' = PaidInvoices
           /\ UNCHANGED <<invoices, channels>>
           /\ cached \in 0 .. Len(channels') /\ saved \in 0 .. Len(channels')
           /\ \A p : MovesOnly(Own(p))
<1>1. LedgerInv /\ TheaterTypes /\ UNCHANGED <<invoices, channels>>
  BY DEF TheaterInv, lspVars
<1>2. LedgerInv' /\ Grows /\ MovesOnly({})
  BY <1>1, LedgerRests
<1>3. PaidInvoices' = PaidInvoices
  BY <1>1 DEF PaidInvoices, Status
<1>4. cached \in 0 .. Len(channels') /\ saved \in 0 .. Len(channels')
  BY <1>1 DEF TheaterTypes
<1>5. \A p : MovesOnly(Own(p))
  BY <1>2 DEF MovesOnly
<1> QED
  BY <1>1, <1>2, <1>3, <1>4, <1>5

LEMMA RaceEnteredKeeps ==
    ASSUME TheaterInv, NEW p \in Payers, RaceEntered(p)
    PROVE  TheaterInv'
<1> DEFINE a == [act[p] EXCEPT !.at = "view"]
<1>1. /\ TheaterTypes /\ LedgerInv /\ act[p] \in Doings
      /\ act[p].at = "channel" /\ PayBegins(p, NoInvoice) /\ Acts(p, a)
      /\ UNCHANGED <<invoices, faults, settled>>
  BY PayerFacts DEF RaceEntered, sessionVars
<1>2. /\ UNCHANGED <<channels, cached, saved, late, lspVars>>
      /\ \E c \in Calls :
                /\ Calling(p, c) /\ c.at \in {"loading", "reading"} /\ c.invoice = NoInvoice
                /\ c.at = "reading" => c.channel \in DOMAIN channels
  <2>1. NoInvoice \in Nat
    BY DEF NoInvoice
  <2> QED
    BY <1>1, <2>1, PayBeginsWell DEF lspVars
<1>3. PICK c \in Calls :
        /\ Calling(p, c) /\ c.at \in {"loading", "reading"} /\ c.invoice = NoInvoice
        /\ c.at = "reading" => c.channel \in DOMAIN channels
  BY <1>2
<1>4. a \in Doings /\ a.at = "view"
  <2>1. act[p].left \in Left /\ act[p] = [at |-> "channel", left |-> act[p].left]
    BY <1>1, DoingTypes
  <2>2. a = [at |-> "view", left |-> act[p].left]
    BY <2>1
  <2> QED
    BY <2>1, <2>2 DEF Doings
<1> HIDE DEF a
<1>5. /\ act' \in [Payers -> Doings] /\ act'[p] = a
      /\ call' \in [Payers -> Calls] /\ call'[p] = c
      /\ \A q \in Payers : q # p => act'[q] = act[q] /\ call'[q] = call[q]
  BY <1>1, <1>3, <1>4, ActEdit, CallEdit
<1>6. ProgramInv(p)'
  BY <1>4, <1>5, Idles
<1>7. CallInv(p)'
  <2>1. c.at # "posting" /\ c # Calm
    BY <1>3 DEF Calm
  <2> QED
    BY <1>2, <1>3, <1>4, <1>5, <2>1 DEF CallInv
<1>8. /\ LedgerInv' /\ Grows /\ MovesOnly(Own(p)) /\ PaidInvoices' = PaidInvoices
      /\ cached' \in 0 .. Len(channels') /\ saved' \in 0 .. Len(channels')
  BY <1>2, RestMoves
<1>9. act[p].at # "redeem" /\ act'[p].at # "redeem" /\ faults' \in {faults, faults + 1}
  BY <1>1, <1>4, <1>5
<1> QED
  BY <1>1, <1>2, <1>5, <1>6, <1>7, <1>8, <1>9, QuietStep

(* The race reads its channel's state once.                                *)
LEMMA RaceViewedKeeps ==
    ASSUME TheaterInv, NEW p \in Payers, RaceViewed(p)
    PROVE  TheaterInv'
<1> DEFINE d == call[p].channel
           a == [at |-> "lap", left |-> act[p].left, channel |-> d, view |-> View(d)]
<1>1. /\ TheaterTypes /\ LedgerInv /\ act[p] \in Doings /\ CallInv(p)
      /\ act[p].at = "view" /\ call[p].at = "reading" /\ Acts(p, a) /\ Calling(p, Calm)
      /\ UNCHANGED <<lspVars, invoices, channels, cached, saved, late, faults, settled>>
  BY PayerFacts DEF RaceViewed, sessionVars, lspVars
<1>2. /\ d \in DOMAIN channels /\ channels[d] \in States /\ d \in Nat \ {0} /\ View(d) = channels[d]
  BY <1>1, LedgerFacts DEF CallInv, View
<1>3. a \in Doings /\ Calm \in Calls
  BY <1>1, <1>2, DoingTypes DEF Doings, Calls
<1>4. a.at = "lap" /\ a.channel = d /\ a.view = channels[d]
  BY <1>2
<1> HIDE DEF a, d
<1>5. /\ act' \in [Payers -> Doings] /\ act'[p] = a
      /\ call' \in [Payers -> Calls] /\ call'[p] = Calm
      /\ \A q \in Payers : q # p => act'[q] = act[q] /\ call'[q] = call[q]
  BY <1>1, <1>3, ActEdit, CallEdit
<1>6. ProgramInv(p)'
  BY <1>1, <1>2, <1>4, <1>5 DEF ProgramInv, Tells, States
<1>7. CallInv(p)'
  BY <1>5, Calms
<1>8. /\ LedgerInv' /\ Grows /\ MovesOnly(Own(p)) /\ PaidInvoices' = PaidInvoices
      /\ cached' \in 0 .. Len(channels') /\ saved' \in 0 .. Len(channels')
  BY <1>1, RestMoves
<1>9. act[p].at # "redeem" /\ act'[p].at # "redeem" /\ faults' \in {faults, faults + 1}
  BY <1>1, <1>4, <1>5
<1> QED
  BY <1>1, <1>5, <1>6, <1>7, <1>8, <1>9, QuietStep

-----------------------------------------------------------------------------
(* A lap is posted, and posted again.                                      *)
LEMMA LapPosted ==
    ASSUME LedgerInv', NEW p \in Payers, NEW i \in Nat, NEW d \in Nat \ {0}, NEW view \in States,
           i \in DOMAIN invoices', invoices'[i].price = LapPrice, invoices'[i].for = p,
           Tells(view, d)', NEW at \in {"first", "again"},
           act'[p].at = at, act'[p].invoice = i, act'[p].channel = d, act'[p].view = view,
           call'[p] = [at |-> "posting", post |-> Post(i, LapPrice, d, view)]
    PROVE  ProgramInv(p)' /\ CallInv(p)'
<1> DEFINE post == Post(i, LapPrice, d, view)
<1>1. /\ post.invoice = i /\ post.channel = d /\ post.index = view.index + 1
      /\ post.peer = view.peer + LapPrice
  BY DEF Post
<1>2. call'[p].at = "posting" /\ call'[p].post = post /\ call'[p] # Calm
  BY DEF Calm
<1> HIDE DEF post
<1>3. d \in DOMAIN channels' /\ channels'[d] \in States
  BY DEF Tells, LedgerInv
<1>4. /\ view.index \in Nat /\ view.peer \in Nat
      /\ channels'[d].index \in Nat /\ channels'[d].peer \in Nat
  BY <1>3 DEF States
<1>5. /\ view.index <= channels'[d].index
      /\ view.index = channels'[d].index => view.peer = channels'[d].peer
  BY DEF Tells
<1>6. /\ post.index <= channels'[d].index + 1
      /\ post.index = channels'[d].index + 1 => post.peer = channels'[d].peer + LapPrice
  BY <1>1, <1>4, <1>5
<1>7. Follows(call[p].post)'
  BY <1>1, <1>2, <1>3, <1>6 DEF Follows
<1>8. ProgramInv(p)'
  BY <1>3 DEF ProgramInv, Owes
<1>9. call'[p].post = Post(act'[p].invoice, LapPrice, act'[p].channel, act'[p].view)
  BY <1>2 DEF post
<1>10. CallInv(p)'
  BY <1>2, <1>7, <1>9 DEF CallInv, Post
<1> QED
  BY <1>8, <1>10

LEMMA LapInvoicedKeeps ==
    ASSUME TheaterInv, NEW p \in Payers, LapInvoiced(p)
    PROVE  TheaterInv'
<1> DEFINE i == Issued
           d == act[p].channel
           view == act[p].view
           a == [at |-> "first", left |-> act[p].left, invoice |-> i, channel |-> d, view |-> view]
           post == Post(i, LapPrice, d, view)
           c == [at |-> "posting", post |-> post]
<1>1. /\ TheaterTypes /\ LedgerInv /\ act[p] \in Doings /\ ProgramInv(p)
      /\ act[p].at = "lap" /\ Issue(LapPrice, p) /\ Calling(p, c) /\ Acts(p, a)
      /\ UNCHANGED <<channels, cached, saved, late, faults, settled>>
  BY PayerFacts DEF LapInvoiced, LapPosts, Lap, Posting, sessionVars
<1>2. LapPrice \in Nat
  BY DEF LapPrice
<1>3. /\ LedgerInv' /\ Grows /\ MovesOnly(Own(p)) /\ PaidInvoices' = PaidInvoices
      /\ i \in Nat \ {0} /\ i \in DOMAIN invoices'
      /\ invoices'[i].price = LapPrice /\ invoices'[i].for = p
      /\ cached' \in 0 .. Len(channels') /\ saved' \in 0 .. Len(channels')
  BY <1>1, <1>2, IssueMoves
<1>4. act[p].left \in Left /\ d \in Nat \ {0} /\ view \in States
  BY <1>1, DoingTypes
<1>5. c \in Calls /\ a \in Doings
  BY <1>2, <1>3, <1>4, PostTypes DEF Doings
<1>6. /\ act' \in [Payers -> Doings] /\ act'[p] = a
      /\ call' \in [Payers -> Calls] /\ call'[p] = c
      /\ \A q \in Payers : q # p => act'[q] = act[q] /\ call'[q] = call[q]
  BY <1>1, <1>5, ActEdit, CallEdit
<1>7. a.at = "first" /\ a.invoice = i /\ a.channel = d /\ a.view = view
  OBVIOUS
<1>8. ASSUME NEW w \in States, NEW e \in Nat \ {0}, NEW j \in Nat, w = view, e = d, j = i
      PROVE  ProgramInv(p)' /\ CallInv(p)'
  <2>1. Tells(w, e)'
    BY <1>1, <1>8 DEF ProgramInv, Tells
  <2>2. call'[p] = [at |-> "posting", post |-> Post(j, LapPrice, e, w)]
    BY <1>6, <1>8
  <2> HIDE DEF a, c, post, d, view, i
  <2>3. act'[p].at = "first" /\ act'[p].invoice = j /\ act'[p].channel = e /\ act'[p].view = w
    BY <1>6, <1>7, <1>8
  <2>4. j \in DOMAIN invoices' /\ invoices'[j].price = LapPrice /\ invoices'[j].for = p
    BY <1>3, <1>8
  <2> QED
    BY <1>3, <2>1, <2>2, <2>3, <2>4, LapPosted
<1> HIDE DEF a, c, post, d, view, i
<1>9. ProgramInv(p)' /\ CallInv(p)'
  BY <1>3, <1>4, <1>8
<1>10. act[p].at # "redeem" /\ act'[p].at # "redeem" /\ faults' \in {faults, faults + 1}
  BY <1>1, <1>6, <1>7
<1> QED
  BY <1>1, <1>3, <1>6, <1>9, <1>10, QuietStep

LEMMA LapRereadsKeeps ==
    ASSUME TheaterInv, NEW p \in Payers, LapRereads(p)
    PROVE  TheaterInv'
<1> DEFINE i == act[p].invoice
           d == act[p].channel
           view == View(d)
           a == [at |-> "again", left |-> act[p].left, invoice |-> i, channel |-> d, view |-> view]
           c == [at |-> "posting", post |-> Post(i, LapPrice, d, view)]
<1>1. /\ TheaterTypes /\ LedgerInv /\ act[p] \in Doings /\ ProgramInv(p)
      /\ act[p].at = "reread" /\ Calling(p, c) /\ Acts(p, a)
      /\ UNCHANGED <<lspVars, invoices, channels, cached, saved, late, faults, settled>>
  BY PayerFacts DEF LapRereads, LapPosts, Lap, Posting, sessionVars, lspVars
<1>2. /\ act[p].left \in Left /\ i \in Nat /\ d \in Nat \ {0}
      /\ act[p] = [at |-> "reread", left |-> act[p].left, invoice |-> i,
                   channel |-> d, view |-> act[p].view]
  BY <1>1, DoingTypes
<1>3. Owes(p, i, LapPrice) /\ d \in DOMAIN channels /\ channels[d] \in States /\ view = channels[d]
  BY <1>1, LedgerFacts DEF ProgramInv, View
<1>4. c \in Calls /\ a \in Doings
  <2>1. LapPrice \in Nat
    BY DEF LapPrice
  <2> QED
    BY <1>2, <1>3, <2>1, PostTypes DEF Doings
<1>5. /\ act' \in [Payers -> Doings] /\ act'[p] = a
      /\ call' \in [Payers -> Calls] /\ call'[p] = c
      /\ \A q \in Payers : q # p => act'[q] = act[q] /\ call'[q] = call[q]
  BY <1>1, <1>4, ActEdit, CallEdit
<1>6. a.at = "again" /\ a.invoice = i /\ a.channel = d /\ a.view = view
  OBVIOUS
<1>7. /\ LedgerInv' /\ Grows /\ MovesOnly(Own(p)) /\ PaidInvoices' = PaidInvoices
      /\ cached' \in 0 .. Len(channels') /\ saved' \in 0 .. Len(channels')
  BY <1>1, RestMoves
<1>8. ASSUME NEW w \in States, NEW e \in Nat \ {0}, NEW j \in Nat, w = view, e = d, j = i
      PROVE  ProgramInv(p)' /\ CallInv(p)'
  <2>1. Tells(w, e)'
    BY <1>1, <1>3, <1>8 DEF Tells, States
  <2>2. call'[p] = [at |-> "posting", post |-> Post(j, LapPrice, e, w)]
    BY <1>5, <1>8
  <2> HIDE DEF a, c, d, view, i
  <2>3. act'[p].at = "again" /\ act'[p].invoice = j /\ act'[p].channel = e /\ act'[p].view = w
    BY <1>5, <1>6, <1>8
  <2>4. j \in DOMAIN invoices' /\ invoices'[j].price = LapPrice /\ invoices'[j].for = p
    BY <1>1, <1>3, <1>8 DEF Owes
  <2> QED
    BY <1>7, <2>1, <2>2, <2>3, <2>4, LapPosted
<1> HIDE DEF a, c, d, view, i
<1>9. ProgramInv(p)' /\ CallInv(p)'
  BY <1>2, <1>3, <1>8
<1>10. act[p].at # "redeem" /\ act'[p].at # "redeem" /\ faults' \in {faults, faults + 1}
  BY <1>1, <1>5, <1>6
<1> QED
  BY <1>1, <1>5, <1>7, <1>9, <1>10, QuietStep

-----------------------------------------------------------------------------
(* A payment arrives, and is taken or not.                                 *)
LEMMA PostLands ==
    ASSUME TheaterInv, NEW p \in Payers, NEW post \in Posts, Follows(post), Lands(post),
           invoices[post.invoice].for = p
    PROVE  /\ LedgerInv' /\ Grows /\ MovesOnly(Own(p))
           /\ cached \in 0 .. Len(channels') /\ saved \in 0 .. Len(channels')
           /\ Accepts(post) =>
                /\ post.invoice \in DOMAIN invoices /\ post.invoice \in DOMAIN invoices'
                /\ invoices'[post.invoice].status = "paid"
                /\ PaidInvoices' = PaidInvoices \cup {post.invoice}
                /\ post.invoice \notin PaidInvoices
                /\ post.channel \in DOMAIN channels'
                /\ channels'[post.channel] = [index |-> post.index, peer |-> post.peer]
           /\ ~Accepts(post) => PaidInvoices' = PaidInvoices /\ UNCHANGED <<invoices, channels>>
<1>1. LedgerInv /\ TheaterTypes
  BY DEF TheaterInv
<1>2. CASE Accepts(post)
  <2>1. /\ LedgerInv' /\ Grows
        /\ DOMAIN invoices' = DOMAIN invoices
        /\ Status(post.invoice) = "pending" /\ invoices'[post.invoice].status = "paid"
        /\ \A j \in DOMAIN invoices : j # post.invoice => invoices'[j] = invoices[j]
        /\ DOMAIN channels' = DOMAIN channels /\ Len(channels') = Len(channels)
        /\ channels'[post.channel] = [index |-> post.index, peer |-> post.peer]
    BY <1>1, <1>2, LedgerPays DEF Status
  <2>2. post.invoice \in DOMAIN invoices /\ post.channel \in DOMAIN channels
    BY DEF Follows
  <2>3. Status(post.invoice)' = "paid"
    BY <2>1 DEF Status
  <2>4. PaidInvoices' = PaidInvoices \cup {post.invoice} /\ post.invoice \notin PaidInvoices
    BY <2>1, <2>2, <2>3, PaidGrows
  <2>5. MovesOnly(Own(p))
    BY <2>1, <2>2 DEF MovesOnly, Own, Status
  <2>6. cached \in 0 .. Len(channels') /\ saved \in 0 .. Len(channels')
    BY <1>1, <2>1 DEF TheaterTypes
  <2> QED
    BY <1>2, <2>1, <2>2, <2>4, <2>5, <2>6
<1>3. CASE ~Accepts(post)
  <2>1. UNCHANGED lspVars
    BY <1>3 DEF Lands
  <2> QED
    BY <1>3, <2>1, RestMoves
<1> QED
  BY <1>2, <1>3

(* A fault: what is paid and not told is lost to the meter.                *)
LEMMA LoudStep ==
    ASSUME TheaterInv, NEW p \in Payers, LedgerInv', Grows, MovesOnly(Own(p)),
           PaidInvoices \subseteq PaidInvoices', UNCHANGED settled, faults' = faults + 1,
           \A post \in late' : \/ post \in late
                               \/ post \in Posts /\ Follows(post) /\ invoices[post.invoice].for = p,
           cached' \in 0 .. Len(channels'), saved' \in 0 .. Len(channels'),
           act' \in [Payers -> Doings], call' \in [Payers -> Calls],
           \A q \in Payers : q # p => act'[q] = act[q] /\ call'[q] = call[q],
           act'[p].at # "redeem",
           ProgramInv(p)', CallInv(p)'
    PROVE  TheaterInv'
<1>1. /\ TheaterTypes /\ LedgerInv /\ LateInv /\ MeterInv
      /\ faults \in Nat /\ settled \in Nat
  BY DEF TheaterInv, TheaterTypes
<1>2. faults' \in Nat /\ faults <= faults' /\ faults' > 0
  BY <1>1
<1>3. LateInv' /\ late' \subseteq Posts
  BY <1>1, <1>2, LateStays
<1>4. TheaterTypes'
  BY <1>1, <1>2, <1>3 DEF TheaterTypes
<1>5. Reckoned \subseteq Reckoned' /\ (faults' = 0 => Reckoned' = Reckoned)
  <2>1. Unsettled' \subseteq Unsettled
    BY UnsettledMoves
  <2> QED
    BY <1>2, <2>1 DEF Reckoned
<1>6. MeterInv'
  BY <1>1, <1>2, <1>5, MeterStays
<1>7. ASSUME NEW q \in Payers, q # p PROVE Aside(q)
  <2>1. \A i \in DOMAIN invoices : invoices[i].for = q => i \notin Own(p)
    BY <1>7 DEF Own
  <2>2. \A post \in late' : \/ post \in late
                            \/ post.invoice \in DOMAIN invoices /\ invoices[post.invoice].for # q
    BY <1>7 DEF Follows
  <2> QED
    BY <2>1, <2>2 DEF Aside, MovesOnly
<1> QED
  BY <1>3, <1>4, <1>6, <1>7, StepKeeps

(* What p owes, no other awaits an answer for.                             *)
LEMMA OwnUnsettled ==
    ASSUME TheaterInv, NEW p \in Payers, NEW i, i \in Unsettled, invoices[i].for = p
    PROVE  act[p].at = "redeem" /\ act[p].invoice = i
<1>1. PICK q \in Payers : act[q].at = "redeem" /\ act[q].invoice = i
  BY DEF Unsettled
<1>2. q = p
  BY <1>1 DEF TheaterInv, ProgramInv, Owes
<1> QED
  BY <1>1, <1>2

(* The program ends, or its lap is tried again.                            *)
LEMMA OffEdit ==
    ASSUME TheaterTypes, NEW p \in Payers, Acts(p, Off)
    PROVE  /\ act' \in [Payers -> Doings] /\ act'[p] = Off
           /\ \A q \in Payers : q # p => act'[q] = act[q]
           /\ act'[p].at # "redeem" /\ ProgramInv(p)'
<1>1. Off \in Doings /\ Off.at = "off"
  BY DEF Doings, Off
<1>2. /\ act' \in [Payers -> Doings] /\ act'[p] = Off
      /\ \A q \in Payers : q # p => act'[q] = act[q]
  BY <1>1, ActEdit
<1>3. ProgramInv(p)'
  BY <1>1, <1>2, Idles
<1> QED
  BY <1>1, <1>2, <1>3

LEMMA CalmEdit ==
    ASSUME TheaterTypes, NEW p \in Payers, Calling(p, Calm)
    PROVE  /\ call' \in [Payers -> Calls]
           /\ \A q \in Payers : q # p => call'[q] = call[q]
           /\ CallInv(p)'
<1>1. Calm \in Calls
  BY DEF Calls
<1>2. /\ call' \in [Payers -> Calls] /\ call'[p] = Calm
      /\ \A q \in Payers : q # p => call'[q] = call[q]
  BY <1>1, CallEdit
<1> QED
  BY <1>2, Calms

LEMMA CatchEdit ==
    ASSUME TheaterInv, NEW p \in Payers, act[p].at \in {"first", "again"}, Catch(p), Grows
    PROVE  /\ act' \in [Payers -> Doings]
           /\ \A q \in Payers : q # p => act'[q] = act[q]
           /\ act'[p].at # "redeem" /\ ProgramInv(p)'
<1>1. TheaterTypes /\ act[p] \in Doings /\ ProgramInv(p)
  BY PayerFacts
<1>2. CASE act[p].at = "again"
  BY <1>1, <1>2, OffEdit DEF Catch
<1>3. CASE act[p].at = "first"
  <2> DEFINE a == [act[p] EXCEPT !.at = "reread"]
             i == act[p].invoice
             d == act[p].channel
  <2>1. /\ act[p].left \in Left /\ i \in Nat /\ d \in Nat \ {0} /\ act[p].view \in States
        /\ act[p] = [at |-> "first", left |-> act[p].left, invoice |-> i,
                     channel |-> d, view |-> act[p].view]
    BY <1>1, <1>3, DoingTypes
  <2>2. a = [at |-> "reread", left |-> act[p].left, invoice |-> i, channel |-> d,
             view |-> act[p].view]
    <3> HIDE DEF i, d
    <3> QED
      BY <2>1
  <2>3. a \in Doings /\ a.at = "reread" /\ a.invoice = i /\ a.channel = d
    BY <2>1, <2>2 DEF Doings
  <2>4. Acts(p, a)
    BY <1>3 DEF Catch
  <2> HIDE DEF a, i, d
  <2>5. /\ act' \in [Payers -> Doings] /\ act'[p] = a
        /\ \A q \in Payers : q # p => act'[q] = act[q]
    BY <1>1, <2>3, <2>4, ActEdit
  <2>6. /\ i \in DOMAIN invoices' /\ invoices'[i].for = p /\ invoices'[i].price = LapPrice
        /\ d \in DOMAIN channels'
    BY <1>1, <1>3 DEF ProgramInv, Owes, Grows, i, d
  <2>7. ProgramInv(p)'
    BY <2>3, <2>5, <2>6 DEF ProgramInv, Owes
  <2> QED
    BY <2>3, <2>5, <2>7
<1> QED
  BY <1>2, <1>3

LEMMA AnswerIs ==
    ASSUME TheaterInv, NEW p \in Payers, PostAnswered(p)
    PROVE  /\ TheaterTypes /\ LedgerInv /\ LateInv /\ MeterInv /\ faults \in Nat /\ settled \in Nat
           /\ act[p] \in Doings /\ act[p].at \in {"paying", "first", "again"}
           /\ call[p].post \in Posts /\ Follows(call[p].post) /\ Lands(call[p].post)
           /\ call[p].post.invoice = act[p].invoice
           /\ act[p].invoice \in DOMAIN invoices /\ invoices[act[p].invoice].for = p
           /\ call' \in [Payers -> Calls] /\ CallInv(p)'
           /\ \A q \in Payers : q # p => call'[q] = call[q]
           /\ UNCHANGED <<cached, saved, late, faults>>
           /\ LedgerInv' /\ Grows /\ MovesOnly(Own(p))
           /\ cached' \in 0 .. Len(channels') /\ saved' \in 0 .. Len(channels')
<1>1. Posted(p) /\ Lands(call[p].post) /\ Calling(p, Calm) /\ UNCHANGED <<cached, saved, late, faults>>
  BY DEF PostAnswered
<1>2. /\ TheaterTypes /\ LedgerInv /\ LateInv /\ MeterInv /\ faults \in Nat /\ settled \in Nat
      /\ act[p] \in Doings /\ act[p].at \in {"paying", "first", "again"}
      /\ call[p].post \in Posts /\ Follows(call[p].post)
      /\ call[p].post.invoice = act[p].invoice
      /\ act[p].invoice \in DOMAIN invoices /\ invoices[act[p].invoice].for = p
  BY <1>1, PayerFacts
<1>3. /\ call' \in [Payers -> Calls] /\ CallInv(p)'
      /\ \A q \in Payers : q # p => call'[q] = call[q]
  BY <1>1, <1>2, CalmEdit
<1>4. /\ LedgerInv' /\ Grows /\ MovesOnly(Own(p))
      /\ cached \in 0 .. Len(channels') /\ saved \in 0 .. Len(channels')
  BY <1>1, <1>2, PostLands
<1> QED
  BY <1>1, <1>2, <1>3, <1>4

LEMMA Rejected ==
    ASSUME TheaterInv, NEW p \in Payers, PostAnswered(p), ~Accepts(call[p].post), UNCHANGED settled,
           act' \in [Payers -> Doings], \A q \in Payers : q # p => act'[q] = act[q],
           act'[p].at # "redeem", ProgramInv(p)'
    PROVE  TheaterInv'
<1>1. /\ act[p].at \in {"paying", "first", "again"}
      /\ call[p].post \in Posts /\ Follows(call[p].post) /\ Lands(call[p].post)
      /\ invoices[call[p].post.invoice].for = p
      /\ call' \in [Payers -> Calls] /\ CallInv(p)'
      /\ \A q \in Payers : q # p => call'[q] = call[q]
      /\ UNCHANGED <<late, faults>>
      /\ LedgerInv' /\ Grows /\ MovesOnly(Own(p))
      /\ cached' \in 0 .. Len(channels') /\ saved' \in 0 .. Len(channels')
  BY AnswerIs
<1>2. PaidInvoices' = PaidInvoices
  BY <1>1, PostLands
<1>3. /\ act[p].at # "redeem" /\ faults' \in {faults, faults + 1}
  BY <1>1
<1> QED
  BY <1>1, <1>2, <1>3, QuietStep

(* The meter waits for the answer.                                         *)
LEMMA TurnPaidKeeps ==
    ASSUME TheaterInv, NEW p \in Payers, TurnPaid(p)
    PROVE  TheaterInv'
<1>1. act[p].at = "paying" /\ UNCHANGED settled
  BY DEF TurnPaid, sessionVars
<1>2. CASE FoundPaid(p)
  <2>1. WasPaid(p) /\ CallInv(p) /\ ProgramInv(p)
    BY <1>2, PayerFacts DEF FoundPaid
  <2>2. call[p].invoice = act[p].invoice /\ Status(call[p].invoice) \in {"paid", "redeemed"}
    BY <1>1, <2>1 DEF WasPaid, Reads, CallInv
  <2> QED
    BY <1>1, <2>1, <2>2 DEF ProgramInv
<1>3. CASE PostAnswered(p) /\ Accepts(call[p].post) /\ Redeems(p)
  <2> DEFINE post == call[p].post
             i == act[p].invoice
             a == [act[p] EXCEPT !.at = "redeem"]
  <2>1. /\ TheaterTypes /\ LedgerInv /\ LateInv /\ MeterInv /\ faults \in Nat /\ settled \in Nat
        /\ act[p] \in Doings
        /\ post \in Posts /\ Follows(post) /\ Lands(post) /\ post.invoice = i
        /\ i \in DOMAIN invoices /\ invoices[i].for = p
        /\ call' \in [Payers -> Calls] /\ CallInv(p)'
        /\ \A q \in Payers : q # p => call'[q] = call[q]
        /\ UNCHANGED <<cached, saved, late, faults>>
        /\ LedgerInv' /\ Grows /\ MovesOnly(Own(p))
        /\ cached' \in 0 .. Len(channels') /\ saved' \in 0 .. Len(channels')
    BY <1>3, AnswerIs
  <2>2. /\ i \in DOMAIN invoices' /\ invoices'[i].status = "paid"
        /\ PaidInvoices' = PaidInvoices \cup {i} /\ i \notin PaidInvoices
    <3>1. /\ Accepts(post) /\ Follows(post) /\ Lands(post) /\ post \in Posts
          /\ invoices[post.invoice].for = p
      <4>1. invoices[i].for = p /\ post.invoice = i
        BY <2>1
      <4> QED
        BY <1>3, <2>1, <4>1
    <3> HIDE DEF post
    <3>2. /\ post.invoice \in DOMAIN invoices' /\ invoices'[post.invoice].status = "paid"
          /\ PaidInvoices' = PaidInvoices \cup {post.invoice} /\ post.invoice \notin PaidInvoices
      BY <3>1, PostLands
    <3> HIDE DEF i
    <3> QED
      BY <2>1, <3>2
  <2>3. a \in Doings /\ a.at = "redeem" /\ a.invoice = i
    <3>1. act[p].left \in Left /\ act[p] = [at |-> "paying", left |-> act[p].left, invoice |-> i]
          /\ i \in Nat
      BY <1>1, <2>1, DoingTypes
    <3> HIDE DEF i
    <3>2. a = [at |-> "redeem", left |-> act[p].left, invoice |-> i]
      BY <3>1
    <3> QED
      BY <3>1, <3>2 DEF Doings
  <2>4. Acts(p, a)
    BY <1>3 DEF Redeems
  <2>5. Owes(p, i, AskPrice)
    BY <1>1, PayerFacts DEF ProgramInv
  <2> HIDE DEF a, i, post
  <2>6. /\ act' \in [Payers -> Doings] /\ act'[p] = a
        /\ \A q \in Payers : q # p => act'[q] = act[q]
    BY <2>1, <2>3, <2>4, ActEdit
  <2>7. ProgramInv(p)'
    <3>1. i \in DOMAIN invoices' /\ invoices'[i].for = p /\ invoices'[i].price = AskPrice
      BY <2>1, <2>5 DEF Owes, Grows
    <3> QED
      BY <2>2, <2>3, <2>6, <3>1 DEF ProgramInv, Owes, Status
  <2>8. Reckoned' = Reckoned
    <3>1. Unsettled' = Unsettled \cup {i}
      BY <1>1, <2>3, <2>6, UnsettledMoves
    <3> QED
      BY <2>2, <3>1 DEF Reckoned
  <2>9. MeterInv'
    BY <1>1, <2>1, <2>8, MeterStays
  <2>10. TheaterTypes' /\ LateInv'
    <3>1. LateInv'
      BY <2>1, LateStays
    <3> QED
      BY <1>1, <2>1, <2>6, <3>1 DEF TheaterTypes
  <2>11. ASSUME NEW q \in Payers, q # p PROVE Aside(q)
    <3>1. \A j \in DOMAIN invoices : invoices[j].for = q => j \notin Own(p)
      BY <2>11 DEF Own
    <3> QED
      BY <2>1, <3>1 DEF Aside, MovesOnly
  <2> QED
    BY <2>1, <2>6, <2>7, <2>9, <2>10, <2>11, StepKeeps
<1>4. CASE PostAnswered(p) /\ ~Accepts(call[p].post) /\ Acts(p, Off)
  <2>1. TheaterTypes
    BY PayerFacts
  <2>2. /\ act' \in [Payers -> Doings]
        /\ \A q \in Payers : q # p => act'[q] = act[q]
        /\ act'[p].at # "redeem" /\ ProgramInv(p)'
    BY <1>4, <2>1, OffEdit
  <2> QED
    BY <1>1, <1>4, <2>2, Rejected
<1> QED
  BY <1>2, <1>3, <1>4 DEF TurnPaid

(* What is settled is counted from then on.                                *)
LEMMA SettledStep ==
    ASSUME TheaterInv, NEW p \in Payers, LedgerInv', Grows, MovesOnly(Own(p)),
           NEW i \in DOMAIN invoices', i \notin Reckoned, Reckoned' = Reckoned \cup {i},
           settled' = settled + invoices'[i].price, UNCHANGED <<late, faults>>,
           cached' \in 0 .. Len(channels'), saved' \in 0 .. Len(channels'),
           act' \in [Payers -> Doings], call' \in [Payers -> Calls],
           \A q \in Payers : q # p => act'[q] = act[q] /\ call'[q] = call[q],
           ProgramInv(p)', CallInv(p)'
    PROVE  TheaterInv'
<1>1. /\ TheaterTypes /\ LedgerInv /\ LateInv /\ MeterInv
      /\ faults \in Nat /\ settled \in Nat /\ late \subseteq Posts
  BY DEF TheaterInv, TheaterTypes
<1>2. MeterInv' /\ settled' \in Nat
  BY <1>1, MeterSettles
<1>3. LateInv'
  BY <1>1, LateStays
<1>4. TheaterTypes'
  BY <1>1, <1>2 DEF TheaterTypes
<1>5. ASSUME NEW q \in Payers, q # p PROVE Aside(q)
  <2>1. \A j \in DOMAIN invoices : invoices[j].for = q => j \notin Own(p)
    BY <1>5 DEF Own
  <2> QED
    BY <2>1 DEF Aside, MovesOnly
<1> QED
  BY <1>2, <1>3, <1>4, <1>5, StepKeeps

(* An invoice of payer p is redeemed.                                      *)
LEMMA RedeemMoves ==
    ASSUME TheaterInv, NEW p \in Payers, NEW i \in DOMAIN invoices, invoices[i].for = p,
           Status(i) = "paid", Redeem(i), UNCHANGED <<cached, saved>>
    PROVE  /\ LedgerInv' /\ Grows /\ MovesOnly(Own(p)) /\ PaidInvoices' = PaidInvoices
           /\ i \in DOMAIN invoices' /\ invoices'[i].price = invoices[i].price
           /\ UNCHANGED channels
           /\ cached' \in 0 .. Len(channels') /\ saved' \in 0 .. Len(channels')
<1>1. LedgerInv /\ TheaterTypes
  BY DEF TheaterInv
<1>2. invoices' = [invoices EXCEPT ![i].status = "redeemed"] /\ UNCHANGED channels
  BY DEF Redeem
<1>3. /\ LedgerInv' /\ Grows /\ DOMAIN invoices' = DOMAIN invoices
      /\ Status(i)' = "redeemed"
      /\ \A j \in DOMAIN invoices : j # i => invoices'[j] = invoices[j]
  BY <1>1, <1>2, LedgerMarks
<1>4. MovesOnly(Own(p))
  BY <1>3 DEF MovesOnly, Own, Status
<1>5. PaidInvoices' = PaidInvoices
  <2>1. \A j \in DOMAIN invoices : \/ Status(j)' = Status(j)
                                   \/ Status(j) = "paid" /\ Status(j)' = "redeemed"
    BY <1>3 DEF Status
  <2> QED
    BY <1>1, <1>3, <2>1, PaidStays
<1>6. invoices'[i].price = invoices[i].price
  BY <1>3 DEF Grows
<1>7. cached' \in 0 .. Len(channels') /\ saved' \in 0 .. Len(channels')
  BY <1>1, <1>2 DEF TheaterTypes
<1> QED
  BY <1>2, <1>3, <1>4, <1>5, <1>6, <1>7

LEMMA AnsweredKeeps ==
    ASSUME TheaterInv, NEW p \in Payers, Answered(p)
    PROVE  TheaterInv'
<1> DEFINE i == act[p].invoice
           a == IF act[p].left = 1 THEN Off ELSE [at |-> "turn", left |-> act[p].left - 1]
<1>1. /\ TheaterTypes /\ LedgerInv /\ act[p] \in Doings /\ ProgramInv(p) /\ call[p] = Calm
      /\ act[p].at = "redeem" /\ Redeem(i) /\ Acts(p, a) /\ settled' = settled + AskPrice
      /\ UNCHANGED <<cached, saved, call, late, faults>>
  BY PayerFacts DEF Answered, RecordSettle, clientVars
<1>2. /\ i \in DOMAIN invoices /\ invoices[i].for = p /\ Status(i) = "paid"
      /\ invoices[i].price = AskPrice
  BY <1>1 DEF ProgramInv, Owes
<1>3. a \in Doings /\ a.at \in {"off", "turn"}
  <2>1. act[p].left \in Left
    BY <1>1, DoingTypes
  <2>2. act[p].left # 1 => act[p].left - 1 \in Left
    BY <2>1 DEF Left
  <2> QED
    BY <2>2 DEF Doings, Off
<1> HIDE DEF a, i
<1>4. /\ LedgerInv' /\ Grows /\ MovesOnly(Own(p)) /\ PaidInvoices' = PaidInvoices
      /\ i \in DOMAIN invoices' /\ invoices'[i].price = AskPrice
      /\ cached' \in 0 .. Len(channels') /\ saved' \in 0 .. Len(channels')
  BY <1>1, <1>2, RedeemMoves
<1>5. /\ act' \in [Payers -> Doings] /\ act'[p] = a
      /\ \A q \in Payers : q # p => act'[q] = act[q]
  BY <1>1, <1>3, ActEdit
<1>6. call' \in [Payers -> Calls] /\ \A q \in Payers : call'[q] = call[q]
  BY <1>1 DEF TheaterTypes
<1>7. ProgramInv(p)' /\ CallInv(p)'
  BY <1>1, <1>3, <1>5, <1>6, Idles, Calms
<1>8. i \notin Reckoned /\ Reckoned' = Reckoned \cup {i}
  <2>1. i \in Unsettled /\ i \in PaidInvoices
    BY <1>1, <1>2 DEF Unsettled, PaidInvoices, i
  <2>2. \A j \in Unsettled' : j \in Unsettled /\ j # i
    <3> SUFFICES ASSUME NEW j \in Unsettled' PROVE j \in Unsettled /\ j # i
      OBVIOUS
    <3>1. PICK q \in Payers : act'[q].at = "redeem" /\ act'[q].invoice = j
      BY DEF Unsettled
    <3>2. q # p /\ act[q].at = "redeem" /\ act[q].invoice = j
      BY <1>3, <1>5, <3>1
    <3>3. invoices[j].for = q
      BY <3>2, PayerFacts DEF ProgramInv, Owes
    <3> QED
      BY <1>2, <3>2, <3>3 DEF Unsettled
  <2>3. \A j \in Unsettled : j # i => j \in Unsettled'
    <3> SUFFICES ASSUME NEW j \in Unsettled, j # i PROVE j \in Unsettled'
      OBVIOUS
    <3>1. PICK q \in Payers : act[q].at = "redeem" /\ act[q].invoice = j
      BY DEF Unsettled
    <3>2. q # p
      BY <3>1 DEF i
    <3>3. act'[q] = act[q]
      BY <1>5, <3>2
    <3> QED
      BY <3>1, <3>3 DEF Unsettled
  <2> HIDE DEF Unsettled
  <2> QED
    BY <1>4, <2>1, <2>2, <2>3 DEF Reckoned
<1> QED
  BY <1>1, <1>4, <1>5, <1>6, <1>7, <1>8, SettledStep

(* A race's lap is settled as it is paid, and its view is the channel's.   *)
LEMMA LapPaidKeeps ==
    ASSUME TheaterInv, NEW p \in Payers, LapPaid(p)
    PROVE  TheaterInv'
<1> DEFINE post == call[p].post
           i == act[p].invoice
           d == act[p].channel
           a == LapOver(p)
<1>1. /\ act[p].at \in {"first", "again"} /\ PostAnswered(p) /\ Accepts(post)
      /\ settled' = settled + LapPrice /\ Acts(p, a)
  BY DEF LapPaid, RecordSettle
<1>2. /\ TheaterTypes /\ LedgerInv /\ act[p] \in Doings
      /\ post \in Posts /\ Follows(post) /\ Lands(post) /\ post.invoice = i
      /\ i \in DOMAIN invoices /\ invoices[i].for = p
      /\ call' \in [Payers -> Calls] /\ CallInv(p)'
      /\ \A q \in Payers : q # p => call'[q] = call[q]
      /\ UNCHANGED <<late, faults>>
      /\ LedgerInv' /\ Grows /\ MovesOnly(Own(p))
      /\ cached' \in 0 .. Len(channels') /\ saved' \in 0 .. Len(channels')
  BY <1>1, AnswerIs
<1>3. ProgramInv(p) /\ CallInv(p) /\ call[p].at = "posting"
  BY <1>1, PayerFacts DEF PostAnswered, Posted
<1>4. /\ post = Post(i, LapPrice, d, act[p].view)
      /\ invoices[i].price = LapPrice
  BY <1>1, <1>3 DEF CallInv, ProgramInv, Owes
<1>5. /\ i \in DOMAIN invoices'
      /\ PaidInvoices' = PaidInvoices \cup {i} /\ i \notin PaidInvoices
      /\ d \in DOMAIN channels'
      /\ channels'[d] = [index |-> act[p].view.index + 1, peer |-> act[p].view.peer + LapPrice]
  <2>1. /\ post.invoice \in DOMAIN invoices'
        /\ PaidInvoices' = PaidInvoices \cup {post.invoice} /\ post.invoice \notin PaidInvoices
        /\ post.channel \in DOMAIN channels'
        /\ channels'[post.channel] = [index |-> post.index, peer |-> post.peer]
    BY <1>1, <1>2, PostLands
  <2>2. post.channel = d /\ post.index = act[p].view.index + 1 /\ post.peer = act[p].view.peer + LapPrice
    BY <1>4 DEF Post
  <2> HIDE DEF d, i, post
  <2> QED
    BY <1>2, <2>1, <2>2
<1>6. /\ act[p].left \in Left /\ d \in Nat \ {0} /\ act[p].view \in States
  BY <1>1, <1>2, DoingTypes
<1>7. \/ a = Off
      \/ a = [at |-> "lap", left |-> act[p].left - 1, channel |-> d, view |-> channels'[d]]
         /\ act[p].left - 1 \in Left
  BY <1>5, <1>6 DEF LapOver, ViewAfter, Left
<1>8. channels'[d] \in States
  BY <1>2, <1>5 DEF LedgerInv
<1>9. a \in Doings /\ a.at \in {"off", "lap"}
      /\ (a.at = "lap" => a.channel = d /\ a.view = channels'[d])
  <2> HIDE DEF a, d
  <2> QED
    BY <1>6, <1>7, <1>8 DEF Doings, Off
<1> HIDE DEF a, d, i, post
<1>10. /\ act' \in [Payers -> Doings] /\ act'[p] = a
       /\ \A q \in Payers : q # p => act'[q] = act[q]
  BY <1>1, <1>2, <1>9, ActEdit
<1>11. ProgramInv(p)'
  BY <1>5, <1>8, <1>9, <1>10 DEF ProgramInv, Tells, States
<1>12. i \notin Reckoned /\ Reckoned' = Reckoned \cup {i}
  <2>1. Unsettled' = Unsettled
    BY <1>1, <1>9, <1>10, UnsettledMoves
  <2>2. i \notin Unsettled
    BY <1>1, <1>2, OwnUnsettled
  <2> QED
    BY <1>5, <2>1, <2>2 DEF Reckoned
<1>13. settled' = settled + invoices'[i].price
  BY <1>1, <1>2, <1>4 DEF Grows
<1> QED
  BY <1>2, <1>5, <1>10, <1>11, <1>12, <1>13, SettledStep

-----------------------------------------------------------------------------
(* A request that fails.                                                   *)

(* A post's answer is lost, the post is, or it is late.                    *)
LEMMA PostThrown ==
    ASSUME TheaterInv, NEW p \in Payers, PostThrows(p), UNCHANGED settled,
           act' \in [Payers -> Doings], \A q \in Payers : q # p => act'[q] = act[q],
           act'[p].at # "redeem", Grows => ProgramInv(p)'
    PROVE  TheaterInv'
<1> DEFINE post == call[p].post
<1>1. /\ Posted(p) /\ faults' = faults + 1 /\ Calling(p, Calm) /\ UNCHANGED <<cached, saved>>
      /\ \/ Lands(post) /\ UNCHANGED late
         \/ UNCHANGED <<lspVars, late>>
         \/ late' = late \cup {post} /\ UNCHANGED lspVars
  BY DEF PostThrows, Fault
<1>2. /\ TheaterTypes /\ post \in Posts /\ Follows(post) /\ invoices[post.invoice].for = p
  BY <1>1, PayerFacts
<1>3. /\ call' \in [Payers -> Calls] /\ CallInv(p)'
      /\ \A q \in Payers : q # p => call'[q] = call[q]
  BY <1>1, <1>2, CalmEdit
<1> HIDE DEF post
<1>4. /\ LedgerInv' /\ Grows /\ MovesOnly(Own(p)) /\ PaidInvoices \subseteq PaidInvoices'
      /\ cached' \in 0 .. Len(channels') /\ saved' \in 0 .. Len(channels')
  <2>1. CASE Lands(post)
    <3>1. /\ LedgerInv' /\ Grows /\ MovesOnly(Own(p))
          /\ cached' \in 0 .. Len(channels') /\ saved' \in 0 .. Len(channels')
      BY <1>1, <1>2, <2>1, PostLands
    <3>2. PaidInvoices \subseteq PaidInvoices'
      BY <1>2, <2>1, PostLands
    <3> QED
      BY <3>1, <3>2
  <2>2. CASE UNCHANGED lspVars
    BY <1>1, <2>2, RestMoves
  <2> QED
    BY <1>1, <2>1, <2>2
<1>5. \A x \in late' : \/ x \in late
                       \/ x \in Posts /\ Follows(x) /\ invoices[x.invoice].for = p
  BY <1>1, <1>2
<1>6. ProgramInv(p)'
  BY <1>4
<1> QED
  BY <1>1, <1>3, <1>4, <1>5, <1>6, LoudStep

LEMMA LapThrowsKeeps ==
    ASSUME TheaterInv, NEW p \in Payers, LapThrows(p)
    PROVE  TheaterInv'
<1>1. act[p].at \in {"first", "again"} /\ Catch(p) /\ UNCHANGED settled
  BY DEF LapThrows, sessionVars
<1>2. Grows => /\ act' \in [Payers -> Doings]
               /\ \A q \in Payers : q # p => act'[q] = act[q]
               /\ act'[p].at # "redeem" /\ ProgramInv(p)'
  BY <1>1, CatchEdit
<1>3. CASE ~Accepts(call[p].post) /\ PostAnswered(p)
  <2>1. Grows
    BY <1>3, AnswerIs
  <2> QED
    BY <1>1, <1>2, <1>3, <2>1, Rejected
<1>4. CASE PostThrows(p)
  <2>1. Grows
    <3>1. Posted(p) /\ (Lands(call[p].post) \/ UNCHANGED lspVars)
      BY <1>4 DEF PostThrows
    <3>2. /\ call[p].post \in Posts /\ Follows(call[p].post)
          /\ invoices[call[p].post.invoice].for = p
      BY <3>1, PayerFacts
    <3> QED
      BY <3>1, <3>2, PostLands, RestMoves
  <2> QED
    BY <1>1, <1>2, <1>4, <2>1, PostThrown
<1> QED
  BY <1>3, <1>4 DEF LapThrows

LEMMA ActThrowsKeeps ==
    ASSUME TheaterInv, NEW p \in Payers, ActThrows(p)
    PROVE  TheaterInv'
<1>1. /\ TheaterTypes /\ LedgerInv /\ ProgramInv(p) /\ faults \in Nat
      /\ Acts(p, Off) /\ UNCHANGED settled
  BY PayerFacts DEF ActThrows, sessionVars
<1>2. /\ act' \in [Payers -> Doings]
      /\ \A q \in Payers : q # p => act'[q] = act[q]
      /\ act'[p].at # "redeem" /\ ProgramInv(p)'
  BY <1>1, OffEdit
<1>3. CASE Unanswered(p)
  <2>1. /\ act[p].at \in {"turn", "redeem", "lap", "reread"} /\ call[p] = Calm
        /\ UNCHANGED <<cached, saved, call, late>>
    BY <1>3, PayerFacts DEF Unanswered, clientVars
  <2>2. /\ call' \in [Payers -> Calls] /\ CallInv(p)'
        /\ \A q \in Payers : q # p => call'[q] = call[q]
    BY <1>1, <2>1, Calms DEF TheaterTypes
  <2>3. CASE act[p].at \in {"turn", "lap"} /\ UNCHANGED <<lspVars, faults>>
    <3>1. /\ LedgerInv' /\ Grows /\ MovesOnly(Own(p)) /\ PaidInvoices' = PaidInvoices
          /\ cached' \in 0 .. Len(channels') /\ saved' \in 0 .. Len(channels')
      BY <2>1, <2>3, RestMoves
    <3>2. act[p].at # "redeem" /\ faults' \in {faults, faults + 1}
      BY <2>3
    <3> QED
      BY <1>1, <1>2, <2>1, <2>2, <3>1, <3>2, QuietStep
  <2>4. CASE Fault /\ UNCHANGED lspVars
    <3>1. /\ LedgerInv' /\ Grows /\ MovesOnly(Own(p)) /\ PaidInvoices \subseteq PaidInvoices'
          /\ cached' \in 0 .. Len(channels') /\ saved' \in 0 .. Len(channels')
      BY <2>1, <2>4, RestMoves
    <3>2. faults' = faults + 1
      BY <2>4 DEF Fault
    <3> QED
      BY <1>1, <1>2, <2>1, <2>2, <3>1, <3>2, LoudStep
  <2>5. CASE Fault /\ act[p].at = "redeem" /\ Redeem(act[p].invoice)
    <3>1. /\ act[p].invoice \in DOMAIN invoices /\ invoices[act[p].invoice].for = p
          /\ Status(act[p].invoice) = "paid"
      BY <1>1, <2>5 DEF ProgramInv, Owes
    <3>2. /\ LedgerInv' /\ Grows /\ MovesOnly(Own(p)) /\ PaidInvoices \subseteq PaidInvoices'
          /\ cached' \in 0 .. Len(channels') /\ saved' \in 0 .. Len(channels')
      BY <2>1, <2>5, <3>1, RedeemMoves
    <3>3. faults' = faults + 1
      BY <2>5 DEF Fault
    <3> QED
      BY <1>1, <1>2, <2>1, <2>2, <3>2, <3>3, LoudStep
  <2> QED
    BY <1>3, <2>3, <2>4, <2>5 DEF Unanswered
<1>4. CASE PayThrows(p)
  <2>1. /\ call[p].at \in {"plain", "reading"} /\ Calling(p, Calm)
        /\ UNCHANGED <<invoices, cached, saved, late>>
        /\ OpenChannel \/ UNCHANGED channels
        /\ faults' \in {faults, faults + 1}
    BY <1>4 DEF PayThrows, Fault
  <2>2. /\ call' \in [Payers -> Calls] /\ CallInv(p)'
        /\ \A q \in Payers : q # p => call'[q] = call[q]
    BY <1>1, <2>1, CalmEdit
  <2>3. act[p].at # "redeem"
    <3>1. call[p] # Calm
      BY <2>1 DEF Calm
    <3> QED
      BY <3>1, PayerFacts
  <2>4. /\ LedgerInv' /\ Grows /\ MovesOnly(Own(p)) /\ PaidInvoices' = PaidInvoices
        /\ cached' \in 0 .. Len(channels') /\ saved' \in 0 .. Len(channels')
    BY <2>1, OpenMoves DEF MovesOnly
  <2> QED
    BY <1>1, <1>2, <2>1, <2>2, <2>3, <2>4, QuietStep
<1>5. CASE act[p].at = "paying" /\ PostThrows(p)
  BY <1>1, <1>2, <1>5, PostThrown
<1> QED
  BY <1>3, <1>4, <1>5 DEF ActThrows

-----------------------------------------------------------------------------
(* What happens around the payers.                                         *)
LEMMA WorldKeeps ==
    ASSUME TheaterInv, LedgerInv', Grows, UNCHANGED <<cached, saved, call, act, faults, settled>>,
           Len(channels') = Len(channels), late' \subseteq late,
           \A q \in Payers : Aside(q),
           PaidInvoices \subseteq PaidInvoices', faults = 0 => PaidInvoices' = PaidInvoices
    PROVE  TheaterInv'
<1>1. /\ TheaterTypes /\ LedgerInv /\ LateInv /\ MeterInv
      /\ faults \in Nat /\ settled \in Nat
  BY DEF TheaterInv, TheaterTypes
<1>2. LateInv' /\ late' \subseteq Posts
  BY <1>1, LateStays
<1>3. TheaterTypes'
  BY <1>1, <1>2 DEF TheaterTypes
<1>4. Reckoned \subseteq Reckoned' /\ (faults' = 0 => Reckoned' = Reckoned)
  <2>1. Unsettled' = Unsettled
    BY DEF Unsettled
  <2> QED
    BY <2>1 DEF Reckoned
<1>5. MeterInv'
  BY <1>1, <1>4, MeterStays
<1>6. ASSUME NEW q \in Payers PROVE ProgramInv(q)' /\ CallInv(q)'
  <2>1. ProgramInv(q) /\ CallInv(q) /\ Aside(q) /\ act'[q] = act[q] /\ call'[q] = call[q]
    BY DEF TheaterInv
  <2> QED
    BY <1>1, <2>1, ProgramStays, CallStays
<1> QED
  BY <1>2, <1>3, <1>5, <1>6 DEF TheaterInv

LEMMA ExpireKeeps ==
    ASSUME TheaterInv, NEW i \in 1 .. MaxInvoices, Expire(i),
           UNCHANGED <<clientVars, late, faults, act, settled>>
    PROVE  TheaterInv'
<1>1. /\ LedgerInv /\ i \in DOMAIN invoices /\ Status(i) = "pending"
      /\ invoices' = [invoices EXCEPT ![i].status = "expired"] /\ UNCHANGED channels
      /\ UNCHANGED <<cached, saved, call>>
  BY DEF TheaterInv, Expire, clientVars
<1>2. /\ LedgerInv' /\ Grows /\ DOMAIN invoices' = DOMAIN invoices
      /\ Status(i)' = "expired"
      /\ \A j \in DOMAIN invoices : j # i => invoices'[j] = invoices[j]
  BY <1>1, LedgerMarks
<1>3. \A j \in DOMAIN invoices : \/ Status(j)' = Status(j)
                                 \/ Status(j) = "pending" /\ Status(j)' = "expired"
  BY <1>1, <1>2 DEF Status
<1>4. PaidInvoices' = PaidInvoices
  BY <1>1, <1>2, <1>3, PaidStays
<1>5. \A q \in Payers : Aside(q)
  BY <1>3 DEF Aside
<1> QED
  BY <1>1, <1>2, <1>4, <1>5, WorldKeeps

(* A payment nobody waits for arrives: the meter is behind.                *)
LEMMA LateLandsKeeps ==
    ASSUME TheaterInv, LateLands, UNCHANGED <<act, settled>>
    PROVE  TheaterInv'
<1>1. PICK post \in late : Lands(post) /\ late' = late \ {post}
  BY DEF LateLands
<1>2. /\ LedgerInv /\ LateInv /\ post \in Posts /\ Follows(post)
      /\ UNCHANGED <<cached, saved, call, faults>>
  BY <1>1 DEF TheaterInv, TheaterTypes, LateInv, LateLands, clientVars
<1>3. faults # 0
  BY <1>1, <1>2 DEF LateInv, TheaterInv, TheaterTypes
<1>4. CASE Accepts(post)
  <2>1. /\ LedgerInv' /\ Grows
        /\ DOMAIN invoices' = DOMAIN invoices
        /\ Status(post.invoice) = "pending" /\ Status(post.invoice)' = "paid"
        /\ \A j \in DOMAIN invoices : j # post.invoice => invoices'[j] = invoices[j]
        /\ Len(channels') = Len(channels)
    BY <1>1, <1>2, <1>4, LedgerPays
  <2>2. PaidInvoices' = PaidInvoices \cup {post.invoice}
    BY <1>2, <2>1, PaidGrows DEF Follows
  <2>3. ~Unnamed(post.invoice)
    BY <1>1 DEF Unnamed
  <2>4. \A q \in Payers : Aside(q)
    BY <1>1, <2>1, <2>3 DEF Aside, Status
  <2> QED
    BY <1>1, <1>2, <1>3, <2>1, <2>2, <2>4, WorldKeeps
<1>5. CASE ~Accepts(post)
  <2>1. UNCHANGED lspVars
    BY <1>1, <1>5 DEF Lands
  <2>2. /\ LedgerInv' /\ Grows /\ PaidInvoices' = PaidInvoices
        /\ UNCHANGED <<invoices, channels>>
    BY <2>1, RestMoves
  <2>3. \A q \in Payers : Aside(q)
    BY <1>1, <2>2 DEF Aside, Status
  <2> QED
    BY <1>1, <1>2, <2>2, <2>3, WorldKeeps
<1> QED
  BY <1>4, <1>5

LEMMA RestartKeeps ==
    ASSUME TheaterInv, Restart
    PROVE  TheaterInv'
<1>1. /\ UNCHANGED <<invoices, channels, saved>> /\ cached' = 0 /\ settled' = 0
      /\ act' = [p \in Payers |-> Off] /\ call' = [p \in Payers |-> Calm]
      /\ faults' = faults + 1
  BY DEF Restart, RailForgets, Fault
<1>2. /\ TheaterTypes /\ LedgerInv /\ LateInv /\ faults \in Nat /\ faults' \in Nat /\ faults' > 0
  BY <1>1 DEF TheaterInv, TheaterTypes
<1>3. LedgerInv' /\ Grows
  BY <1>1, <1>2, LedgerRests DEF lspVars
<1>4. \A post \in late' : post \in late \/ (post \in Posts /\ Follows(post))
  <2>1. PICK S \in SUBSET {call[p].post : p \in {q \in Payers : Posted(q)}} : late' = late \cup S
    BY DEF Restart, RailForgets
  <2>2. ASSUME NEW post \in S PROVE post \in Posts /\ Follows(post)
    <3>1. PICK p \in Payers : Posted(p) /\ post = call[p].post
      BY <2>1
    <3> QED
      BY <3>1, PayerFacts
  <2> QED
    BY <2>1, <2>2
<1>5. LateInv' /\ late' \subseteq Posts
  BY <1>2, <1>3, <1>4, LateStays
<1>6. TheaterTypes'
  <2>1. Off \in Doings /\ Calm \in Calls
    BY DEF Doings, Calls
  <2>2. 0 \in 0 .. Len(channels) /\ saved \in 0 .. Len(channels)
    BY <1>2, LedgerFacts DEF TheaterTypes
  <2> QED
    BY <1>1, <1>2, <1>5, <2>1, <2>2 DEF TheaterTypes
<1>7. MeterInv'
  <2>1. Reckoned' \subseteq DOMAIN invoices
    BY <1>1 DEF Reckoned, PaidInvoices
  <2>2. Prices' = Prices
    BY <1>1 DEF Prices
  <2>3. SumFunctionOnSet(Prices, Reckoned') \in Nat
    BY <1>2, <2>1, CountedSums
  <2> QED
    BY <1>1, <1>2, <2>2, <2>3 DEF MeterInv
<1>8. ASSUME NEW p \in Payers PROVE ProgramInv(p)' /\ CallInv(p)'
  <2>1. act'[p].at = "off" /\ call'[p] = Calm
    BY <1>1 DEF Off
  <2> QED
    BY <2>1, Idles, Calms
<1> QED
  BY <1>3, <1>5, <1>6, <1>7, <1>8 DEF TheaterInv

LEMMA TheaterBegins == TheaterInit => TheaterInv
<1> SUFFICES ASSUME TheaterInit PROVE TheaterInv
  OBVIOUS
<1>1. /\ invoices = <<>> /\ channels = <<>> /\ cached = 0 /\ saved = 0 /\ late = {} /\ faults = 0
      /\ call = [p \in Payers |-> Calm] /\ act = [p \in Payers |-> Off] /\ settled = 0
  BY DEF TheaterInit, RailInit
<1>2. /\ Len(invoices) = 0 /\ Len(channels) = 0 /\ DOMAIN invoices = {} /\ DOMAIN channels = {}
  BY <1>1
<1>3. TheaterTypes
  <2>1. Off \in Doings /\ Calm \in Calls
    BY DEF Doings, Calls
  <2> QED
    BY <1>1, <1>2, <2>1 DEF TheaterTypes
<1>4. LedgerInv
  <2>1. BooksBalance
    BY <1>2 DEF BooksBalance
  <2>2. invoices \in Seq(Invoices) /\ channels \in Seq(States)
    BY <1>1
  <2> QED
    BY <1>2, <2>1, <2>2 DEF LedgerInv
<1>5. LateInv
  BY <1>1 DEF LateInv
<1>6. MeterInv
  <2>1. Reckoned = {}
    BY <1>2 DEF Reckoned, PaidInvoices
  <2> QED
    BY <1>1, <2>1, SumEmpty DEF MeterInv
<1>7. ASSUME NEW p \in Payers PROVE ProgramInv(p) /\ CallInv(p)
  <2>1. act[p].at = "off" /\ call[p] = Calm /\ Calm.at = "calm"
    BY <1>1, <1>7 DEF Off, Calm
  <2> QED
    BY <2>1 DEF ProgramInv, CallInv
<1> QED
  BY <1>3, <1>4, <1>5, <1>6, <1>7 DEF TheaterInv

-----------------------------------------------------------------------------
LEMMA TheaterKeeps == TheaterInv /\ [TheaterNext]_theaterVars => TheaterInv'
<1> SUFFICES ASSUME TheaterInv, [TheaterNext]_theaterVars PROVE TheaterInv'
  OBVIOUS
<1>1. CASE HeartbeatStarts \/ \E v \in Visitors, r \in Programs : VisitorStarts(v, r)
  BY <1>1, StartsKeep
<1>2. ASSUME NEW p \in Payers, ActStep(p) PROVE TheaterInv'
  <2>1. CASE RailStep(p) /\ UNCHANGED <<act, sessionVars>>
    BY <2>1, RailStepKeeps DEF sessionVars
  <2> QED
    BY <1>2, <2>1, ChallengedKeeps, TurnPaidKeeps, AnsweredKeeps, RaceEnteredKeeps,
       RaceViewedKeeps, LapInvoicedKeeps, LapPaidKeeps, LapThrowsKeeps, LapRereadsKeeps,
       ActThrowsKeeps DEF ActStep
<1>3. CASE \E i \in 1 .. MaxInvoices :
             Expire(i) /\ UNCHANGED <<clientVars, late, faults, act, sessionVars>>
  BY <1>3, ExpireKeeps DEF sessionVars
<1>4. CASE LateLands /\ UNCHANGED <<act, sessionVars>>
  BY <1>4, LateLandsKeeps DEF sessionVars
<1>5. CASE Restart
  BY <1>5, RestartKeeps
<1>6. CASE UNCHANGED theaterVars
  BY <1>6, StutterKeeps DEF theaterVars, sessionVars
<1> QED
  BY <1>1, <1>2, <1>3, <1>4, <1>5, <1>6 DEF TheaterNext

(* Whoever asks, duels and races on the one channel, what a payer read or  *)
(* posted is the channel's state or an older one the provider rejects, and *)
(* an invoice an ask holds is paid by nothing but its own post             *)
(* (ln402.ts:170, theater.ts:550).                                         *)
THEOREM TheaterInvHolds == TheaterSpec => []TheaterInv
<1>1. TheaterInit => TheaterInv
  BY TheaterBegins
<1>2. TheaterInv /\ [TheaterNext]_theaterVars => TheaterInv'
  BY TheaterKeeps
<1> QED
  BY <1>1, <1>2, PTL DEF TheaterSpec

(* The peer of a channel holds the price of the invoices paid on it, each  *)
(* paid once, whatever was read and posted meanwhile, lost or late         *)
(* (ln402.ts:170, 300).                                                    *)
THEOREM ChannelBooksBalance == TheaterSpec => []BooksBalance
<1>1. TheaterInv => BooksBalance
  BY DEF TheaterInv, LedgerInv
<1> QED
  BY <1>1, TheaterInvHolds, PTL

(* The meter never tells more than the rail was paid, and exactly that     *)
(* when nothing was lost and nothing is under way (theater.ts:162).        *)
THEOREM MeterTellsPaid == TheaterSpec => []MeterIsPaid
<1>1. TheaterInv => MeterIsPaid
  <2> SUFFICES ASSUME TheaterInv PROVE MeterIsPaid
    OBVIOUS
  <2>1. /\ LedgerInv /\ settled \in Nat
        /\ settled <= SumFunctionOnSet(Prices, Reckoned)
        /\ faults = 0 => settled = SumFunctionOnSet(Prices, Reckoned)
    BY DEF TheaterInv, TheaterTypes, MeterInv
  <2>2. /\ SumFunctionOnSet(Prices, PaidInvoices) \in Nat
        /\ SumFunctionOnSet(Prices, Reckoned) \in Nat
        /\ SumFunctionOnSet(Prices, Reckoned) <= SumFunctionOnSet(Prices, PaidInvoices)
    <3>1. PaidInvoices \subseteq DOMAIN invoices /\ Reckoned \subseteq PaidInvoices
      BY DEF PaidInvoices, Reckoned
    <3> QED
      BY <2>1, <3>1, CountedSums
  <2>3. settled <= Paid
    BY <2>1, <2>2 DEF Paid
  <2>4. ASSUME faults = 0, \A p \in Payers : act[p] = Off PROVE settled = Paid
    <3>1. Unsettled = {}
      BY <2>4 DEF Unsettled, Off
    <3>2. Reckoned = PaidInvoices
      BY <3>1 DEF Reckoned
    <3> QED
      BY <2>1, <2>4, <3>2 DEF Paid
  <2> QED
    BY <2>3, <2>4 DEF MeterIsPaid
<1> QED
  BY <1>1, TheaterInvHolds, PTL

====
