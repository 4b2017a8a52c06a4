--------------------------- MODULE ResolverProofs ---------------------------
(***************************************************************************)
(* What the native resolver works with and what it finds.  The comparison  *)
(* of versions is a total order, whatever spellings a catalog mixes.  The  *)
(* search is exact, in spite of the order it tries candidates in and of    *)
(* the two ways it gives up; what it plans leaves the active packages that *)
(* it does not reach with what they depend on; a removal cleans up the     *)
(* largest set it may; and therefore, after any sequence of operations and *)
(* index updates, whatever is active and linked is bound to active         *)
(* versions that its constraints allow.                                    *)
(*                                                                         *)
(* The recursive functions of NativePackages are shown to be functions,    *)
(* and what they compute is proved, with well-founded relations: the order *)
(* of the numbers, and inclusion between the subsets of a finite set.      *)
(***************************************************************************)
EXTENDS NativePackages, VersionConstraints, WellFoundedInduction,
        FiniteSetTheorems, TLAPS

-----------------------------------------------------------------------------
(* Least, greatest, smallest and largest. *)

(* A set of numbers has a least member. *)
LEMMA Least ==
    ASSUME NEW T \in SUBSET Nat, T # {}
    PROVE  \E x \in T : \A y \in T : x <= y
<1> DEFINE less == {xy \in Nat \X Nat : xy[1] < xy[2]}
<1>1. IsWellFoundedOn(less, Nat)
    BY NatLessThanWellFounded, Zenon DEF OpToRel
<1>2. PICK x \in T : \A y \in T : <<y, x>> \notin less
    BY <1>1, WFMin
<1>3. \A y \in T : ~ (y < x)
    BY <1>2
<1> QED BY <1>3

(* Induction over the numbers, for a set of them. *)
LEMMA Counting ==
    ASSUME NEW T, 0 \in T, \A n \in Nat : n \in T => n + 1 \in T
    PROVE  Nat \subseteq T
<1> SUFFICES ASSUME Nat \ T # {} PROVE FALSE
    OBVIOUS
<1>1. PICK x \in Nat \ T : \A y \in Nat \ T : x <= y
    BY Least
<1>2. x # 0 /\ x - 1 \in Nat
    BY <1>1
<1> QED BY <1>1, <1>2

(* Among the subsets of a finite set there are smallest and largest ones.  *)
LEMMA Smallest ==
    ASSUME NEW S, IsFiniteSet(S), NEW T \in SUBSET SUBSET S, T # {}
    PROVE  \E x \in T : \A y \in T : y \subseteq x => y = x
<1>1. IsWellFoundedOn(StrictSubsetOrdering(S), SUBSET S)
    BY FS_StrictSubsetOrderingWellFounded, FS_FiniteSubsetsOfFinite
<1>2. PICK x \in T : \A y \in T : <<y, x>> \notin StrictSubsetOrdering(S)
    BY <1>1, WFMin
<1> QED BY <1>2 DEF StrictSubsetOrdering

(* And a largest one, the complement of a smallest complement.             *)
LEMMA Largest ==
    ASSUME NEW S, IsFiniteSet(S), NEW T \in SUBSET SUBSET S, T # {}
    PROVE  \E x \in T : \A y \in T : x \subseteq y => y = x
<1> DEFINE U == {S \ x : x \in T}
<1>1. U \in SUBSET SUBSET S /\ U # {}
    <2>1. \A u \in U : u \in SUBSET S
        OBVIOUS
    <2>2. PICK x \in T : TRUE
        OBVIOUS
    <2>3. S \ x \in U
        BY <2>2
    <2> HIDE DEF U
    <2> QED BY <2>1, <2>3
<1>2. PICK u \in U : \A w \in U : w \subseteq u => w = u
    <2> HIDE DEF U
    <2> QED BY <1>1, Smallest
<1>3. PICK x \in T : u = S \ x
    BY <1>2
<1>4. ASSUME NEW y \in T, x \subseteq y PROVE y = x
    <2>1. S \ y \in U /\ S \ y \subseteq u
        BY <1>3, <1>4
    <2>2. S \ y = S \ x
        BY <2>1, <1>2, <1>3
    <2> QED BY <2>2
<1> QED BY <1>4

(* A finite set of numbers has a greatest member. *)
LEMMA Greatest ==
    ASSUME NEW T \in SUBSET Nat, T # {}, IsFiniteSet(T)
    PROVE  \E x \in T : \A y \in T : x >= y
<1>0. ASSUME NEW W \in SUBSET SUBSET T, W # {}
      PROVE  \E u \in W : \A w \in W : w \subseteq u => w = u
    <2>1. IsWellFoundedOn(StrictSubsetOrdering(T), SUBSET T)
        BY FS_StrictSubsetOrderingWellFounded, FS_FiniteSubsetsOfFinite
    <2>2. PICK x \in W : \A y \in W : <<y, x>> \notin StrictSubsetOrdering(T)
        BY <1>0, <2>1, WFMin
    <2> QED BY <1>0, <2>2 DEF StrictSubsetOrdering
<1> DEFINE up(x) == {y \in T : y >= x}
           U == {up(x) : x \in T}
<1>1. U \in SUBSET SUBSET T /\ U # {}
    <2>1. \A u \in U : u \in SUBSET T
        OBVIOUS
    <2>2. PICK x \in T : TRUE
        OBVIOUS
    <2>3. up(x) \in U
        BY <2>2
    <2> HIDE DEF U
    <2> QED BY <2>1, <2>3
<1>2. PICK u \in U : \A w \in U : w \subseteq u => w = u
    <2> HIDE DEF U, up
    <2> QED BY <1>0, <1>1
<1>3. PICK x \in T : u = up(x)
    BY <1>2
<1>4. ASSUME NEW y \in T PROVE x >= y
    <2>1. SUFFICES ASSUME ~(x >= y) PROVE FALSE
        OBVIOUS
    <2>2. up(y) \in U
        BY <1>4
    <2>5. up(y) \subseteq up(x)
        <3>1. x \in Nat /\ y \in Nat
            OBVIOUS
        <3>2. \A z \in T : z >= y => z >= x
            BY <2>1, <3>1
        <3> QED BY <3>2
    <2>3. up(y) = up(x)
        BY <2>2, <2>5, <1>2, <1>3
    <2>4. x \in up(x) /\ x \notin up(y)
        BY <2>1
    <2> QED BY <2>3, <2>4
<1> QED BY <1>4

-----------------------------------------------------------------------------
(* The order of versions. *)

(* The comparisons of u with v, v with w and u with w fit an order. *)
Chain(x, y, z) ==
    /\ x \in {-1, 0, 1} /\ y \in {-1, 0, 1} /\ z \in {-1, 0, 1}
    /\ x = 0 => z = y
    /\ y = 0 => z = x
    /\ x = y => z = x

(* Sequences of comparisons: any length, and nothing decides behind it. *)
Comparisons(c) == \E n \in Nat : c \in [1..n -> {-1, 0, 1}]

Entry(c, i) == IF i \in DOMAIN c THEN c[i] ELSE 0

(* Leading is zero, or the first entry that is not. *)
LEMMA FirstDecides ==
  ASSUME NEW c, Comparisons(c)
  PROVE  \/ Leading(c) = 0 /\ \A i \in Nat \ {0} : Entry(c, i) = 0
         \/ \E i \in Nat \ {0} :
               /\ Leading(c) = Entry(c, i) /\ Leading(c) \in {-1, 1}
               /\ \A j \in Nat \ {0} : j < i => Entry(c, j) = 0
<1>1. PICK n \in Nat : c \in [1..n -> {-1, 0, 1}]
  BY DEF Comparisons
<1>2. CASE \A i \in DOMAIN c : c[i] = 0
  BY <1>1, <1>2 DEF Leading, Entry
<1>3. CASE \E i \in DOMAIN c : c[i] # 0
  <2> DEFINE S == {i \in DOMAIN c : c[i] # 0}
  <2>1. PICK k \in S : \A j \in S : k <= j
    <3>1. S \subseteq Nat /\ S # {}
      BY <1>1, <1>3
    <3> QED BY <3>1, Least
  <2>2. Decides(c, k)
    BY <1>1, <2>1 DEF Decides
  <2>3. \E i \in DOMAIN c : Decides(c, i)
    BY <2>1, <2>2
  <2> DEFINE i == CHOOSE l \in DOMAIN c : Decides(c, l)
  <2>4. i \in DOMAIN c /\ Decides(c, i)
    BY <2>3
  <2>5. Leading(c) = c[i]
    BY <1>3 DEF Leading
  <2>6. i \in Nat \ {0} /\ Leading(c) = Entry(c, i) /\ Leading(c) \in {-1, 1}
    BY <1>1, <2>4, <2>5 DEF Entry, Decides
  <2>7. \A j \in Nat \ {0} : j < i => Entry(c, j) = 0
    BY <1>1, <2>4 DEF Entry, Decides
  <2> QED BY <2>6, <2>7
<1> QED BY <1>2, <1>3

(* Leading is a comparison. *)
LEMMA FirstType ==
  ASSUME NEW c, Comparisons(c)
  PROVE  Leading(c) \in {-1, 0, 1}
BY FirstDecides

(* The first entry that is not zero is the one Leading has. *)
LEMMA FirstAt ==
  ASSUME NEW c, Comparisons(c), NEW k \in Nat \ {0}, Entry(c, k) # 0,
         \A j \in Nat \ {0} : j < k => Entry(c, j) = 0
  PROVE  Leading(c) = Entry(c, k)
<1>1. PICK i \in Nat \ {0} :
         /\ Leading(c) = Entry(c, i) /\ Leading(c) \in {-1, 1}
         /\ \A j \in Nat \ {0} : j < i => Entry(c, j) = 0
  BY FirstDecides
<1>2. ~(i < k) /\ ~(k < i)
  BY <1>1
<1>3. i = k
  BY <1>2
<1> QED BY <1>1, <1>3

(* Comparing one place after the other keeps the order. *)
LEMMA FirstChains ==
  ASSUME NEW x, NEW y, NEW z,
         Comparisons(x), Comparisons(y), Comparisons(z),
         \A i \in Nat \ {0} : Chain(Entry(x, i), Entry(y, i), Entry(z, i))
  PROVE  Chain(Leading(x), Leading(y), Leading(z))
<1> DEFINE S == {i \in Nat \ {0} : Entry(x, i) # 0 \/ Entry(y, i) # 0}
<1>1. Leading(x) \in {-1, 0, 1} /\ Leading(y) \in {-1, 0, 1} /\ Leading(z) \in {-1, 0, 1}
  BY FirstType
<1>2. CASE S = {}
  <2>1. \A i \in Nat \ {0} : Entry(x, i) = 0 /\ Entry(y, i) = 0 /\ Entry(z, i) = 0
    BY <1>2 DEF Chain
  <2>2. Leading(x) = 0 /\ Leading(y) = 0 /\ Leading(z) = 0
    BY <2>1, FirstDecides
  <2> QED BY <2>2 DEF Chain
<1>3. CASE S # {}
  <2>1. PICK k \in S : \A j \in S : k <= j
    <3>1. S \subseteq Nat
      OBVIOUS
    <3> QED BY <1>3, <3>1, Least
  <2>2. \A j \in Nat \ {0} : j < k => Entry(x, j) = 0 /\ Entry(y, j) = 0
    BY <2>1
  <2>3. \A j \in Nat \ {0} : j < k => Entry(z, j) = 0
    BY <2>2 DEF Chain
  <2>4. Chain(Entry(x, k), Entry(y, k), Entry(z, k))
    OBVIOUS
  <2>5. Entry(x, k) # 0 => Leading(x) = Entry(x, k)
    BY <2>2, FirstAt
  <2>6. Entry(y, k) # 0 => Leading(y) = Entry(y, k)
    BY <2>2, FirstAt
  <2>7. Entry(z, k) # 0 => Leading(z) = Entry(z, k)
    BY <2>3, FirstAt
  <2>8. Entry(x, k) # 0 \/ Entry(y, k) # 0
    OBVIOUS
  <2> HIDE DEF S
  <2> QED BY <1>1, <2>4, <2>5, <2>6, <2>7, <2>8 DEF Chain
<1> QED BY <1>2, <1>3

-----------------------------------------------------------------------------

(* Numbers. *)
LEMMA SignChains ==
  ASSUME NEW a \in Int, NEW b \in Int, NEW c \in Int
  PROVE  Chain(Sign(a, b), Sign(b, c), Sign(a, c)) /\ Sign(a, a) = 0
BY DEF Chain, Sign

(* Tokens: numbers come before text. *)
LEMMA TokenChains ==
  ASSUME NEW a \in Token, NEW b \in Token, NEW c \in Token
  PROVE  /\ Chain(compareToken(a, b), compareToken(b, c), compareToken(a, c))
         /\ compareToken(a, a) = 0
<1>1. a.rank \in Int /\ b.rank \in Int /\ c.rank \in Int
  BY DEF Token
<1>2. a.number \in BOOLEAN /\ b.number \in BOOLEAN /\ c.number \in BOOLEAN
  BY DEF Token
<1>3. CASE a.number = b.number /\ b.number = c.number
  BY <1>1, <1>3, SignChains DEF compareToken
<1>4. CASE ~(a.number = b.number /\ b.number = c.number)
  BY <1>1, <1>2, <1>4, SignChains DEF compareToken, Chain
<1> QED BY <1>3, <1>4

(* One place of two sequences, of which one or both may have ended. *)
Padded(m, n, i, c) ==
    IF i > m /\ i > n THEN 0 ELSE IF i > m THEN -1 ELSE IF i > n THEN 1 ELSE c

(* Where sequences end at different places, the order is kept. *)
LEMMA PaddedChains ==
  ASSUME NEW l \in Nat, NEW m \in Nat, NEW n \in Nat, NEW i \in Nat,
         NEW x, NEW y, NEW z,
         i <= l /\ i <= m => x \in {-1, 0, 1},
         i <= m /\ i <= n => y \in {-1, 0, 1},
         i <= l /\ i <= n => z \in {-1, 0, 1},
         i <= l /\ i <= m /\ i <= n => Chain(x, y, z)
  PROVE  Chain(Padded(l, m, i, x), Padded(m, n, i, y), Padded(l, n, i, z))
<1> DEFINE p == Padded(l, m, i, x)
           q == Padded(m, n, i, y)
           r == Padded(l, n, i, z)
<1>1. CASE i <= l /\ i <= m /\ i <= n
  BY <1>1 DEF Padded
<1>2. CASE i <= l /\ i <= m /\ i > n
  <2>1. p = x /\ q = 1 /\ r = 1 /\ x \in {-1, 0, 1}
    BY <1>2 DEF Padded
  <2> QED BY <2>1 DEF Chain
<1>3. CASE i <= l /\ i > m /\ i <= n
  <2>1. p = 1 /\ q = -1 /\ r = z /\ z \in {-1, 0, 1}
    BY <1>3 DEF Padded
  <2> QED BY <2>1 DEF Chain
<1>4. CASE i <= l /\ i > m /\ i > n
  <2>1. p = 1 /\ q = 0 /\ r = 1
    BY <1>4 DEF Padded
  <2> QED BY <2>1 DEF Chain
<1>5. CASE i > l /\ i <= m /\ i <= n
  <2>1. p = -1 /\ q = y /\ r = -1 /\ y \in {-1, 0, 1}
    BY <1>5 DEF Padded
  <2> QED BY <2>1 DEF Chain
<1>6. CASE i > l /\ i <= m /\ i > n
  <2>1. p = -1 /\ q = 1 /\ r = 0
    BY <1>6 DEF Padded
  <2> QED BY <2>1 DEF Chain
<1>7. CASE i > l /\ i > m /\ i <= n
  <2>1. p = 0 /\ q = -1 /\ r = -1
    BY <1>7 DEF Padded
  <2> QED BY <2>1 DEF Chain
<1>8. CASE i > l /\ i > m /\ i > n
  <2>1. p = 0 /\ q = 0 /\ r = 0
    BY <1>8 DEF Padded
  <2> QED BY <2>1 DEF Chain
<1> QED BY <1>1, <1>2, <1>3, <1>4, <1>5, <1>6, <1>7, <1>8

NaturalAt(a, b) ==
    [i \in 1..Longer(a, b) |->
        IF i > Len(a) THEN -1 ELSE IF i > Len(b) THEN 1 ELSE compareToken(a[i], b[i])]

(* compareNatural, place by place. *)
LEMMA NaturalEntries ==
  ASSUME NEW a \in Seq(Token), NEW b \in Seq(Token)
  PROVE  /\ compareNatural(a, b) = Leading(NaturalAt(a, b))
         /\ Comparisons(NaturalAt(a, b))
         /\ \A i \in Nat \ {0} :
               Entry(NaturalAt(a, b), i) = Padded(Len(a), Len(b), i, compareToken(a[i], b[i]))
<1>1. Len(a) \in Nat /\ Len(b) \in Nat /\ Longer(a, b) \in Nat
  BY DEF Longer
<1>2. compareNatural(a, b) = Leading(NaturalAt(a, b))
  BY DEF compareNatural, NaturalAt
<1>3. \A i \in 1..Longer(a, b) : i <= Len(a) /\ i <= Len(b) =>
         a[i] \in Token /\ b[i] \in Token
  BY <1>1
<1>4. \A i \in 1..Longer(a, b) : i <= Len(a) /\ i <= Len(b) =>
         compareToken(a[i], b[i]) \in {-1, 0, 1}
  BY <1>3, TokenChains DEF Chain
<1>5. NaturalAt(a, b) \in [1..Longer(a, b) -> {-1, 0, 1}]
  BY <1>1, <1>4 DEF NaturalAt
<1>6. ASSUME NEW i \in Nat \ {0}
      PROVE  Entry(NaturalAt(a, b), i) = Padded(Len(a), Len(b), i, compareToken(a[i], b[i]))
  <2>1. CASE i \in 1..Longer(a, b)
    BY <1>1, <2>1 DEF Entry, NaturalAt, Padded, Longer
  <2>2. CASE i \notin 1..Longer(a, b)
    <3>1. i > Len(a) /\ i > Len(b)
      BY <1>1, <2>2 DEF Longer
    <3> QED BY <2>2, <3>1 DEF Entry, NaturalAt, Padded
  <2> QED BY <2>1, <2>2
<1> QED BY <1>1, <1>2, <1>5, <1>6 DEF Comparisons

(* Sequences of tokens. *)
LEMMA NaturalChains ==
  ASSUME NEW a \in Seq(Token), NEW b \in Seq(Token), NEW c \in Seq(Token)
  PROVE  /\ Chain(compareNatural(a, b), compareNatural(b, c), compareNatural(a, c))
         /\ compareNatural(a, a) = 0
<1>1. ASSUME NEW i \in Nat \ {0}
      PROVE  Chain(Entry(NaturalAt(a, b), i), Entry(NaturalAt(b, c), i), Entry(NaturalAt(a, c), i))
  <2> DEFINE x == compareToken(a[i], b[i])
             y == compareToken(b[i], c[i])
             z == compareToken(a[i], c[i])
  <2>1. /\ i <= Len(a) => a[i] \in Token
        /\ i <= Len(b) => b[i] \in Token
        /\ i <= Len(c) => c[i] \in Token
    OBVIOUS
  <2>2. /\ i <= Len(a) /\ i <= Len(b) => x \in {-1, 0, 1}
        /\ i <= Len(b) /\ i <= Len(c) => y \in {-1, 0, 1}
        /\ i <= Len(a) /\ i <= Len(c) => z \in {-1, 0, 1}
    BY <2>1, TokenChains DEF Chain
  <2>3. i <= Len(a) /\ i <= Len(b) /\ i <= Len(c) => Chain(x, y, z)
    BY <2>1, TokenChains
  <2>4. Len(a) \in Nat /\ Len(b) \in Nat /\ Len(c) \in Nat
    OBVIOUS
  <2> HIDE DEF x, y, z
  <2>5. Chain(Padded(Len(a), Len(b), i, x), Padded(Len(b), Len(c), i, y),
              Padded(Len(a), Len(c), i, z))
    BY <2>2, <2>3, <2>4, PaddedChains
  <2> QED BY <2>5, NaturalEntries DEF x, y, z
<1>2. Chain(compareNatural(a, b), compareNatural(b, c), compareNatural(a, c))
  BY <1>1, NaturalEntries, FirstChains
<1>3. \A i \in Nat \ {0} : Entry(NaturalAt(a, a), i) = 0
  <2>1. ASSUME NEW i \in Nat \ {0}, i <= Len(a) PROVE compareToken(a[i], a[i]) = 0
    <3>1. a[i] \in Token
      BY <2>1
    <3> QED BY <3>1, TokenChains
  <2> QED BY <2>1, NaturalEntries DEF Padded
<1>4. compareNatural(a, a) = 0
  <2>1. Leading(NaturalAt(a, a)) = 0
    BY <1>3, NaturalEntries, FirstDecides
  <2> QED BY <2>1, NaturalEntries
<1> QED BY <1>2, <1>4

IdentifierAt(a, b) ==
    [i \in 1..Longer(a, b) |->
        IF i > Len(a) THEN -1 ELSE IF i > Len(b) THEN 1 ELSE compareNatural(a[i], b[i])]

(* compareIdentifiers, place by place. *)
LEMMA IdentifierEntries ==
  ASSUME NEW a \in Seq(Seq(Token)), NEW b \in Seq(Seq(Token))
  PROVE  /\ compareIdentifiers(a, b) = Leading(IdentifierAt(a, b))
         /\ Comparisons(IdentifierAt(a, b))
         /\ \A i \in Nat \ {0} :
               Entry(IdentifierAt(a, b), i) = Padded(Len(a), Len(b), i, compareNatural(a[i], b[i]))
<1>1. Len(a) \in Nat /\ Len(b) \in Nat /\ Longer(a, b) \in Nat
  BY DEF Longer
<1>2. compareIdentifiers(a, b) = Leading(IdentifierAt(a, b))
  BY DEF compareIdentifiers, IdentifierAt
<1>3. \A i \in 1..Longer(a, b) : i <= Len(a) /\ i <= Len(b) =>
         a[i] \in Seq(Token) /\ b[i] \in Seq(Token)
  BY <1>1
<1>4. \A i \in 1..Longer(a, b) : i <= Len(a) /\ i <= Len(b) =>
         compareNatural(a[i], b[i]) \in {-1, 0, 1}
  BY <1>3, NaturalChains DEF Chain
<1>5. IdentifierAt(a, b) \in [1..Longer(a, b) -> {-1, 0, 1}]
  <2>1. ASSUME NEW i \in 1..Longer(a, b)
        PROVE  (IF i > Len(a) THEN -1 ELSE IF i > Len(b) THEN 1 ELSE compareNatural(a[i], b[i]))
                  \in {-1, 0, 1}
    <3>1. i > Len(a) \/ i > Len(b) \/ (i <= Len(a) /\ i <= Len(b))
      BY <1>1
    <3> QED BY <1>4, <3>1
  <2> QED BY <2>1 DEF IdentifierAt
<1>6. ASSUME NEW i \in Nat \ {0}
      PROVE  Entry(IdentifierAt(a, b), i) = Padded(Len(a), Len(b), i, compareNatural(a[i], b[i]))
  <2>1. CASE i \in 1..Longer(a, b)
    BY <1>1, <2>1 DEF Entry, IdentifierAt, Padded, Longer
  <2>2. CASE i \notin 1..Longer(a, b)
    <3>1. i > Len(a) /\ i > Len(b)
      BY <1>1, <2>2 DEF Longer
    <3> QED BY <2>2, <3>1 DEF Entry, IdentifierAt, Padded
  <2> QED BY <2>1, <2>2
<1> QED BY <1>1, <1>2, <1>5, <1>6 DEF Comparisons

(* Sequences of prerelease identifiers. *)
LEMMA IdentifierChains ==
  ASSUME NEW a \in Seq(Seq(Token)), NEW b \in Seq(Seq(Token)), NEW c \in Seq(Seq(Token))
  PROVE  /\ Chain(compareIdentifiers(a, b), compareIdentifiers(b, c), compareIdentifiers(a, c))
         /\ compareIdentifiers(a, a) = 0
<1>1. ASSUME NEW i \in Nat \ {0}
      PROVE  Chain(Entry(IdentifierAt(a, b), i), Entry(IdentifierAt(b, c), i),
                   Entry(IdentifierAt(a, c), i))
  <2> DEFINE x == compareNatural(a[i], b[i])
             y == compareNatural(b[i], c[i])
             z == compareNatural(a[i], c[i])
  <2>1. /\ i <= Len(a) => a[i] \in Seq(Token)
        /\ i <= Len(b) => b[i] \in Seq(Token)
        /\ i <= Len(c) => c[i] \in Seq(Token)
    OBVIOUS
  <2>2. /\ i <= Len(a) /\ i <= Len(b) => x \in {-1, 0, 1}
        /\ i <= Len(b) /\ i <= Len(c) => y \in {-1, 0, 1}
        /\ i <= Len(a) /\ i <= Len(c) => z \in {-1, 0, 1}
    BY <2>1, NaturalChains DEF Chain
  <2>3. i <= Len(a) /\ i <= Len(b) /\ i <= Len(c) => Chain(x, y, z)
    BY <2>1, NaturalChains
  <2>4. Len(a) \in Nat /\ Len(b) \in Nat /\ Len(c) \in Nat
    OBVIOUS
  <2> HIDE DEF x, y, z
  <2>5. Chain(Padded(Len(a), Len(b), i, x), Padded(Len(b), Len(c), i, y),
              Padded(Len(a), Len(c), i, z))
    BY <2>2, <2>3, <2>4, PaddedChains
  <2> QED BY <2>5, IdentifierEntries DEF x, y, z
<1>2. Chain(compareIdentifiers(a, b), compareIdentifiers(b, c), compareIdentifiers(a, c))
  BY <1>1, IdentifierEntries, FirstChains
<1>3. \A i \in Nat \ {0} : Entry(IdentifierAt(a, a), i) = 0
  <2>1. ASSUME NEW i \in Nat \ {0}, i <= Len(a) PROVE compareNatural(a[i], a[i]) = 0
    <3>1. a[i] \in Seq(Token)
      BY <2>1
    <3> QED BY <3>1, NaturalChains
  <2> QED BY <2>1, IdentifierEntries DEF Padded
<1>4. compareIdentifiers(a, a) = 0
  <2>1. Leading(IdentifierAt(a, a)) = 0
    BY <1>3, IdentifierEntries, FirstDecides
  <2> QED BY <2>1, IdentifierEntries
<1> QED BY <1>2, <1>4

(* A release, without identifiers, is behind all that have some. *)
LEMMA PrereleaseChains ==
  ASSUME NEW a \in Seq(Seq(Token)), NEW b \in Seq(Seq(Token)), NEW c \in Seq(Seq(Token))
  PROVE  /\ Chain(comparePrerelease(a, b), comparePrerelease(b, c), comparePrerelease(a, c))
         /\ comparePrerelease(a, a) = 0
<1> DEFINE P(u, v) ==
              IF u = <<>> THEN IF v = <<>> THEN 0 ELSE 1
              ELSE IF v = <<>> THEN -1 ELSE compareIdentifiers(u, v)
<1>1. ASSUME NEW u \in Seq(Seq(Token)), NEW v \in Seq(Seq(Token))
      PROVE  comparePrerelease(u, v) = P(u, v)
  <2>1. (u = <<>> <=> Len(u) = 0) /\ (v = <<>> <=> Len(v) = 0) /\ Len(u) \in Nat /\ Len(v) \in Nat
    OBVIOUS
  <2> QED BY <2>1 DEF comparePrerelease, Sign
<1>2. /\ Chain(compareIdentifiers(a, b), compareIdentifiers(b, c), compareIdentifiers(a, c))
      /\ compareIdentifiers(a, a) = 0
  BY IdentifierChains
<1>3. Chain(P(a, b), P(b, c), P(a, c)) /\ P(a, a) = 0
  BY <1>2 DEF Chain
<1> QED BY <1>1, <1>3

CoreAt(a, b) == [i \in 1..Longer(a, b) |-> Sign(Part(a, i), Part(b, i))]

(* compareCore, place by place, with zeros behind the end. *)
LEMMA CoreEntries ==
  ASSUME NEW a \in Seq(Nat), NEW b \in Seq(Nat)
  PROVE  /\ compareCore(a, b) = Leading(CoreAt(a, b))
         /\ Comparisons(CoreAt(a, b))
         /\ \A i \in Nat \ {0} :
               /\ Part(a, i) \in Int /\ Part(b, i) \in Int
               /\ Entry(CoreAt(a, b), i) = Sign(Part(a, i), Part(b, i))
<1>1. Len(a) \in Nat /\ Len(b) \in Nat /\ Longer(a, b) \in Nat
  BY DEF Longer
<1>2. compareCore(a, b) = Leading(CoreAt(a, b))
  BY DEF compareCore, CoreAt
<1>3. \A i \in Nat \ {0} : Part(a, i) \in Int /\ Part(b, i) \in Int
  BY DEF Part
<1>4. CoreAt(a, b) \in [1..Longer(a, b) -> {-1, 0, 1}]
  BY <1>1 DEF CoreAt, Sign
<1>5. ASSUME NEW i \in Nat \ {0}
      PROVE  Entry(CoreAt(a, b), i) = Sign(Part(a, i), Part(b, i))
  <2>1. CASE i \in 1..Longer(a, b)
    BY <2>1 DEF Entry, CoreAt
  <2>2. CASE i \notin 1..Longer(a, b)
    <3>1. ~(i <= Len(a)) /\ ~(i <= Len(b))
      BY <1>1, <2>2 DEF Longer
    <3>2. Part(a, i) = 0 /\ Part(b, i) = 0
      BY <3>1 DEF Part
    <3> QED BY <2>2, <3>2 DEF Entry, CoreAt, Sign
  <2> QED BY <2>1, <2>2
<1> QED BY <1>1, <1>2, <1>3, <1>4, <1>5 DEF Comparisons

(* Numeric cores. *)
LEMMA CoreChains ==
  ASSUME NEW a \in Seq(Nat), NEW b \in Seq(Nat), NEW c \in Seq(Nat)
  PROVE  /\ Chain(compareCore(a, b), compareCore(b, c), compareCore(a, c))
         /\ compareCore(a, a) = 0
<1>1. \A i \in Nat \ {0} :
         Chain(Entry(CoreAt(a, b), i), Entry(CoreAt(b, c), i), Entry(CoreAt(a, c), i))
  BY CoreEntries, SignChains
<1>2. Chain(compareCore(a, b), compareCore(b, c), compareCore(a, c))
  BY <1>1, CoreEntries, FirstChains
<1>3. \A i \in Nat \ {0} : Entry(CoreAt(a, a), i) = 0
  BY CoreEntries, SignChains
<1>4. Leading(CoreAt(a, a)) = 0
  BY <1>3, CoreEntries, FirstDecides
<1> QED BY <1>2, <1>4, CoreEntries

-----------------------------------------------------------------------------

Three == {-1, 0, 1}

(* Two comparisons, one after the other. *)
LEMMA PairEntries ==
  ASSUME NEW a \in Three, NEW b \in Three
  PROVE  /\ Comparisons(<<a, b>>)
         /\ \A i \in Nat \ {0} :
               Entry(<<a, b>>, i) = IF i = 1 THEN a ELSE IF i = 2 THEN b ELSE 0
<1>1. <<a, b>> \in [1..2 -> Three] /\ DOMAIN <<a, b>> = 1..2
  OBVIOUS
<1> QED BY <1>1 DEF Comparisons, Entry, Three

(* Four of them. *)
LEMMA QuadrupleEntries ==
  ASSUME NEW a \in Three, NEW b \in Three, NEW c \in Three, NEW d \in Three
  PROVE  /\ Comparisons(<<a, b, c, d>>)
         /\ \A i \in Nat \ {0} :
               Entry(<<a, b, c, d>>, i) =
                  IF i = 1 THEN a ELSE IF i = 2 THEN b ELSE IF i = 3 THEN c
                  ELSE IF i = 4 THEN d ELSE 0
<1>1. <<a, b, c, d>> \in [1..4 -> Three] /\ DOMAIN <<a, b, c, d>> = 1..4
  OBVIOUS
<1> QED BY <1>1 DEF Comparisons, Entry, Three

(* Comparing pairs. *)
LEMMA PairChains ==
  ASSUME NEW x1, NEW x2, NEW y1, NEW y2, NEW z1, NEW z2,
         Chain(x1, y1, z1), Chain(x2, y2, z2)
  PROVE  Chain(Leading(<<x1, x2>>), Leading(<<y1, y2>>), Leading(<<z1, z2>>))
<1>1. /\ x1 \in Three /\ x2 \in Three /\ y1 \in Three /\ y2 \in Three
      /\ z1 \in Three /\ z2 \in Three /\ Chain(0, 0, 0)
  BY DEF Chain, Three
<1> DEFINE x == <<x1, x2>>
           y == <<y1, y2>>
           z == <<z1, z2>>
<1>2. /\ Comparisons(x)
      /\ \A i \in Nat \ {0} : Entry(x, i) = IF i = 1 THEN x1 ELSE IF i = 2 THEN x2 ELSE 0
  BY <1>1, PairEntries
<1>3. /\ Comparisons(y)
      /\ \A i \in Nat \ {0} : Entry(y, i) = IF i = 1 THEN y1 ELSE IF i = 2 THEN y2 ELSE 0
  BY <1>1, PairEntries
<1>4. /\ Comparisons(z)
      /\ \A i \in Nat \ {0} : Entry(z, i) = IF i = 1 THEN z1 ELSE IF i = 2 THEN z2 ELSE 0
  BY <1>1, PairEntries
<1> HIDE DEF x, y, z
<1>5. \A i \in Nat \ {0} : Chain(Entry(x, i), Entry(y, i), Entry(z, i))
  BY <1>1, <1>2, <1>3, <1>4
<1>6. Chain(Leading(x), Leading(y), Leading(z))
  BY <1>2, <1>3, <1>4, <1>5, FirstChains
<1> QED BY <1>6 DEF x, y, z

(* Comparing quadruples. *)
LEMMA QuadrupleChains ==
  ASSUME NEW x1, NEW x2, NEW x3, NEW x4, NEW y1, NEW y2, NEW y3, NEW y4,
         NEW z1, NEW z2, NEW z3, NEW z4,
         Chain(x1, y1, z1), Chain(x2, y2, z2), Chain(x3, y3, z3), Chain(x4, y4, z4)
  PROVE  Chain(Leading(<<x1, x2, x3, x4>>), Leading(<<y1, y2, y3, y4>>), Leading(<<z1, z2, z3, z4>>))
<1>1. /\ x1 \in Three /\ x2 \in Three /\ x3 \in Three /\ x4 \in Three
      /\ y1 \in Three /\ y2 \in Three /\ y3 \in Three /\ y4 \in Three
      /\ z1 \in Three /\ z2 \in Three /\ z3 \in Three /\ z4 \in Three
      /\ Chain(0, 0, 0)
  BY DEF Chain, Three
<1> DEFINE x == <<x1, x2, x3, x4>>
           y == <<y1, y2, y3, y4>>
           z == <<z1, z2, z3, z4>>
<1>2. /\ Comparisons(x)
      /\ \A i \in Nat \ {0} :
            Entry(x, i) = IF i = 1 THEN x1 ELSE IF i = 2 THEN x2 ELSE IF i = 3 THEN x3
                          ELSE IF i = 4 THEN x4 ELSE 0
  BY <1>1, QuadrupleEntries
<1>3. /\ Comparisons(y)
      /\ \A i \in Nat \ {0} :
            Entry(y, i) = IF i = 1 THEN y1 ELSE IF i = 2 THEN y2 ELSE IF i = 3 THEN y3
                          ELSE IF i = 4 THEN y4 ELSE 0
  BY <1>1, QuadrupleEntries
<1>4. /\ Comparisons(z)
      /\ \A i \in Nat \ {0} :
            Entry(z, i) = IF i = 1 THEN z1 ELSE IF i = 2 THEN z2 ELSE IF i = 3 THEN z3
                          ELSE IF i = 4 THEN z4 ELSE 0
  BY <1>1, QuadrupleEntries
<1> HIDE DEF x, y, z
<1>5. \A i \in Nat \ {0} : Chain(Entry(x, i), Entry(y, i), Entry(z, i))
  BY <1>1, <1>2, <1>3, <1>4
<1>6. Chain(Leading(x), Leading(y), Leading(z))
  BY <1>2, <1>3, <1>4, <1>5, FirstChains
<1> QED BY <1>6 DEF x, y, z

(* Equal in all parts is equal. *)
LEMMA ZerosDoNotDecide ==
  /\ Leading(<<0, 0>>) = 0
  /\ Leading(<<0, 0, 0, 0>>) = 0
<1>1. DOMAIN <<0, 0>> = 1..2 /\ \A i \in 1..2 : <<0, 0>>[i] = 0
  OBVIOUS
<1>2. DOMAIN <<0, 0, 0, 0>> = 1..4 /\ \A i \in 1..4 : <<0, 0, 0, 0>>[i] = 0
  OBVIOUS
<1> QED BY <1>1, <1>2 DEF Leading

(* Ordered versions. *)
LEMMA ParsedChains ==
  ASSUME NEW a \in comparableVersion, NEW b \in comparableVersion, NEW c \in comparableVersion
  PROVE  /\ Chain(compareParsed(a, b), compareParsed(b, c), compareParsed(a, c))
         /\ compareParsed(a, a) = 0
<1> DEFINE Parts(u, v) ==
              <<compareCore(u.core, v.core), Sign(u.letter, v.letter),
                comparePrerelease(u.prerelease, v.prerelease), Sign(u.revision, v.revision)>>
<1>1. /\ a.core \in Seq(Nat) /\ b.core \in Seq(Nat) /\ c.core \in Seq(Nat)
      /\ a.letter \in Int /\ b.letter \in Int /\ c.letter \in Int
      /\ a.prerelease \in Seq(Seq(Token)) /\ b.prerelease \in Seq(Seq(Token))
      /\ c.prerelease \in Seq(Seq(Token))
      /\ a.revision \in Int /\ b.revision \in Int /\ c.revision \in Int
  BY DEF comparableVersion
<1>2. /\ Chain(compareCore(a.core, b.core), compareCore(b.core, c.core), compareCore(a.core, c.core))
      /\ compareCore(a.core, a.core) = 0
  BY <1>1, CoreChains
<1>3. /\ Chain(Sign(a.letter, b.letter), Sign(b.letter, c.letter), Sign(a.letter, c.letter))
      /\ Sign(a.letter, a.letter) = 0
  BY <1>1, SignChains
<1>4. /\ Chain(comparePrerelease(a.prerelease, b.prerelease),
               comparePrerelease(b.prerelease, c.prerelease),
               comparePrerelease(a.prerelease, c.prerelease))
      /\ comparePrerelease(a.prerelease, a.prerelease) = 0
  BY <1>1, PrereleaseChains
<1>5. /\ Chain(Sign(a.revision, b.revision), Sign(b.revision, c.revision),
               Sign(a.revision, c.revision))
      /\ Sign(a.revision, a.revision) = 0
  BY <1>1, SignChains
<1>6. Chain(compareParsed(a, b), compareParsed(b, c), compareParsed(a, c))
  BY <1>2, <1>3, <1>4, <1>5, QuadrupleChains DEF compareParsed
<1>7. compareParsed(a, a) = 0
  BY <1>2, <1>3, <1>4, <1>5, ZerosDoNotDecide DEF compareParsed
<1> QED BY <1>6, <1>7

(* Opaque versions. *)
LEMMA OpaqueChains ==
  ASSUME NEW a \in comparableVersion, NEW b \in comparableVersion, NEW c \in comparableVersion
  PROVE  /\ Chain(compareOpaque(a, b), compareOpaque(b, c), compareOpaque(a, c))
         /\ compareOpaque(a, a) = 0
<1>1. /\ a.tokens \in Seq(Token) /\ b.tokens \in Seq(Token) /\ c.tokens \in Seq(Token)
      /\ a.bytes \in Int /\ b.bytes \in Int /\ c.bytes \in Int
  BY DEF comparableVersion
<1>2. /\ Chain(compareNatural(a.tokens, b.tokens), compareNatural(b.tokens, c.tokens),
               compareNatural(a.tokens, c.tokens))
      /\ compareNatural(a.tokens, a.tokens) = 0
  BY <1>1, NaturalChains
<1>3. /\ Chain(Sign(a.bytes, b.bytes), Sign(b.bytes, c.bytes), Sign(a.bytes, c.bytes))
      /\ Sign(a.bytes, a.bytes) = 0
  BY <1>1, SignChains
<1>4. Chain(compareOpaque(a, b), compareOpaque(b, c), compareOpaque(a, c))
  BY <1>2, <1>3, PairChains DEF compareOpaque
<1>5. compareOpaque(a, a) = 0
  BY <1>2, <1>3, ZerosDoNotDecide DEF compareOpaque
<1> QED BY <1>4, <1>5

-----------------------------------------------------------------------------

(* CompareVersions is a total order on the versions that are read: its     *)
(* result is -1, 0 or 1, a version is equal to itself, what is before in   *)
(* one direction is behind in the other, and the comparison of u with w    *)
(* follows from those with v (catalog/constraints.go, CompareVersions).    *)
THEOREM VersionsAreOrdered ==
  ASSUME NEW u \in Word, NEW v \in Word, NEW w \in Word
  PROVE  /\ CompareVersions(u, u) = 0
         /\ CompareVersions(v, u) = 0 - CompareVersions(u, v)
         /\ CompareVersions(u, v) <= 0 /\ CompareVersions(v, w) <= 0 =>
               /\ CompareVersions(u, w) <= 0
               /\ CompareVersions(u, w) = 0 =>
                     CompareVersions(u, v) = 0 /\ CompareVersions(v, w) = 0
<1>1. ASSUME NEW a \in comparableVersion, NEW b \in comparableVersion, NEW c \in comparableVersion
      PROVE  /\ Chain(compareSpelled(a, b), compareSpelled(b, c), compareSpelled(a, c))
             /\ compareSpelled(a, a) = 0
  <2>1. /\ Chain(compareParsed(a, b), compareParsed(b, c), compareParsed(a, c))
        /\ compareParsed(a, b) \in Three /\ compareParsed(b, c) \in Three
        /\ compareParsed(a, c) \in Three
        /\ compareParsed(a, a) = 0
    BY ParsedChains DEF Chain, Three
  <2>2. /\ Chain(compareOpaque(a, b), compareOpaque(b, c), compareOpaque(a, c))
        /\ compareOpaque(a, b) \in Three /\ compareOpaque(b, c) \in Three
        /\ compareOpaque(a, c) \in Three
        /\ compareOpaque(a, a) = 0
    BY OpaqueChains DEF Chain, Three
  <2>3. CASE a.ordered /\ b.ordered /\ c.ordered
    BY <2>1, <2>3 DEF compareSpelled
  <2>4. CASE ~a.ordered /\ ~b.ordered /\ ~c.ordered
    BY <2>2, <2>4 DEF compareSpelled
  <2>5. CASE /\ ~(a.ordered /\ b.ordered /\ c.ordered)
             /\ ~(~a.ordered /\ ~b.ordered /\ ~c.ordered)
    BY <2>1, <2>2, <2>5 DEF compareSpelled, Chain, Three
  <2> QED BY <2>3, <2>4, <2>5
<1>2. Parsed[u] \in comparableVersion /\ Parsed[v] \in comparableVersion /\ Parsed[w] \in comparableVersion
  BY VersionsAssumption
<1>3. Chain(CompareVersions(u, v), CompareVersions(v, w), CompareVersions(u, w))
  BY <1>1, <1>2 DEF CompareVersions
<1>4. Chain(CompareVersions(u, v), CompareVersions(v, u), CompareVersions(u, u))
  BY <1>1, <1>2 DEF CompareVersions
<1>5. CompareVersions(u, u) = 0
  BY <1>1, <1>2 DEF CompareVersions
<1> QED BY <1>3, <1>4, <1>5 DEF Chain

(* Ordered versions that compare equal, like 1 and 01.0, satisfy the same  *)
(* predicates of a constraint (Satisfies): which of two equal spellings a  *)
(* catalog uses does not matter to the resolver.                           *)
THEOREM EqualVersionsMatchTheSame ==
  ASSUME NEW u \in Word, NEW v \in Word, Parsed[u].ordered, Parsed[v].ordered,
         CompareVersions(u, v) = 0,
         NEW other \in Word, NEW op \in Operators, Admitted(op, other)
  PROVE  Matches(u, <<op, other>>) = Matches(v, <<op, other>>)
<1>1. other # Wildcard
  BY VersionsAssumption
<1>2. Parsed[u] \in comparableVersion /\ Parsed[v] \in comparableVersion /\ Parsed[other] \in comparableVersion
  BY VersionsAssumption
<1>3. CASE Parsed[other].ordered
  <2>1. compareParsed(Parsed[u], Parsed[v]) = 0
    BY DEF CompareVersions, compareSpelled
  <2>2. compareParsed(Parsed[u], Parsed[other]) = compareParsed(Parsed[v], Parsed[other])
    BY <1>2, <2>1, ParsedChains DEF Chain
  <2> QED BY <1>1, <1>3, <2>2 DEF Matches, Compared
<1>4. CASE ~Parsed[other].ordered
  <2>1. ~isRange(op) /\ op \in {<<"=">>, <<"=", "=">>, <<"!", "=">>}
    BY <1>1, <1>4 DEF Admitted, Operators, isRange
  <2>2. Parsed[u].bytes # Parsed[other].bytes /\ Parsed[v].bytes # Parsed[other].bytes
    BY <1>4, VersionsAssumption
  <2>3. Parsed[u].bytes \in Nat /\ Parsed[v].bytes \in Nat /\ Parsed[other].bytes \in Nat
    BY <1>2, SMTT(30) DEF comparableVersion
  <2>4. Compared(u, other) # 0 /\ Compared(v, other) # 0
    BY <1>4, <2>2, <2>3 DEF Compared, Sign
  <2>5. Holds(op, Compared(u, other)) = Holds(op, Compared(v, other))
    BY <2>1, <2>4 DEF Holds
  <2> QED BY <1>1, <2>5 DEF Matches
<1> QED BY <1>3, <1>4

(* What an operator asks of a comparison, where a chain of versions is     *)
(* compared with one bound.                                                *)
LEMMA BetweenHolds ==
  ASSUME NEW op \in Operators, op # <<"!", "=">>,
         NEW a \in {-1, 0, 1}, NEW b \in {-1, 0, 1}, NEW c \in {-1, 0, 1},
         a <= b, b <= c, Holds(op, a), Holds(op, c)
  PROVE  Holds(op, b)
<1>1. CASE op = <<"=">>
  <2>1. (Holds(op, a) <=> (a = 0)) /\ (Holds(op, b) <=> (b = 0)) /\ (Holds(op, c) <=> (c = 0))
    BY <1>1 DEF Holds
  <2> QED BY <2>1
<1>0. CASE op = <<"=", "=">>
  <2>1. (Holds(op, a) <=> (a = 0)) /\ (Holds(op, b) <=> (b = 0)) /\ (Holds(op, c) <=> (c = 0))
    BY <1>0 DEF Holds
  <2> QED BY <2>1
<1>2. CASE op = <<">">>
  <2>1. (Holds(op, a) <=> (a > 0)) /\ (Holds(op, b) <=> (b > 0))
    BY <1>2 DEF Holds
  <2> QED BY <2>1
<1>3. CASE op = <<">", "=">>
  <2>1. (Holds(op, a) <=> (a >= 0)) /\ (Holds(op, b) <=> (b >= 0))
    BY <1>3 DEF Holds
  <2> QED BY <2>1
<1>4. CASE op = <<"<">>
  <2>1. (Holds(op, b) <=> (b < 0)) /\ (Holds(op, c) <=> (c < 0))
    BY <1>4 DEF Holds
  <2> QED BY <2>1
<1>5. CASE op = <<"<", "=">>
  <2>1. (Holds(op, b) <=> (b <= 0)) /\ (Holds(op, c) <=> (c <= 0))
    BY <1>5 DEF Holds
  <2> QED BY <2>1
<1> QED BY <1>0, <1>1, <1>2, <1>3, <1>4, <1>5 DEF Operators

(* A range admits everything between two versions that it admits: the      *)
(* versions a dependency allows have no holes but those that "!=" makes.   *)
THEOREM RangesHaveNoHoles ==
  ASSUME NEW u \in Word, NEW v \in Word, NEW w \in Word,
         Parsed[u].ordered, Parsed[v].ordered, Parsed[w].ordered,
         CompareVersions(u, v) <= 0, CompareVersions(v, w) <= 0,
         NEW other \in Word, Parsed[other].ordered,
         NEW op \in Operators, op # <<"!", "=">>,
         Matches(u, <<op, other>>), Matches(w, <<op, other>>)
  PROVE  Matches(v, <<op, other>>)
<1>1. other # Wildcard
  BY VersionsAssumption
<1>2. /\ Parsed[u] \in comparableVersion /\ Parsed[v] \in comparableVersion
      /\ Parsed[w] \in comparableVersion /\ Parsed[other] \in comparableVersion
  BY VersionsAssumption
<1> DEFINE C(a, b) == compareParsed(a, b)
<1>3. C(Parsed[u], Parsed[v]) <= 0 /\ C(Parsed[v], Parsed[w]) <= 0
  BY DEF CompareVersions, compareSpelled
<1>4. /\ Chain(C(Parsed[u], Parsed[v]), C(Parsed[v], Parsed[other]), C(Parsed[u], Parsed[other]))
      /\ Chain(C(Parsed[v], Parsed[w]), C(Parsed[w], Parsed[other]), C(Parsed[v], Parsed[other]))
  BY <1>2, ParsedChains
<1>5. Holds(op, C(Parsed[u], Parsed[other])) /\ Holds(op, C(Parsed[w], Parsed[other]))
  BY <1>1 DEF Matches, Compared
<1>6. Matches(v, <<op, other>>) <=> Holds(op, C(Parsed[v], Parsed[other]))
  BY <1>1 DEF Matches, Compared
<1> HIDE DEF C
<1>7. /\ C(Parsed[u], Parsed[other]) <= C(Parsed[v], Parsed[other])
      /\ C(Parsed[v], Parsed[other]) <= C(Parsed[w], Parsed[other])
      /\ C(Parsed[u], Parsed[other]) \in {-1, 0, 1} /\ C(Parsed[v], Parsed[other]) \in {-1, 0, 1}
      /\ C(Parsed[w], Parsed[other]) \in {-1, 0, 1}
  BY <1>3, <1>4 DEF Chain
<1>8. Holds(op, C(Parsed[v], Parsed[other]))
  BY <1>5, <1>7, BetweenHolds
<1> QED BY <1>6, <1>8

-----------------------------------------------------------------------------
(* The search. *)

Deps == UNION {[Used -> SUBSET Version] : Used \in SUBSET Name}

ProblemOK(problem) ==
    /\ DOMAIN problem.needs \subseteq Dir
    /\ \A k \in DOMAIN problem.needs : problem.needs[k] \in Deps

(* One call of solve, where solve gives the results of the calls it makes. *)
SolveAt(problem, solve, selected) ==
    LET pending == Wanted(problem, selected) \ {k[1] : k \in selected}
        n == CHOOSE m \in pending : \A o \in pending : m <= o
        versions == {v \in Allowed(problem, selected, n) :
                        <<n, v>> \in DOMAIN problem.needs}
    IN  IF \E k \in selected : k[2] \notin Allowed(problem, selected, k[1])
        THEN {}
        ELSE IF pending = {}
        THEN {selected : i \in {j \in {1} : Ordered(problem, selected)}}
        ELSE Tried(problem, n, versions,
                   [v \in versions |-> solve[selected \cup {<<n, v>>}]])

Search(problem) ==
    CHOOSE solve : solve = [selected \in SUBSET DOMAIN problem.needs |->
                               SolveAt(problem, solve, selected)]

(* What is found is what the outermost call finds.                         *)
LEMMA SolutionIsSearch == \A problem : Solution(problem) = Search(problem)[{}]
BY DEF Solution, Search, SolveAt

(* There are finitely many versions. *)
LEMMA DirFinite == IsFiniteSet(Dir)
BY NativeAssumption, FS_Product DEF Dir

Pending(problem, selected) == Wanted(problem, selected) \ {k[1] : k \in selected}

Foremost(problem, selected) ==
    CHOOSE m \in Pending(problem, selected) :
        \A o \in Pending(problem, selected) : m <= o

(* The package a call chooses a version for is pending. *)
LEMMA ForemostIsPending ==
    ASSUME NEW problem, NEW selected, Pending(problem, selected) # {}
    PROVE  Foremost(problem, selected) \in Pending(problem, selected)
<1>1. Pending(problem, selected) \in SUBSET Nat
    BY NativeAssumption DEF Pending, Wanted
<1>2. \E m \in Pending(problem, selected) : \A o \in Pending(problem, selected) : m <= o
    BY <1>1, Least
<1> QED BY <1>2 DEF Foremost

Versions(problem, selected, n) ==
    {v \in Allowed(problem, selected, n) : <<n, v>> \in DOMAIN problem.needs}

(* What a call is, by its three cases. *)
LEMMA SolveCases ==
    ASSUME NEW problem, NEW solve, NEW selected
    PROVE  LET n == Foremost(problem, selected)
               versions == Versions(problem, selected, n)
           IN  SolveAt(problem, solve, selected) =
                 IF \E k \in selected : k[2] \notin Allowed(problem, selected, k[1])
                 THEN {}
                 ELSE IF Pending(problem, selected) = {}
                 THEN {selected : i \in {j \in {1} : Ordered(problem, selected)}}
                 ELSE Tried(problem, n, versions,
                            [v \in versions |-> solve[selected \cup {<<n, v>>}]])
BY DEF SolveAt, Foremost, Versions, Pending

(* A call asks only for larger selections. *)
LEMMA SolveAsksForLarger ==
    ASSUME NEW problem, NEW selected \in SUBSET DOMAIN problem.needs,
           NEW g, NEW h,
           \A t \in SUBSET DOMAIN problem.needs :
               selected \subseteq t /\ t # selected => g[t] = h[t]
    PROVE  SolveAt(problem, g, selected) = SolveAt(problem, h, selected)
<1> DEFINE n == Foremost(problem, selected)
           versions == Versions(problem, selected, n)
<1>1. CASE Pending(problem, selected) = {}
    BY <1>1, SolveCases
<1>2. CASE Pending(problem, selected) # {}
    <2>1. n \in Pending(problem, selected)
        BY <1>2, ForemostIsPending
    <2>2. \A v \in versions : /\ selected \cup {<<n, v>>} \in SUBSET DOMAIN problem.needs
                              /\ <<n, v>> \notin selected
        BY <2>1 DEF Versions, Pending
    <2>3. [v \in versions |-> g[selected \cup {<<n, v>>}]] =
          [v \in versions |-> h[selected \cup {<<n, v>>}]]
        BY <2>2
    <2> QED BY <2>3, SolveCases
<1> QED BY <1>1, <1>2

(* solve is a function: its recursion ends. *)
LEMMA SearchIsRecursive ==
    ASSUME NEW problem, DOMAIN problem.needs \subseteq Dir
    PROVE  \A s \in SUBSET DOMAIN problem.needs :
               Search(problem)[s] = SolveAt(problem, Search(problem), s)
<1> DEFINE D == DOMAIN problem.needs
           Upto(g, n) == \A s \in SUBSET D : Cardinality(D \ s) < n =>
                             g[s] = SolveAt(problem, g, s)
           T == {n \in Nat : \E g : Upto(g, n)}
<1>1. IsFiniteSet(D) /\ \A s \in SUBSET D : IsFiniteSet(D \ s) /\ Cardinality(D \ s) \in Nat
    BY DirFinite, FS_Subset, FS_CardinalityType
<1>2. 0 \in T
    <2>1. Upto(0, 0)
        BY <1>1
    <2> QED BY <2>1
<1>3. ASSUME NEW n \in Nat, n \in T PROVE n + 1 \in T
    <2>1. PICK g : Upto(g, n)
        BY <1>3
    <2> DEFINE h == [s \in SUBSET D |-> SolveAt(problem, g, s)]
    <2>2. ASSUME NEW s \in SUBSET D, Cardinality(D \ s) < n + 1
          PROVE  h[s] = SolveAt(problem, h, s)
        <3>1. ASSUME NEW t \in SUBSET D, s \subseteq t, t # s PROVE g[t] = h[t]
            <4>1. D \ t \subseteq D \ s /\ D \ t # D \ s
                BY <3>1
            <4>2. /\ Cardinality(D \ t) \in Nat /\ Cardinality(D \ s) \in Nat
                  /\ IsFiniteSet(D \ s)
                BY <1>1, <3>1
            <4>3. Cardinality(D \ t) <= Cardinality(D \ s)
                  /\ Cardinality(D \ t) # Cardinality(D \ s)
                BY <4>1, <4>2, FS_Subset
            <4>4. Cardinality(D \ t) < n
                BY <4>2, <4>3, <2>2
            <4> QED BY <4>4, <2>1
        <3> HIDE DEF h
        <3>2. SolveAt(problem, g, s) = SolveAt(problem, h, s)
            BY <3>1, SolveAsksForLarger
        <3> QED BY <3>2 DEF h
    <2>3. \E f : Upto(f, n + 1)
        <3> HIDE DEF h
        <3> WITNESS h
        <3> QED BY <2>2
    <2> HIDE DEF Upto
    <2> QED BY <2>3
<1>4. Nat \subseteq T
    <2> HIDE DEF T
    <2> QED BY <1>2, <1>3, Counting
<1>5. Cardinality(D) + 1 \in T /\ Cardinality(D) \in Nat
    <2>1. Cardinality(D) \in Nat
        BY <1>1, FS_CardinalityType
    <2> HIDE DEF T
    <2> QED BY <2>1, <1>4
<1>6. PICK g : Upto(g, Cardinality(D) + 1)
    BY <1>5
<1>7. ASSUME NEW s \in SUBSET D PROVE g[s] = SolveAt(problem, g, s)
    <2>1. Cardinality(D \ s) <= Cardinality(D) /\ Cardinality(D \ s) \in Nat
        <3>1. D \ s \in SUBSET D
            OBVIOUS
        <3> QED BY <3>1, <1>1, FS_Subset
    <2>2. Cardinality(D \ s) < Cardinality(D) + 1
        BY <2>1, <1>5
    <2> QED BY <2>2, <1>6
<1> DEFINE h == [s \in SUBSET D |-> g[s]]
<1>8. ASSUME NEW s \in SUBSET D PROVE h[s] = SolveAt(problem, h, s)
    <2>1. \A t \in SUBSET D : g[t] = h[t]
        OBVIOUS
    <2> HIDE DEF h
    <2>2. SolveAt(problem, g, s) = SolveAt(problem, h, s)
        BY <2>1, SolveAsksForLarger
    <2> QED BY <2>1, <2>2, <1>7
<1>9. h = [s \in SUBSET D |-> SolveAt(problem, h, s)]
    BY <1>8
<1>10. Search(problem) = [s \in SUBSET D |-> SolveAt(problem, Search(problem), s)]
    <2> HIDE DEF h
    <2> QED BY <1>9 DEF Search
<1> QED BY <1>10

-----------------------------------------------------------------------------
(* What the search finds. *)

(* Of some candidates there is a first. *)
LEMMA SomeFirst ==
    ASSUME NEW problem, NEW n, NEW V \in SUBSET Version, V # {}
    PROVE  First(problem, n, V) # {}
<1> DEFINE p == problem.state[n]
           rank(u) == IF u = p.active THEN 2 ELSE IF u \in DOMAIN p.versions THEN 1 ELSE 0
<1>1. \A v \in V : rank(v) \in {0, 1, 2}
    OBVIOUS
<1>2. PICK v0 \in V : \A w \in V : rank(v0) >= rank(w)
    <2> DEFINE R == {rank(v) : v \in V}
    <2>1. R \in SUBSET {0, 1, 2}
        OBVIOUS
    <2>2. IsFiniteSet({0, 1, 2})
        <3>1. \A u \in {0, 1, 2} : u \in Nat /\ u <= 2
            OBVIOUS
        <3> QED BY <3>1, FS_BoundedSetOfNaturals
    <2>3. IsFiniteSet(R)
        <3> HIDE DEF R
        <3> QED BY <2>1, <2>2, FS_Subset
    <2>4. R \in SUBSET Nat /\ R # {}
        <3>1. PICK v \in V : TRUE
            OBVIOUS
        <3>2. rank(v) \in R
            BY <3>1
        <3> HIDE DEF R
        <3> QED BY <3>2, <2>1
    <2>5. PICK x \in R : \A y \in R : x >= y
        <3> HIDE DEF R
        <3> QED BY <2>3, <2>4, Greatest
    <2>6. PICK v \in V : x = rank(v)
        BY <2>5
    <2>7. \A w \in V : rank(w) \in R
        OBVIOUS
    <2> HIDE DEF R, rank
    <2> QED BY <2>5, <2>6, <2>7
<1> DEFINE top == {v \in V : rank(v) = rank(v0)}
<1>3. top \in SUBSET Nat /\ top # {} /\ IsFiniteSet(top)
    BY <1>2, NativeAssumption, FS_Subset
<1>4. PICK v \in top : \A w \in top : v >= w
    <2> HIDE DEF top
    <2> QED BY <1>3, Greatest
<1>5. \A w \in V : rank(v) > rank(w) \/ (rank(v) = rank(w) /\ v >= w)
    <2> TAKE w \in V
    <2>1. rank(v) = rank(v0) /\ rank(v0) >= rank(w) /\ v \in V
        BY <1>2, <1>4
    <2>2. rank(w) = rank(v0) => w \in top
        OBVIOUS
    <2>3. rank(w) \in {0, 1, 2} /\ rank(v0) \in {0, 1, 2}
        BY <1>1, <1>2
    <2> HIDE DEF rank, top
    <2> QED BY <2>1, <2>2, <2>3, <1>4
<1>6. \A w \in V : Preferred(problem, n, v, w)
    BY <1>5 DEF Preferred
<1>7. v \in V
    BY <1>4
<1> QED BY <1>6, <1>7 DEF First

(* The more is selected, the more is constrained. *)
LEMMA SelectionsConstrain ==
    ASSUME NEW problem, NEW r, NEW selected \in SUBSET r, NEW n
    PROVE  /\ Constraints(problem, selected, n) \subseteq Constraints(problem, r, n)
           /\ Allowed(problem, r, n) \subseteq Allowed(problem, selected, n)
           /\ Wanted(problem, selected) \subseteq Wanted(problem, r)
<1>1. \A m : Constraints(problem, selected, m) \subseteq Constraints(problem, r, m)
    BY DEF Constraints
<1> QED BY <1>1 DEF Allowed, Wanted

(* A selection on the way: one version of a package, and nothing unasked. *)
InPlay(problem, selected) ==
    /\ selected \in SUBSET DOMAIN problem.needs
    /\ \A j, k \in selected : j[1] = k[1] => j = k
    /\ {k[1] : k \in selected} \subseteq Wanted(problem, selected)

(* From a selection the search reaches solutions only, and one if there is any. *)
Exact(problem, selected) ==
    /\ \A r \in Search(problem)[selected] :
          /\ selected \subseteq r
          /\ r \in SUBSET DOMAIN problem.needs
          /\ Solves(problem, r)
    /\ \A r \in SUBSET DOMAIN problem.needs :
          selected \subseteq r /\ Solves(problem, r) => Search(problem)[selected] # {}

(* A selection that wants nothing more is ordered if one that extends it is. *)
LEMMA OrderIsInherited ==
    ASSUME NEW problem, ProblemOK(problem),
           NEW r \in SUBSET DOMAIN problem.needs, NEW selected \in SUBSET r,
           Wanted(problem, selected) \subseteq {k[1] : k \in selected},
           Ordered(problem, r)
    PROVE  Ordered(problem, selected)
<1>1. ASSUME NEW k \in selected, NEW d \in DOMAIN problem.needs[k]
      PROVE  d \in {j[1] : j \in selected}
    <2>1. d \in Name
        BY DEF ProblemOK, Deps
    <2>2. problem.needs[k][d] \in Constraints(problem, selected, d)
        BY DEF Constraints
    <2> QED BY <2>1, <2>2 DEF Wanted
<1> QED BY <1>1 DEF Ordered

(* A call is exact if those it may make are: it gives up only a selection  *)
(* that allows nothing more, and stops only where nothing more is wanted.  *)
LEMMA ExactStep ==
    ASSUME NEW problem, ProblemOK(problem), NEW selected, InPlay(problem, selected),
           \A t \in SUBSET DOMAIN problem.needs :
               InPlay(problem, t) /\ selected \subseteq t /\ t # selected
                   => Exact(problem, t)
    PROVE  Exact(problem, selected)
<1> DEFINE D == DOMAIN problem.needs
           solve == Search(problem)
           n == Foremost(problem, selected)
           versions == Versions(problem, selected, n)
<1>a. selected \in SUBSET D /\ D \subseteq Dir
    BY DEF InPlay, ProblemOK
<1>0. solve[selected] = SolveAt(problem, solve, selected)
    BY <1>a, SearchIsRecursive
<1> HIDE DEF solve
<1>1. CASE \E k \in selected : k[2] \notin Allowed(problem, selected, k[1])
    <2>1. solve[selected] = {}
        BY <1>0, <1>1, SolveCases
    <2>2. PICK k \in selected : k[2] \notin Allowed(problem, selected, k[1])
        BY <1>1
    <2>3. ASSUME NEW r \in SUBSET D, selected \subseteq r, Solves(problem, r) PROVE FALSE
        <3>1. k[2] \in Allowed(problem, r, k[1])
            BY <2>2, <2>3 DEF Solves
        <3>2. Allowed(problem, r, k[1]) \subseteq Allowed(problem, selected, k[1])
            BY <2>3, SelectionsConstrain
        <3> QED BY <3>1, <3>2, <2>2
    <2> QED BY <2>1, <2>3 DEF Exact, solve
<1>2. CASE /\ ~\E k \in selected : k[2] \notin Allowed(problem, selected, k[1])
           /\ Pending(problem, selected) = {}
    <2>1. solve[selected] = {selected : i \in {j \in {1} : Ordered(problem, selected)}}
        BY <1>0, <1>2, SolveCases
    <2>2. {k[1] : k \in selected} = Wanted(problem, selected)
        BY <1>2 DEF Pending, InPlay
    <2>3. Ordered(problem, selected) => Solves(problem, selected)
        BY <2>2, <1>2 DEF Solves, InPlay
    <2>4. ASSUME NEW r \in SUBSET D, selected \subseteq r, Solves(problem, r)
          PROVE  Ordered(problem, selected)
        <3>1. Ordered(problem, r)
            BY <2>4 DEF Solves
        <3> QED BY <3>1, <2>2, <2>4, OrderIsInherited
    <2> QED BY <2>1, <2>3, <2>4, <1>a DEF Exact, solve
<1>3. CASE /\ ~\E k \in selected : k[2] \notin Allowed(problem, selected, k[1])
           /\ Pending(problem, selected) # {}
    <2> DEFINE further(v) == selected \cup {<<n, v>>}
               solutions == [v \in versions |-> solve[further(v)]]
    <2>1. solve[selected] = Tried(problem, n, versions, solutions)
        BY <1>0, <1>3, SolveCases
    <2>2. n \in Pending(problem, selected)
        BY <1>3, ForemostIsPending
    <2>3. n \in Wanted(problem, selected) /\ n \notin {k[1] : k \in selected}
        BY <2>2 DEF Pending
    <2> HIDE DEF n
    <2>4. versions \in SUBSET Version /\ \A v \in versions : <<n, v>> \in D
        BY DEF Versions, Allowed
    <2>5. ASSUME NEW v \in versions PROVE Exact(problem, further(v))
        <3>1. further(v) \in SUBSET D
            BY <2>4, <1>a
        <3>2. \A j, k \in further(v) : j[1] = k[1] => j = k
            BY <2>3 DEF InPlay
        <3>3. Wanted(problem, selected) \subseteq Wanted(problem, further(v))
            BY SelectionsConstrain
        <3>4. {k[1] : k \in further(v)} \subseteq Wanted(problem, further(v))
            <4> SUFFICES ASSUME NEW k \in further(v)
                         PROVE  k[1] \in Wanted(problem, further(v))
                OBVIOUS
            <4>1. CASE k \in selected
                BY <4>1, <3>3 DEF InPlay
            <4>2. CASE k = <<n, v>>
                BY <4>2, <3>3, <2>3
            <4> QED BY <4>1, <4>2
        <3>5. <<n, v>> \notin selected
            BY <2>3
        <3> QED BY <3>1, <3>2, <3>4, <3>5 DEF InPlay
    <2> DEFINE good == {w \in versions : solutions[w] # {}}
    <2>6. solve[selected] = UNION {solutions[v] : v \in First(problem, n, good)}
        BY <2>1 DEF Tried
    <2>7. First(problem, n, good) \subseteq good
        BY DEF First
    <2>8. ASSUME NEW r \in solve[selected]
          PROVE  selected \subseteq r /\ r \in SUBSET D /\ Solves(problem, r)
        <3>1. PICK v \in versions : r \in solve[further(v)]
            BY <2>6, <2>7
        <3> QED BY <3>1, <2>5 DEF Exact, solve
    <2>9. ASSUME NEW r \in SUBSET D, selected \subseteq r, Solves(problem, r)
          PROVE  solve[selected] # {}
        <3>1. n \in Wanted(problem, r)
            BY <2>3, <2>9, SelectionsConstrain
        <3>2. PICK k \in r : k[1] = n
            BY <3>1, <2>9 DEF Solves
        <3>3. k = <<n, k[2]>>
            BY <3>2, <1>a DEF Dir
        <3>4. k[2] \in Allowed(problem, selected, n)
            <4>1. k[2] \in Allowed(problem, r, n)
                BY <3>2, <2>9 DEF Solves
            <4> QED BY <4>1, <2>9, SelectionsConstrain
        <3>5. k[2] \in versions
            BY <3>3, <3>4 DEF Versions
        <3>6. further(k[2]) \subseteq r
            BY <3>2, <3>3, <2>9
        <3>7. solve[further(k[2])] # {}
            BY <3>5, <3>6, <2>5, <2>9 DEF Exact, solve
        <3>8. k[2] \in good
            BY <3>5, <3>7
        <3>9. good \in SUBSET Version /\ good # {}
            BY <3>8, <2>4
        <3>10. PICK v : v \in First(problem, n, good)
            <4> HIDE DEF good
            <4> QED BY <3>9, SomeFirst
        <3>11. solutions[v] # {}
            BY <3>10, <2>7
        <3> HIDE DEF solutions, good
        <3> QED BY <3>10, <3>11, <2>6
    <2> QED BY <2>8, <2>9 DEF Exact, solve
<1> QED BY <1>1, <1>2, <1>3

(* Backtracking neither misses a solution nor invents one. *)
LEMMA SearchIsExact ==
    ASSUME NEW problem, ProblemOK(problem)
    PROVE  /\ \A selected \in Solution(problem) :
                 selected \in SUBSET DOMAIN problem.needs /\ Solves(problem, selected)
           /\ Solution(problem) = {} =>
                 \A selected \in SUBSET DOMAIN problem.needs : ~Solves(problem, selected)
<1> DEFINE D == DOMAIN problem.needs
           bad == {s \in SUBSET D : InPlay(problem, s) /\ ~Exact(problem, s)}
<1>1. bad = {}
    <2>1. SUFFICES ASSUME bad # {} PROVE FALSE
        OBVIOUS
    <2>2. IsFiniteSet(D)
        BY DirFinite, FS_Subset DEF ProblemOK
    <2>3. PICK x \in bad : \A y \in bad : x \subseteq y => y = x
        <3>1. bad \in SUBSET SUBSET D
            OBVIOUS
        <3> HIDE DEF bad
        <3> QED BY <2>1, <2>2, <3>1, Largest
    <2>4. \A t \in SUBSET D : InPlay(problem, t) /\ x \subseteq t /\ t # x => Exact(problem, t)
        BY <2>3
    <2>5. Exact(problem, x)
        BY <2>3, <2>4, ExactStep
    <2> QED BY <2>3, <2>5
<1>2. InPlay(problem, {})
    BY DEF InPlay
<1>3. Exact(problem, {})
    BY <1>1, <1>2
<1> QED BY <1>3, SolutionIsSearch DEF Exact

-----------------------------------------------------------------------------
(* The record of what is installed. *)

Package ==
    [active : Version \cup {NoVersion}, disabled : BOOLEAN,
     versions : UNION {[V -> Receipt] : V \in SUBSET Version}]

PackagesOK(s) ==
    /\ s \in [Name -> Package]
    /\ \A n \in Name :
          /\ s[n].active \in Installed(s, n) \cup {NoVersion}
          /\ Installed(s, n) = {} => s[n] = Absent
          /\ \A v \in Installed(s, n) :
                DOMAIN s[n].versions[v].bound = DOMAIN s[n].versions[v].deps

(* A package without versions is one.                                      *)
LEMMA AbsentIsPackage ==
    Absent \in Package /\ DOMAIN Absent.versions = {} /\ Absent.active = NoVersion
<1>1. <<>> \in [{} -> Receipt]
    OBVIOUS
<1> DEFINE none == <<>>
<1>2. none \in UNION {[V -> Receipt] : V \in SUBSET Version}
    BY <1>1
<1>3. DOMAIN none = {}
    OBVIOUS
<1>4. Absent = [active |-> NoVersion, disabled |-> FALSE, versions |-> none]
    BY DEF Absent
<1> HIDE DEF none
<1> QED BY <1>2, <1>3, <1>4 DEF Package

(* The second part of Environment, of any state. *)
Linked(s) ==
    \A k \in Active(s) :
        ~s[k[1]].disabled =>
            LET r == ReceiptOf(s, k) IN
            \A d \in DOMAIN r.deps :
                /\ s[d].active \in r.deps[d]
                /\ r.bound[d] = s[d].active

IInv == index \in Catalog /\ PackagesOK(packages) /\ Linked(packages)

(* What an operation plans with: an index, or the receipts in its place. *)
IndexOK(idx) ==
    /\ DOMAIN idx = Name
    /\ \A n \in Name :
          /\ DOMAIN idx[n] \subseteq Version
          /\ \A v \in DOMAIN idx[n] : idx[n][v] \in Metadata

Named(idx) == {k \in Dir : k[2] \in DOMAIN idx[k[1]]}

(* What a well-formed record says of its receipts and active versions.     *)
LEMMA KeysOK ==
    ASSUME NEW s, PackagesOK(s)
    PROVE  /\ \A n \in Name : /\ Installed(s, n) \subseteq Version
                              /\ \A v \in Installed(s, n) : s[n].versions[v] \in Receipt
           /\ Keys(s) \subseteq Dir
           /\ \A k \in Dir : k \in Keys(s) <=> k[2] \in Installed(s, k[1])
           /\ Active(s) \subseteq Keys(s)
           /\ \A k \in Active(s) : k[1] \in Name /\ k[2] = s[k[1]].active /\ k[2] # NoVersion
           /\ \A k \in Keys(s) :
                 /\ ReceiptOf(s, k) \in Receipt
                 /\ DOMAIN ReceiptOf(s, k).bound = DOMAIN ReceiptOf(s, k).deps
<1>1. ASSUME NEW n \in Name
      PROVE  /\ Installed(s, n) \subseteq Version
             /\ \A v \in Installed(s, n) : s[n].versions[v] \in Receipt
    <2>1. s[n].versions \in UNION {[V -> Receipt] : V \in SUBSET Version}
        BY DEF PackagesOK, Package
    <2>2. PICK V \in SUBSET Version : s[n].versions \in [V -> Receipt]
        BY <2>1
    <2> QED BY <2>2 DEF Installed
<1>2. Keys(s) \subseteq Dir /\ \A k \in Dir : k \in Keys(s) <=> k[2] \in Installed(s, k[1])
    BY <1>1 DEF Keys, Dir
<1>3. \A k \in Active(s) : k[1] \in Name /\ k[2] = s[k[1]].active /\ k[2] # NoVersion
    BY DEF Active, ActiveIn
<1>4. Active(s) \subseteq Keys(s)
    BY DEF Active, ActiveIn, Keys, PackagesOK
<1>5. \A k \in Keys(s) :
         /\ ReceiptOf(s, k) \in Receipt
         /\ DOMAIN ReceiptOf(s, k).bound = DOMAIN ReceiptOf(s, k).deps
    BY <1>1 DEF Keys, ReceiptOf, PackagesOK
<1> QED BY <1>1, <1>2, <1>3, <1>4, <1>5

(* What the pool says of a version, from the index or a receipt.           *)
LEMMA PooledOK ==
    ASSUME NEW s, PackagesOK(s), NEW idx, IndexOK(idx),
           NEW k \in Dir, k[2] \in Listed(idx, s, k[1])
    PROVE  Pooled(idx, s, k) \in Metadata
<1>1. k[1] \in Name /\ k[2] \in Version
    BY DEF Dir
<1>2. CASE k[2] \in DOMAIN idx[k[1]]
    BY <1>1, <1>2 DEF Pooled, IndexOK
<1>3. CASE k[2] \notin DOMAIN idx[k[1]]
    <2>1. k \in Keys(s)
        BY <1>3, KeysOK DEF Listed
    <2>2. ReceiptOf(s, k) \in Receipt
        BY <2>1, KeysOK
    <2> QED BY <2>2, <1>3 DEF Pooled, Metadata, Receipt
<1> QED BY <1>2, <1>3

(* Only active versions are fixed.                                         *)
LEMMA FixedAreActive ==
    ASSUME NEW s, NEW requests \in SUBSET Dir, NEW noSwitch, NEW affected
    PROVE  Fixed(s, requests, noSwitch, affected) \subseteq Active(s)
BY DEF Fixed, ActiveIn, Active, Dir

(* What planning knows of a problem. *)
LEMMA ProblemKnown ==
    ASSUME NEW s, PackagesOK(s), NEW idx, IndexOK(idx),
           NEW requests \in SUBSET Named(idx), NEW noSwitch \in BOOLEAN,
           NEW problem \in Problems(idx, s, requests, noSwitch)
    PROVE  /\ ProblemOK(problem)
           /\ problem.fixed = Fixed(s, requests, noSwitch, Affected(idx, s, requests, noSwitch))
           /\ problem = Problem(idx, s, requests, noSwitch, problem.fixed)
           /\ problem.fixed \subseteq Active(s)
           /\ \A k \in DOMAIN problem.needs :
                 /\ (\E f \in problem.fixed : f[1] = k[1]) => k \in problem.fixed
                 /\ k \notin problem.fixed => k[2] \in Listed(idx, s, k[1])
                 /\ k \in problem.fixed => problem.needs[k] = ReceiptOf(s, k).deps
<1> DEFINE fixed == Fixed(s, requests, noSwitch, Affected(idx, s, requests, noSwitch))
           keys == {k \in Dir : IF \E f \in fixed : f[1] = k[1]
                                THEN k \in fixed
                                ELSE k[2] \in Listed(idx, s, k[1])}
<1>1. problem = Problem(idx, s, requests, noSwitch, fixed)
    BY DEF Problems
<1>2. fixed \subseteq Active(s)
    BY FixedAreActive DEF Named
<1> HIDE DEF fixed
<1>3. problem.fixed = fixed
    BY <1>1 DEF Problem
<1>4. problem.needs = [k \in keys |-> IF k \in fixed THEN ReceiptOf(s, k).deps
                                      ELSE Pooled(idx, s, k).deps]
    BY <1>1 DEF Problem
<1>5. \A k \in keys : /\ (\E f \in fixed : f[1] = k[1]) => k \in fixed
                      /\ k \notin fixed => k[2] \in Listed(idx, s, k[1])
    OBVIOUS
<1>6. \A k \in keys : problem.needs[k] \in Deps
    <2> TAKE k \in keys
    <2>1. CASE k \in fixed
        <3>1. ReceiptOf(s, k) \in Receipt
            BY <2>1, <1>2, KeysOK
        <3> QED BY <3>1, <2>1, <1>4 DEF Receipt, Deps
    <2>2. CASE k \notin fixed
        <3>1. Pooled(idx, s, k) \in Metadata
            BY <2>2, <1>5, PooledOK
        <3> QED BY <3>1, <2>2, <1>4 DEF Metadata, Deps
    <2> QED BY <2>1, <2>2
<1>7. DOMAIN problem.needs = keys
    BY <1>4
<1>8. ProblemOK(problem)
    BY <1>6, <1>7 DEF ProblemOK
<1>9. \A k \in keys : k \in fixed => problem.needs[k] = ReceiptOf(s, k).deps
    BY <1>4
<1> HIDE DEF keys
<1> QED BY <1>1, <1>2, <1>3, <1>5, <1>7, <1>8, <1>9 DEF fixed

(* The version that a selection has of a package. *)
Choice(selected, d) == CHOOSE j \in selected : j[1] = d

(* A selection has exactly one version of every package that it needs or   *)
(* that something in the problem wants.                                    *)
LEMMA SelectionServes ==
    ASSUME NEW problem, ProblemOK(problem), NEW selected \in Solution(problem), NEW d
    PROVE  /\ selected \in SUBSET DOMAIN problem.needs
           /\ selected \subseteq Dir
           /\ d \in Wanted(problem, selected) =>
                 LET k == Choice(selected, d) IN
                 /\ k \in selected
                 /\ k = <<d, k[2]>>
                 /\ \A j \in selected : j[1] = d => j = k
                 /\ k[2] \in Version
                 /\ \A c \in Constraints(problem, selected, d) : k[2] \in c
           /\ \A k \in selected : k[1] \in Wanted(problem, selected)
           /\ \A k \in selected : d \in DOMAIN problem.needs[k] =>
                 /\ d \in Wanted(problem, selected)
                 /\ problem.needs[k][d] \in Constraints(problem, selected, d)
<1>1. selected \in SUBSET DOMAIN problem.needs /\ Solves(problem, selected)
    BY SearchIsExact
<1>2. selected \subseteq Dir
    BY <1>1 DEF ProblemOK
<1>3. ASSUME d \in Wanted(problem, selected)
      PROVE  LET k == Choice(selected, d) IN
             /\ k \in selected
             /\ k = <<d, k[2]>>
             /\ \A j \in selected : j[1] = d => j = k
             /\ k[2] \in Version
             /\ \A c \in Constraints(problem, selected, d) : k[2] \in c
    <2> DEFINE k == Choice(selected, d)
    <2>1. \E j \in selected : j[1] = d
        BY <1>1, <1>3 DEF Solves
    <2>2. k \in selected /\ k[1] = d
        BY <2>1 DEF Choice
    <2> HIDE DEF k
    <2>3. k = <<d, k[2]>> /\ k[2] \in Version
        BY <2>2, <1>2 DEF Dir
    <2>4. \A j \in selected : j[1] = d => j = k
        BY <2>2, <1>1 DEF Solves
    <2>5. k[2] \in Allowed(problem, selected, d)
        BY <2>2, <1>1 DEF Solves
    <2>6. \A c \in Constraints(problem, selected, d) : k[2] \in c
        BY <2>5 DEF Allowed
    <2> QED BY <2>2, <2>3, <2>4, <2>6 DEF k
<1>4. \A k \in selected : k[1] \in Wanted(problem, selected)
    BY <1>1 DEF Solves
<1>5. ASSUME NEW k \in selected, d \in DOMAIN problem.needs[k]
      PROVE  /\ d \in Wanted(problem, selected)
             /\ problem.needs[k][d] \in Constraints(problem, selected, d)
    <2>1. d \in Name
        BY <1>1, <1>5 DEF ProblemOK, Deps
    <2>2. problem.needs[k][d] \in Constraints(problem, selected, d)
        BY <1>5 DEF Constraints
    <2> QED BY <2>1, <2>2 DEF Wanted
<1> QED BY <1>1, <1>2, <1>3, <1>4, <1>5

(* A receipt that is written is one. *)
LEMMA RenewedIsReceipt ==
    ASSUME NEW s, PackagesOK(s), NEW k, NEW explicit, NEW meta \in Metadata,
           NEW selected \in SUBSET Dir,
           \A d \in DOMAIN meta.deps : Choice(selected, d)[2] \in Version
    PROVE  /\ Renewed(s, k, explicit, meta, selected) \in Receipt
           /\ DOMAIN Renewed(s, k, explicit, meta, selected).bound =
              DOMAIN Renewed(s, k, explicit, meta, selected).deps
           /\ Renewed(s, k, explicit, meta, selected).deps = meta.deps
<1> DEFINE r == Renewed(s, k, explicit, meta, selected)
           old == k \in Keys(s)
           deps == meta.deps
           content == IF old THEN ReceiptOf(s, k).content ELSE meta.content
           automatic == ~explicit /\ (old => ReceiptOf(s, k).automatic)
           bound == [d \in DOMAIN deps |-> Choice(selected, d)[2]]
<1>1. r = [deps |-> deps, content |-> content, automatic |-> automatic, bound |-> bound]
    BY DEF Renewed, Choice
<1>2. deps \in Deps /\ meta.content \in Nat
    BY DEF Metadata, Deps
<1>3. old => ReceiptOf(s, k).content \in Nat /\ ReceiptOf(s, k).automatic \in BOOLEAN
    BY KeysOK DEF Receipt
<1>4. content \in Nat
    BY <1>2, <1>3
<1>5. automatic \in BOOLEAN
    OBVIOUS
<1>6. DOMAIN deps \in SUBSET Name
    BY <1>2 DEF Deps
<1>7. bound \in [DOMAIN deps -> Version]
    <2>1. \A d \in DOMAIN deps : Choice(selected, d)[2] \in Version
        OBVIOUS
    <2> HIDE DEF deps
    <2> QED BY <2>1
<1>8. bound \in UNION {[Used -> Version] : Used \in SUBSET Name}
    <2> HIDE DEF bound, deps
    <2> QED BY <1>6, <1>7
<1>9. DOMAIN bound = DOMAIN deps
    BY <1>7
<1> HIDE DEF deps, content, automatic, bound, r
<1>10. r \in Receipt
    BY <1>1, <1>2, <1>4, <1>5, <1>8 DEF Receipt, Deps
<1>11. r.bound = bound /\ r.deps = deps
    BY <1>1
<1> QED BY <1>9, <1>10, <1>11 DEF r, deps

(* Binding the active packages leaves a record, and links what is bound. *)
LEMMA ReboundOK ==
    ASSUME NEW s, PackagesOK(s), Rebindable(s)
    PROVE  PackagesOK(Rebound(s)) /\ Linked(Rebound(s))
<1> DEFINE t == Rebound(s)
           moved(n) == ~(s[n].active = NoVersion \/ s[n].disabled)
           binding(n) == [d \in DOMAIN s[n].versions[s[n].active].bound |-> s[d].active]
           one(n) == [s[n] EXCEPT !.versions[s[n].active].bound = binding(n)]
<1>1. \A n \in Name : t[n] = IF moved(n) THEN one(n) ELSE s[n]
    BY DEF Rebound
<1>2. ASSUME NEW n \in Name, moved(n)
      PROVE  LET a == s[n].active
                 r == s[n].versions[a]
             IN  /\ a \in Installed(s, n)
                 /\ r \in Receipt
                 /\ DOMAIN r.bound = DOMAIN r.deps
                 /\ DOMAIN r.bound \subseteq Name
                 /\ \A d \in DOMAIN r.deps : /\ s[d].active \in Version
                                             /\ s[d].active \in r.deps[d]
                 /\ binding(n) \in [DOMAIN r.bound -> Version]
    <2> DEFINE a == s[n].active
               r == s[n].versions[a]
    <2>1. a \in Installed(s, n)
        BY <1>2 DEF PackagesOK
    <2>2. r \in Receipt /\ DOMAIN r.bound = DOMAIN r.deps
        BY <2>1, KeysOK DEF PackagesOK
    <2>3. DOMAIN r.bound \subseteq Name
        BY <2>2 DEF Receipt
    <2>4. <<n, a>> \in Active(s)
        BY <1>2 DEF Active, ActiveIn
    <2>5. ReceiptOf(s, <<n, a>>) = r
        BY DEF ReceiptOf
    <2>6. \A d \in DOMAIN r.deps : s[d].active # NoVersion /\ s[d].active \in r.deps[d]
        BY <2>4, <2>5, <1>2 DEF Rebindable
    <2>7. \A d \in DOMAIN r.deps : s[d].active \in Version
        BY <2>2, <2>3, <2>6, KeysOK DEF PackagesOK
    <2> QED BY <2>1, <2>2, <2>3, <2>6, <2>7
<1>3. ASSUME NEW n \in Name, moved(n)
      PROVE  /\ one(n).active = s[n].active /\ one(n).disabled = s[n].disabled
             /\ DOMAIN one(n).versions = DOMAIN s[n].versions
             /\ one(n).versions[s[n].active].bound = binding(n)
             /\ one(n).versions[s[n].active].deps = s[n].versions[s[n].active].deps
             /\ \A v \in Installed(s, n) \ {s[n].active} :
                   one(n).versions[v] = s[n].versions[v]
             /\ one(n) \in Package
    <2> DEFINE a == s[n].active
               r == s[n].versions[a]
               renewed == [r EXCEPT !.bound = binding(n)]
               versions == [s[n].versions EXCEPT ![a] = renewed]
    <2> HIDE DEF binding
    <2>1. s[n] \in Package
        BY DEF PackagesOK
    <2>2. a \in Installed(s, n) /\ r \in Receipt /\ binding(n) \in [DOMAIN r.bound -> Version]
          /\ DOMAIN r.bound \subseteq Name
        BY <1>2, <1>3
    <2>3. one(n) = [s[n] EXCEPT !.versions = versions]
        OBVIOUS
    <2>4. binding(n) \in UNION {[Used -> Version] : Used \in SUBSET Name}
        BY <2>2
    <2>5. renewed \in Receipt /\ renewed.bound = binding(n) /\ renewed.deps = r.deps
        BY <2>2, <2>4 DEF Receipt
    <2>6. PICK V \in SUBSET Version : s[n].versions \in [V -> Receipt]
        BY <2>1 DEF Package
    <2> HIDE DEF renewed
    <2>7. versions \in [V -> Receipt]
        BY <2>5, <2>6
    <2>8. versions[a] = renewed
        BY <2>2 DEF Installed
    <2>9. DOMAIN versions = Installed(s, n)
          /\ \A v \in Installed(s, n) \ {a} : versions[v] = s[n].versions[v]
        BY DEF Installed
    <2>10. versions \in UNION {[W -> Receipt] : W \in SUBSET Version}
        BY <2>7
    <2> HIDE DEF versions
    <2>11. [s[n] EXCEPT !.versions = versions] \in Package
        BY <2>1, <2>10 DEF Package
    <2>12. /\ [s[n] EXCEPT !.versions = versions].versions = versions
           /\ [s[n] EXCEPT !.versions = versions].active = a
           /\ [s[n] EXCEPT !.versions = versions].disabled = s[n].disabled
        BY <2>1 DEF Package
    <2> QED BY <2>3, <2>5, <2>8, <2>9, <2>11, <2>12 DEF Installed
<1> HIDE DEF one, binding
<1>4. PackagesOK(t)
    <2>1. t \in [Name -> Package]
        <3>1. t = [n \in Name |-> t[n]]
            BY DEF Rebound
        <3>2. \A n \in Name : t[n] \in Package
            BY <1>1, <1>3 DEF PackagesOK
        <3> HIDE DEF t
        <3> QED BY <3>1, <3>2
    <2>2. ASSUME NEW n \in Name
          PROVE  /\ t[n].active \in Installed(t, n) \cup {NoVersion}
                 /\ Installed(t, n) = {} => t[n] = Absent
                 /\ \A v \in Installed(t, n) :
                       DOMAIN t[n].versions[v].bound = DOMAIN t[n].versions[v].deps
        <3>1. CASE moved(n)
            <4>1. t[n] = one(n)
                BY <3>1, <1>1
            <4>2. Installed(t, n) = Installed(s, n) /\ s[n].active \in Installed(s, n)
                BY <4>1, <3>1, <1>2, <1>3 DEF Installed
            <4>3. t[n].active = s[n].active
                BY <4>1, <3>1, <1>3
            <4>4. ASSUME NEW v \in Installed(t, n)
                  PROVE  DOMAIN t[n].versions[v].bound = DOMAIN t[n].versions[v].deps
                <5>1. CASE v = s[n].active
                    <6>1. DOMAIN binding(n) = DOMAIN s[n].versions[v].bound
                        BY <5>1 DEF binding
                    <6> QED BY ZenonT(60), <6>1, <5>1, <4>1, <3>1, <1>2, <1>3
                <5>2. CASE v # s[n].active
                    <6>1. t[n].versions[v] = s[n].versions[v]
                        BY <5>2, <4>1, <4>2, <4>4, <3>1, <1>3
                    <6> QED BY <6>1, <4>2, <4>4 DEF PackagesOK
                <5> QED BY <5>1, <5>2
            <4> QED BY <4>2, <4>3, <4>4
        <3>2. CASE ~moved(n)
            <4>1. t[n] = s[n]
                BY <3>2, <1>1
            <4> QED BY <4>1 DEF PackagesOK, Installed
        <3> QED BY <3>1, <3>2
    <2> QED BY <2>1, <2>2 DEF PackagesOK
<1>5. Linked(t)
    <2> SUFFICES ASSUME NEW k \in Active(t), ~t[k[1]].disabled,
                        NEW d \in DOMAIN ReceiptOf(t, k).deps
                 PROVE  /\ t[d].active \in ReceiptOf(t, k).deps[d]
                        /\ ReceiptOf(t, k).bound[d] = t[d].active
        BY DEF Linked
    <2>1. \A n \in Name : t[n].active = s[n].active /\ t[n].disabled = s[n].disabled
        BY <1>1, <1>3
    <2>2. k[1] \in Name /\ k[2] = t[k[1]].active /\ k[2] # NoVersion
        BY <1>4, KeysOK
    <2>3. moved(k[1]) /\ k[2] = s[k[1]].active
        BY <2>1, <2>2
    <2>4. ReceiptOf(t, k) = one(k[1]).versions[s[k[1]].active]
        BY <2>2, <2>3, <1>1 DEF ReceiptOf
    <2>5. /\ ReceiptOf(t, k).deps = s[k[1]].versions[s[k[1]].active].deps
          /\ ReceiptOf(t, k).bound = binding(k[1])
        BY <2>2, <2>3, <2>4, <1>3
    <2>6. d \in Name /\ d \in DOMAIN s[k[1]].versions[s[k[1]].active].bound
          /\ s[d].active \in ReceiptOf(t, k).deps[d]
        BY <2>2, <2>3, <2>5, <1>2
    <2>7. binding(k[1])[d] = s[d].active
        BY <2>6 DEF binding
    <2> QED BY <2>1, <2>5, <2>6, <2>7
<1> QED BY <1>4, <1>5

(* A plan, before its active packages are bound, leaves a record. *)
LEMMA AfterOK ==
    ASSUME NEW s, PackagesOK(s), NEW idx, IndexOK(idx),
           NEW requests \in SUBSET Named(idx), NEW noSwitch \in BOOLEAN,
           NEW problem \in Problems(idx, s, requests, noSwitch),
           NEW selected \in Solution(problem)
    PROVE  PackagesOK(After(idx, s, requests, noSwitch, problem, selected))
<1> DEFINE passive == {k \in requests : noSwitch}
           content(k) == IF k \in problem.fixed
                         THEN ReceiptOf(s, k).content ELSE Pooled(idx, s, k).content
           chosen(k) == [deps |-> problem.needs[k], content |-> content(k)]
           receipt(k) ==
               IF k \in passive
               THEN Renewed(s, k, TRUE, Pooled(idx, s, k), selected)
               ELSE Renewed(s, k, k \in requests, chosen(k), selected)
           fresh(n)    == {v \in Version : <<n, v>> \in selected \cup passive}
           enabled(n)  == {k \in selected : k[1] = n /\ \A p \in passive : p[1] # n}
           active(n)   == IF enabled(n) = {} THEN s[n].active
                          ELSE (CHOOSE k \in enabled(n) : TRUE)[2]
           disabled(n) == s[n].disabled /\ enabled(n) \cap requests = {}
           versions(n) == [v \in Installed(s, n) \cup fresh(n) |->
                              IF v \in fresh(n) THEN receipt(<<n, v>>)
                              ELSE s[n].versions[v]]
           one(n) == [active |-> active(n), disabled |-> disabled(n),
                      versions |-> versions(n)]
           t == After(idx, s, requests, noSwitch, problem, selected)
<1>1. t = [n \in Name |-> one(n)]
    BY DEF After
<1>2. ProblemOK(problem)
      /\ problem = Problem(idx, s, requests, noSwitch, problem.fixed)
      /\ problem.fixed \subseteq Active(s)
    BY ProblemKnown
<1>3. selected \subseteq Dir /\ selected \subseteq DOMAIN problem.needs /\ passive \subseteq Dir
    BY <1>2, SelectionServes DEF Named
<1>4. ASSUME NEW k \in passive
      PROVE  /\ Pooled(idx, s, k) \in Metadata
             /\ \A d \in DOMAIN Pooled(idx, s, k).deps :
                   Choice(selected, d)[2] \in Version
    <2>1. Pooled(idx, s, k) \in Metadata
        BY <1>3, <1>4, PooledOK DEF Named, Listed
    <2>2. ASSUME NEW d \in DOMAIN Pooled(idx, s, k).deps
          PROVE  Choice(selected, d)[2] \in Version
        <3>1. d \in Name
            BY <2>1 DEF Metadata
        <3>2. Pooled(idx, s, k).deps[d] \in problem.base[d]
            <4>1. problem.base[d] =
                    {{j[2]} : j \in {r \in requests : ~noSwitch /\ r[1] = d}}
                    \cup {{j[2]} : j \in {f \in problem.fixed : f[1] = d}}
                    \cup {Pooled(idx, s, j).deps[d] :
                             j \in {p \in passive : d \in DOMAIN Pooled(idx, s, p).deps}}
                BY <1>2, <3>1 DEF Problem
            <4> HIDE DEF passive
            <4> QED BY <4>1, <1>4, <2>2
        <3>3. d \in Wanted(problem, selected)
            BY <3>1, <3>2 DEF Wanted, Constraints
        <3> QED BY <3>3, <1>2, SelectionServes
    <2> QED BY <2>1, <2>2
<1>5. ASSUME NEW k \in selected
      PROVE  /\ chosen(k) \in Metadata
             /\ \A d \in DOMAIN chosen(k).deps :
                   Choice(selected, d)[2] \in Version
    <2>1. problem.needs[k] \in Deps
        BY <1>2, <1>3, <1>5 DEF ProblemOK
    <2>2. content(k) \in Nat
        <3>1. CASE k \in problem.fixed
            <4>1. ReceiptOf(s, k) \in Receipt
                BY <3>1, <1>2, KeysOK
            <4> QED BY <4>1, <3>1 DEF Receipt
        <3>2. CASE k \notin problem.fixed
            <4>1. k[2] \in Listed(idx, s, k[1])
                BY <3>2, <1>3, <1>5, ProblemKnown
            <4>2. Pooled(idx, s, k) \in Metadata
                BY <4>1, <1>3, <1>5, PooledOK
            <4> QED BY <4>2, <3>2 DEF Metadata
        <3> QED BY <3>1, <3>2
    <2>3. chosen(k) \in Metadata
        <3> HIDE DEF content
        <3> QED BY <2>1, <2>2 DEF Metadata, Deps
    <2>4. ASSUME NEW d \in DOMAIN problem.needs[k]
          PROVE  Choice(selected, d)[2] \in Version
        BY <1>2, <1>5, <2>4, SelectionServes
    <2> QED BY <2>3, <2>4
<1> HIDE DEF chosen
<1>6. ASSUME NEW k \in selected \cup passive
      PROVE  receipt(k) \in Receipt /\ DOMAIN receipt(k).bound = DOMAIN receipt(k).deps
    <2>1. CASE k \in passive
        <3>1. receipt(k) = Renewed(s, k, k \in requests, Pooled(idx, s, k), selected)
            <4>1. k \in requests
                BY <2>1
            <4>2. (k \in requests) = TRUE
                BY <4>1
            <4> QED BY <2>1, <4>2
        <3> HIDE DEF receipt, passive
        <3> QED BY <2>1, <3>1, <1>3, <1>4, RenewedIsReceipt
    <2>2. CASE k \notin passive
        <3>1. k \in selected
            BY <2>2, <1>6
        <3> HIDE DEF passive
        <3> QED BY <2>2, <3>1, <1>3, <1>5, RenewedIsReceipt
    <2> QED BY <2>1, <2>2
<1> HIDE DEF receipt, passive
<1>7. ASSUME NEW n \in Name
      PROVE  /\ DOMAIN versions(n) = Installed(s, n) \cup fresh(n)
             /\ versions(n) \in UNION {[V -> Receipt] : V \in SUBSET Version}
             /\ \A v \in DOMAIN versions(n) :
                   DOMAIN versions(n)[v].bound = DOMAIN versions(n)[v].deps
    <2>1. Installed(s, n) \cup fresh(n) \in SUBSET Version
        BY KeysOK
    <2>2. ASSUME NEW v \in Installed(s, n) \cup fresh(n)
          PROVE  /\ versions(n)[v] \in Receipt
                 /\ DOMAIN versions(n)[v].bound = DOMAIN versions(n)[v].deps
        <3>1. CASE v \in fresh(n)
            <4>1. <<n, v>> \in selected \cup passive
                BY <3>1
            <4>2. versions(n)[v] = receipt(<<n, v>>)
                BY <3>1
            <4> QED BY <4>1, <4>2, <1>6
        <3>2. CASE v \notin fresh(n)
            <4>1. versions(n)[v] = s[n].versions[v] /\ v \in Installed(s, n)
                BY <3>2, <2>2
            <4> QED BY <4>1, KeysOK DEF PackagesOK
        <3> QED BY <3>1, <3>2
    <2> HIDE DEF fresh
    <2>3. versions(n) \in [Installed(s, n) \cup fresh(n) -> Receipt]
        BY <2>2
    <2> QED BY <2>1, <2>2, <2>3
<1>8. ASSUME NEW n \in Name
      PROVE  active(n) \in Installed(s, n) \cup fresh(n) \cup {NoVersion}
    <2>1. CASE enabled(n) = {}
        BY <2>1 DEF PackagesOK
    <2>2. CASE enabled(n) # {}
        <3> DEFINE k == CHOOSE k \in enabled(n) : TRUE
        <3>1. k \in enabled(n)
            BY <2>2
        <3> HIDE DEF k
        <3>2. k = <<n, k[2]>> /\ k[2] \in Version /\ k \in selected
            BY <3>1, <1>3 DEF Dir
        <3> QED BY <2>2, <3>2 DEF k
    <2> QED BY <2>1, <2>2
<1>9. ASSUME NEW n \in Name, Installed(s, n) \cup fresh(n) = {}
      PROVE  one(n) = Absent
    <2>1. s[n] = Absent
        BY <1>9 DEF PackagesOK
    <2>2. enabled(n) = {}
        <3> SUFFICES ASSUME NEW k \in enabled(n) PROVE FALSE
            OBVIOUS
        <3>1. k = <<n, k[2]>> /\ k[2] \in Version /\ k \in selected
            BY <1>3 DEF Dir
        <3> QED BY <3>1, <1>9
    <2>3. versions(n) = <<>>
        BY <1>9
    <2>4. active(n) = NoVersion /\ disabled(n) = FALSE
        <3> HIDE DEF enabled
        <3> QED BY <2>1, <2>2 DEF Absent
    <2> HIDE DEF active, disabled, versions
    <2> QED BY <2>3, <2>4 DEF Absent
<1>10. \A n \in Name : disabled(n) \in BOOLEAN
    OBVIOUS
<1>11. \A n \in Name : active(n) \in Version \cup {NoVersion}
    BY <1>8, KeysOK
<1> HIDE DEF active, disabled, versions, fresh
<1>12. \A n \in Name : one(n) \in Package
    BY <1>7, <1>10, <1>11 DEF Package
<1>13. t \in [Name -> Package]
    <2> HIDE DEF one
    <2> QED BY <1>1, <1>12
<1>14. ASSUME NEW n \in Name
       PROVE  /\ t[n].active \in Installed(t, n) \cup {NoVersion}
              /\ Installed(t, n) = {} => t[n] = Absent
              /\ \A v \in Installed(t, n) :
                    DOMAIN t[n].versions[v].bound = DOMAIN t[n].versions[v].deps
    <2>1. t[n] = one(n)
        <3> HIDE DEF one
        <3> QED BY <1>1
    <2>2. t[n].versions = versions(n) /\ t[n].active = active(n)
        BY <2>1
    <2>3. Installed(t, n) = Installed(s, n) \cup fresh(n)
        BY <2>2, <1>7 DEF Installed
    <2> HIDE DEF one, t
    <2>4. Installed(t, n) = {} => t[n] = Absent
        BY <2>1, <2>3, <1>9
    <2>5. t[n].active \in Installed(t, n) \cup {NoVersion}
        BY <2>2, <2>3, <1>8
    <2>6. \A v \in Installed(t, n) :
             DOMAIN t[n].versions[v].bound = DOMAIN t[n].versions[v].deps
        BY <2>2, <2>3, <1>7
    <2> QED BY <2>4, <2>5, <2>6
<1> HIDE DEF t
<1> QED BY <1>13, <1>14 DEF PackagesOK, t

(* A removal leaves a record. *)
LEMMA WithoutOK ==
    ASSUME NEW s, PackagesOK(s), NEW removing
    PROVE  PackagesOK(Without(s, removing))
<1> DEFINE t == Without(s, removing)
           left(n) == {v \in Installed(s, n) : <<n, v>> \notin removing}
           active(n) == IF s[n].active \in left(n) THEN s[n].active ELSE NoVersion
           versions(n) == [v \in left(n) |-> s[n].versions[v]]
           one(n) == [active |-> active(n), disabled |-> s[n].disabled,
                      versions |-> versions(n)]
<1>1. t = [n \in Name |-> IF left(n) = {} THEN Absent ELSE one(n)]
    BY DEF Without
<1>2. ASSUME NEW n \in Name
      PROVE  /\ left(n) \subseteq Installed(s, n) /\ left(n) \in SUBSET Version
             /\ \A v \in left(n) :
                   /\ s[n].versions[v] \in Receipt
                   /\ DOMAIN s[n].versions[v].bound = DOMAIN s[n].versions[v].deps
             /\ s[n].disabled \in BOOLEAN
    BY KeysOK DEF PackagesOK, Package
<1> HIDE DEF left
<1>3. ASSUME NEW n \in Name
      PROVE  /\ versions(n) \in UNION {[V -> Receipt] : V \in SUBSET Version}
             /\ DOMAIN versions(n) = left(n)
             /\ \A v \in left(n) : versions(n)[v] = s[n].versions[v]
    <2>1. versions(n) \in [left(n) -> Receipt]
        BY <1>2
    <2> QED BY <2>1, <1>2
<1>4. \A n \in Name : active(n) \in left(n) \cup {NoVersion}
    OBVIOUS
<1>5. \A n \in Name : active(n) \in Version \cup {NoVersion}
    BY <1>2, <1>4
<1> HIDE DEF active, versions
<1>6. \A n \in Name : one(n) \in Package
    BY <1>2, <1>3, <1>5 DEF Package
<1>7. Absent \in Package /\ DOMAIN Absent.versions = {} /\ Absent.active = NoVersion
    BY AbsentIsPackage
<1>8. t \in [Name -> Package]
    <2> HIDE DEF one
    <2> QED BY <1>1, <1>6, <1>7
<1>9. ASSUME NEW n \in Name
      PROVE  /\ t[n].active \in Installed(t, n) \cup {NoVersion}
             /\ Installed(t, n) = {} => t[n] = Absent
             /\ \A v \in Installed(t, n) :
                   DOMAIN t[n].versions[v].bound = DOMAIN t[n].versions[v].deps
    <2>1. CASE left(n) = {}
        <3>1. t[n] = Absent
            BY <1>1, <2>1
        <3> QED BY <3>1, <1>7 DEF Installed
    <2>2. CASE left(n) # {}
        <3>1. t[n] = one(n)
            <4> HIDE DEF one
            <4> QED BY <1>1, <2>2
        <3>2. t[n].versions = versions(n) /\ t[n].active = active(n)
            BY <3>1
        <3>3. Installed(t, n) = left(n)
            BY <3>2, <1>3 DEF Installed
        <3> HIDE DEF one, t
        <3> QED BY <3>2, <3>3, <2>2, <1>2, <1>3, <1>4
    <2> QED BY <2>1, <2>2
<1> HIDE DEF t
<1> QED BY <1>8, <1>9 DEF PackagesOK, t

-----------------------------------------------------------------------------
(* What the operations leave. *)

(* What an index of the catalog is.                                        *)
LEMMA CatalogOK == \A idx \in Catalog : IndexOK(idx)
BY NativeAssumption DEF IndexOK

(* Receipts may take the place of an index, as oo switch has it.           *)
LEMMA FromReceiptsOK ==
    ASSUME NEW s, PackagesOK(s)
    PROVE  /\ IndexOK(FromReceipts(s))
           /\ \A n \in Name : DOMAIN FromReceipts(s)[n] = Installed(s, n)
<1> DEFINE of(n, v) == [deps |-> s[n].versions[v].deps, content |-> s[n].versions[v].content]
<1>1. \A n \in Name : /\ Installed(s, n) \subseteq Version
                      /\ \A v \in Installed(s, n) : s[n].versions[v] \in Receipt
    BY KeysOK
<1>2. \A n \in Name : \A v \in Installed(s, n) : of(n, v) \in Metadata
    BY <1>1 DEF Receipt, Metadata
<1>3. FromReceipts(s) = [n \in Name |-> [v \in Installed(s, n) |-> of(n, v)]]
    BY DEF FromReceipts
<1> HIDE DEF of
<1>4. \A n \in Name : FromReceipts(s)[n] = [v \in Installed(s, n) |-> of(n, v)]
    BY <1>3
<1>5. DOMAIN FromReceipts(s) = Name
    BY <1>3
<1> QED BY <1>1, <1>2, <1>4, <1>5 DEF IndexOK

(* A plan that is not refused leads to a linked record. *)
LEMMA PlansOK ==
    ASSUME NEW s, PackagesOK(s), NEW idx, IndexOK(idx),
           NEW requests \in SUBSET Named(idx), NEW noSwitch \in BOOLEAN,
           NEW t \in Plans(idx, s, requests, noSwitch)
    PROVE  PackagesOK(t) /\ Linked(t)
<1>1. PICK problem \in Problems(idx, s, requests, noSwitch) :
         \E selected \in Solution(problem) :
             LET a == After(idx, s, requests, noSwitch, problem, selected)
             IN  t = Rebound(a) /\ Rebindable(a)
    BY Zenon DEF Plans
<1>3. PICK selected \in Solution(problem) :
         LET a == After(idx, s, requests, noSwitch, problem, selected)
         IN  t = Rebound(a) /\ Rebindable(a)
    BY <1>1
<1>2. PackagesOK(After(idx, s, requests, noSwitch, problem, selected))
    BY AfterOK
<1> QED BY <1>2, <1>3, ReboundOK

(* Every operation leaves a well-formed and linked record.                 *)
LEMMA NextKeepsRecord ==
    ASSUME IInv, [Next]_vars
    PROVE  IInv'
<1> USE DEF IInv
<1>1. CASE Update
    BY <1>1 DEF Update
<1>2. ASSUME NEW requests \in Requests(Published), NEW noSwitch \in BOOLEAN,
             Install(requests, noSwitch)
      PROVE  IInv'
    <2>1. requests \in SUBSET Named(index)
        BY DEF Requests, Published, Named
    <2>2. IndexOK(index)
        BY CatalogOK
    <2> QED BY <1>2, <2>1, <2>2, PlansOK DEF Install
<1>3. ASSUME NEW k \in Dir, Switch(k)
      PROVE  IInv'
    <2>1. k \in Keys(packages)
        BY <1>3 DEF Switch
    <2>2. k \in Named(FromReceipts(packages))
        BY <2>1, KeysOK, FromReceiptsOK DEF Named, Dir
    <2>3. {k} \in SUBSET Named(FromReceipts(packages)) /\ IndexOK(FromReceipts(packages))
        BY <2>2, FromReceiptsOK
    <2>4. packages' \in Plans(FromReceipts(packages), packages, {k}, FALSE)
        BY <1>3 DEF Switch
    <2>5. PackagesOK(packages') /\ Linked(packages')
        <3>1. PICK no \in BOOLEAN : no = FALSE
            OBVIOUS
        <3>2. packages' \in Plans(FromReceipts(packages), packages, {k}, no)
            BY <2>4, <3>1, Zenon
        <3> QED BY <2>3, <3>2, PlansOK
    <2> QED BY <1>3, <2>5 DEF Switch
<1>4. ASSUME NEW named \in Removable, NEW cascade \in BOOLEAN, NEW cleanup \in BOOLEAN,
             Remove(named, cascade, cleanup)
      PROVE  IInv'
    <2>1. PICK removing : /\ Rebindable(Without(packages, removing))
                          /\ packages' = Rebound(Without(packages, removing))
        BY <1>4, Zenon DEF Remove
    <2>2. PackagesOK(packages') /\ Linked(packages')
        BY <2>1, WithoutOK, ReboundOK
    <2> QED BY <1>4, <2>2 DEF Remove
<1>5. ASSUME NEW m \in Name, Unlink({m})
      PROVE  IInv'
    <2>0. /\ packages' = [n \in Name |-> IF n \in {m}
                                         THEN [packages[n] EXCEPT !.disabled = TRUE]
                                         ELSE packages[n]]
          /\ Installed(packages, m) # {} /\ index' = index
        BY <1>5 DEF Unlink
    <2>1. packages \in [Name -> Package]
        BY DEF PackagesOK
    <2>2. ASSUME NEW n \in Name
          PROVE  /\ packages'[n] \in Package
                 /\ packages'[n].active = packages[n].active
                 /\ packages'[n].versions = packages[n].versions
                 /\ ~packages'[n].disabled => ~packages[n].disabled
                 /\ n # m => packages'[n] = packages[n]
        <3>1. packages[n] \in Package
            BY <2>1
        <3>2. CASE n = m
            <4>1. packages'[n] = [packages[n] EXCEPT !.disabled = TRUE]
                BY <2>0, <3>2
            <4> QED BY <3>1, <3>2, <4>1 DEF Package
        <3>3. CASE n # m
            <4>1. packages'[n] = packages[n]
                BY <2>0, <3>3
            <4> QED BY <3>1, <3>3, <4>1
        <3> QED BY <3>2, <3>3
    <2>3. packages' \in [Name -> Package]
        BY <2>0, <2>2
    <2>4. PackagesOK(packages')
        <3> SUFFICES ASSUME NEW n \in Name
                     PROVE  /\ packages'[n].active \in Installed(packages', n) \cup {NoVersion}
                            /\ Installed(packages', n) = {} => packages'[n] = Absent
                            /\ \A v \in Installed(packages', n) :
                                  DOMAIN packages'[n].versions[v].bound =
                                      DOMAIN packages'[n].versions[v].deps
            BY <2>3 DEF PackagesOK
        <3>1. Installed(packages', n) = Installed(packages, n)
            BY <2>2 DEF Installed
        <3>2. Installed(packages', n) = {} => packages'[n] = Absent
            BY <2>0, <2>2, <3>1 DEF PackagesOK
        <3>3. \A v \in Installed(packages', n) :
                 DOMAIN packages'[n].versions[v].bound = DOMAIN packages'[n].versions[v].deps
            BY <2>2, <3>1 DEF PackagesOK
        <3>4. packages'[n].active \in Installed(packages', n) \cup {NoVersion}
            BY <2>2, <3>1 DEF PackagesOK
        <3> QED BY <3>2, <3>3, <3>4
    <2>5. Linked(packages')
        <3> SUFFICES ASSUME NEW k \in Active(packages'), ~packages'[k[1]].disabled,
                            NEW d \in DOMAIN ReceiptOf(packages', k).deps
                     PROVE  /\ packages'[d].active \in ReceiptOf(packages', k).deps[d]
                            /\ ReceiptOf(packages', k).bound[d] = packages'[d].active
            BY DEF Linked
        <3>1. k[1] \in Name /\ k \in Active(packages)
            BY <2>2 DEF Active, ActiveIn
        <3>2. ReceiptOf(packages', k) = ReceiptOf(packages, k)
            BY <2>2, <3>1 DEF ReceiptOf
        <3>3. ReceiptOf(packages, k) \in Receipt
            BY <3>1, KeysOK
        <3>4. d \in Name
            BY <3>2, <3>3 DEF Receipt
        <3> QED BY <2>2, <3>1, <3>2, <3>4 DEF Linked
    <2> QED BY <2>0, <2>4, <2>5
<1>6. CASE UNCHANGED vars
    BY <1>6 DEF vars
<1> QED BY <1>1, <1>2, <1>3, <1>4, <1>5, <1>6
        DEF Next, InstallAny, SwitchAny, RemoveAny, UnlinkAny

(* A root without packages is one.                                         *)
LEMMA InitKeepsRecord == Init => IInv
<1> SUFFICES ASSUME Init PROVE IInv
    OBVIOUS
<1>1. Absent \in Package /\ DOMAIN Absent.versions = {} /\ Absent.active = NoVersion
    BY AbsentIsPackage
<1>2. packages = [n \in Name |-> Absent] /\ index \in Catalog
    BY DEF Init
<1>3. \A n \in Name : packages[n] = Absent
    BY <1>2
<1>4. PackagesOK(packages)
    BY <1>1, <1>2, <1>3 DEF PackagesOK, Installed
<1>5. Active(packages) = {}
    BY <1>1, <1>3 DEF Active, ActiveIn
<1> QED BY <1>2, <1>4, <1>5 DEF IInv, Linked

(* The record of what is installed stays well formed, and every active,    *)
(* linked package stays bound to active versions: the inductive invariant  *)
(* of install, switch, remove, unlink and update (resolver.go:133-442).    *)
THEOREM RecordIsKept == Spec => []IInv
<1>1. Init => IInv
    BY InitKeepsRecord
<1>2. IInv /\ [Next]_vars => IInv'
    BY NextKeepsRecord
<1> QED BY <1>1, <1>2, PTL DEF Spec

(* The invariant has what the run checks.                                  *)
LEMMA RecordIsEnvironment == IInv => Environment
<1> SUFFICES ASSUME IInv PROVE Environment
    OBVIOUS
<1>1. PackagesOK(packages) /\ index \in Catalog
    BY DEF IInv
<1>2. TypeOK
    <2>1. \A n \in Name : /\ packages[n].disabled \in BOOLEAN
                          /\ packages[n].active \in Installed(packages, n) \cup {NoVersion}
                          /\ Installed(packages, n) = {} => packages[n] = Absent
        BY <1>1 DEF PackagesOK, Package
    <2>2. DOMAIN packages = Name
        BY <1>1 DEF PackagesOK
    <2> QED BY <1>1, <2>1, <2>2, KeysOK DEF TypeOK
<1> QED BY <1>2 DEF IInv, Linked, Environment

(* The commands on PATH work, for every catalog and any number of packages *)
(* and versions: an active package that is linked finds for each           *)
(* dependency an active version that its constraint allows, and is bound   *)
(* to it (resolver.go:294-413, 415-442).                                   *)
THEOREM EnvironmentHolds == Spec => []Environment
<1>1. IInv => Environment
    BY RecordIsEnvironment
<1> QED BY <1>1, RecordIsKept, PTL

-----------------------------------------------------------------------------
(* What is planned. *)

(* What can be asked for is in the index.                                  *)
LEMMA RequestsAreNamed ==
    ASSUME NEW requests \in Requests(Published)
    PROVE  requests \in SUBSET Named(index)
BY DEF Requests, Published, Named

(* Active versions that are fixed are selected and stay active, and their  *)
(* dependencies are what was selected or what was active.                  *)
LEMMA FixedStay ==
    ASSUME NEW s, PackagesOK(s), NEW idx, IndexOK(idx),
           NEW requests \in SUBSET Named(idx), NEW noSwitch \in BOOLEAN,
           NEW problem \in Problems(idx, s, requests, noSwitch),
           NEW selected \in Solution(problem), NEW k \in problem.fixed
    PROVE  LET after == After(idx, s, requests, noSwitch, problem, selected)
               deps == ReceiptOf(s, k).deps
           IN  /\ after[k[1]].active = k[2]
               /\ \A d \in DOMAIN deps :
                     \/ after[d].active = s[d].active
                     \/ after[d].active \in deps[d]
<1> DEFINE after == After(idx, s, requests, noSwitch, problem, selected)
           deps == ReceiptOf(s, k).deps
           passive == {r \in requests : noSwitch}
           enabled(n) == {j \in selected : j[1] = n /\ \A p \in passive : p[1] # n}
<1>0. \A n \in Name : after[n].active = IF enabled(n) = {} THEN s[n].active
                                        ELSE (CHOOSE j \in enabled(n) : TRUE)[2]
    BY DEF After
<1>1. /\ ProblemOK(problem)
      /\ problem = Problem(idx, s, requests, noSwitch, problem.fixed)
      /\ k \in Active(s)
      /\ k \in DOMAIN problem.needs => problem.needs[k] = deps
    BY ProblemKnown
<1>2. k[1] \in Name /\ k[2] = s[k[1]].active /\ k \in Dir
    BY <1>1, KeysOK
<1>3. {k[2]} \in problem.base[k[1]]
    <2>1. problem.base[k[1]] =
            {{j[2]} : j \in {r \in requests : ~noSwitch /\ r[1] = k[1]}}
            \cup {{j[2]} : j \in {f \in problem.fixed : f[1] = k[1]}}
            \cup {Pooled(idx, s, j).deps[k[1]] :
                     j \in {p \in passive : k[1] \in DOMAIN Pooled(idx, s, p).deps}}
        BY <1>1, <1>2 DEF Problem
    <2>2. {k[2]} \in {{j[2]} : j \in {f \in problem.fixed : f[1] = k[1]}}
        OBVIOUS
    <2> HIDE DEF passive
    <2> QED BY <2>1, <2>2
<1>4. {k[2]} \in Constraints(problem, selected, k[1]) /\ k[1] \in Wanted(problem, selected)
    BY <1>2, <1>3 DEF Constraints, Wanted
<1>5. k \in selected /\ \A j \in selected : j[1] = k[1] => j = k
    <2> DEFINE c == Choice(selected, k[1])
    <2>1. /\ c \in selected /\ c = <<k[1], c[2]>>
          /\ \A j \in selected : j[1] = k[1] => j = c
          /\ c[2] \in {k[2]}
        BY <1>1, <1>4, SelectionServes
    <2>2. k = <<k[1], k[2]>>
        BY <1>2 DEF Dir
    <2> HIDE DEF c
    <2> QED BY <2>1, <2>2
<1>6. after[k[1]].active = k[2]
    <2>1. CASE enabled(k[1]) = {}
        <3> HIDE DEF enabled, after
        <3> QED BY <2>1, <1>0, <1>2
    <2>2. CASE enabled(k[1]) # {}
        <3> DEFINE j == CHOOSE j \in enabled(k[1]) : TRUE
        <3>1. j \in enabled(k[1])
            BY <2>2
        <3>2. after[k[1]].active = j[2]
            <4> HIDE DEF enabled, after
            <4> QED BY <2>2, <1>0, <1>2
        <3> HIDE DEF j
        <3> QED BY <3>1, <3>2, <1>5
    <2> QED BY <2>1, <2>2
<1>7. k \in DOMAIN problem.needs /\ problem.needs[k] = deps /\ DOMAIN deps \subseteq Name
    <2>1. k \in DOMAIN problem.needs
        BY <1>1, <1>5, SelectionServes
    <2>2. deps \in Deps
        BY <1>1, <2>1 DEF ProblemOK
    <2> QED BY <1>1, <2>1, <2>2 DEF Deps
<1>8. ASSUME NEW d \in DOMAIN deps
      PROVE  after[d].active = s[d].active \/ after[d].active \in deps[d]
    <2> DEFINE c == Choice(selected, d)
    <2> HIDE DEF deps
    <2>1. d \in Wanted(problem, selected) /\ deps[d] \in Constraints(problem, selected, d)
        BY <1>1, <1>5, <1>7, <1>8, SelectionServes
    <2>2. (\A j \in selected : j[1] = d => j = c) /\ c[2] \in deps[d]
        BY <1>1, <2>1, SelectionServes
    <2>3. CASE enabled(d) = {}
        <3> HIDE DEF enabled, after
        <3> QED BY <2>3, <1>0, <1>7, <1>8
    <2>4. CASE enabled(d) # {}
        <3> DEFINE j == CHOOSE j \in enabled(d) : TRUE
        <3>1. j \in enabled(d)
            BY <2>4
        <3>2. after[d].active = j[2]
            <4> HIDE DEF enabled, after
            <4> QED BY <2>4, <1>0, <1>7, <1>8
        <3> HIDE DEF j, c
        <3> QED BY <3>1, <3>2, <2>2
    <2> QED BY <2>3, <2>4
<1> QED BY <1>6, <1>8

(* Planning is exact in every record that is well formed and linked. *)
LEMMA RecordPlansExactly == IInv => PlansAreExact
<1> SUFFICES ASSUME IInv PROVE PlansAreExact
    OBVIOUS
<1>0. PackagesOK(packages) /\ Linked(packages) /\ IndexOK(index)
    BY CatalogOK DEF IInv
<1>1. SolveIsExact
    <2> SUFFICES ASSUME NEW requests \in Requests(Published), NEW noSwitch \in BOOLEAN,
                        NEW problem \in Problems(index, packages, requests, noSwitch)
                 PROVE  LET found == Solution(problem)
                        IN  /\ \A selected \in found : Solves(problem, selected)
                            /\ found = {} => \A selected \in SUBSET DOMAIN problem.needs :
                                                 ~Solves(problem, selected)
        BY DEF SolveIsExact
    <2>1. ProblemOK(problem)
        BY <1>0, RequestsAreNamed, ProblemKnown
    <2> QED BY <2>1, SearchIsExact
<1>2. PlansFitOthers
    <2> SUFFICES ASSUME NEW requests \in Requests(Published), NEW noSwitch \in BOOLEAN,
                        NEW problem \in Problems(index, packages, requests, noSwitch),
                        NEW selected \in Solution(problem),
                        NEW k \in ActiveIn(packages,
                                Name \ Affected(index, packages, requests, noSwitch))
                 PROVE  LET after == After(index, packages, requests, noSwitch,
                                           problem, selected)
                            deps == ReceiptOf(packages, k).deps
                        IN  /\ after[k[1]].active = k[2]
                            /\ ~packages[k[1]].disabled =>
                                   \A d \in DOMAIN deps : after[d].active \in deps[d]
        BY DEF PlansFitOthers
    <2>1. requests \in SUBSET Named(index)
        BY RequestsAreNamed
    <2>2. k \in problem.fixed /\ k \in Active(packages)
        <3>1. problem.fixed = Fixed(packages, requests, noSwitch,
                                    Affected(index, packages, requests, noSwitch))
            BY <1>0, <2>1, ProblemKnown
        <3>2. problem.fixed \subseteq Active(packages)
            BY <1>0, <2>1, ProblemKnown
        <3> QED BY <3>1, <3>2 DEF Fixed, ActiveIn
    <2>3. LET after == After(index, packages, requests, noSwitch, problem, selected)
              deps == ReceiptOf(packages, k).deps
          IN  /\ after[k[1]].active = k[2]
              /\ \A d \in DOMAIN deps :
                    \/ after[d].active = packages[d].active
                    \/ after[d].active \in deps[d]
        BY <1>0, <2>1, <2>2, FixedStay
    <2>4. ~packages[k[1]].disabled =>
              \A d \in DOMAIN ReceiptOf(packages, k).deps :
                  packages[d].active \in ReceiptOf(packages, k).deps[d]
        BY <1>0, <2>2 DEF Linked
    <2> QED BY <2>3, <2>4
<1> QED BY <1>1, <1>2 DEF PlansAreExact

(* For whatever can be asked for in a state that operations lead to, the   *)
(* backtracking search finds a selection exactly if there is one, what it  *)
(* finds is one, and the plan leaves the active packages that the request  *)
(* does not reach their versions and dependencies (resolver.go:133-286,    *)
(* 415-442).                                                               *)
THEOREM PlansAreAlwaysExact == Spec => []PlansAreExact
<1>1. IInv => PlansAreExact
    BY RecordPlansExactly
<1> QED BY <1>1, RecordIsKept, PTL

-----------------------------------------------------------------------------
(* What is cleaned up. *)

(* A step that is repeated gives a sequence of sets. *)
StepOn(S, step) == step \in [SUBSET S -> SUBSET S]

Shrinks(S, step) == \A set \in SUBSET S : step[set] \subseteq set

Iterated(S, N, first, step, g) ==
    /\ g \in [0..N -> SUBSET S]
    /\ \A i \in 0..N : g[i] = IF i = 0 THEN first ELSE step[g[i - 1]]

(* There is such a sequence: a recursive function over 0..N is one.        *)
LEMMA Iterates ==
    ASSUME NEW S, NEW N, N \in Nat, NEW first \in SUBSET S, NEW step, StepOn(S, step)
    PROVE  \E g : Iterated(S, N, first, step, g)
<1> USE DEF StepOn
<1> DEFINE Good(g, n) == \A i \in 0..n : g[i] = IF i = 0 THEN first ELSE step[g[i - 1]]
           T == {n \in Nat : \E g \in [0..n -> SUBSET S] : Good(g, n)}
<1>1. 0 \in T
    <2> DEFINE g == [i \in 0..0 |-> first]
    <2>1. g \in [0..0 -> SUBSET S]
        OBVIOUS
    <2>2. Good(g, 0)
        OBVIOUS
    <2> HIDE DEF g
    <2>3. \E h \in [0..0 -> SUBSET S] : Good(h, 0)
        BY <2>1, <2>2
    <2> QED BY <2>3
<1>2. ASSUME NEW n \in Nat, n \in T PROVE n + 1 \in T
    <2>1. PICK g \in [0..n -> SUBSET S] : Good(g, n)
        BY <1>2
    <2> DEFINE h == [i \in 0..(n + 1) |-> IF i = n + 1 THEN step[g[n]] ELSE g[i]]
    <2>2. h \in [0..(n + 1) -> SUBSET S]
        OBVIOUS
    <2>3. ASSUME NEW i \in 0..(n + 1)
          PROVE  h[i] = IF i = 0 THEN first ELSE step[h[i - 1]]
        <3>1. CASE i = n + 1
            BY <3>1
        <3>2. CASE i # n + 1
            <4>1. i \in 0..n /\ h[i] = g[i]
                BY <3>2
            <4>2. i # 0 => i - 1 \in 0..(n + 1) /\ i - 1 # n + 1
                BY <4>1
            <4>3. i # 0 => h[i - 1] = g[i - 1]
                BY <4>2
            <4>4. g[i] = IF i = 0 THEN first ELSE step[g[i - 1]]
                BY <2>1, <4>1
            <4> QED BY <4>1, <4>3, <4>4
        <3> QED BY <3>1, <3>2
    <2>4. Good(h, n + 1)
        <3> HIDE DEF h
        <3> QED BY <2>2, <2>3
    <2> HIDE DEF h, Good
    <2>5. \E f \in [0..(n + 1) -> SUBSET S] : Good(f, n + 1)
        BY <2>2, <2>4
    <2> QED BY <2>5
<1>3. N \in T
    <2> HIDE DEF T
    <2> QED BY <1>1, <1>2, Counting
<1> QED BY <1>3 DEF Iterated

(* If it only takes elements away, it ends. *)
LEMMA Settles ==
    ASSUME NEW S, IsFiniteSet(S), NEW N, N \in Nat, Cardinality(S) <= N,
           NEW step, StepOn(S, step), Shrinks(S, step),
           NEW first, NEW g, Iterated(S, N, first, step, g)
    PROVE  step[g[N]] = g[N]
<1> USE DEF StepOn, Shrinks, Iterated
<1> DEFINE T == {n \in Nat : n <= N =>
                     \/ step[g[n]] = g[n]
                     \/ Cardinality(g[n]) <= Cardinality(S) - n}
<1>0. /\ \A set \in SUBSET S : IsFiniteSet(set) /\ Cardinality(set) \in Nat
      /\ Cardinality(S) \in Nat
    BY FS_Subset, FS_CardinalityType
<1>1. 0 \in T
    <2>1. g[0] \in SUBSET S
        OBVIOUS
    <2>2. Cardinality(g[0]) <= Cardinality(S)
        BY <2>1, FS_Subset
    <2> QED BY <2>2, <1>0, <2>1
<1>2. ASSUME NEW n \in Nat, n \in T PROVE n + 1 \in T
    <2> SUFFICES ASSUME n + 1 <= N
                 PROVE  \/ step[g[n + 1]] = g[n + 1]
                        \/ Cardinality(g[n + 1]) <= Cardinality(S) - (n + 1)
        OBVIOUS
    <2>1. n \in 0..N /\ n + 1 \in 1..N /\ n + 1 \in 0..N /\ (n + 1) - 1 = n
        OBVIOUS
    <2>2. g[n] \in SUBSET S /\ g[n + 1] \in SUBSET S
        BY <2>1
    <2>3. g[n + 1] = step[g[n]]
        BY <2>1
    <2>4. CASE step[g[n]] = g[n]
        BY <2>3, <2>4
    <2>5. CASE step[g[n]] # g[n]
        <3>1. g[n + 1] \subseteq g[n] /\ g[n + 1] # g[n]
            BY <2>2, <2>3, <2>5
        <3>2. IsFiniteSet(g[n]) /\ Cardinality(g[n]) \in Nat /\ Cardinality(g[n + 1]) \in Nat
            BY <1>0, <2>2
        <3>3. Cardinality(g[n + 1]) <= Cardinality(g[n])
              /\ Cardinality(g[n + 1]) # Cardinality(g[n])
            BY <3>1, <3>2, FS_Subset
        <3>4. Cardinality(g[n]) <= Cardinality(S) - n
            BY <1>2, <2>5
        <3> QED BY <3>2, <3>3, <3>4, <1>0
    <2> QED BY <2>4, <2>5
<1>3. N \in T
    <2> HIDE DEF T
    <2> QED BY <1>1, <1>2, Counting
<1>4. CASE Cardinality(g[N]) <= Cardinality(S) - N
    <2>1. g[N] \in SUBSET S
        OBVIOUS
    <2>2. IsFiniteSet(g[N]) /\ Cardinality(g[N]) = 0
        BY <1>0, <1>4, <2>1
    <2>3. g[N] = {}
        BY <2>2, FS_EmptySet
    <2> QED BY <2>1, <2>3
<1> QED BY <1>3, <1>4

(* The number of versions bounds every set of keys.                        *)
LEMMA CountOfDir ==
    /\ Cardinality(Dir) \in Nat
    /\ \A set \in SUBSET Dir : IsFiniteSet(set) /\ Cardinality(set) <= Cardinality(Dir)
BY DirFinite, FS_Subset, FS_CardinalityType

(* What a set of keys leads to stays among the keys. *)
LEMMA ClosureOK ==
    ASSUME NEW S, NEW first \in SUBSET S, NEW leads \in [S -> SUBSET S]
    PROVE  Closure(first, leads) \in SUBSET S
<1> DEFINE N == Cardinality(Dir)
           step == [set \in SUBSET S |-> set \cup UNION {leads[k] : k \in set}]
           Grown(g) == g = [i \in 0..N |->
                               IF i = 0 THEN first
                               ELSE g[i - 1] \cup UNION {leads[k] : k \in g[i - 1]}]
           grown == CHOOSE g : Grown(g)
<1>0. N \in Nat
    BY CountOfDir
<1> HIDE DEF N
<1>1. \A set \in SUBSET S : set \cup UNION {leads[k] : k \in set} \in SUBSET S
    OBVIOUS
<1>2. StepOn(S, step)
    BY <1>1 DEF StepOn
<1>3. PICK g : Iterated(S, N, first, step, g)
    <2> HIDE DEF step
    <2> QED BY <1>0, <1>2, Iterates
<1>4. ASSUME NEW i \in 0..N
      PROVE  g[i] = IF i = 0 THEN first
                    ELSE g[i - 1] \cup UNION {leads[k] : k \in g[i - 1]}
    <2>1. CASE i = 0
        BY <1>3, <2>1 DEF Iterated
    <2>2. CASE i # 0
        <3>1. i - 1 \in 0..N
            BY <2>2, <1>0
        <3>2. g[i - 1] \in SUBSET S
            BY <3>1, <1>3 DEF Iterated
        <3>3. g[i] = step[g[i - 1]]
            <4> HIDE DEF step
            <4> QED BY <1>3, <2>2 DEF Iterated
        <3> QED BY <2>2, <3>2, <3>3
    <2> QED BY <2>1, <2>2
<1>5. Grown(g)
    BY <1>3, <1>4 DEF Iterated
<1>6. Grown(grown)
    <2> HIDE DEF Grown
    <2> QED BY <1>5
<1>7. Closure(first, leads) = grown[N]
    BY DEF Closure, N
<1> HIDE DEF grown
<1> DEFINE T == {n \in Nat : n <= N => grown[n] \in SUBSET S}
<1>8. 0 \in T
    BY <1>6, <1>0
<1>9. ASSUME NEW n \in Nat, n \in T PROVE n + 1 \in T
    <2> SUFFICES ASSUME n + 1 <= N PROVE grown[n + 1] \in SUBSET S
        OBVIOUS
    <2>1. n + 1 \in 0..N /\ n + 1 # 0 /\ (n + 1) - 1 = n /\ grown[n] \in SUBSET S
        BY <1>0, <1>9
    <2>2. grown[n + 1] = grown[n] \cup UNION {leads[k] : k \in grown[n]}
        BY <1>6, <2>1
    <2> QED BY <2>1, <2>2, <1>1
<1>10. N \in T
    <2> HIDE DEF T
    <2> QED BY <1>0, <1>8, <1>9, Counting
<1> QED BY <1>7, <1>10

(* Repeated protection leaves the largest set that protects itself. *)
LEMMA ProtectedIsLargest ==
    ASSUME NEW s, NEW roots, NEW reached \in SUBSET Dir
    PROVE  Protected(s, roots, reached) =
               UNION {set \in SUBSET reached :
                         \A k \in set : /\ ReceiptOf(s, k).automatic
                                        /\ UsersOf(s, k) \subseteq roots \cup set}
<1> DEFINE N == Cardinality(Dir)
           S == reached
           kept(set) == {k \in set : /\ ReceiptOf(s, k).automatic
                                     /\ UsersOf(s, k) \subseteq roots \cup set}
           step == [set \in SUBSET S |-> kept(set)]
           Left(g) == g = [i \in 0..N |-> IF i = 0 THEN reached ELSE kept(g[i - 1])]
           left == CHOOSE g : Left(g)
<1>0. N \in Nat /\ IsFiniteSet(S) /\ Cardinality(S) <= N
    BY CountOfDir
<1>a. Protected(s, roots, reached) = left[N]
    BY DEF Protected
<1>b. \A set \in SUBSET S : \A k \in set :
         k \in kept(set) <=> /\ ReceiptOf(s, k).automatic
                             /\ UsersOf(s, k) \subseteq roots \cup set
    OBVIOUS
<1>c. \A set, more : set \subseteq more => kept(set) \subseteq kept(more)
    OBVIOUS
<1>d. \A set : kept(set) \subseteq set
    OBVIOUS
<1> HIDE DEF N, kept
<1>1. StepOn(S, step) /\ Shrinks(S, step)
    BY <1>d DEF StepOn, Shrinks
<1>2. PICK g : Iterated(S, N, reached, step, g)
    <2> HIDE DEF step
    <2> QED BY <1>0, <1>1, Iterates
<1>3. ASSUME NEW i \in 0..N
      PROVE  g[i] = IF i = 0 THEN reached ELSE kept(g[i - 1])
    <2>1. CASE i = 0
        BY <1>2, <2>1 DEF Iterated
    <2>2. CASE i # 0
        <3>1. i - 1 \in 0..N
            BY <2>2, <1>0
        <3>2. g[i - 1] \in SUBSET S
            BY <3>1, <1>2 DEF Iterated
        <3>3. g[i] = step[g[i - 1]]
            <4> HIDE DEF step
            <4> QED BY <1>2, <2>2 DEF Iterated
        <3> QED BY <2>2, <3>2, <3>3
    <2> QED BY <2>1, <2>2
<1>4. Left(g)
    BY <1>2, <1>3 DEF Iterated
<1>5. Left(left)
    <2> HIDE DEF Left
    <2> QED BY <1>4
<1> HIDE DEF left
<1> DEFINE T == {n \in Nat : n <= N => left[n] \in SUBSET S}
<1>6. left[0] = reached /\ \A i \in 1..N : left[i] = kept(left[i - 1])
    BY <1>0, <1>5
<1>7. ASSUME NEW n \in Nat, n \in T PROVE n + 1 \in T
    <2> SUFFICES ASSUME n + 1 <= N PROVE left[n + 1] \in SUBSET S
        OBVIOUS
    <2>1. n + 1 \in 1..N /\ (n + 1) - 1 = n /\ left[n] \in SUBSET S
        BY <1>0, <1>7
    <2> QED BY <2>1, <1>6, <1>d
<1>8. \A i \in 0..N : left[i] \in SUBSET S
    <2>1. 0 \in T
        BY <1>6
    <2>2. Nat \subseteq T
        <3> HIDE DEF T
        <3> QED BY <2>1, <1>7, Counting
    <2> QED BY <2>2, <1>0
<1>9. Iterated(S, N, reached, step, left)
    <2>1. left = [i \in 0..N |-> left[i]]
        BY <1>5
    <2>2. left \in [0..N -> SUBSET S]
        BY <2>1, <1>8
    <2>3. ASSUME NEW i \in 0..N PROVE left[i] = IF i = 0 THEN reached ELSE step[left[i - 1]]
        <3>1. i # 0 => i - 1 \in 0..N /\ i \in 1..N
            BY <1>0
        <3> QED BY <3>1, <1>6, <1>8
    <2> HIDE DEF step
    <2> QED BY <2>2, <2>3 DEF Iterated
<1>10. step[left[N]] = left[N]
    <2> HIDE DEF step
    <2> QED BY <1>0, <1>1, <1>9, Settles
<1>11. left[N] \in SUBSET S /\ kept(left[N]) = left[N]
    <2>1. N \in 0..N
        BY <1>0
    <2> QED BY <2>1, <1>8, <1>10
<1>12. ASSUME NEW P \in SUBSET reached,
              \A k \in P : ReceiptOf(s, k).automatic /\ UsersOf(s, k) \subseteq roots \cup P
       PROVE  P \subseteq left[N]
    <2>1. P \subseteq kept(P)
        BY <1>12, <1>b
    <2> DEFINE U == {n \in Nat : n <= N => P \subseteq left[n]}
    <2>2. 0 \in U
        BY <1>6
    <2>3. ASSUME NEW n \in Nat, n \in U PROVE n + 1 \in U
        <3> SUFFICES ASSUME n + 1 <= N PROVE P \subseteq left[n + 1]
            OBVIOUS
        <3>1. n + 1 \in 1..N /\ (n + 1) - 1 = n /\ P \subseteq left[n]
            BY <1>0, <2>3
        <3>2. left[n + 1] = kept(left[n])
            BY <3>1, <1>6
        <3> QED BY <3>1, <3>2, <2>1, <1>c
    <2>4. N \in U
        <3> HIDE DEF U
        <3> QED BY <1>0, <2>2, <2>3, Counting
    <2> QED BY <2>4
<1>13. \A k \in left[N] : /\ ReceiptOf(s, k).automatic
                          /\ UsersOf(s, k) \subseteq roots \cup left[N]
    BY <1>11, <1>b
<1> QED BY <1>a, <1>11, <1>12, <1>13

(* Clean-up is exact in every well-formed record.                          *)
LEMMA RecordCleansExactly == IInv => CleanupIsExact
<1> SUFFICES ASSUME IInv, NEW named \in Removable
             PROVE  Candidates(packages, named) =
                        UNION {set \in SUBSET Reached(packages, named) :
                                  \A k \in set :
                                      /\ ReceiptOf(packages, k).automatic
                                      /\ UsersOf(packages, k) \subseteq named \cup set}
    BY DEF CleanupIsExact
<1> DEFINE leads == [j \in Keys(packages) |-> UsedKeys(packages, j)]
<1>1. named \in SUBSET Keys(packages)
    BY DEF Removable
<1>2. leads \in [Keys(packages) -> SUBSET Keys(packages)]
    BY DEF UsedKeys
<1>3. Closure(named, leads) \in SUBSET Keys(packages)
    <2> HIDE DEF leads
    <2> QED BY <1>1, <1>2, ClosureOK
<1>4. Reached(packages, named) \in SUBSET Dir
    BY <1>3, KeysOK DEF Reached, IInv
<1> QED BY <1>4, ProtectedIsLargest DEF Candidates

(* A removal that names a version cleans up the largest set of automatic   *)
(* dependencies whose users all go with them, however long the chains of   *)
(* dependencies are (native_batch.go, cleanupCandidates).                  *)
THEOREM CleanupIsAlwaysExact == Spec => []CleanupIsExact
<1>1. IInv => CleanupIsExact
    BY RecordCleansExactly
<1> QED BY <1>1, RecordIsKept, PTL
=============================================================================
