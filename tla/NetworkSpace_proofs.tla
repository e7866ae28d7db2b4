------------------------- MODULE NetworkSpace_proofs --------------------------
(***************************************************************************)
(* Proofs about NetworkSpace, for every width of an address and every      *)
(* number of routes: the types, that no address is lost or given twice,    *)
(* that the most specific route wins, and that the assertions hold, these  *)
(* three until two networks tie and differ; and that the merge, ties or    *)
(* not, leaves less to do with every iteration.                            *)
(***************************************************************************)
EXTENDS NetworkSpace, FiniteSetTheorems, TLAPS

(* A set of numbers that is not empty has a least one: there is no endless *)
(* chain of smaller and smaller finite sets.                               *)
LEMMA LeastNat ==
  ASSUME NEW S \in SUBSET Nat, S # {}
  PROVE  \E n \in S : \A m \in S : n <= m
<1> DEFINE R == StrictSubsetOrdering(Nat)
           F == FiniteSubsetsOf(Nat)
           T == {0 .. n : n \in S}
<1>1. IsWellFoundedOn(R, F)
  BY FS_StrictSubsetOrderingWellFounded
<1>2. T \subseteq F /\ T # {}
  <2>1. ASSUME NEW n \in S PROVE 0 .. n \in F
    <3>1. IsFiniteSet(0 .. n)
      BY FS_Interval
    <3> QED BY <3>1 DEF FiniteSubsetsOf
  <2>2. T # {}
    OBVIOUS
  <2> HIDE DEF F
  <2> QED BY <2>1, <2>2
<1> HIDE DEF R, F, T
<1>3. PICK x \in T : \A y \in T : ~ (<<y, x>> \in R)
  BY <1>1, <1>2, WFMin
<1>4. PICK n \in S : x = 0 .. n
  BY <1>3 DEF T
<1>5. ASSUME NEW m \in S, m < n PROVE FALSE
  <2>1. 0 .. m \in T
    BY DEF T
  <2>2. /\ 0 .. m \in SUBSET Nat /\ 0 .. n \in SUBSET Nat
        /\ 0 .. m \subseteq 0 .. n /\ n \in 0 .. n /\ n \notin 0 .. m
    BY <1>5
  <2>3. <<0 .. m, 0 .. n>> \in R
    BY <2>2 DEF R, StrictSubsetOrdering
  <2> QED BY <2>1, <2>3, <1>3, <1>4
<1> QED BY <1>5

-----------------------------------------------------------------------------
(* The sizes of networks.                                                  *)

(* The recursion of Size has a solution, and so Size is one: solutions on  *)
(* the masks from Width + 1 down are extended a mask at a time; a least    *)
(* length without one would contradict that.                               *)
LEMMA SizeDefined ==
  \A m \in 0 .. Width + 1 : Size[m] = IF m >= Width THEN 1 ELSE 2 * Size[m + 1]
<1> USE WidthAssumption
<1> DEFINE Step(f, m) == IF m >= Width THEN 1 ELSE 2 * f[m + 1]
           From(d, f) == f = [m \in Width + 1 - d .. Width + 1 |-> Step(f, m)]
           Bad == {d \in Nat : ~ \E f : From(d, f)}
<1>1. 0 \notin Bad
  <2>1. From(0, [m \in Width + 1 - 0 .. Width + 1 |-> 1])
    OBVIOUS
  <2> QED BY <2>1
<1>2. ASSUME NEW d \in Nat, d + 1 \in Bad
      PROVE  d \in Bad
  <2>1. ASSUME NEW f, From(d, f)
        PROVE  FALSE
    <3> DEFINE low == Width + 1 - (d + 1)
               g == [m \in low .. Width + 1 |-> IF m = low THEN Step(f, m) ELSE f[m]]
    <3>1. low \in Int /\ Width + 1 - d = low + 1
      OBVIOUS
    <3>2. \A m \in low + 1 .. Width + 1 : f[m] = Step(f, m)
      BY <2>1, <3>1
    <3>3. ASSUME NEW m \in low .. Width + 1
          PROVE  g[m] = Step(g, m)
      <4>1. CASE m >= Width
        BY <3>1, <3>2, <4>1
      <4>2. CASE m < Width
        <5>1. m + 1 \in low + 1 .. Width + 1 /\ m + 1 # low
          BY <3>1, <4>2
        <5>2. g[m + 1] = f[m + 1]
          BY <5>1, <3>1
        <5>3. g[m] = Step(f, m)
          BY <3>1, <3>2
        <5> QED BY <5>2, <5>3
      <4> QED BY <3>1, <4>1, <4>2
    <3>4. g = [m \in low .. Width + 1 |-> g[m]]
      OBVIOUS
    <3>5. From(d + 1, g)
      <4> HIDE DEF g, Step, low
      <4>1. g = [m \in low .. Width + 1 |-> Step(g, m)]
        BY <3>3, <3>4
      <4> QED BY <4>1 DEF low
    <3> HIDE DEF From
    <3> QED BY <3>5, <1>2
  <2> HIDE DEF From
  <2> QED BY <2>1
<1>3. Bad = {}
  <2> HIDE DEF Bad
  <2>1. SUFFICES ASSUME Bad # {}
                 PROVE  FALSE
    OBVIOUS
  <2>2. Bad \in SUBSET Nat
    BY DEF Bad
  <2>3. PICK n \in Bad : \A m \in Bad : n <= m
    BY <2>1, <2>2, LeastNat
  <2>4. n \in Nat \ {0} /\ n - 1 \in Nat /\ (n - 1) + 1 = n
    BY <2>2, <2>3, <1>1
  <2>5. n - 1 \in Bad
    BY <2>3, <2>4, <1>2
  <2> QED BY <2>3, <2>4, <2>5
<1>4. \E f : f = [m \in 0 .. Width + 1 |-> Step(f, m)]
  <2>1. PICK f : From(Width + 1, f)
    <3>1. Width + 1 \in Nat
      OBVIOUS
    <3> HIDE DEF From
    <3> QED BY <1>3, <3>1
  <2>2. Width + 1 - (Width + 1) = 0
    OBVIOUS
  <2> HIDE DEF Step
  <2> QED BY <2>1, <2>2
<1>5. Size = [m \in 0 .. Width + 1 |-> Step(Size, m)]
  <2> DEFINE Is(f) == f = [m \in 0 .. Width + 1 |-> Step(f, m)]
  <2>1. Size = CHOOSE f : Is(f)
    BY Zenon DEF Size
  <2> HIDE DEF Is
  <2>2. Is(Size)
    BY <1>4, <2>1, Zenon DEF Is
  <2> QED BY <2>2 DEF Is
<1> QED BY <1>5

(* A network has at least one address.                                     *)
LEMMA SizeType == \A m \in 0 .. Width + 1 : Size[m] \in Nat \ {0}
<1> USE WidthAssumption
<1> DEFINE Bad == {d \in 0 .. Width + 1 : Size[Width + 1 - d] \notin Nat \ {0}}
<1>1. Bad = {}
  <2> HIDE DEF Bad
  <2>1. SUFFICES ASSUME Bad # {}
                 PROVE  FALSE
    OBVIOUS
  <2>2. Bad \in SUBSET Nat /\ Bad \subseteq 0 .. Width + 1
    BY DEF Bad
  <2>3. PICK d \in Bad : \A c \in Bad : d <= c
    BY <2>1, <2>2, LeastNat
  <2>4. d \in 0 .. Width + 1 /\ Size[Width + 1 - d] \notin Nat \ {0}
    BY <2>3 DEF Bad
  <2>5. Width + 1 - d < Width
    BY <2>4, SizeDefined
  <2>6. Size[Width + 1 - (d - 1)] \in Nat \ {0}
    <3>1. d - 1 \in 0 .. Width + 1 /\ d - 1 \notin Bad
      BY <2>3, <2>4, <2>5, <2>2
    <3> QED BY <3>1 DEF Bad
  <2>7. Width + 1 - (d - 1) = (Width + 1 - d) + 1 /\ Width + 1 - d \in 0 .. Width + 1
    BY <2>4
  <2> QED BY <2>4, <2>5, <2>6, <2>7, SizeDefined
<1>2. ASSUME NEW m \in 0 .. Width + 1
      PROVE  Size[m] \in Nat \ {0}
  <2>1. Width + 1 - m \in 0 .. Width + 1 /\ Width + 1 - (Width + 1 - m) = m
    OBVIOUS
  <2> QED BY <1>1, <2>1
<1> QED BY <1>2

(* A mask that is one bit longer halves a network.                         *)
LEMMA SizeHalves ==
  ASSUME NEW m \in 0 .. Width - 1
  PROVE  Size[m] = 2 * Size[m + 1] /\ Size[m + 1] \in Nat \ {0} /\ Size[m] \in Nat \ {0}
BY WidthAssumption, SizeDefined, SizeType

(* The size of a network is a multiple of the size of a smaller one.       *)
LEMMA SizeMultiple ==
  ASSUME NEW m \in 0 .. Width, NEW n \in m .. Width
  PROVE  \E k \in Nat \ {0} : Size[m] = k * Size[n]
<1> USE WidthAssumption
<1> DEFINE Good(d) == m + d <= Width => \E k \in Nat \ {0} : Size[m] = k * Size[m + d]
           Bad == {d \in Nat : ~Good(d)}
<1>1. Good(0)
  <2>1. m + 0 = m /\ Size[m] = 1 * Size[m] /\ 1 \in Nat \ {0}
    BY SizeType
  <2> QED BY <2>1
<1>2. ASSUME NEW d \in Nat, Good(d)
      PROVE  Good(d + 1)
  <2>1. SUFFICES ASSUME m + (d + 1) <= Width
                 PROVE  \E k \in Nat \ {0} : Size[m] = k * Size[m + (d + 1)]
    OBVIOUS
  <2>2. PICK k \in Nat \ {0} : Size[m] = k * Size[m + d]
    BY <1>2, <2>1
  <2>3. m + d \in 0 .. Width - 1 /\ (m + d) + 1 = m + (d + 1)
    BY <2>1
  <2>4. Size[m + d] = 2 * Size[m + (d + 1)] /\ Size[m + (d + 1)] \in Nat
    BY <2>3, SizeHalves
  <2>5. Size[m] = (2 * k) * Size[m + (d + 1)] /\ 2 * k \in Nat \ {0}
    BY <2>2, <2>4
  <2> QED BY <2>5
<1>3. Bad = {}
  <2> HIDE DEF Bad, Good
  <2>1. SUFFICES ASSUME Bad # {}
                 PROVE  FALSE
    OBVIOUS
  <2>2. Bad \in SUBSET Nat
    BY DEF Bad
  <2>3. PICK d \in Bad : \A c \in Bad : d <= c
    BY <2>1, <2>2, LeastNat
  <2>4. d \in Nat \ {0} /\ ~Good(d)
    BY <2>3, <1>1 DEF Bad
  <2>5. d - 1 \in Nat /\ (d - 1) + 1 = d /\ Good(d - 1)
    BY <2>3, <2>4 DEF Bad
  <2> QED BY <2>4, <2>5, <1>2
<1>4. n - m \in Nat /\ m + (n - m) = n
  OBVIOUS
<1>5. Good(n - m)
  <2> HIDE DEF Good
  <2> QED BY <1>3, <1>4
<1> QED BY <1>4, <1>5

(* Multiples of a number are ordered as their factors are.                 *)
LEMMA Multiples ==
  ASSUME NEW u \in Int, NEW v \in Int, NEW t \in Nat \ {0}
  PROVE  /\ u * t < v * t <=> u < v
         /\ u * t <= v * t <=> u <= v
OBVIOUS

(* A number without a remainder is its quotient times the divisor.         *)
LEMMA Divides ==
  ASSUME NEW d \in Nat \ {0}, NEW x \in Nat, x % d = 0
  PROVE  x = (x \div d) * d /\ x \div d \in Nat
OBVIOUS

(* Two intervals that start at multiples of their lengths, of which one    *)
(* divides the other, and that share a number: the shorter lies in the     *)
(* longer.                                                                 *)
LEMMA Nesting ==
  ASSUME NEW t \in Nat \ {0}, NEW k \in Nat \ {0}, NEW i \in Nat, NEW j \in Nat,
         NEW s \in Nat, s = k * t, NEW a \in Nat, a = i * s, NEW b \in Nat, b = j * t,
         NEW x \in Nat, a <= x, x < a + s, b <= x, x < b + t
  PROVE  a <= b /\ b + t <= a + s
<1> DEFINE p == i * k
           q == p + k
<1>1. /\ a = p * t /\ a + s = q * t /\ b = j * t /\ b + t = (j + 1) * t
      /\ p \in Int /\ q \in Int /\ j \in Int /\ j + 1 \in Int
  <2>1. i * (k * t) = (i * k) * t
    OBVIOUS
  <2>2. (p + k) * t = p * t + k * t /\ (j + 1) * t = j * t + t /\ p \in Int
    OBVIOUS
  <2> QED BY <2>1, <2>2
<1> HIDE DEF p, q
<1>2. p * t < (j + 1) * t /\ j * t < q * t
  BY <1>1
<1>3. p < j + 1 /\ j < q
  BY <1>1, <1>2, Multiples
<1>4. p <= j /\ j + 1 <= q
  BY <1>1, <1>3
<1> QED BY <1>1, <1>4, Multiples

-----------------------------------------------------------------------------
(* Networks that start at a multiple of their size.                        *)

(* A network that starts at a multiple of its size, as getMaskedAddress    *)
(* makes them, and whose mask fits an address.                             *)
Block == {n \in [first : Nat, mask : 0 .. Width, included : BOOLEAN] :
            n.first % Size[n.mask] = 0}

(* What a block is made of.                                                *)
LEMMA BlockType ==
  ASSUME NEW n \in Block
  PROVE  /\ n.first \in Nat /\ n.mask \in 0 .. Width /\ n.included \in BOOLEAN
         /\ n.mask \in Nat /\ n.mask <= Width
         /\ Size[n.mask] \in Nat \ {0} /\ Last(n) \in Nat /\ n.first <= Last(n)
         /\ Last(n) = n.first + Size[n.mask] - 1
         /\ \A a : a \in Addresses(n) <=> a \in Nat /\ n.first <= a /\ a <= Last(n)
<1>1. /\ n.first \in Nat /\ n.mask \in 0 .. Width /\ n.included \in BOOLEAN
      /\ Size[n.mask] \in Nat \ {0}
  BY WidthAssumption, SizeType DEF Block
<1> QED BY <1>1, WidthAssumption DEF Last, Addresses

(* Two blocks with an address in common: that of the longer mask lies in   *)
(* the other.                                                              *)
LEMMA BlockNests ==
  ASSUME NEW m \in Block, NEW n \in Block, m.mask <= n.mask,
         NEW a \in Addresses(m), a \in Addresses(n)
  PROVE  m.first <= n.first /\ Last(n) <= Last(m) /\ Addresses(n) \subseteq Addresses(m)
<1> DEFINE i == m.first \div Size[m.mask]
           j == n.first \div Size[n.mask]
<1>1. /\ m.first = i * Size[m.mask] /\ i \in Nat
      /\ n.first = j * Size[n.mask] /\ j \in Nat
  <2>1. /\ Size[m.mask] \in Nat \ {0} /\ m.first % Size[m.mask] = 0 /\ m.first \in Nat
        /\ Size[n.mask] \in Nat \ {0} /\ n.first % Size[n.mask] = 0 /\ n.first \in Nat
    BY BlockType DEF Block
  <2> QED BY <2>1, Divides
<1>2. PICK k \in Nat \ {0} : Size[m.mask] = k * Size[n.mask]
  BY BlockType, SizeMultiple, WidthAssumption
<1> HIDE DEF i, j
<1>3. /\ m.first <= a /\ a < m.first + Size[m.mask]
      /\ n.first <= a /\ a < n.first + Size[n.mask]
      /\ a \in Nat
  BY BlockType
<1>4. m.first <= n.first /\ n.first + Size[n.mask] <= m.first + Size[m.mask]
  <2> DEFINE s == Size[m.mask]
             t == Size[n.mask]
             b == m.first
             c == n.first
  <2>1. /\ t \in Nat \ {0} /\ s \in Nat /\ b \in Nat /\ c \in Nat
        /\ s = k * t /\ b = i * s /\ c = j * t /\ i \in Nat /\ j \in Nat
        /\ b <= a /\ a < b + s /\ c <= a /\ a < c + t /\ a \in Nat
    BY <1>1, <1>2, <1>3, BlockType
  <2> HIDE DEF s, t, b, c
  <2>2. b <= c /\ c + t <= b + s
    BY <2>1, Nesting
  <2> QED BY <2>2 DEF s, t, b, c
<1>5. Last(n) <= Last(m)
  BY <1>4, BlockType
<1> QED BY <1>4, <1>5, BlockType

(* Two blocks of one size with an address in common are equal.             *)
LEMMA BlocksEqual ==
  ASSUME NEW m \in Block, NEW n \in Block, m.mask = n.mask,
         NEW a \in Addresses(m), a \in Addresses(n)
  PROVE  Equal(m, n) /\ Addresses(m) = Addresses(n)
<1>1. m.first <= n.first /\ n.first <= m.first /\ m.first \in Nat /\ n.first \in Nat
      /\ m.mask <= n.mask /\ n.mask <= m.mask
  BY BlockNests, BlockType
<1> QED BY <1>1 DEF Equal, Addresses, Last

(* A block that starts in another one behind its first address is smaller. *)
LEMMA BlockStarts ==
  ASSUME NEW m \in Block, NEW n \in Block, m.first <= n.first, n.first <= Last(m)
  PROVE  /\ n.first \in Addresses(m) /\ n.first \in Addresses(n)
         /\ m.first < n.first => m.mask < n.mask
<1>1. n.first \in Addresses(m) /\ n.first \in Addresses(n)
  BY BlockType
<1>2. ASSUME m.first < n.first, ~(m.mask < n.mask)
      PROVE  FALSE
  <2>1. n.mask <= m.mask
    BY <1>2, BlockType
  <2>2. n.first <= m.first
    BY <1>1, <2>1, BlockNests
  <2> QED BY <1>2, <2>2, BlockType
<1> QED BY <1>1, <1>2

(* split divides a block into two blocks that share no address.            *)
LEMMA BlockHalves ==
  ASSUME NEW n \in Block, n.mask < Width
  PROVE  /\ FirstHalf(n) \in Block /\ SecondHalf(n) \in Block
         /\ FirstHalf(n).mask = n.mask + 1 /\ SecondHalf(n).mask = n.mask + 1
         /\ FirstHalf(n).included = n.included /\ SecondHalf(n).included = n.included
         /\ FirstHalf(n).first = n.first
         /\ SecondHalf(n).first = Last(FirstHalf(n)) + 1
         /\ Last(SecondHalf(n)) = Last(n) /\ Last(FirstHalf(n)) < Last(n)
         /\ Addresses(n) = Addresses(FirstHalf(n)) \cup Addresses(SecondHalf(n))
<1> DEFINE lo == FirstHalf(n)
           up == SecondHalf(n)
           h == Size[n.mask + 1]
<1>1. /\ n.first \in Nat /\ n.mask \in 0 .. Width - 1 /\ n.included \in BOOLEAN
      /\ n \in [first : Nat, mask : 0 .. Width, included : BOOLEAN]
  BY BlockType, WidthAssumption DEF Block
<1>2. Size[n.mask] = 2 * h /\ h \in Nat \ {0}
  BY <1>1, SizeHalves
<1>3. /\ lo = [first |-> n.first, mask |-> n.mask + 1, included |-> n.included]
      /\ Last(lo) = n.first + h - 1
  BY <1>1 DEF FirstHalf, Last
<1>4. up = [first |-> n.first + h, mask |-> n.mask + 1, included |-> n.included]
  <2>1. Last(lo) + 1 = n.first + h
    BY <1>1, <1>2, <1>3
  <2>2. SecondHalf(n) = [n EXCEPT !.mask = n.mask + 1, !.first = n.first + h]
    BY <2>1, Zenon DEF SecondHalf
  <2> HIDE DEF h
  <2> QED BY <1>1, <2>2
<1>5. Last(up) = Last(n)
  BY <1>1, <1>2, <1>4 DEF Last
<1>6. n.first % h = 0 /\ (n.first + h) % h = 0
  <2> DEFINE i == n.first \div (2 * h)
  <2>1. n.first = i * (2 * h) /\ i \in Nat
    <3>1. Size[n.mask] \in Nat \ {0} /\ n.first % Size[n.mask] = 0
      BY BlockType DEF Block
    <3> QED BY <1>1, <1>2, <3>1, Divides
  <2> HIDE DEF i, h
  <2>2. n.first = (2 * i) * h /\ n.first + h = (2 * i + 1) * h
    BY <1>2, <2>1
  <2>3. \A k \in Nat : (k * h) % h = 0
    BY <1>2
  <2> QED BY <2>1, <2>2, <2>3
<1>7. lo \in Block /\ up \in Block
  BY <1>1, <1>2, <1>3, <1>4, <1>6, WidthAssumption DEF Block
<1>8. Last(lo) < Last(n) /\ up.first = Last(lo) + 1
  BY <1>1, <1>2, <1>3, <1>4, <1>5, <1>7 DEF Last
<1>9. Addresses(n) = Addresses(lo) \cup Addresses(up)
  BY <1>1, <1>3, <1>4, <1>5, <1>7, <1>8, BlockType DEF Addresses
<1> HIDE DEF lo, up
<1> QED BY <1>3, <1>4, <1>5, <1>7, <1>8, <1>9 DEF lo, up

-----------------------------------------------------------------------------
(* What the networks of a set say of an address.                           *)

(* Networks that tie do not differ.                                        *)
Alike(m, n) == Equal(m, n) => m.included = n.included

(* The network d of a set decides on an address: none is more specific.    *)
Decides(set, a, d) ==
    /\ d \in set /\ a \in Addresses(d)
    /\ \A m \in set : a \in Addresses(m) => m.mask <= d.mask

(* A network that decides on the address is included.                      *)
Decided(set, a) == \E d \in set : d.included /\ Decides(set, a, d)

(* No three networks of the set lie in each other with alternating kinds.  *)
NoSandwich(set) ==
    \A a, b, c \in set :
      ~ (Nested(a, b) /\ Nested(b, c) /\ a.included = c.included
         /\ a.included # b.included)

(* One of the networks an address lies in decides on it.                   *)
LEMMA MostSpecific ==
  ASSUME NEW set \in SUBSET Block, NEW e \in set, NEW a \in Addresses(e)
  PROVE  \E d \in set : Decides(set, a, d)
<1> USE WidthAssumption
<1> DEFINE at == {m \in set : a \in Addresses(m)}
           rest == {Width - m.mask : m \in at}
<1>1. rest \in SUBSET Nat /\ rest # {}
  <2>1. \A m \in at : Width - m.mask \in Nat
    BY BlockType
  <2> QED BY <2>1
<1> HIDE DEF rest
<1>2. PICK r \in rest : \A q \in rest : r <= q
  BY <1>1, LeastNat
<1>3. PICK d \in at : r = Width - d.mask
  BY <1>2 DEF rest
<1>4. ASSUME NEW m \in at
      PROVE  m.mask <= d.mask
  <2>1. Width - d.mask <= Width - m.mask
    BY <1>2, <1>3 DEF rest
  <2>2. m.mask \in Nat /\ d.mask \in Nat
    BY BlockType
  <2> QED BY <2>1, <2>2
<1> QED BY <1>3, <1>4 DEF Decides

(* A network may be left out, or be forgotten, when it lies in another one *)
(* of its kind and nothing of the other kind lies between them.            *)
LEMMA DropDecided ==
  ASSUME NEW S \in SUBSET Block, NEW T, NEW c \in Block, NEW e \in T,
         T \subseteq S, S \subseteq T \cup {c},
         Addresses(c) \subseteq Addresses(e), c.included = e.included,
         \A m \in T : \A b \in Addresses(c) :
           b \in Addresses(m) /\ m.mask <= c.mask =>
             m.mask < e.mask \/ m.included = c.included,
         NEW a
  PROVE  Decided(S, a) <=> Decided(T, a)
<1>1. T \in SUBSET Block /\ e \in Block
  OBVIOUS
<1>2. \A m \in S : m.mask \in Nat
  BY BlockType
<1>3. ASSUME NEW d \in S, d.included, Decides(S, a, d)
      PROVE  Decided(T, a)
  <2>1. CASE d \in T
    BY <1>3, <2>1 DEF Decides, Decided
  <2>2. CASE d = c
    <3>1. a \in Addresses(c) /\ a \in Addresses(e)
      BY <1>3, <2>2 DEF Decides
    <3>2. PICK d2 \in T : Decides(T, a, d2)
      BY <1>1, <3>1, MostSpecific
    <3>3. e.mask <= d2.mask /\ d2.mask <= c.mask /\ a \in Addresses(d2)
      BY <1>3, <2>2, <3>1, <3>2 DEF Decides
    <3>4. d2.included = c.included
      BY <1>1, <1>2, <3>1, <3>3
    <3> QED BY <1>3, <2>2, <3>2, <3>4 DEF Decided
  <2> QED BY <2>1, <2>2
<1>4. ASSUME NEW d \in T, d.included, Decides(T, a, d)
      PROVE  Decided(S, a)
  <2>1. PICK d2 \in S : Decides(S, a, d2)
    BY <1>4, MostSpecific DEF Decides
  <2>2. CASE d2 \in T
    <3>1. d.mask = d2.mask
      BY <1>2, <1>4, <2>1, <2>2 DEF Decides
    <3> QED BY <1>4, <2>1, <3>1 DEF Decides, Decided
  <2>3. CASE d2 = c
    <3>1. a \in Addresses(c) /\ a \in Addresses(e) /\ a \in Addresses(d)
      BY <1>4, <2>1, <2>3 DEF Decides
    <3>2. e.mask <= d.mask /\ d.mask <= c.mask
      BY <1>4, <2>1, <2>3, <3>1 DEF Decides
    <3>3. d.included = c.included
      BY <1>1, <1>2, <3>1, <3>2
    <3> QED BY <1>4, <2>1, <2>3, <3>3 DEF Decided
  <2> QED BY <2>2, <2>3
<1> QED BY <1>3, <1>4 DEF Decided

(* Leaving out a network that lies in another one loses no address.        *)
LEMMA DropCovered ==
  ASSUME NEW S, NEW T, NEW c, NEW e \in T, T \subseteq S, S \subseteq T \cup {c},
         Addresses(c) \subseteq Addresses(e)
  PROVE  Covered(S) = Covered(T)
BY DEF Covered

(* Splitting a network changes for no address what decides on it.          *)
LEMMA SplitDecided ==
  ASSUME NEW S \in SUBSET Block, NEW T \in SUBSET Block, NEW n \in S, n.mask < Width,
         S \ {n} \subseteq T, T \subseteq S \cup {FirstHalf(n), SecondHalf(n)},
         \E x \in T : Equal(x, FirstHalf(n)), \E x \in T : Equal(x, SecondHalf(n)),
         \A m \in S : Alike(m, n), \A x, y \in T : Alike(x, y),
         NEW a
  PROVE  Decided(S, a) <=> Decided(T, a)
<1> DEFINE Half(x) == x \in {FirstHalf(n), SecondHalf(n)}
<1>1. n \in Block /\ (\A m \in S : m \in Block /\ m.mask \in Nat)
      /\ (\A m \in T : m \in Block /\ m.mask \in Nat)
  BY BlockType
<1>2. \A x : Half(x) => /\ x.mask = n.mask + 1 /\ x.included = n.included
                       /\ Addresses(x) \subseteq Addresses(n)
  BY <1>1, BlockHalves
<1>3. CASE a \notin Addresses(n)
  <2>1. \A m : Half(m) => a \notin Addresses(m)
    BY <1>2, <1>3
  <2>2. \A m : a \in Addresses(m) => (m \in S <=> m \in T)
    BY <1>3, <2>1
  <2> QED BY <2>2 DEF Decides, Decided
<1>4. CASE a \in Addresses(n)
  <2>1. PICK x \in T : a \in Addresses(x) /\ x.mask = n.mask + 1
    <3>1. PICK h : Half(h) /\ a \in Addresses(h)
      BY <1>1, <1>4, BlockHalves
    <3>2. PICK x \in T : Equal(x, h)
      BY <3>1
    <3>3. Addresses(x) = Addresses(h) /\ x.mask = n.mask + 1
      BY <1>2, <3>1, <3>2 DEF Equal, Addresses, Last
    <3> QED BY <3>1, <3>3
  <2>2. ASSUME NEW d \in S, d.included, Decides(S, a, d)
        PROVE  Decided(T, a)
    <3>1. n.mask <= d.mask /\ a \in Addresses(d)
      BY <1>4, <2>2 DEF Decides
    <3>2. CASE d.mask = n.mask
      <4>1. n.included
        BY <1>1, <1>4, <2>2, <3>1, <3>2, BlocksEqual DEF Alike
      <4>2. x \notin S
        BY <1>1, <2>1, <2>2, <3>2 DEF Decides
      <4>3. Half(x) /\ x.included
        BY <1>2, <4>1, <4>2
      <4>4. ASSUME NEW m \in T, a \in Addresses(m)
            PROVE  m.mask <= x.mask
        <5>1. CASE m \in S
          BY <1>1, <2>1, <2>2, <3>2, <4>4, <5>1 DEF Decides
        <5>2. CASE Half(m)
          BY <1>1, <1>2, <2>1, <5>2
        <5> QED BY <5>1, <5>2
      <4> QED BY <2>1, <4>3, <4>4 DEF Decides, Decided
    <3>3. CASE n.mask < d.mask
      <4>1. d \in T
        BY <1>1, <3>3
      <4>2. ASSUME NEW m \in T, a \in Addresses(m)
            PROVE  m.mask <= d.mask
        <5>1. CASE m \in S
          BY <2>2, <4>2, <5>1 DEF Decides
        <5>2. CASE Half(m)
          BY <1>1, <1>2, <3>3, <5>2
        <5> QED BY <5>1, <5>2
      <4> QED BY <2>2, <3>1, <4>1, <4>2 DEF Decides, Decided
    <3> QED BY <1>1, <3>1, <3>2, <3>3
  <2>3. ASSUME NEW d \in T, d.included, Decides(T, a, d)
        PROVE  Decided(S, a)
    <3>1. n.mask + 1 <= d.mask /\ a \in Addresses(d)
      BY <2>1, <2>3 DEF Decides
    <3>2. ASSUME NEW m \in S, a \in Addresses(m)
          PROVE  m.mask <= d.mask
      <4>1. CASE m = n
        BY <1>1, <3>1, <4>1
      <4>2. CASE m # n
        BY <2>3, <3>2, <4>2 DEF Decides
      <4> QED BY <4>1, <4>2
    <3>3. CASE d \in S
      BY <2>3, <3>1, <3>2, <3>3 DEF Decides, Decided
    <3>4. CASE d \notin S
      <4>1. d.mask = n.mask + 1 /\ n.included
        BY <1>2, <2>3, <3>4
      <4>2. CASE \E m \in S : a \in Addresses(m) /\ m.mask = n.mask + 1
        <5>1. PICK m \in S : a \in Addresses(m) /\ m.mask = n.mask + 1
          BY <4>2
        <5>2. m \in T
          BY <1>1, <5>1
        <5>3. m.included
          BY <1>1, <2>3, <3>1, <4>1, <5>1, <5>2, BlocksEqual DEF Alike
        <5> QED BY <3>2, <4>1, <5>1, <5>3 DEF Decides, Decided
      <4>3. CASE ~ \E m \in S : a \in Addresses(m) /\ m.mask = n.mask + 1
        <5>1. \A m \in S : a \in Addresses(m) => m.mask <= n.mask
          BY <1>1, <3>2, <4>1, <4>3
        <5> QED BY <1>4, <4>1, <5>1 DEF Decides, Decided
      <4> QED BY <4>2, <4>3
    <3> QED BY <3>3, <3>4
  <2> QED BY <2>2, <2>3 DEF Decided
<1> QED BY <1>3, <1>4

(* Splitting a network loses no address.                                   *)
LEMMA SplitCovered ==
  ASSUME NEW S, NEW T, NEW n \in S, n \in Block, n.mask < Width,
         S \ {n} \subseteq T, T \subseteq S \cup {FirstHalf(n), SecondHalf(n)},
         \E x \in T : Equal(x, FirstHalf(n)), \E x \in T : Equal(x, SecondHalf(n))
  PROVE  Covered(S) = Covered(T)
<1>1. PICK x \in T : Equal(x, FirstHalf(n))
  OBVIOUS
<1>2. PICK y \in T : Equal(y, SecondHalf(n))
  OBVIOUS
<1>3. /\ Addresses(x) = Addresses(FirstHalf(n))
      /\ Addresses(y) = Addresses(SecondHalf(n))
  BY <1>1, <1>2 DEF Equal, Addresses, Last
<1>4. Addresses(n) = Addresses(FirstHalf(n)) \cup Addresses(SecondHalf(n))
  BY BlockHalves
<1> QED BY <1>3, <1>4 DEF Covered

(* Splitting makes no new nesting of alternating kinds.                    *)
LEMMA SplitNoSandwich ==
  ASSUME NEW S \in SUBSET Block, NEW T, NEW n \in S, n.mask < Width,
         T \subseteq S \cup {FirstHalf(n), SecondHalf(n)},
         \A m \in S : Alike(m, n), NoSandwich(S)
  PROVE  NoSandwich(T)
<1> DEFINE Half(x) == x \in {FirstHalf(n), SecondHalf(n)}
           Back(x) == IF x \in S THEN x ELSE n
<1>1. n \in Block /\ n.mask \in Nat
  BY BlockType
<1>2. \A x : Half(x) => /\ x.mask = n.mask + 1 /\ x.included = n.included
                       /\ Addresses(x) \subseteq Addresses(n) /\ x \in Block
  BY <1>1, BlockHalves
<1>3. \A x \in T : Back(x) \in S /\ Back(x).included = x.included /\ (x \in S \/ Half(x))
  BY <1>2
<1>4. ASSUME NEW x \in T, NEW y \in T, Nested(x, y), x.included # y.included
      PROVE  Nested(Back(x), Back(y))
  <2>1. Addresses(x) \subseteq Addresses(y) /\ x.mask > y.mask /\ x \in Block /\ y \in Block
        /\ x.mask \in Nat /\ y.mask \in Nat /\ x.first \in Addresses(x)
    BY <1>2, <1>3, <1>4, BlockType DEF Nested
  <2>2. CASE x \in S /\ y \in S
    BY <1>4, <2>2
  <2>3. CASE Half(x) /\ y \in S /\ x \notin S
    <3>1. y.mask <= n.mask /\ x.first \in Addresses(n) /\ x.first \in Addresses(y)
      BY <1>1, <1>2, <2>1, <2>3
    <3>2. Addresses(n) \subseteq Addresses(y)
      BY <1>1, <2>1, <3>1, BlockNests
    <3>3. y.mask # n.mask
      <4>1. SUFFICES ASSUME y.mask = n.mask
                     PROVE  FALSE
        OBVIOUS
      <4>2. Equal(y, n)
        BY <1>1, <2>1, <3>1, <4>1, BlocksEqual
      <4> QED BY <1>2, <1>4, <2>3, <4>2 DEF Alike
    <3> QED BY <1>1, <2>1, <2>3, <3>1, <3>2, <3>3 DEF Nested
  <2>4. CASE x \in S /\ Half(y) /\ y \notin S
    BY <1>1, <1>2, <2>1, <2>4 DEF Nested
  <2>5. CASE Half(x) /\ Half(y)
    BY <1>2, <2>1, <2>5
  <2> QED BY <1>3, <2>2, <2>3, <2>4, <2>5
<1>5. ASSUME NEW x \in T, NEW y \in T, NEW z \in T, Nested(x, y), Nested(y, z),
             x.included = z.included, x.included # y.included
      PROVE  FALSE
  <2>1. Nested(Back(x), Back(y)) /\ Nested(Back(y), Back(z))
    BY <1>4, <1>5
  <2> HIDE DEF Back
  <2> QED BY <1>3, <1>5, <2>1 DEF NoSandwich
<1> QED BY <1>5 DEF NoSandwich

-----------------------------------------------------------------------------
(* Networks within the addresses.                                          *)

(* A network with the longest mask, or one beyond it, is one address.      *)
LEMMA SizeEnds == Size[Width] = 1 /\ Size[Width + 1] = 1
BY WidthAssumption, SizeDefined

(* A longer mask makes a smaller network.                                  *)
LEMMA SizeSmaller ==
  ASSUME NEW m \in 0 .. Width, NEW n \in 0 .. Width, m < n
  PROVE  Size[n] < Size[m]
<1>1. m \in 0 .. Width - 1 /\ m + 1 \in 0 .. Width /\ n \in m + 1 .. Width
  BY WidthAssumption
<1>2. Size[m] = 2 * Size[m + 1] /\ Size[m + 1] \in Nat \ {0} /\ Size[n] \in Nat \ {0}
  BY <1>1, SizeHalves, SizeType, WidthAssumption
<1>3. PICK k \in Nat \ {0} : Size[m + 1] = k * Size[n]
  BY <1>1, SizeMultiple
<1>4. Size[n] <= k * Size[n]
  BY <1>2
<1> QED BY <1>2, <1>3, <1>4

(* The network ends within the addresses, or its mask is longer than one.  *)
Fits(n) == n.mask = Width + 1 \/ n.first + Size[n.mask] <= Size[0]

(* A route is a block within the addresses.                                *)
LEMMA RouteFits ==
  ASSUME NEW n \in Route
  PROVE  n \in Block /\ n \in NetType /\ Fits(n)
<1> USE WidthAssumption
<1> DEFINE whole == [first |-> 0, mask |-> 0, included |-> TRUE]
<1>1. /\ Size[0] \in Nat \ {0} /\ n.first \in 0 .. Size[0] - 1 /\ n.mask \in 0 .. Width
      /\ n.included \in BOOLEAN
      /\ n \in [first : Address, mask : 0 .. Width, included : BOOLEAN]
      /\ n.first % Size[n.mask] = 0
  BY SizeType DEF Route, Address
<1>2. n \in Block
  BY <1>1 DEF Block, Address
<1>3. n \in NetType
  BY <1>1 DEF NetType, Address
<1>4. whole \in Block /\ whole.mask = 0 /\ whole.first = 0 /\ Last(whole) = Size[0] - 1
  BY <1>1 DEF Block, Last
<1> HIDE DEF whole
<1>5. n.first \in Addresses(whole) /\ n.first \in Addresses(n) /\ whole.mask <= n.mask
  BY <1>1, <1>2, <1>4, BlockType
<1>6. Last(n) <= Last(whole)
  BY <1>2, <1>4, <1>5, BlockNests
<1>7. Fits(n)
  BY <1>1, <1>2, <1>4, <1>6, BlockType DEF Fits
<1> QED BY <1>2, <1>3, <1>7

(* What a network is made of.                                              *)
LEMMA NetTypes ==
  ASSUME NEW n \in NetType
  PROVE  /\ n.first \in Nat /\ n.first \in 0 .. Size[0] /\ n.mask \in Nat
         /\ n.mask \in 0 .. Width + 1 /\ n.included \in BOOLEAN
         /\ Size[n.mask] \in Nat \ {0} /\ n # None
         /\ n = [first |-> n.first, mask |-> n.mask, included |-> n.included]
<1>1. Size[0] \in Nat
  BY SizeType, WidthAssumption
<1>2. /\ n.first \in 0 .. Size[0] /\ n.mask \in 0 .. Width + 1 /\ n.included \in BOOLEAN
      /\ n = [first |-> n.first, mask |-> n.mask, included |-> n.included]
  BY DEF NetType
<1>3. n.first \in Nat /\ n.mask \in Nat
  BY <1>1, <1>2, WidthAssumption
<1>4. n \in [first : Nat, mask : Nat, included : BOOLEAN]
  BY <1>2, <1>3
<1> QED BY <1>2, <1>3, <1>4, NoneAssumption, SizeType

(* The halves of a network stay within the addresses.                      *)
LEMMA HalvesFit ==
  ASSUME NEW n \in NetType, Fits(n), n.mask < Width
  PROVE  /\ FirstHalf(n) \in NetType /\ SecondHalf(n) \in NetType
         /\ Fits(FirstHalf(n)) /\ Fits(SecondHalf(n))
         /\ FirstHalf(n).first = n.first /\ n.first < SecondHalf(n).first
         /\ FirstHalf(n).mask = n.mask + 1 /\ SecondHalf(n).mask = n.mask + 1
         /\ FirstHalf(n).included = n.included /\ SecondHalf(n).included = n.included
         /\ FirstHalf(n).mask <= Width /\ SecondHalf(n).mask <= Width
<1> DEFINE h == Size[n.mask + 1]
<1>1. /\ n.first \in Nat /\ n.mask \in 0 .. Width - 1 /\ n.included \in BOOLEAN
      /\ Size[n.mask] = 2 * h /\ h \in Nat \ {0} /\ Size[0] \in Nat
      /\ n.first + 2 * h <= Size[0]
      /\ n = [first |-> n.first, mask |-> n.mask, included |-> n.included]
  BY NetTypes, SizeHalves, SizeType, WidthAssumption DEF Fits
<1>2. FirstHalf(n) = [first |-> n.first, mask |-> n.mask + 1, included |-> n.included]
  BY <1>1 DEF FirstHalf
<1>3. Last(FirstHalf(n)) + 1 = n.first + h
  BY <1>1, <1>2 DEF Last
<1>4. SecondHalf(n) = [n EXCEPT !.mask = n.mask + 1, !.first = n.first + h]
  BY <1>3, Zenon DEF SecondHalf
<1>5. SecondHalf(n) = [first |-> n.first + h, mask |-> n.mask + 1, included |-> n.included]
  <2> HIDE DEF h
  <2> QED BY <1>1, <1>4
<1>6. FirstHalf(n) \in NetType /\ SecondHalf(n) \in NetType
  <2>1. /\ n.first \in 0 .. Size[0] /\ n.first + h \in 0 .. Size[0]
        /\ n.mask + 1 \in 0 .. Width + 1
    BY <1>1, WidthAssumption
  <2> HIDE DEF h
  <2> QED BY <1>1, <1>2, <1>5, <2>1 DEF NetType
<1>7. Fits(FirstHalf(n)) /\ Fits(SecondHalf(n))
  BY <1>1, <1>2, <1>5 DEF Fits
<1> QED BY <1>1, <1>2, <1>5, <1>6, <1>7, WidthAssumption

(* The halves of a single address: their mask is longer than an address,   *)
(* and the upper one starts at the address behind.                         *)
LEMMA LongHalf ==
  ASSUME NEW n \in NetType, Fits(n), n.mask = Width
  PROVE  /\ SecondHalf(n) \in NetType /\ Fits(SecondHalf(n))
         /\ SecondHalf(n).mask = Width + 1 /\ n.first < SecondHalf(n).first
         /\ SecondHalf(n).included = n.included
         /\ Last(FirstHalf(n)) = n.first
<1>1. /\ n.first \in Nat /\ n.included \in BOOLEAN /\ Size[Width] = 1 /\ Size[Width + 1] = 1
      /\ n.first + 1 <= Size[0] /\ Size[0] \in Nat /\ Width \in Nat
      /\ n = [first |-> n.first, mask |-> Width, included |-> n.included]
  BY NetTypes, SizeEnds, SizeType, WidthAssumption DEF Fits
<1>2. FirstHalf(n) = [first |-> n.first, mask |-> Width + 1, included |-> n.included]
  BY <1>1 DEF FirstHalf
<1>3. Last(FirstHalf(n)) = n.first
  BY <1>1, <1>2 DEF Last
<1>4. SecondHalf(n) = [n EXCEPT !.mask = Width + 1, !.first = n.first + 1]
  BY <1>3, Zenon DEF SecondHalf
<1>5. SecondHalf(n) = [first |-> n.first + 1, mask |-> Width + 1, included |-> n.included]
  BY <1>1, <1>4
<1> QED BY <1>1, <1>3, <1>5 DEF NetType, Fits

-----------------------------------------------------------------------------
(* The queue, a bag of networks.                                           *)

(* What add does to the networks in a queue.                               *)
LEMMA AddSet ==
  ASSUME NEW queue, IsABag(queue), NEW n
  PROVE  IsABag(Add(queue, n)) /\ BagToSet(Add(queue, n)) = BagToSet(queue) \cup {n}
BY DEF IsABag, BagToSet, Add, SetToBag, (+)

(* What poll does to the networks in a queue: another one that is equal in *)
(* all may stay.                                                           *)
LEMMA RemoveSet ==
  ASSUME NEW queue, IsABag(queue), NEW n
  PROVE  /\ IsABag(Remove(queue, n)) /\ BagToSet(Remove(queue, n)) \subseteq BagToSet(queue)
         /\ BagToSet(queue) \ {n} \subseteq BagToSet(Remove(queue, n))
BY DEF IsABag, BagToSet, Remove, SetToBag, (-)

(* What a guarded add does to the networks in a queue: it leaves one that  *)
(* ties with the network, its own or another.                              *)
LEMMA AddIfAbsentSet ==
  ASSUME NEW queue, IsABag(queue), NEW n
  PROVE  LET more == AddIfAbsent(queue, n)
         IN  /\ IsABag(more)
             /\ BagToSet(queue) \subseteq BagToSet(more)
             /\ BagToSet(more) \subseteq BagToSet(queue) \cup {n}
             /\ \E m \in BagToSet(more) : Equal(m, n)
             /\ n \notin BagToSet(queue) /\ n \in BagToSet(more)
                => \A m \in BagToSet(queue) : ~Equal(m, n)
<1>1. CASE Contains(queue, n)
  BY <1>1 DEF AddIfAbsent, Contains
<1>2. CASE ~Contains(queue, n)
  <2>1. AddIfAbsent(queue, n) = Add(queue, n)
    BY <1>2, Zenon DEF AddIfAbsent
  <2>2. Equal(n, n)
    BY DEF Equal
  <2> QED BY <1>2, <2>1, <2>2, AddSet DEF Contains
<1> QED BY <1>1, <1>2

(* The bag of a set holds the set.                                         *)
LEMMA SetBag ==
  ASSUME NEW set
  PROVE  IsABag(SetToBag(set)) /\ BagToSet(SetToBag(set)) = set
BY DEF IsABag, BagToSet, SetToBag

(* The empty bag holds nothing.                                            *)
LEMMA NoBag == IsABag(EmptyBag) /\ BagToSet(EmptyBag) = {}
BY SetBag DEF EmptyBag

-----------------------------------------------------------------------------
(* The inductive invariant, and the part of it that ties do not break.     *)

(* The networks still to merge.                                            *)
Queue == BagToSet(networks)

(* The networks still to merge and the one being merged.                   *)
Live == Queue \cup ({currentNet} \ {None})

(* The types, with the networks of a merge within the addresses, and what  *)
(* the phases have in common with the variables.                           *)
TypeInv ==
    /\ mIpAddresses \subseteq Route /\ Unique(mIpAddresses)
    /\ IsABag(networks)
    /\ currentNet \in NetType \cup {None}
    /\ \A n \in Live : n \in NetType /\ Fits(n)
    /\ ipsDone \subseteq NetType /\ Unique(ipsDone)
    /\ phase \in {"adding", "merging", "done"}
    /\ tied \in BOOLEAN /\ failed \in BOOLEAN
    /\ currentNet = None => networks = EmptyBag
    /\ phase # "merging" => currentNet = None
    /\ phase = "adding" => ipsDone = {} /\ ~tied /\ ~failed

(* The current network starts no later than those of the queue, and one    *)
(* whose mask is too long does not follow one with a shorter mask at the   *)
(* same address.                                                           *)
OrderInv ==
    currentNet # None =>
      \A n \in Queue : /\ currentNet.first <= n.first
                       /\ n.mask = Width + 1 /\ n.first = currentNet.first
                          => currentNet.mask = Width + 1

(* Networks whose mask is too long do not tie and differ: no second one of *)
(* them is added.                                                          *)
LongInv ==
    \A m, n \in Live : m.mask = Width + 1 /\ n.mask = Width + 1 => Alike(m, n)

(* The part of the invariant that ties do not break.                       *)
BaseInv == TypeInv /\ OrderInv /\ LongInv

(* TreeSet.add keeps a set of networks free of ties.                       *)
LEMMA InsertUnique ==
  ASSUME NEW set, Unique(set), NEW n
  PROVE  Unique(Insert(set, n)) /\ Insert(set, n) \subseteq set \cup {n}
<1>1. CASE \E m \in set : Equal(m, n)
  BY <1>1 DEF Insert
<1>2. CASE \A m \in set : ~Equal(m, n)
  BY <1>2 DEF Insert, Unique, Equal
<1> QED BY <1>1, <1>2

(* What the invariant says of the current and the next network.            *)
LEMMA BaseFacts ==
  ASSUME BaseInv, Merging, NEW N \in Heads(networks)
  PROVE  /\ N \in Queue /\ N \in NetType /\ Fits(N) /\ N \in Live
         /\ currentNet \in NetType /\ Fits(currentNet) /\ currentNet \in Live
         /\ \A n \in Queue : ~Less(n, N)
         /\ currentNet.first <= N.first
         /\ N.mask = Width + 1 /\ N.first = currentNet.first
            => currentNet.mask = Width + 1
         /\ IsABag(networks) /\ Queue \subseteq NetType
         /\ Live = Queue \cup {currentNet}
BY DEF BaseInv, TypeInv, OrderInv, Merging, Heads, Queue, Live

(* The next network becomes the current one.                               *)
LEMMA Advances ==
  ASSUME BaseInv, Merging, NEW N \in Heads(networks),
         currentNet' = N, networks' = Remove(networks, N),
         ipsDone' \subseteq NetType, Unique(ipsDone'),
         UNCHANGED <<mIpAddresses, phase>>, tied' \in BOOLEAN, failed' \in BOOLEAN
  PROVE  BaseInv' /\ Queue' \subseteq Queue /\ Queue \ {N} \subseteq Queue'
<1>1. /\ IsABag(networks') /\ Queue' \subseteq Queue /\ Queue \ {N} \subseteq Queue'
  BY BaseFacts, RemoveSet DEF Queue
<1>2. Live' \subseteq Live
  BY <1>1, BaseFacts DEF Live
<1>3. TypeInv'
  BY <1>1, <1>2, BaseFacts, NetTypes DEF BaseInv, TypeInv, Merging, Fits
<1>4. OrderInv'
  <2>1. ASSUME NEW n \in Queue'
        PROVE  /\ N.first <= n.first
               /\ n.mask = Width + 1 /\ n.first = N.first => N.mask = Width + 1
    <3>1. ~Less(n, N) /\ n \in NetType /\ N \in NetType
      BY <1>1, BaseFacts
    <3> QED BY <3>1, NetTypes, WidthAssumption DEF Less
  <2> QED BY <2>1 DEF OrderInv, Queue
<1>5. LongInv'
  BY <1>2 DEF BaseInv, LongInv, Alike, Equal
<1> QED BY <1>1, <1>3, <1>4, <1>5 DEF BaseInv

(* There is no next network.                                               *)
LEMMA Ends ==
  ASSUME BaseInv, Merging, networks = EmptyBag, currentNet' = None,
         ipsDone' \subseteq NetType, Unique(ipsDone'),
         UNCHANGED <<mIpAddresses, networks, phase>>, tied' \in BOOLEAN, failed' \in BOOLEAN
  PROVE  BaseInv' /\ Queue = {} /\ Queue' = {} /\ Live' = {}
<1>1. Queue = {} /\ Queue' = {} /\ Live' = {}
  BY NoBag DEF Queue, Live
<1> QED BY <1>1 DEF BaseInv, TypeInv, OrderInv, LongInv, Merging

(* KeepCurrent preserves the part that ties do not break.                  *)
LEMMA KeepBase ==
  ASSUME BaseInv, KeepCurrent
  PROVE  BaseInv'
<1>1. ipsDone' \subseteq NetType /\ Unique(ipsDone')
  <2>1. /\ ipsDone' = Insert(ipsDone, currentNet) /\ currentNet \in NetType
        /\ ipsDone \subseteq NetType /\ Unique(ipsDone)
    BY DEF KeepCurrent, Merging, BaseInv, TypeInv
  <2>2. Unique(Insert(ipsDone, currentNet))
        /\ Insert(ipsDone, currentNet) \subseteq ipsDone \cup {currentNet}
    BY <2>1, InsertUnique
  <2> QED BY <2>1, <2>2
<1>2. Merging /\ tied' \in BOOLEAN /\ failed' \in BOOLEAN
  BY DEF KeepCurrent, Continue, BaseInv, TypeInv
<1> QED BY <1>1, <1>2, Advances, Ends DEF KeepCurrent, Continue

(* So does DropCurrent.                                                    *)
LEMMA DropBase ==
  ASSUME BaseInv, DropCurrent
  PROVE  BaseInv'
<1>1. /\ ipsDone' \subseteq NetType /\ Unique(ipsDone') /\ Merging
      /\ tied' \in BOOLEAN /\ failed' \in BOOLEAN
  BY DEF DropCurrent, Continue, Merging, BaseInv, TypeInv
<1> QED BY <1>1, Advances DEF DropCurrent, Continue

(* So does IgnoreNext.                                                     *)
LEMMA IgnoreBase ==
  ASSUME BaseInv, IgnoreNext
  PROVE  BaseInv'
<1>1. PICK N \in Heads(networks) : networks' = Remove(networks, N)
  BY DEF IgnoreNext, Continue
<1>2. Merging /\ UNCHANGED <<mIpAddresses, phase, currentNet, ipsDone>>
      /\ tied' \in BOOLEAN /\ failed' \in BOOLEAN
  BY DEF IgnoreNext, Continue, AssertTrue
<1>3. IsABag(networks') /\ Queue' \subseteq Queue
  BY <1>1, <1>2, BaseFacts, RemoveSet DEF Queue
<1>4. Live' \subseteq Live
  BY <1>2, <1>3 DEF Live
<1>5. TypeInv'
  BY <1>2, <1>3, <1>4 DEF BaseInv, TypeInv, Merging, Fits
<1>6. OrderInv' /\ LongInv'
  BY <1>2, <1>3, <1>4 DEF BaseInv, OrderInv, LongInv, Alike, Equal
<1> QED BY <1>5, <1>6 DEF BaseInv

(* The queue that a split leaves.                                          *)
LEMMA SplitQueue ==
  ASSUME BaseInv, Merging, NEW N \in Heads(networks), NEW lower \in BOOLEAN
  PROVE  LET rest == AddIfAbsent(Remove(networks, N), SecondHalf(N))
             more == IF lower THEN AddIfAbsent(rest, FirstHalf(N)) ELSE rest
         IN  /\ IsABag(more)
             /\ Queue \ {N} \subseteq BagToSet(more)
             /\ BagToSet(more) \subseteq Queue \cup {SecondHalf(N)}
                                       \cup (IF lower THEN {FirstHalf(N)} ELSE {})
             /\ \E x \in BagToSet(more) : Equal(x, SecondHalf(N))
             /\ lower => \E x \in BagToSet(more) : Equal(x, FirstHalf(N))
             /\ ~lower /\ SecondHalf(N) \in BagToSet(more) /\ SecondHalf(N) \notin Queue
                => \A m \in BagToSet(more) : Equal(m, SecondHalf(N)) => m = SecondHalf(N)
<1> DEFINE polled == Remove(networks, N)
           rest == AddIfAbsent(polled, SecondHalf(N))
           most == AddIfAbsent(rest, FirstHalf(N))
<1>1. /\ IsABag(polled) /\ BagToSet(polled) \subseteq Queue
      /\ Queue \ {N} \subseteq BagToSet(polled)
  BY BaseFacts, RemoveSet DEF Queue
<1> HIDE DEF polled
<1>2. /\ IsABag(rest)
      /\ BagToSet(polled) \subseteq BagToSet(rest)
      /\ BagToSet(rest) \subseteq BagToSet(polled) \cup {SecondHalf(N)}
      /\ \E x \in BagToSet(rest) : Equal(x, SecondHalf(N))
      /\ SecondHalf(N) \notin BagToSet(polled) /\ SecondHalf(N) \in BagToSet(rest)
         => \A m \in BagToSet(polled) : ~Equal(m, SecondHalf(N))
  BY <1>1, AddIfAbsentSet
<1> HIDE DEF rest
<1>3. /\ IsABag(most)
      /\ BagToSet(rest) \subseteq BagToSet(most)
      /\ BagToSet(most) \subseteq BagToSet(rest) \cup {FirstHalf(N)}
      /\ \E x \in BagToSet(most) : Equal(x, FirstHalf(N))
  BY <1>2, AddIfAbsentSet
<1> HIDE DEF most
<1>4. CASE lower
  BY <1>1, <1>2, <1>3, <1>4 DEF rest, polled, most
<1>5. CASE ~lower
  BY <1>1, <1>2, <1>5 DEF rest, polled
<1> QED BY <1>4, <1>5

(* A network of the other kind in which the current one lies can be split: *)
(* with a mask already too long it would tie with the current one and      *)
(* differ. If it is a single address only its upper half is added.         *)
LEMMA NextHalves ==
  ASSUME BaseInv, Merging, NEW N \in Heads(networks), Within(N),
         currentNet.included # N.included
  PROVE  /\ N.mask <= Width
         /\ SecondHalf(N) \in NetType /\ Fits(SecondHalf(N))
         /\ N.first < SecondHalf(N).first /\ SecondHalf(N).mask = N.mask + 1
         /\ Last(FirstHalf(N)) # Last(currentNet)
            => /\ FirstHalf(N) \in NetType /\ Fits(FirstHalf(N))
               /\ FirstHalf(N).first = N.first /\ FirstHalf(N).mask = N.mask + 1
               /\ FirstHalf(N).mask <= Width /\ SecondHalf(N).mask <= Width
<1>1. /\ N \in NetType /\ Fits(N) /\ currentNet \in NetType
      /\ N \in Live /\ currentNet \in Live
      /\ currentNet.first = N.first /\ currentNet.mask >= N.mask
  BY BaseFacts DEF Within
<1>2. N.mask <= Width
  <2>1. SUFFICES ASSUME N.mask = Width + 1
                 PROVE  FALSE
    BY <1>1, NetTypes, WidthAssumption
  <2>2. currentNet.mask = Width + 1
    BY <1>1, <2>1, NetTypes, WidthAssumption
  <2>3. Alike(currentNet, N) /\ Equal(currentNet, N)
    BY <1>1, <2>1, <2>2 DEF BaseInv, LongInv, Equal
  <2> QED BY <2>3 DEF Alike
<1>3. CASE N.mask < Width
  BY <1>1, <1>3, HalvesFit, NetTypes, WidthAssumption
<1>4. CASE N.mask = Width
  <2>1. currentNet.mask \in {Width, Width + 1} /\ currentNet.first \in Nat
    BY <1>1, <1>4, NetTypes, WidthAssumption
  <2>2. Last(currentNet) = currentNet.first
    BY <2>1, SizeEnds DEF Last
  <2>3. Last(FirstHalf(N)) = N.first
    BY <1>1, <1>4, LongHalf
  <2> QED BY <1>1, <1>2, <1>4, <2>2, <2>3, LongHalf
<1> QED BY <1>1, <1>2, <1>3, <1>4, NetTypes, WidthAssumption

(* So does SplitNext.                                                      *)
LEMMA SplitNextBase ==
  ASSUME BaseInv, SplitNext
  PROVE  BaseInv'
<1>1. PICK N \in Heads(networks) :
        /\ Within(N) /\ currentNet.included # N.included
        /\ LET rest == AddIfAbsent(Remove(networks, N), SecondHalf(N)) IN
           networks' = IF Last(FirstHalf(N)) = Last(currentNet) THEN rest
                       ELSE AddIfAbsent(rest, FirstHalf(N))
  BY DEF SplitNext, Continue
<1>2. Merging /\ UNCHANGED <<mIpAddresses, phase, currentNet, ipsDone>>
      /\ tied' \in BOOLEAN /\ failed' \in BOOLEAN
  BY DEF SplitNext, Continue, AssertTrue
<1> DEFINE lower == Last(FirstHalf(N)) # Last(currentNet)
           lo == FirstHalf(N)
           up == SecondHalf(N)
<1>3. /\ IsABag(networks')
      /\ Queue' \subseteq Queue \cup {up} \cup (IF lower THEN {lo} ELSE {})
      /\ ~lower /\ up \in Queue' /\ up \notin Queue
         => \A m \in Queue' : Equal(m, up) => m = up
  BY <1>1, <1>2, SplitQueue DEF Queue
<1>4. /\ N \in NetType /\ Fits(N) /\ currentNet \in NetType /\ Fits(currentNet)
      /\ N \in Live /\ currentNet \in Live
      /\ currentNet.first = N.first /\ currentNet.mask >= N.mask
      /\ Live' = Queue' \cup {currentNet} /\ Live = Queue \cup {currentNet}
  BY <1>1, <1>2, BaseFacts DEF Within, Live, Merging
<1>5. /\ up \in NetType /\ Fits(up) /\ N.first < up.first
      /\ lower => lo \in NetType /\ Fits(lo) /\ lo.first = N.first
                 /\ lo.mask <= Width /\ up.mask <= Width
  BY <1>1, <1>2, NextHalves
<1> HIDE DEF lower, lo, up
<1>6. \A n \in Live' : n \in NetType /\ Fits(n)
  <2>1. \A n \in Live : n \in NetType /\ Fits(n)
    BY DEF BaseInv, TypeInv
  <2> QED BY <1>3, <1>4, <1>5, <2>1
<1>7. TypeInv'
  BY <1>2, <1>3, <1>6 DEF BaseInv, TypeInv, Merging, Fits
<1>8. OrderInv'
  <2>1. ASSUME NEW n \in Queue'
        PROVE  /\ currentNet.first <= n.first
               /\ n.mask = Width + 1 /\ n.first = currentNet.first
                  => currentNet.mask = Width + 1
    <3>1. CASE n \in Queue
      BY <1>2, <3>1 DEF BaseInv, OrderInv, Merging
    <3>2. CASE n = up
      BY <1>4, <1>5, <3>2, NetTypes
    <3>3. CASE n = lo /\ lower
      BY <1>4, <1>5, <3>3, NetTypes, WidthAssumption
    <3> QED BY <1>3, <3>1, <3>2, <3>3
  <2> QED BY <1>2, <2>1 DEF OrderInv, Queue
<1>9. LongInv'
  <2>1. ASSUME NEW m \in Live', NEW n \in Live', m.mask = Width + 1, n.mask = Width + 1
        PROVE  Alike(m, n)
    <3>1. CASE m \in Live /\ n \in Live
      BY <2>1, <3>1 DEF BaseInv, LongInv
    <3>2. ASSUME NEW x \in Live', NEW y \in Live', x.mask = Width + 1,
                 x \notin Live, Equal(x, y)
          PROVE  x = y
      <4>1. x = up /\ x \in Queue' /\ x \notin Queue /\ ~lower
        BY <1>3, <1>4, <1>5, <3>2, WidthAssumption
      <4>2. y \in Queue'
        BY <1>4, <1>5, <3>2, <4>1, NetTypes DEF Equal
      <4>3. Equal(y, up)
        BY <3>2, <4>1 DEF Equal
      <4> QED BY <1>3, <4>1, <4>2, <4>3
    <3>3. CASE m \notin Live
      BY <2>1, <3>2, <3>3 DEF Alike
    <3>4. CASE n \notin Live
      BY <2>1, <3>2, <3>4 DEF Alike, Equal
    <3> QED BY <3>1, <3>3, <3>4
  <2> QED BY <2>1 DEF LongInv, Alike, Equal
<1> QED BY <1>7, <1>8, <1>9 DEF BaseInv

(* The current network can be split if the next one overlaps it and it     *)
(* does not lie in that: a single address does.                            *)
LEMMA CurrentHalves ==
  ASSUME BaseInv, Merging, NEW N \in Heads(networks), Overlaps(N), ~Within(N)
  PROVE  currentNet.mask < Width
<1>1. SUFFICES ASSUME ~(currentNet.mask < Width)
               PROVE  FALSE
  OBVIOUS
<1>2. /\ currentNet.mask \in {Width, Width + 1} /\ currentNet.first \in Nat
      /\ N.first \in Nat /\ N.mask \in 0 .. Width + 1
  BY <1>1, BaseFacts, NetTypes, WidthAssumption
<1>3. Last(currentNet) = currentNet.first
  BY <1>2, SizeEnds DEF Last
<1>4. N.first = currentNet.first
  BY <1>2, <1>3, BaseFacts DEF Overlaps
<1>5. currentNet.mask < N.mask
  BY <1>2, <1>4, WidthAssumption DEF Within
<1>6. currentNet.mask = Width /\ N.mask = Width + 1
  BY <1>2, <1>5, WidthAssumption
<1> QED BY <1>4, <1>6, BaseFacts, WidthAssumption

(* So does SplitCurrent.                                                   *)
LEMMA SplitCurrentBase ==
  ASSUME BaseInv, SplitCurrent
  PROVE  BaseInv'
<1> DEFINE up == SecondHalf(currentNet)
           lo == FirstHalf(currentNet)
<1>1. PICK N \in Heads(networks) :
        /\ Overlaps(N) /\ ~Within(N)
        /\ networks' = IF up.mask = N.mask THEN networks ELSE Add(networks, up)
  BY DEF SplitCurrent, Continue
<1>2. /\ Merging /\ UNCHANGED <<mIpAddresses, phase, ipsDone>>
      /\ tied' \in BOOLEAN /\ failed' \in BOOLEAN
      /\ currentNet' = lo
  BY DEF SplitCurrent, Continue, AssertTrue
<1>3. IsABag(networks') /\ Queue' \subseteq Queue \cup {up}
  <2>1. IsABag(networks)
    BY DEF BaseInv, TypeInv
  <2> HIDE DEF up
  <2> QED BY <1>1, <2>1, AddSet DEF Queue
<1>4. currentNet.mask < Width
  BY <1>1, <1>2, CurrentHalves
<1>5. /\ currentNet \in NetType /\ currentNet \in Live
      /\ Live = Queue \cup {currentNet} /\ Fits(currentNet)
  BY <1>1, <1>2, BaseFacts
<1>6. /\ lo \in NetType /\ Fits(lo) /\ lo.first = currentNet.first /\ lo.mask <= Width
      /\ up \in NetType /\ Fits(up) /\ currentNet.first < up.first /\ up.mask <= Width
  BY <1>4, <1>5, HalvesFit
<1> HIDE DEF lo, up
<1>7. Live' = Queue' \cup {lo}
  BY <1>2, <1>6, NetTypes DEF Live
<1>8. TypeInv'
  <2>1. \A n \in Live : n \in NetType /\ Fits(n)
    BY DEF BaseInv, TypeInv
  <2>2. \A n \in Live' : n \in NetType /\ Fits(n)
    BY <1>3, <1>5, <1>6, <1>7, <2>1
  <2> QED BY <1>2, <1>3, <1>6, <2>2, NetTypes DEF BaseInv, TypeInv, Merging, Fits
<1>9. OrderInv'
  <2>1. ASSUME NEW n \in Queue'
        PROVE  lo.first <= n.first /\ ~(n.mask = Width + 1 /\ n.first = lo.first)
    <3>1. CASE n \in Queue
      <4>1. currentNet.first <= n.first
            /\ (n.mask = Width + 1 /\ n.first = currentNet.first
                => currentNet.mask = Width + 1)
        BY <1>2, <3>1 DEF BaseInv, OrderInv, Merging
      <4> QED BY <1>4, <1>5, <1>6, <4>1, NetTypes, WidthAssumption
    <3>2. CASE n = up
      BY <1>5, <1>6, <3>2, NetTypes, WidthAssumption
    <3> QED BY <1>3, <3>1, <3>2
  <2> QED BY <1>2, <2>1 DEF OrderInv, Queue
<1>10. LongInv'
  <2>1. \A m \in Live' : m.mask = Width + 1 => m \in Live
    BY <1>3, <1>5, <1>6, <1>7, WidthAssumption
  <2> QED BY <2>1 DEF BaseInv, LongInv, Alike, Equal
<1> QED BY <1>8, <1>9, <1>10 DEF BaseInv

(* So does Generate, which queues the routes.                              *)
LEMMA GenerateBase ==
  ASSUME BaseInv, Generate
  PROVE  /\ BaseInv' /\ Live' = mIpAddresses /\ Queue' \subseteq mIpAddresses
         /\ currentNet' # None => \A n \in Queue' : ~Less(n, currentNet')
<1>1. /\ UNCHANGED <<mIpAddresses, ipsDone, tied, failed>> /\ phase' = "merging"
      /\ currentNet = None /\ networks = EmptyBag /\ mIpAddresses \subseteq Route
  BY DEF Generate, BaseInv, TypeInv
<1>2. \A n \in Route : n \in NetType /\ Fits(n) /\ n.mask \in 0 .. Width /\ n # None
  BY RouteFits, NetTypes DEF Route
<1>3. CASE mIpAddresses = {} /\ UNCHANGED <<networks, currentNet>>
  <2>1. Queue' = {} /\ Live' = {}
    BY <1>1, <1>3, NoBag DEF Queue, Live
  <2> QED BY <1>1, <1>3, <2>1 DEF BaseInv, TypeInv, OrderInv, LongInv
<1>4. ASSUME NEW N \in Heads(SetToBag(mIpAddresses)), currentNet' = N,
             networks' = Remove(SetToBag(mIpAddresses), N)
      PROVE  /\ BaseInv' /\ Live' = mIpAddresses /\ Queue' \subseteq mIpAddresses
             /\ \A n \in Queue' : ~Less(n, N)
  <2>1. /\ IsABag(networks') /\ Queue' \subseteq mIpAddresses
        /\ mIpAddresses \ {N} \subseteq Queue'
    BY <1>4, SetBag, RemoveSet DEF Queue
  <2>2. N \in mIpAddresses /\ \A n \in mIpAddresses : ~Less(n, N)
    BY SetBag DEF Heads
  <2>3. Live' = mIpAddresses /\ N # None
    BY <1>1, <1>2, <1>4, <2>1, <2>2 DEF Live
  <2>4. TypeInv'
    BY <1>1, <1>2, <1>4, <2>1, <2>2, <2>3 DEF BaseInv, TypeInv, Fits
  <2>5. OrderInv'
    <3>1. ASSUME NEW n \in Queue'
          PROVE  N.first <= n.first /\ n.mask # Width + 1
      <4>1. ~Less(n, N) /\ n \in NetType /\ N \in NetType /\ n.mask \in 0 .. Width
        BY <1>1, <1>2, <2>1, <2>2
      <4> QED BY <4>1, NetTypes, WidthAssumption DEF Less
    <3> QED BY <1>4, <3>1 DEF OrderInv, Queue
  <2>6. LongInv'
    BY <1>1, <1>2, <2>3, WidthAssumption DEF LongInv, Alike, Equal
  <2> QED BY <2>1, <2>2, <2>3, <2>4, <2>5, <2>6 DEF BaseInv
<1> QED BY <1>3, <1>4 DEF Generate

(* So does AddIP.                                                          *)
LEMMA AddBase ==
  ASSUME BaseInv, NEW n \in Route, AddIP(n)
  PROVE  BaseInv'
<1>1. mIpAddresses' \subseteq Route /\ Unique(mIpAddresses')
  BY InsertUnique DEF AddIP, BaseInv, TypeInv
<1>2. UNCHANGED <<Queue, Live>>
  BY DEF AddIP, Queue, Live
<1> QED BY <1>1, <1>2
        DEF AddIP, BaseInv, TypeInv, OrderInv, LongInv, Alike, Equal, Fits

(* So do Return and Clear.                                                 *)
LEMMA RestBase ==
  ASSUME BaseInv, Return \/ Clear \/ UNCHANGED vars
  PROVE  BaseInv'
<1>1. UNCHANGED <<Queue, Live>>
  BY DEF Return, Clear, vars, Queue, Live
<1>2. CASE Return
  BY <1>1, <1>2 DEF Return, BaseInv, TypeInv, OrderInv, LongInv, Alike, Equal, Fits
<1>3. CASE Clear
  BY <1>1, <1>3
     DEF Clear, BaseInv, TypeInv, OrderInv, LongInv, Alike, Equal, Fits, Unique
<1>4. CASE UNCHANGED vars
  BY <1>1, <1>4 DEF vars, BaseInv, TypeInv, OrderInv, LongInv, Alike, Equal, Fits
<1> QED BY <1>2, <1>3, <1>4

(* The part that ties do not break holds initially.                        *)
LEMMA BaseInitially ==
  ASSUME Init
  PROVE  BaseInv
<1>1. Queue = {} /\ Live = {}
  BY NoBag DEF Init, Queue, Live
<1> QED BY <1>1, NoBag
        DEF Init, BaseInv, TypeInv, OrderInv, LongInv, Unique

(* Every step preserves the part that ties do not break.                   *)
LEMMA BasePreserved ==
  ASSUME BaseInv, [Next]_vars
  PROVE  BaseInv'
BY KeepBase, DropBase, IgnoreBase, SplitNextBase, SplitCurrentBase, GenerateBase,
   AddBase, RestBase DEF Next, Merge

(* The part that ties do not break is an invariant.                        *)
LEMMA BaseHolds == Spec => []BaseInv
BY BaseInitially, BasePreserved, PTL DEF Spec

(* Every variable keeps its type, ties or not: no network of the merge     *)
(* starts beyond the addresses or has a mask more than a bit too long.     *)
THEOREM RouteTypesCorrect == Spec => []TypeOK
<1>1. BaseInv => TypeOK
  BY DEF BaseInv, TypeInv, TypeOK, Live, Queue
<1> QED BY <1>1, BaseHolds, PTL

-----------------------------------------------------------------------------
(* The part that holds until networks tie and differ.                      *)

(* Every network is a block.                                               *)
BlocksInv == \A n \in Live \cup ipsDone : n \in Block

(* No networks tie and differ.                                             *)
AlikeInv == \A m, n \in Live : Alike(m, n)

(* The current network comes first.                                        *)
HeadInv == currentNet # None => \A n \in Queue : ~Less(n, currentNet)

(* The merged networks are apart, and end before the others start.         *)
ApartInv == Disjoint /\ \A d \in ipsDone, n \in Live : Last(d) < n.first

(* No address is lost or gained.                                           *)
CoverInv == phase # "adding" => Covered(Held) = Covered(mIpAddresses)

(* Without three routes nested with alternating kinds there are no such    *)
(* networks, and the most specific network says of an address what the     *)
(* most specific route does.                                               *)
DecideInv ==
    phase # "adding" /\ ~Sandwiched =>
      NoSandwich(Live) /\ \A a \in Address : Decided(Held, a) <=> Included(a)

(* What holds until networks tie and differ.                               *)
UntiedInv ==
    ~tied =>
      /\ BlocksInv /\ AlikeInv /\ HeadInv /\ ApartInv
      /\ CoverInv /\ DecideInv /\ ~failed

(* The inductive invariant.                                                *)
NetInv == BaseInv /\ UntiedInv

(* While nothing ties.                                                     *)
Calm == NetInv /\ Merging /\ ~tied

(* The networks of a merge: merged, being merged or still queued.          *)
LEMMA HeldIs ==
  /\ Held = ipsDone \cup Live
  /\ Held' = ipsDone' \cup Live'
BY DEF Held, Live, Queue

(* What the invariant says of the current and the next network then.       *)
LEMMA CalmFacts ==
  ASSUME Calm, NEW N \in Heads(networks)
  PROVE  /\ N \in Block /\ N \in Live /\ N \in Queue /\ N \in NetType
         /\ currentNet \in Block /\ currentNet \in Live /\ currentNet \in NetType
         /\ Live = Queue \cup {currentNet} /\ Live \subseteq Block
         /\ Held \in SUBSET Block /\ ipsDone \subseteq Block
         /\ N.first \in Nat /\ N.mask \in Nat /\ currentNet.first \in Nat
         /\ currentNet.mask \in Nat /\ N.mask <= Width /\ currentNet.mask <= Width
         /\ currentNet.first <= N.first
         /\ currentNet.first = N.first => N.mask <= currentNet.mask
         /\ \A n \in Queue : ~Less(n, N) /\ ~Less(n, currentNet)
         /\ \A m, n \in Live : Alike(m, n)
         /\ \A d \in ipsDone, n \in Live : Last(d) < n.first
<1>1. BaseInv /\ UntiedInv /\ Merging /\ ~tied
  BY DEF Calm, NetInv
<1>2. /\ N \in Live /\ N \in Queue /\ N \in NetType
      /\ currentNet \in Live /\ currentNet \in NetType /\ Live = Queue \cup {currentNet}
      /\ currentNet.first <= N.first
      /\ \A n \in Queue : ~Less(n, N)
  BY <1>1, BaseFacts
<1>3. /\ Live \subseteq Block /\ ipsDone \subseteq Block
      /\ \A n \in Queue : ~Less(n, currentNet)
      /\ \A m, n \in Live : Alike(m, n)
      /\ \A d \in ipsDone, n \in Live : Last(d) < n.first
  BY <1>1 DEF UntiedInv, BlocksInv, AlikeInv, HeadInv, ApartInv, Merging
<1>4. /\ N.first \in Nat /\ N.mask \in Nat /\ currentNet.first \in Nat
      /\ currentNet.mask \in Nat /\ N.mask <= Width /\ currentNet.mask <= Width
  BY <1>2, <1>3, BlockType
<1>5. currentNet.first = N.first => N.mask <= currentNet.mask
  BY <1>2, <1>3, <1>4 DEF Less
<1> QED BY <1>2, <1>3, <1>4, <1>5, HeldIs

(* What is merged lies before everything else, so no network of it starts  *)
(* where another one does.                                                 *)
LEMMA ApartAlike ==
  ASSUME NEW done \in SUBSET Block, NEW live \in SUBSET Block, Unique(done),
         \A d \in done, n \in live : Last(d) < n.first,
         \A m, n \in live : Alike(m, n)
  PROVE  \A m, n \in done \cup live : Alike(m, n)
<1>1. ASSUME NEW d \in done, NEW n \in live
      PROVE  ~Equal(d, n) /\ ~Equal(n, d)
  BY BlockType DEF Equal
<1>2. \A m, n \in done : Alike(m, n)
  BY DEF Unique, Alike
<1> QED BY <1>1, <1>2 DEF Alike

(* The next network is the first of the queue, and no shorter than a       *)
(* network in which the current one lies.                                  *)
LEMMA DropHeld ==
  ASSUME Calm, NEW N \in Heads(networks), Overlaps(N), Within(N),
         currentNet.included = N.included,
         NEW T, T \subseteq Held, Held \subseteq T \cup {currentNet}, N \in T
  PROVE  /\ Covered(T) = Covered(Held)
         /\ \A a : Decided(Held, a) <=> Decided(T, a)
<1> DEFINE c == currentNet
<1>1. /\ N \in Block /\ c \in Block /\ Held \in SUBSET Block
      /\ N.mask <= c.mask /\ c.first = N.first
  BY CalmFacts DEF Within
<1>2. Addresses(c) \subseteq Addresses(N)
  BY <1>1, BlockNests, BlockType
<1>3. ASSUME NEW m \in T, NEW b \in Addresses(c), b \in Addresses(m), m.mask <= c.mask
      PROVE  m.mask < N.mask \/ m.included = c.included
  <2>1. SUFFICES ASSUME N.mask <= m.mask
                 PROVE  m.included = c.included
    BY <1>1, BlockType
  <2>2. m \in Block /\ m \notin ipsDone
    <3>1. m \in ipsDone => Last(m) < c.first
      BY CalmFacts
    <3> QED BY <1>1, <1>3, <3>1, BlockType
  <2>3. m \in Live
    BY <2>2, HeldIs
  <2>4. m.first <= N.first
    BY <1>1, <1>3, <2>2, BlockNests
  <2>5. CASE m = c
    BY <2>5
  <2>6. CASE m \in Queue
    <3>1. ~Less(m, N)
      BY <2>6, CalmFacts
    <3>2. Equal(m, N)
      BY <1>1, <2>1, <2>2, <2>4, <3>1, BlockType DEF Less, Equal
    <3> QED BY <2>3, <3>2, CalmFacts DEF Alike
  <2> QED BY <2>3, <2>5, <2>6, CalmFacts
<1> HIDE DEF c
<1>4. Held \subseteq T \cup {c} /\ c.included = N.included
  BY DEF c
<1> QED BY <1>1, <1>2, <1>3, <1>4, DropCovered, DropDecided

(* The next network lies in the current one, if they overlap and the       *)
(* current one does not lie in the next.                                   *)
LEMMA LargerHolds ==
  ASSUME Calm, NEW N \in Heads(networks), Overlaps(N), ~Within(N)
  PROVE  LargerAsserts(N) /\ Addresses(N) \subseteq Addresses(currentNet)
<1>1. /\ N \in Block /\ currentNet \in Block /\ N.first \in Nat /\ currentNet.first \in Nat
      /\ N.mask \in Nat /\ currentNet.mask \in Nat
      /\ currentNet.first <= N.first /\ N.first <= Last(currentNet)
      /\ currentNet.first = N.first => N.mask <= currentNet.mask
  BY CalmFacts DEF Overlaps
<1>2. currentNet.first < N.first
  BY <1>1 DEF Within
<1>3. currentNet.mask < N.mask
  BY <1>1, <1>2, BlockStarts
<1> QED BY <1>1, <1>2, <1>3, BlockStarts, BlockNests DEF LargerAsserts

(* Forgetting the next network, which lies in the current one of its kind, *)
(* changes for no address what decides on it.                              *)
LEMMA IgnoreHeld ==
  ASSUME Calm, NEW N \in Heads(networks), Overlaps(N), ~Within(N),
         currentNet.included = N.included,
         NEW T, T \subseteq Held, Held \subseteq T \cup {N}, currentNet \in T
  PROVE  /\ Covered(T) = Covered(Held)
         /\ NoSandwich(Live) => \A a : Decided(Held, a) <=> Decided(T, a)
<1> DEFINE e == currentNet
<1>1. /\ N \in Block /\ e \in Block /\ Held \in SUBSET Block
      /\ N \in Live /\ e \in Live
  BY CalmFacts
<1>2. Addresses(N) \subseteq Addresses(e)
  BY LargerHolds
<1>3. ASSUME NoSandwich(Live),
             NEW m \in T, NEW b \in Addresses(N), b \in Addresses(m), m.mask <= N.mask
      PROVE  m.mask < e.mask \/ m.included = N.included
  <2>1. SUFFICES ASSUME e.mask <= m.mask, m.included # N.included
                 PROVE  FALSE
    BY <1>1, BlockType
  <2>2. m \in Block /\ m \notin ipsDone
    <3>1. m \in ipsDone => Last(m) < N.first
      BY CalmFacts
    <3> QED BY <1>1, <1>3, <3>1, BlockType
  <2>3. m \in Live
    BY <2>2, HeldIs
  <2>4. Alike(m, N) /\ Alike(m, e) /\ e.included = N.included
    BY <1>1, <2>3, CalmFacts
  <2>5. m.mask # N.mask /\ m.mask # e.mask
    BY <1>1, <1>2, <1>3, <2>1, <2>2, <2>4, BlocksEqual DEF Alike
  <2>6. Nested(N, m) /\ Nested(m, e)
    <3>1. N.mask > m.mask /\ m.mask > e.mask
      BY <1>1, <1>3, <2>1, <2>2, <2>5, BlockType
    <3>2. Addresses(N) \subseteq Addresses(m) /\ Addresses(m) \subseteq Addresses(e)
      BY <1>1, <1>2, <1>3, <2>1, <2>2, BlockNests
    <3> QED BY <3>1, <3>2 DEF Nested
  <2> QED BY <1>1, <1>3, <2>1, <2>3, <2>4, <2>6 DEF NoSandwich
<1> HIDE DEF e
<1>4. e \in T /\ e.included = N.included
  BY DEF e
<1> QED BY <1>1, <1>2, <1>3, <1>4, DropCovered, DropDecided

-----------------------------------------------------------------------------
(* Every step preserves it.                                                *)

(* What is left of the invariant once the networks are known.              *)
LEMMA NextUntied ==
  ASSUME Calm, BaseInv', Live' \subseteq Block, AlikeInv', HeadInv',
         ipsDone' = ipsDone, UNCHANGED <<mIpAddresses, phase>>, ~failed',
         \A n \in Live' : \E m \in Live : m.first <= n.first,
         Covered(Held') = Covered(Held),
         NoSandwich(Live) =>
           NoSandwich(Live') /\ \A a : Decided(Held', a) <=> Decided(Held, a)
  PROVE  NetInv'
<1>1. BlocksInv' /\ ApartInv'
  <2>1. Calm /\ BlocksInv /\ ApartInv /\ Live \subseteq Block
    BY DEF Calm, NetInv, UntiedInv, BlocksInv
  <2>2. BlocksInv'
    BY <2>1 DEF BlocksInv
  <2>3. Disjoint'
    BY <2>1 DEF ApartInv, Disjoint, Calm, Addresses, Last
  <2>4. ASSUME NEW d \in ipsDone, NEW n \in Live'
        PROVE  Last(d) < n.first
    <3>1. PICK m \in Live : m.first <= n.first
      OBVIOUS
    <3>2. Last(d) < m.first /\ d \in Block
      BY <2>1 DEF ApartInv, BlocksInv
    <3>3. Last(d) \in Nat /\ m.first \in Nat /\ n.first \in Nat
      BY <2>1, <3>2, BlockType
    <3> QED BY <3>1, <3>2, <3>3
  <2> QED BY <2>2, <2>3, <2>4 DEF ApartInv, Last
<1>2. CoverInv'
  BY DEF Calm, NetInv, UntiedInv, CoverInv, Covered, Addresses, Last
<1>3. DecideInv'
  <2>1. SUFFICES ASSUME ~Sandwiched, phase # "adding"
                 PROVE  NoSandwich(Live') /\ \A a \in Address : Decided(Held', a) <=> Included(a)
    BY DEF DecideInv, Sandwiched, Included, NoSandwich, Nested, Decided, Decides,
           Addresses, Last
  <2>2. NoSandwich(Live) /\ \A a \in Address : Decided(Held, a) <=> Included(a)
    BY <2>1 DEF Calm, NetInv, UntiedInv, DecideInv
  <2> QED BY <2>2
<1> QED BY <1>1, <1>2, <1>3 DEF NetInv, UntiedInv

(* A queue in which nothing ties has networks that are alike.              *)
LEMMA TiesNot ==
  ASSUME NEW queue, ~Ties(queue)
  PROVE  \A m, n \in BagToSet(queue) : Alike(m, n)
BY DEF Ties, Alike

(* DropCurrent preserves the invariant.                                    *)
LEMMA DropUntied ==
  ASSUME Calm, DropCurrent, ~tied', BaseInv'
  PROVE  NetInv'
<1>1. PICK N \in Heads(networks) :
        /\ Overlaps(N) /\ Within(N) /\ currentNet.included = N.included
        /\ currentNet' = N /\ networks' = Remove(networks, N)
  BY DEF DropCurrent, Continue
<1>2. UNCHANGED <<mIpAddresses, phase, ipsDone, failed>> /\ BaseInv /\ ~failed
      /\ Merging
  BY DEF DropCurrent, Continue, Calm, NetInv, UntiedInv
<1>3. Queue' \subseteq Queue /\ Queue \ {N} \subseteq Queue'
  BY <1>1, <1>2, BaseFacts, RemoveSet DEF Queue
<1>4. N \in NetType /\ N # None /\ Live = Queue \cup {currentNet} /\ N \in Live
  BY CalmFacts, NetTypes
<1>5. Live' = Queue' \cup {N} /\ Live' \subseteq Live
  BY <1>1, <1>3, <1>4, CalmFacts DEF Live
<1>6. /\ Covered(Held') = Covered(Held)
      /\ \A a : Decided(Held, a) <=> Decided(Held', a)
  <2>1. Held' \subseteq Held /\ Held \subseteq Held' \cup {currentNet} /\ N \in Held'
    BY <1>2, <1>3, <1>4, <1>5, HeldIs
  <2> QED BY <1>1, <2>1, DropHeld
<1>7. AlikeInv' /\ HeadInv' /\ Live' \subseteq Block
  <2>1. \A n \in Queue' : ~Less(n, N)
    BY <1>3, CalmFacts
  <2>2. \A m, n \in Live' : Alike(m, n)
    BY <1>5, CalmFacts
  <2> QED BY <1>1, <1>5, <2>1, <2>2, CalmFacts
          DEF AlikeInv, HeadInv, Alike, Equal, Less, Queue
<1>8. \A n \in Live' : \E m \in Live : m.first <= n.first
  BY <1>5, CalmFacts, BlockType
<1>9. NoSandwich(Live) => NoSandwich(Live')
  BY <1>5 DEF NoSandwich
<1> QED BY <1>2, <1>6, <1>7, <1>8, <1>9, NextUntied

(* So does IgnoreNext, and its assertions hold.                            *)
LEMMA IgnoreUntied ==
  ASSUME Calm, IgnoreNext, ~tied', BaseInv'
  PROVE  NetInv'
<1>1. PICK N \in Heads(networks) :
        /\ Overlaps(N) /\ ~Within(N) /\ currentNet.included = N.included
        /\ networks' = Remove(networks, N)
        /\ failed' = (failed \/ ~LargerAsserts(N))
  BY DEF IgnoreNext, Continue, AssertTrue
<1>2. UNCHANGED <<mIpAddresses, phase, ipsDone, currentNet>> /\ BaseInv /\ ~failed
      /\ Merging
  BY DEF IgnoreNext, Continue, Calm, NetInv, UntiedInv
<1>3. Queue' \subseteq Queue /\ Queue \ {N} \subseteq Queue'
  BY <1>1, <1>2, BaseFacts, RemoveSet DEF Queue
<1>4. /\ Live = Queue \cup {currentNet} /\ Live' = Queue' \cup {currentNet}
      /\ currentNet # None /\ Live' \subseteq Live /\ Live' \subseteq Block
  BY <1>2, <1>3, CalmFacts DEF Live, Merging
<1>5. /\ Covered(Held') = Covered(Held)
      /\ NoSandwich(Live) => \A a : Decided(Held, a) <=> Decided(Held', a)
  <2>1. Held' \subseteq Held /\ Held \subseteq Held' \cup {N} /\ currentNet \in Held'
    BY <1>2, <1>3, <1>4, HeldIs
  <2> QED BY <1>1, <2>1, IgnoreHeld
<1>6. AlikeInv' /\ HeadInv'
  <2>1. \A n \in Queue' : ~Less(n, currentNet)
    BY <1>3, CalmFacts
  <2>2. \A m, n \in Live' : Alike(m, n)
    BY <1>4, CalmFacts
  <2> QED BY <1>2, <2>1, <2>2 DEF AlikeInv, HeadInv, Alike, Equal, Less, Queue
<1>7. \A n \in Live' : \E m \in Live : m.first <= n.first
  BY <1>4, CalmFacts, BlockType
<1>8. NoSandwich(Live) => NoSandwich(Live')
  BY <1>4 DEF NoSandwich
<1>9. ~failed'
  BY <1>1, <1>2, LargerHolds
<1> QED BY <1>2, <1>4, <1>5, <1>6, <1>7, <1>8, <1>9, NextUntied

(* So does KeepCurrent: the current network ends before all others start.  *)
LEMMA KeepUntied ==
  ASSUME Calm, KeepCurrent, ~tied', BaseInv'
  PROVE  NetInv'
<1> DEFINE c == currentNet
<1>1. /\ UNCHANGED <<mIpAddresses, phase, failed>> /\ BaseInv /\ ~failed
      /\ Merging /\ ipsDone' = Insert(ipsDone, c) /\ UntiedInv /\ ~tied
  BY DEF KeepCurrent, Continue, Calm, NetInv, UntiedInv
<1>2. /\ c \in Block /\ c \in Live /\ Live \subseteq Block /\ ipsDone \subseteq Block
      /\ Live = Queue \cup {c}
      /\ \A d \in ipsDone, n \in Live : Last(d) < n.first
      /\ \A m, n \in Live : Alike(m, n)
  BY <1>1 DEF UntiedInv, BlocksInv, AlikeInv, ApartInv, Live, Merging
<1>3. ipsDone' = ipsDone \cup {c}
  <2>1. \A d \in ipsDone : ~Equal(d, c)
    BY <1>2, BlockType DEF Equal
  <2> QED BY <1>1, <2>1 DEF Insert
<1>4. /\ Live' \subseteq Queue /\ Queue \subseteq Live'
      /\ \A n \in Live' : Last(c) < n.first
      /\ HeadInv'
  <2>1. CASE networks = EmptyBag /\ currentNet' = None /\ networks' = networks
    <3>1. Queue = {} /\ Queue' = {} /\ Live' = {}
      BY <2>1, NoBag DEF Queue, Live
    <3> QED BY <2>1, <3>1 DEF HeadInv
  <2>2. ASSUME NEW N \in Heads(networks), Last(c) < N.first, currentNet' = N,
               networks' = Remove(networks, N)
        PROVE  /\ Live' \subseteq Queue /\ Queue \subseteq Live'
               /\ \A n \in Live' : Last(c) < n.first
               /\ HeadInv'
    <3>1. Queue' \subseteq Queue /\ Queue \ {N} \subseteq Queue' /\ N \in Queue
      BY <1>1, <2>2, BaseFacts, RemoveSet DEF Queue
    <3>2. N \in NetType /\ N # None /\ Live' = Queue' \cup {N}
      BY <2>2, CalmFacts, NetTypes DEF Live
    <3>3. ASSUME NEW n \in Queue
          PROVE  ~Less(n, N) /\ Last(c) < n.first
      <4>1. ~Less(n, N) /\ n \in Block /\ N \in Block
        BY <1>2, <3>1, CalmFacts
      <4>2. N.first <= n.first
        BY <4>1, BlockType DEF Less
      <4> QED BY <1>2, <2>2, <4>1, <4>2, BlockType
    <3>4. HeadInv'
      BY <2>2, <3>1, <3>3 DEF HeadInv, Less, Queue
    <3> QED BY <3>1, <3>2, <3>3, <3>4
  <2> QED BY <2>1, <2>2 DEF KeepCurrent, Continue
<1>5. Held' = Held /\ Live' \subseteq Live
  BY <1>2, <1>3, <1>4, HeldIs
<1>6. BlocksInv' /\ AlikeInv'
  BY <1>2, <1>3, <1>4 DEF BlocksInv, AlikeInv, Alike, Equal
<1>7. ApartInv'
  <2>1. \A m, n \in ipsDone : m # n => Addresses(m) \cap Addresses(n) = {}
    BY <1>1 DEF UntiedInv, ApartInv, Disjoint
  <2>2. ASSUME NEW d \in ipsDone
        PROVE  Addresses(d) \cap Addresses(c) = {}
    <3>1. Last(d) < c.first /\ d \in Block
      BY <1>2
    <3> QED BY <1>2, <3>1, BlockType
  <2>3. \A m, n \in ipsDone' : m # n => Addresses(m) \cap Addresses(n) = {}
    BY <1>3, <2>1, <2>2
  <2>4. \A d \in ipsDone', n \in Live' : Last(d) < n.first
    BY <1>2, <1>3, <1>4
  <2> QED BY <2>3, <2>4 DEF ApartInv, Disjoint, Addresses, Last
<1>8. CoverInv'
  BY <1>1, <1>5 DEF UntiedInv, CoverInv, Covered, Addresses, Last
<1>9. DecideInv'
  <2>1. SUFFICES ASSUME ~Sandwiched, phase # "adding"
                 PROVE  NoSandwich(Live') /\ \A a \in Address : Decided(Held', a) <=> Included(a)
    BY <1>1 DEF DecideInv, Sandwiched, Included, NoSandwich, Nested, Decided, Decides,
           Addresses, Last
  <2> QED BY <1>1, <1>5, <2>1 DEF UntiedInv, DecideInv, NoSandwich
<1> QED BY <1>1, <1>4, <1>6, <1>7, <1>8, <1>9 DEF NetInv, UntiedInv

(* A split preserves the invariant, of the next network or the current     *)
(* one.                                                                    *)
LEMMA SplitUntied ==
  ASSUME Calm, BaseInv', NEW n \in Live, n.mask < Width,
         ipsDone' = ipsDone, UNCHANGED <<mIpAddresses, phase>>, ~failed',
         Live \ {n} \subseteq Live', Live' \subseteq Live \cup {FirstHalf(n), SecondHalf(n)},
         \E x \in Live' : Equal(x, FirstHalf(n)), \E x \in Live' : Equal(x, SecondHalf(n)),
         \A x, y \in Live' : Alike(x, y), HeadInv'
  PROVE  NetInv'
<1>1. /\ Live \subseteq Block /\ ipsDone \subseteq Block /\ Unique(ipsDone)
      /\ \A x, y \in Live : Alike(x, y)
      /\ \A d \in ipsDone, x \in Live : Last(d) < x.first
  BY DEF Calm, NetInv, BaseInv, TypeInv, UntiedInv, BlocksInv, AlikeInv, ApartInv
<1>2. /\ n \in Block /\ FirstHalf(n) \in Block /\ SecondHalf(n) \in Block
      /\ n.first <= FirstHalf(n).first /\ n.first <= SecondHalf(n).first
  <2>1. n \in Block
    BY <1>1
  <2> QED BY <2>1, BlockHalves, BlockType
<1>3. Live' \subseteq Block /\ \A x \in Live' : \E m \in Live : m.first <= x.first
  BY <1>1, <1>2, BlockType
<1>4. \A d \in ipsDone, x \in Live' : Last(d) < x.first
  <2>1. ASSUME NEW d \in ipsDone, NEW x \in Live'
        PROVE  Last(d) < x.first
    <3>1. PICK m \in Live : m.first <= x.first
      BY <1>3
    <3>2. Last(d) < m.first /\ d \in Block /\ m \in Block /\ x \in Block
      BY <1>1, <1>3
    <3> QED BY <3>1, <3>2, BlockType
  <2> QED BY <2>1
<1>5. /\ \A x, y \in ipsDone \cup Live : Alike(x, y)
      /\ \A x, y \in ipsDone \cup Live' : Alike(x, y)
  BY <1>1, <1>3, <1>4, ApartAlike
<1> DEFINE S == ipsDone \cup Live
           T == ipsDone \cup Live'
<1>6. /\ S \in SUBSET Block /\ T \in SUBSET Block /\ n \in S
      /\ S \ {n} \subseteq T /\ T \subseteq S \cup {FirstHalf(n), SecondHalf(n)}
      /\ \E x \in T : Equal(x, FirstHalf(n))
      /\ \E x \in T : Equal(x, SecondHalf(n))
      /\ \A m \in S : Alike(m, n)
      /\ \A x, y \in T : Alike(x, y)
  BY <1>1, <1>3, <1>5
<1>7. S = Held /\ T = Held'
  BY HeldIs
<1> HIDE DEF S, T
<1>8. Covered(S) = Covered(T)
  BY <1>2, <1>6, SplitCovered
<1>9. \A a : Decided(S, a) <=> Decided(T, a)
  BY <1>6, SplitDecided
<1>10. NoSandwich(Live) => NoSandwich(Live')
  BY <1>1, SplitNoSandwich
<1>11. AlikeInv'
  BY DEF AlikeInv, Alike, Equal
<1> QED BY <1>3, <1>7, <1>8, <1>9, <1>10, <1>11, NextUntied

(* SplitNext is such a split: the lower half that it does not add is the   *)
(* current network. Its assertions hold.                                   *)
LEMMA SplitNextUntied ==
  ASSUME Calm, SplitNext, ~tied', BaseInv'
  PROVE  NetInv'
<1>1. PICK N \in Heads(networks) :
        /\ Within(N) /\ currentNet.included # N.included
        /\ LET rest == AddIfAbsent(Remove(networks, N), SecondHalf(N)) IN
           networks' = IF Last(FirstHalf(N)) = Last(currentNet) THEN rest
                       ELSE AddIfAbsent(rest, FirstHalf(N))
        /\ failed' = (failed \/ ~(SplitAsserts(N)
              /\ (Last(FirstHalf(N)) = Last(currentNet)
                  => FirstHalf(N).mask = currentNet.mask)))
  BY DEF SplitNext, Continue, AssertTrue
<1>2. /\ UNCHANGED <<mIpAddresses, phase, currentNet, ipsDone>> /\ BaseInv /\ ~failed
      /\ Merging /\ ~Ties(networks')
  BY DEF SplitNext, Continue, Calm, NetInv, UntiedInv
<1> DEFINE lower == Last(FirstHalf(N)) # Last(currentNet)
           lo == FirstHalf(N)
           up == SecondHalf(N)
           c == currentNet
<1>3. /\ Queue \ {N} \subseteq Queue'
      /\ Queue' \subseteq Queue \cup {up} \cup (IF lower THEN {lo} ELSE {})
      /\ \E x \in Queue' : Equal(x, up)
      /\ lower => \E x \in Queue' : Equal(x, lo)
  BY <1>1, <1>2, SplitQueue DEF Queue
<1>4. /\ N \in Block /\ c \in Block /\ N \in Live /\ c.first = N.first
      /\ N.mask <= c.mask /\ c.mask <= Width /\ N.mask \in Nat /\ c.mask \in Nat
      /\ Live = Queue \cup {c} /\ Live' = Queue' \cup {c} /\ c \in Live
  BY <1>1, <1>2, CalmFacts DEF Within, Live, Merging
<1>5. N.mask # c.mask
  <2>1. SUFFICES ASSUME N.mask = c.mask
                 PROVE  FALSE
    OBVIOUS
  <2>2. Equal(c, N) /\ Alike(c, N)
    BY <1>4, <2>1, CalmFacts DEF Equal
  <2> QED BY <1>1, <2>2 DEF Alike
<1>6. N.mask < c.mask /\ N.mask < Width
  BY <1>4, <1>5, WidthAssumption
<1>7. /\ lo \in Block /\ up \in Block /\ lo.first = c.first /\ c.first < up.first
      /\ lo.mask = N.mask + 1 /\ lo.mask <= c.mask /\ Last(up) = Last(N)
      /\ Last(lo) = lo.first + Size[lo.mask] - 1
  BY <1>4, <1>6, BlockHalves, BlockType
<1>8. ~lower => lo.mask = c.mask
  <2>1. SUFFICES ASSUME ~lower, lo.mask < c.mask
                 PROVE  FALSE
    BY <1>4, <1>7, BlockType
  <2>2. Size[c.mask] < Size[lo.mask]
    BY <1>4, <1>7, <2>1, SizeSmaller, BlockType
  <2> QED BY <1>4, <1>7, <2>1, <2>2, BlockType
<1>9. ~failed'
  BY <1>1, <1>2, <1>7, <1>8 DEF SplitAsserts
<1>10. \E x \in Live' : Equal(x, lo)
  BY <1>3, <1>4, <1>7, <1>8 DEF Equal
<1> HIDE DEF lo, up, lower, c
<1>11. HeadInv'
  <2>1. ASSUME NEW n \in Queue'
        PROVE  ~Less(n, c)
    <3>1. CASE n \in Queue
      BY <3>1, CalmFacts DEF c
    <3>2. CASE n = up
      BY <1>4, <1>7, <3>2, BlockType DEF Less
    <3>3. CASE n = lo
      BY <1>4, <1>7, <3>3, BlockType DEF Less
    <3> QED BY <1>3, <3>1, <3>2, <3>3
  <2> QED BY <1>2, <2>1 DEF HeadInv, Less, Queue, c
<1>12. \A x, y \in Live' : Alike(x, y)
  <2>1. \A x, y \in Queue' : Alike(x, y)
    BY <1>2, TiesNot DEF Queue
  <2>2. ASSUME NEW x \in Queue'
        PROVE  Alike(x, c) /\ Alike(c, x)
    <3>1. CASE x \in Queue
      BY <1>4, <3>1, CalmFacts
    <3>2. CASE x = up
      BY <1>4, <1>7, <3>2, BlockType DEF Alike, Equal
    <3>3. CASE x = lo /\ lower
      BY <3>3 DEF Alike, Equal, Last, lo, lower, c
    <3> QED BY <1>3, <3>1, <3>2, <3>3
  <2> QED BY <1>4, <2>1, <2>2 DEF Alike
<1>13. Live \ {N} \subseteq Live' /\ Live' \subseteq Live \cup {lo, up}
  BY <1>3, <1>4
<1>14. \E x \in Live' : Equal(x, up)
  BY <1>3, <1>4
<1> QED BY <1>2, <1>4, <1>6, <1>9, <1>10, <1>11, <1>12, <1>13, <1>14, SplitUntied DEF lo, up

(* SplitCurrent is such a split: the upper half that it does not add is    *)
(* the next network. Its assertions hold.                                  *)
LEMMA SplitCurrentUntied ==
  ASSUME Calm, SplitCurrent, ~tied', BaseInv'
  PROVE  NetInv'
<1> DEFINE up == SecondHalf(currentNet)
           lo == FirstHalf(currentNet)
           c == currentNet
<1>1. PICK N \in Heads(networks) :
        /\ Overlaps(N) /\ ~Within(N)
        /\ networks' = IF up.mask = N.mask THEN networks ELSE Add(networks, up)
        /\ failed' = (failed \/ ~(/\ LargerAsserts(N) /\ SplitAsserts(currentNet)
                                  /\ up.mask = N.mask => up.first = N.first
                                                         /\ Last(up) = Last(currentNet)))
  BY DEF SplitCurrent, Continue, AssertTrue
<1>2. /\ UNCHANGED <<mIpAddresses, phase, ipsDone>> /\ BaseInv /\ ~failed
      /\ Merging /\ ~Ties(networks') /\ currentNet' = lo
  BY DEF SplitCurrent, Continue, Calm, NetInv, UntiedInv
<1>3. /\ N \in Block /\ c \in Block /\ N \in Queue /\ c \in Live
      /\ N.mask <= Width /\ N.mask \in Nat /\ c.mask \in Nat /\ Live = Queue \cup {c}
      /\ IsABag(networks)
  BY <1>2, CalmFacts, BaseFacts
<1>4. /\ LargerAsserts(N) /\ Addresses(N) \subseteq Addresses(c)
      /\ c.mask < N.mask /\ c.first < N.first
  BY <1>1, LargerHolds DEF LargerAsserts
<1>5. c.mask < Width
  BY <1>3, <1>4, WidthAssumption
<1>6. /\ lo \in Block /\ up \in Block /\ lo.first = c.first /\ c.first < up.first
      /\ lo.mask = c.mask + 1 /\ up.mask = c.mask + 1 /\ Last(up) = Last(c)
      /\ Addresses(c) = Addresses(lo) \cup Addresses(up)
  BY <1>3, <1>5, BlockHalves, BlockType
<1> HIDE DEF lo, up, c
<1>7. up.mask = N.mask => Equal(N, up)
  <2>1. SUFFICES ASSUME up.mask = N.mask
                 PROVE  Equal(N, up)
    OBVIOUS
  <2>2. N.first \in Addresses(N)
    BY <1>3, BlockType
  <2>3. CASE N.first \in Addresses(lo)
    <3>1. Equal(N, lo)
      BY <1>3, <1>6, <2>1, <2>2, <2>3, BlocksEqual
    <3> QED BY <1>3, <1>4, <1>6, <3>1, BlockType DEF Equal
  <2>4. CASE N.first \in Addresses(up)
    BY <1>3, <1>6, <2>1, <2>2, <2>4, BlocksEqual
  <2> QED BY <1>4, <1>6, <2>2, <2>3, <2>4
<1>8. ~failed'
  <2>1. SplitAsserts(currentNet)
    BY <1>6 DEF SplitAsserts, up, c
  <2>2. up.mask = N.mask => up.first = N.first /\ Last(up) = Last(currentNet)
    BY <1>6, <1>7 DEF Equal, c
  <2> QED BY <1>1, <1>2, <1>4, <2>1, <2>2
<1>9. /\ Queue \subseteq Queue' /\ Queue' \subseteq Queue \cup {up}
      /\ \E x \in Queue' : Equal(x, up)
  <2>1. Equal(up, up)
    BY DEF Equal
  <2> QED BY <1>1, <1>3, <1>7, <2>1, AddSet DEF Queue
<1>10. Live' = Queue' \cup {lo}
  <2>1. lo # None
    <3>1. lo \in [first : Nat, mask : Nat, included : BOOLEAN]
      BY <1>6, WidthAssumption DEF Block
    <3> QED BY <3>1, NoneAssumption
  <2> QED BY <1>2, <2>1 DEF Live
<1>11. ASSUME NEW n \in Queue'
       PROVE  ~Less(n, lo) /\ (n.first = lo.first => n.mask < lo.mask)
  <2>1. CASE n \in Queue
    <3>1. ~Less(n, c) /\ n \in Block
      BY <2>1, CalmFacts DEF c
    <3> QED BY <1>3, <1>6, <3>1, BlockType DEF Less
  <2>2. CASE n = up
    BY <1>3, <1>6, <2>2, BlockType DEF Less
  <2> QED BY <1>9, <2>1, <2>2
<1>12. HeadInv'
  BY <1>2, <1>11 DEF HeadInv, Less, Queue
<1>13. \A x, y \in Live' : Alike(x, y)
  <2>1. \A x, y \in Queue' : Alike(x, y)
    BY <1>2, TiesNot DEF Queue
  <2>2. ASSUME NEW x \in Queue'
        PROVE  Alike(x, lo) /\ Alike(lo, x)
    BY <1>3, <1>6, <1>11, BlockType DEF Alike, Equal
  <2> QED BY <1>10, <2>1, <2>2 DEF Alike
<1>14. /\ Live \ {c} \subseteq Live' /\ Live' \subseteq Live \cup {lo, up}
       /\ \E x \in Live' : Equal(x, lo)
       /\ \E x \in Live' : Equal(x, up)
  <2>1. Equal(lo, lo)
    BY DEF Equal
  <2> QED BY <1>3, <1>9, <1>10, <2>1
<1> QED BY <1>2, <1>3, <1>5, <1>8, <1>12, <1>13, <1>14, SplitUntied DEF lo, up, c

(* Generate preserves the invariant.                                       *)
LEMMA GenerateUntied ==
  ASSUME NetInv, Generate, ~tied', BaseInv'
  PROVE  NetInv'
<1>1. /\ UNCHANGED <<mIpAddresses, ipsDone, tied, failed>> /\ BaseInv /\ ~tied
      /\ ipsDone = {} /\ ~failed /\ mIpAddresses \subseteq Route /\ Unique(mIpAddresses)
  BY DEF Generate, NetInv, BaseInv, TypeInv
<1>2. /\ Live' = mIpAddresses /\ HeadInv' /\ Held' = mIpAddresses
  BY <1>1, GenerateBase, HeldIs DEF HeadInv, Less, Queue
<1>3. BlocksInv' /\ AlikeInv' /\ ApartInv'
  BY <1>1, <1>2, RouteFits
     DEF BlocksInv, AlikeInv, ApartInv, Disjoint, Unique, Alike, Equal
<1>4. CoverInv'
  BY <1>1, <1>2 DEF CoverInv, Covered, Addresses, Last
<1>5. DecideInv'
  <2>1. \A a : Decided(mIpAddresses, a) <=> Included(a)
    BY DEF Decided, Decides, Included
  <2>2. ~Sandwiched => NoSandwich(mIpAddresses)
    BY DEF Sandwiched, NoSandwich
  <2> QED BY <1>1, <1>2, <2>1, <2>2
          DEF DecideInv, Sandwiched, Included, NoSandwich, Nested, Decided, Decides,
              Addresses, Last
<1> QED BY <1>1, <1>2, <1>3, <1>4, <1>5 DEF NetInv, UntiedInv

(* So do AddIP, Return and Clear.                                          *)
LEMMA RestUntied ==
  ASSUME NetInv, (\E n \in Route : AddIP(n)) \/ Return \/ Clear \/ UNCHANGED vars, BaseInv'
  PROVE  NetInv'
<1>1. UNCHANGED <<Queue, Live>>
  BY DEF Return, Clear, AddIP, vars, Queue, Live
<1>2. CASE \E n \in Route : AddIP(n)
  <2>1. Live = {} /\ Queue = {} /\ ipsDone = {} /\ phase' = "adding"
        /\ currentNet' = None /\ ipsDone' = {} /\ ~failed'
    BY <1>2, NoBag DEF AddIP, NetInv, BaseInv, TypeInv, Live, Queue
  <2> QED BY <1>1, <2>1
          DEF NetInv, UntiedInv, BlocksInv, AlikeInv, HeadInv, ApartInv, Disjoint,
              CoverInv, DecideInv
<1>3. CASE Clear
  <2>1. Live = {} /\ Queue = {} /\ phase' = "adding"
        /\ currentNet' = None /\ ipsDone' = {} /\ ~failed'
    BY <1>3, NoBag DEF Clear, NetInv, BaseInv, TypeInv, Live, Queue
  <2> QED BY <1>1, <2>1
          DEF NetInv, UntiedInv, BlocksInv, AlikeInv, HeadInv, ApartInv, Disjoint,
              CoverInv, DecideInv
<1>4. CASE Return \/ UNCHANGED vars
  <2>1. /\ UNCHANGED <<mIpAddresses, networks, currentNet, ipsDone, tied, failed>>
        /\ phase = "adding" <=> phase' = "adding"
    BY <1>4 DEF Return, vars
  <2>2. UNCHANGED Held /\ UNCHANGED Sandwiched
    BY <2>1 DEF Held, Sandwiched, Nested, Addresses, Last
  <2>3. BlocksInv' <=> BlocksInv
    BY <1>1, <2>1 DEF BlocksInv
  <2>4. AlikeInv' <=> AlikeInv
    BY <1>1 DEF AlikeInv, Alike, Equal
  <2>5. HeadInv' <=> HeadInv
    BY <1>1, <2>1 DEF HeadInv, Less
  <2>6. ApartInv' <=> ApartInv
    BY <1>1, <2>1 DEF ApartInv, Disjoint, Addresses, Last
  <2>7. CoverInv => CoverInv'
    BY <2>1, <2>2 DEF CoverInv, Covered, Addresses, Last
  <2>8. DecideInv => DecideInv'
    BY <1>1, <2>1, <2>2 DEF DecideInv, NoSandwich, Nested, Decided, Decides, Included,
       Addresses, Last
  <2> QED BY <2>1, <2>3, <2>4, <2>5, <2>6, <2>7, <2>8 DEF NetInv, UntiedInv
<1> QED BY <1>2, <1>3, <1>4

-----------------------------------------------------------------------------
(* The theorems.                                                           *)

(* The invariant holds initially.                                          *)
THEOREM NetInitially ==
  ASSUME Init
  PROVE  NetInv
<1>1. Queue = {} /\ Live = {}
  BY NoBag DEF Init, Queue, Live
<1> QED BY <1>1, BaseInitially
        DEF Init, NetInv, UntiedInv, BlocksInv, AlikeInv, HeadInv, ApartInv, Disjoint,
            CoverInv, DecideInv

(* Every step preserves the invariant.                                     *)
THEOREM NetPreserved ==
  ASSUME NetInv, [Next]_vars
  PROVE  NetInv'
<1>1. BaseInv'
  BY BasePreserved DEF NetInv
<1>2. CASE tied'
  BY <1>1, <1>2 DEF NetInv, UntiedInv
<1>3. CASE ~tied' /\ Generate
  BY <1>1, <1>3, GenerateUntied
<1>4. ASSUME ~tied', KeepCurrent \/ DropCurrent \/ SplitNext \/ IgnoreNext \/ SplitCurrent
      PROVE  NetInv'
  <2>1. Calm
    BY <1>4
       DEF Calm, KeepCurrent, DropCurrent, SplitNext, IgnoreNext, SplitCurrent, Continue
  <2> QED BY <1>1, <1>4, <2>1, KeepUntied, DropUntied, SplitNextUntied, IgnoreUntied,
             SplitCurrentUntied
<1>5. CASE (\E n \in Route : AddIP(n)) \/ Return \/ Clear \/ UNCHANGED vars
  BY <1>1, <1>5, RestUntied
<1> QED BY <1>2, <1>3, <1>4, <1>5 DEF Next, Merge

(* The inductive invariant holds in every state.                           *)
LEMMA NetHolds == Spec => []NetInv
BY NetInitially, NetPreserved, PTL DEF Spec

(* For every width of an address and every set of routes: as long as no    *)
(* networks tie and differ, splitting and merging neither lose an address  *)
(* of a route nor gain one, and give none to two networks of the result.   *)
THEOREM NoAddressLostOrTwice == Spec => []NothingLostOrTwice
<1>1. NetInv => NothingLostOrTwice
  BY DEF NetInv, UntiedInv, CoverInv, ApartInv, NothingLostOrTwice, NothingLost, Disjoint
<1> QED BY <1>1, NetHolds, PTL

(* For every width of an address: without ties and without three routes    *)
(* nested with alternating kinds, the networks that are installed are      *)
(* those addresses whose most specific route is included.                  *)
THEOREM MostSpecificRouteWins == Spec => []MostSpecificWins
<1>1. ASSUME NetInv, phase = "done", ~tied, ~Sandwiched
      PROVE  Covered({n \in ipsDone : n.included}) = {a \in Address : Included(a)}
  <2>1. /\ BlocksInv /\ Disjoint /\ Covered(Held) = Covered(mIpAddresses)
        /\ \A a \in Address : Decided(Held, a) <=> Included(a)
    BY <1>1 DEF NetInv, UntiedInv, ApartInv, CoverInv, DecideInv
  <2>2. Held = ipsDone
    BY <1>1, NoBag DEF NetInv, BaseInv, TypeInv, Held
  <2>3. ASSUME NEW n \in mIpAddresses, NEW a \in Addresses(n)
        PROVE  a \in Address
    <3>1. n \in Route
      BY <1>1 DEF NetInv, BaseInv, TypeInv
    <3>2. n \in Block /\ Fits(n) /\ n.mask <= Width
      BY <3>1, RouteFits, BlockType
    <3>3. Size[0] \in Nat /\ n.first + Size[n.mask] <= Size[0]
      BY <3>2, SizeType, WidthAssumption, BlockType DEF Fits
    <3> QED BY <3>2, <3>3, BlockType DEF Address
  <2>4. ASSUME NEW n \in ipsDone, n.included, NEW a \in Addresses(n)
        PROVE  a \in Address /\ Decided(ipsDone, a)
    <3>1. a \in Address
      BY <2>1, <2>2, <2>3 DEF Covered
    <3>2. \A m \in ipsDone : a \in Addresses(m) => m = n
      BY <1>1, <2>1 DEF Disjoint
    <3>3. n.mask <= n.mask
      BY <2>1, BlockType DEF BlocksInv
    <3> QED BY <2>4, <3>1, <3>2, <3>3 DEF Decided, Decides
  <2>5. ASSUME NEW a, Decided(ipsDone, a)
        PROVE  a \in Covered({n \in ipsDone : n.included})
    BY <2>5 DEF Decided, Decides, Covered
  <2>6. ASSUME NEW a \in Covered({n \in ipsDone : n.included})
        PROVE  a \in Address /\ Decided(ipsDone, a)
    BY <2>4 DEF Covered
  <2> QED BY <2>1, <2>2, <2>5, <2>6
<1>2. NetInv => MostSpecificWins
  BY <1>1 DEF MostSpecificWins
<1> QED BY <1>2, NetHolds, PTL

(* Without a tie the assertions of the debug build hold on every path      *)
(* through the merge.                                                      *)
THEOREM AssertsFailOnlyTied == Spec => []FailsOnlyTied
<1>1. NetInv => FailsOnlyTied
  BY DEF NetInv, UntiedInv, FailsOnlyTied
<1> QED BY <1>1, NetHolds, PTL

-----------------------------------------------------------------------------
(* The merge comes to an end: every iteration takes something away.        *)

(* The networks into which a network can be split, itself included.        *)
Work(n) == IF n.mask = Width + 1 THEN 1 ELSE 4 * Size[n.mask] - 1

(* The networks of a queue, each as often as it is in it.                  *)
Copies(queue) == {c \in BagToSet(queue) \X Nat : 1 <= c[2] /\ c[2] <= queue[c[1]]}

(* As many units for each copy as it is work.                              *)
UnitsOf(copies) == UNION {{c} \X (1 .. Work(c[1])) : c \in copies}

Units(queue) == UnitsOf(Copies(queue))

(* The work of the current network.                                        *)
CurrentWork == IF currentNet = None THEN 0 ELSE Work(currentNet)

(* What is left to do: each network of the queue and the current one, as   *)
(* often as it may still be split and dealt with.                          *)
Left == Cardinality(Units(networks)) + CurrentWork

(* An iteration leaves less to do.                                         *)
Shrinks == Merging => Left \in Nat /\ Left' \in Nat /\ Left' < Left

(* There is something to do for each network.                              *)
LEMMA WorkType ==
  ASSUME NEW n \in NetType
  PROVE  Work(n) \in Nat \ {0}
BY NetTypes DEF Work

(* Halves are less work than what was split.                               *)
LEMMA HalvesWork ==
  ASSUME NEW n \in NetType, n.mask <= Width, NEW x \in NetType, NEW y \in NetType,
         x.mask = n.mask + 1, y.mask = n.mask + 1
  PROVE  Work(x) + Work(y) < Work(n)
<1>1. CASE n.mask = Width
  BY <1>1, SizeEnds, WidthAssumption DEF Work
<1>2. CASE n.mask < Width
  <2>1. n.mask \in 0 .. Width - 1
    BY <1>2, NetTypes, WidthAssumption
  <2>2. Size[n.mask] = 2 * Size[n.mask + 1] /\ Size[n.mask + 1] \in Nat \ {0}
    BY <2>1, SizeHalves
  <2>3. n.mask # Width + 1 /\ n.mask + 1 # Width + 1
    BY <2>1, WidthAssumption
  <2> QED BY <2>2, <2>3 DEF Work
<1> QED BY <1>1, <1>2, NetTypes, WidthAssumption

(* What a copy more adds.                                                  *)
LEMMA UnitsOfMore ==
  ASSUME NEW copies, IsFiniteSet(UnitsOf(copies)), NEW c, c \notin copies,
         Work(c[1]) \in Nat
  PROVE  /\ IsFiniteSet(UnitsOf(copies \cup {c}))
         /\ Cardinality(UnitsOf(copies \cup {c}))
            = Cardinality(UnitsOf(copies)) + Work(c[1])
<1> DEFINE own == {c} \X (1 .. Work(c[1]))
<1>1. UnitsOf(copies \cup {c}) = UnitsOf(copies) \cup own
  BY DEF UnitsOf
<1>2. UnitsOf(copies) \cap own = {}
  BY DEF UnitsOf
<1>3. IsFiniteSet(own) /\ Cardinality(own) = Work(c[1])
  <2>1. IsFiniteSet({c}) /\ Cardinality({c}) = 1
    BY FS_Singleton
  <2>2. IsFiniteSet(1 .. Work(c[1])) /\ Cardinality(1 .. Work(c[1])) = Work(c[1])
    BY FS_Interval
  <2>3. /\ IsFiniteSet(own)
        /\ Cardinality(own) = Cardinality({c}) * Cardinality(1 .. Work(c[1]))
    BY <2>1, <2>2, FS_Product, Zenon
  <2> QED BY <2>1, <2>2, <2>3
<1> HIDE DEF own
<1>4. /\ IsFiniteSet(UnitsOf(copies) \cup own)
      /\ Cardinality(UnitsOf(copies) \cup own)
         = Cardinality(UnitsOf(copies)) + Cardinality(own)
           - Cardinality(UnitsOf(copies) \cap own)
  BY <1>3, FS_Union
<1>5. Cardinality({}) = 0 /\ Cardinality(UnitsOf(copies)) \in Nat
  BY FS_EmptySet, FS_CardinalityType
<1>6. Cardinality(UnitsOf(copies) \cap own) = 0
  BY <1>2, <1>5, Zenon
<1>7. IsFiniteSet(UnitsOf(copies \cup {c}))
  BY <1>1, <1>4, Zenon
<1>8. Cardinality(UnitsOf(copies \cup {c}))
      = Cardinality(UnitsOf(copies)) + Cardinality(own)
        - Cardinality(UnitsOf(copies) \cap own)
  BY <1>1, <1>4, Zenon
<1> QED BY <1>3, <1>5, <1>6, <1>7, <1>8

(* What a copy fewer takes away.                                           *)
LEMMA UnitsOfLess ==
  ASSUME NEW copies, IsFiniteSet(UnitsOf(copies)), NEW c \in copies,
         Work(c[1]) \in Nat
  PROVE  /\ IsFiniteSet(UnitsOf(copies \ {c}))
         /\ Cardinality(UnitsOf(copies \ {c}))
            = Cardinality(UnitsOf(copies)) - Work(c[1])
<1> DEFINE rest == copies \ {c}
<1>1. UnitsOf(rest) \subseteq UnitsOf(copies) /\ rest \cup {c} = copies /\ c \notin rest
  BY DEF UnitsOf
<1>2. IsFiniteSet(UnitsOf(rest))
  BY <1>1, FS_Subset
<1> HIDE DEF rest
<1>3. Cardinality(UnitsOf(rest \cup {c})) = Cardinality(UnitsOf(rest)) + Work(c[1])
  BY <1>1, <1>2, UnitsOfMore
<1>4. Cardinality(UnitsOf(rest)) \in Nat
  BY <1>2, FS_CardinalityType
<1>5. Cardinality(UnitsOf(copies)) = Cardinality(UnitsOf(rest)) + Work(c[1])
  BY <1>1, <1>3, Zenon
<1> QED BY <1>2, <1>4, <1>5 DEF rest

(* What add does to the work in a queue.                                   *)
LEMMA AddWork ==
  ASSUME NEW queue, IsABag(queue), IsFiniteSet(Units(queue)), NEW n \in NetType
  PROVE  /\ IsFiniteSet(Units(Add(queue, n)))
         /\ Cardinality(Units(Add(queue, n))) = Cardinality(Units(queue)) + Work(n)
<1> DEFINE k == IF n \in BagToSet(queue) THEN queue[n] + 1 ELSE 1
<1>1. k \in Nat
  BY DEF IsABag, BagToSet
<1>2. Copies(Add(queue, n)) = Copies(queue) \cup {<<n, k>>}
  <2>1. /\ BagToSet(Add(queue, n)) = BagToSet(queue) \cup {n}
        /\ Add(queue, n)[n] = k
        /\ \A m \in BagToSet(queue) : m # n => Add(queue, n)[m] = queue[m]
        /\ \A m \in BagToSet(queue) : queue[m] \in Nat /\ queue[m] > 0
    BY DEF IsABag, BagToSet, Add, SetToBag, (+)
  <2>2. ASSUME NEW m \in BagToSet(queue) \cup {n}, NEW i \in Nat
        PROVE  <<m, i>> \in Copies(Add(queue, n))
               <=> <<m, i>> \in Copies(queue) \/ <<m, i>> = <<n, k>>
    BY <2>1 DEF Copies
  <2>3. /\ Copies(Add(queue, n)) \subseteq (BagToSet(queue) \cup {n}) \X Nat
        /\ Copies(queue) \subseteq (BagToSet(queue) \cup {n}) \X Nat
        /\ <<n, k>> \in (BagToSet(queue) \cup {n}) \X Nat
    BY <1>1, <2>1 DEF Copies
  <2> HIDE DEF k
  <2> QED BY <2>2, <2>3
<1>3. <<n, k>> \notin Copies(queue)
  BY DEF Copies, IsABag, BagToSet
<1> HIDE DEF k
<1>4. <<n, k>>[1] = n /\ Work(n) \in Nat
  BY WorkType
<1> QED BY <1>2, <1>3, <1>4, UnitsOfMore DEF Units

(* What poll does to the work in a queue.                                  *)
LEMMA RemoveWork ==
  ASSUME NEW queue, IsABag(queue), IsFiniteSet(Units(queue)), NEW n \in NetType,
         n \in BagToSet(queue)
  PROVE  /\ IsFiniteSet(Units(Remove(queue, n)))
         /\ Cardinality(Units(Remove(queue, n))) = Cardinality(Units(queue)) - Work(n)
<1> DEFINE k == queue[n]
<1>1. k \in Nat /\ k > 0
  BY DEF IsABag, BagToSet
<1>2. Copies(Remove(queue, n)) = Copies(queue) \ {<<n, k>>}
  <2>1. /\ BagToSet(Remove(queue, n)) = BagToSet(queue) \ (IF k = 1 THEN {n} ELSE {})
        /\ k # 1 => Remove(queue, n)[n] = k - 1
        /\ \A m \in BagToSet(queue) : m # n => Remove(queue, n)[m] = queue[m]
        /\ \A m \in BagToSet(queue) : queue[m] \in Nat /\ queue[m] > 0
    BY DEF IsABag, BagToSet, Remove, SetToBag, (-)
  <2>2. ASSUME NEW m \in BagToSet(queue), NEW i \in Nat
        PROVE  <<m, i>> \in Copies(Remove(queue, n))
               <=> <<m, i>> \in Copies(queue) /\ <<m, i>> # <<n, k>>
    BY <1>1, <2>1 DEF Copies
  <2>3. /\ Copies(Remove(queue, n)) \subseteq BagToSet(queue) \X Nat
        /\ Copies(queue) \subseteq BagToSet(queue) \X Nat
    BY <2>1 DEF Copies
  <2> HIDE DEF k
  <2> QED BY <2>2, <2>3
<1>3. <<n, k>> \in Copies(queue)
  BY <1>1 DEF Copies
<1> HIDE DEF k
<1>4. <<n, k>>[1] = n /\ Work(n) \in Nat
  BY WorkType
<1> QED BY <1>2, <1>3, <1>4, UnitsOfLess DEF Units

(* What a guarded add does to the work in a queue, at most.                *)
LEMMA AddIfAbsentWork ==
  ASSUME NEW queue, IsABag(queue), IsFiniteSet(Units(queue)), NEW n \in NetType
  PROVE  LET more == AddIfAbsent(queue, n)
         IN  /\ IsFiniteSet(Units(more))
             /\ Cardinality(Units(more)) <= Cardinality(Units(queue)) + Work(n)
<1>1. Work(n) \in Nat /\ Cardinality(Units(queue)) \in Nat
  BY WorkType, FS_CardinalityType
<1>2. AddIfAbsent(queue, n) \in {queue, Add(queue, n)}
  BY Zenon DEF AddIfAbsent
<1>3. /\ IsFiniteSet(Units(Add(queue, n)))
      /\ Cardinality(Units(Add(queue, n))) = Cardinality(Units(queue)) + Work(n)
  BY AddWork
<1> HIDE DEF AddIfAbsent
<1> QED BY <1>1, <1>2, <1>3

(* The work in the queue, and in the routes that become one, is finite.    *)
FiniteInv ==
    /\ IsFiniteSet(Units(networks))
    /\ IsFiniteSet(Units(SetToBag(mIpAddresses)))

(* There is no work in an empty queue.                                     *)
LEMMA NoUnits == Units(EmptyBag) = {} /\ IsFiniteSet({}) /\ Cardinality({}) = 0
<1>1. Copies(EmptyBag) = {}
  BY NoBag DEF Copies
<1> QED BY <1>1, FS_EmptySet DEF Units, UnitsOf

(* A route more is one network more.                                       *)
LEMMA InsertFinite ==
  ASSUME NEW set, IsFiniteSet(Units(SetToBag(set))), NEW n \in NetType
  PROVE  IsFiniteSet(Units(SetToBag(Insert(set, n))))
<1>1. CASE Insert(set, n) = set
  BY <1>1
<1>2. CASE Insert(set, n) # set
  <2>1. Insert(set, n) = set \cup {n} /\ n \notin set
    BY <1>2 DEF Insert
  <2>2. Copies(SetToBag(set \cup {n})) = Copies(SetToBag(set)) \cup {<<n, 1>>}
    BY DEF Copies, SetToBag, BagToSet
  <2>3. <<n, 1>> \notin Copies(SetToBag(set))
    BY <2>1 DEF Copies, SetToBag, BagToSet
  <2>4. <<n, 1>>[1] = n /\ Work(n) \in Nat
    BY WorkType
  <2> QED BY <2>1, <2>2, <2>3, <2>4, UnitsOfMore DEF Units
<1> QED BY <1>1, <1>2

(* The next network becomes the current one.                               *)
LEMMA AdvancesWork ==
  ASSUME BaseInv, FiniteInv, Merging, NEW N \in Heads(networks),
         currentNet' = N, networks' = Remove(networks, N)
  PROVE  IsFiniteSet(Units(networks')) /\ Left \in Nat /\ Left' \in Nat /\ Left' < Left
<1>1. /\ N \in NetType /\ N \in BagToSet(networks) /\ IsABag(networks)
      /\ currentNet \in NetType /\ N # None /\ currentNet # None
  BY BaseFacts, NetTypes DEF Queue
<1>2. /\ IsFiniteSet(Units(networks'))
      /\ Cardinality(Units(networks')) = Cardinality(Units(networks)) - Work(N)
  BY <1>1, RemoveWork DEF FiniteInv
<1>3. Cardinality(Units(networks)) \in Nat /\ Cardinality(Units(networks')) \in Nat
  BY <1>2, FS_CardinalityType DEF FiniteInv
<1>4. Work(N) \in Nat \ {0} /\ Work(currentNet) \in Nat \ {0}
  BY <1>1, WorkType
<1>5. CurrentWork = Work(currentNet) /\ CurrentWork' = Work(N)
  BY <1>1 DEF CurrentWork, Work
<1> QED BY <1>2, <1>3, <1>4, <1>5 DEF Left

(* KeepCurrent leaves less work.                                           *)
LEMMA KeepShrinks ==
  ASSUME BaseInv, FiniteInv, KeepCurrent
  PROVE  FiniteInv' /\ Left \in Nat /\ Left' \in Nat /\ Left' < Left
<1>1. Merging /\ UNCHANGED mIpAddresses
  BY DEF KeepCurrent, Continue
<1>2. CASE networks' = networks /\ currentNet' = None
  <2>1. currentNet \in NetType /\ currentNet # None
    BY <1>1 DEF BaseInv, TypeInv, Merging
  <2>2. CurrentWork = Work(currentNet) /\ CurrentWork' = 0
    BY <1>2, <2>1 DEF CurrentWork
  <2>3. Cardinality(Units(networks)) \in Nat /\ Work(currentNet) \in Nat \ {0}
    BY <2>1, WorkType, FS_CardinalityType DEF FiniteInv
  <2> QED BY <1>1, <1>2, <2>2, <2>3 DEF Left, FiniteInv
<1>3. ASSUME NEW N \in Heads(networks), currentNet' = N, networks' = Remove(networks, N)
      PROVE  FiniteInv' /\ Left \in Nat /\ Left' \in Nat /\ Left' < Left
  BY <1>1, <1>3, AdvancesWork DEF FiniteInv
<1> QED BY <1>2, <1>3 DEF KeepCurrent, Continue

(* So does DropCurrent.                                                    *)
LEMMA DropShrinks ==
  ASSUME BaseInv, FiniteInv, DropCurrent
  PROVE  FiniteInv' /\ Left \in Nat /\ Left' \in Nat /\ Left' < Left
<1>1. Merging /\ UNCHANGED mIpAddresses
  BY DEF DropCurrent, Continue
<1>2. PICK N \in Heads(networks) : currentNet' = N /\ networks' = Remove(networks, N)
  BY DEF DropCurrent, Continue
<1> QED BY <1>1, <1>2, AdvancesWork DEF FiniteInv

(* So does IgnoreNext.                                                     *)
LEMMA IgnoreShrinks ==
  ASSUME BaseInv, FiniteInv, IgnoreNext
  PROVE  FiniteInv' /\ Left \in Nat /\ Left' \in Nat /\ Left' < Left
<1>1. Merging /\ UNCHANGED <<mIpAddresses, currentNet>>
  BY DEF IgnoreNext, Continue
<1>2. PICK N \in Heads(networks) : networks' = Remove(networks, N)
  BY DEF IgnoreNext, Continue
<1>3. /\ N \in NetType /\ N \in BagToSet(networks) /\ IsABag(networks)
      /\ currentNet \in NetType /\ currentNet # None
  BY <1>1, BaseFacts, NetTypes DEF Queue
<1>4. /\ IsFiniteSet(Units(networks'))
      /\ Cardinality(Units(networks')) = Cardinality(Units(networks)) - Work(N)
  BY <1>2, <1>3, RemoveWork DEF FiniteInv
<1>5. Cardinality(Units(networks)) \in Nat /\ Cardinality(Units(networks')) \in Nat
  BY <1>4, FS_CardinalityType DEF FiniteInv
<1>6. Work(N) \in Nat \ {0} /\ CurrentWork \in Nat /\ CurrentWork' = CurrentWork
  BY <1>1, <1>3, WorkType DEF CurrentWork
<1> QED BY <1>1, <1>4, <1>5, <1>6 DEF Left, FiniteInv

(* So does SplitNext.                                                      *)
LEMMA SplitNextShrinks ==
  ASSUME BaseInv, FiniteInv, SplitNext
  PROVE  FiniteInv' /\ Left \in Nat /\ Left' \in Nat /\ Left' < Left
<1>1. Merging /\ UNCHANGED <<mIpAddresses, currentNet>>
  BY DEF SplitNext, Continue
<1>2. PICK N \in Heads(networks) :
        /\ Within(N) /\ currentNet.included # N.included
        /\ LET rest == AddIfAbsent(Remove(networks, N), SecondHalf(N)) IN
           networks' = IF Last(FirstHalf(N)) = Last(currentNet) THEN rest
                       ELSE AddIfAbsent(rest, FirstHalf(N))
  BY DEF SplitNext, Continue
<1> DEFINE lower == Last(FirstHalf(N)) # Last(currentNet)
           lo == FirstHalf(N)
           up == SecondHalf(N)
           polled == Remove(networks, N)
           rest == AddIfAbsent(polled, up)
<1>3. /\ N \in NetType /\ N \in BagToSet(networks) /\ IsABag(networks)
      /\ currentNet \in NetType /\ currentNet # None
  BY <1>1, BaseFacts, NetTypes DEF Queue
<1>4. /\ N.mask <= Width /\ up \in NetType /\ up.mask = N.mask + 1
      /\ lower => lo \in NetType /\ lo.mask = N.mask + 1
  BY <1>1, <1>2, NextHalves
<1>5. /\ IsABag(polled) /\ IsFiniteSet(Units(polled))
      /\ Cardinality(Units(polled)) = Cardinality(Units(networks)) - Work(N)
  BY <1>3, RemoveSet, RemoveWork DEF FiniteInv
<1>6. networks' = IF lower THEN AddIfAbsent(rest, lo) ELSE rest
  BY <1>2, Zenon
<1> HIDE DEF lower, lo, up, polled
<1>7. /\ IsABag(rest) /\ IsFiniteSet(Units(rest))
      /\ Cardinality(Units(rest)) <= Cardinality(Units(polled)) + Work(up)
  BY <1>4, <1>5, AddIfAbsentSet, AddIfAbsentWork
<1> HIDE DEF rest
<1>8. lower => /\ IsFiniteSet(Units(networks'))
               /\ Cardinality(Units(networks')) <= Cardinality(Units(rest)) + Work(lo)
  BY <1>4, <1>6, <1>7, AddIfAbsentWork
<1>9. /\ Work(N) \in Nat /\ Work(up) \in Nat \ {0} /\ (lower => Work(lo) \in Nat \ {0})
      /\ Work(up) + Work(up) < Work(N) /\ (lower => Work(lo) + Work(up) < Work(N))
  BY <1>3, <1>4, WorkType, HalvesWork
<1>10. IsFiniteSet(Units(networks'))
  BY <1>6, <1>7, <1>8
<1>11. /\ Cardinality(Units(networks)) \in Nat /\ Cardinality(Units(networks')) \in Nat
       /\ Cardinality(Units(polled)) \in Nat /\ Cardinality(Units(rest)) \in Nat
  BY <1>5, <1>7, <1>10, FS_CardinalityType DEF FiniteInv
<1>12. CurrentWork \in Nat /\ CurrentWork' = CurrentWork
  BY <1>1, <1>3, WorkType DEF CurrentWork
<1>13. Cardinality(Units(networks')) < Cardinality(Units(networks))
  <2>1. CASE lower
    BY <1>5, <1>7, <1>8, <1>9, <1>11, <2>1
  <2>2. CASE ~lower
    BY <1>5, <1>6, <1>7, <1>9, <1>11, <2>2
  <2> QED BY <2>1, <2>2
<1> QED BY <1>1, <1>10, <1>11, <1>12, <1>13 DEF Left, FiniteInv

(* So does SplitCurrent.                                                   *)
LEMMA SplitCurrentShrinks ==
  ASSUME BaseInv, FiniteInv, SplitCurrent
  PROVE  FiniteInv' /\ Left \in Nat /\ Left' \in Nat /\ Left' < Left
<1> DEFINE up == SecondHalf(currentNet)
           lo == FirstHalf(currentNet)
<1>1. /\ Merging /\ UNCHANGED mIpAddresses /\ currentNet' = lo
  BY DEF SplitCurrent, Continue
<1>2. PICK N \in Heads(networks) :
        /\ Overlaps(N) /\ ~Within(N)
        /\ networks' = IF up.mask = N.mask THEN networks ELSE Add(networks, up)
  BY DEF SplitCurrent, Continue
<1>3. /\ currentNet \in NetType /\ Fits(currentNet) /\ IsABag(networks)
      /\ currentNet.mask < Width /\ currentNet.mask <= Width /\ currentNet # None
  BY <1>1, <1>2, BaseFacts, CurrentHalves, NetTypes, WidthAssumption
<1>4. /\ lo \in NetType /\ lo.mask = currentNet.mask + 1 /\ lo # None
      /\ up \in NetType /\ up.mask = currentNet.mask + 1
  BY <1>3, HalvesFit, NetTypes
<1> HIDE DEF lo, up
<1>5. /\ Work(lo) \in Nat \ {0} /\ Work(up) \in Nat \ {0} /\ Work(currentNet) \in Nat
      /\ Work(lo) + Work(up) < Work(currentNet)
  BY <1>3, <1>4, WorkType, HalvesWork
<1>6. CurrentWork = Work(currentNet) /\ CurrentWork' = Work(lo)
  BY <1>1, <1>3, <1>4 DEF CurrentWork, Work
<1>7. /\ IsFiniteSet(Units(Add(networks, up)))
      /\ Cardinality(Units(Add(networks, up))) = Cardinality(Units(networks)) + Work(up)
  BY <1>3, <1>4, AddWork DEF FiniteInv
<1>8. /\ IsFiniteSet(Units(networks')) /\ Cardinality(Units(networks)) \in Nat
      /\ Cardinality(Units(networks')) <= Cardinality(Units(networks)) + Work(up)
  BY <1>2, <1>5, <1>7, FS_CardinalityType DEF FiniteInv
<1>9. Cardinality(Units(networks')) \in Nat
  BY <1>8, FS_CardinalityType
<1> QED BY <1>1, <1>5, <1>6, <1>8, <1>9 DEF Left, FiniteInv

(* Every step keeps the work finite, and one of a merge takes some away.   *)
LEMMA StepShrinks ==
  ASSUME BaseInv, FiniteInv, Next
  PROVE  FiniteInv' /\ Shrinks
<1>1. CASE KeepCurrent
  BY <1>1, KeepShrinks DEF Shrinks
<1>2. CASE DropCurrent
  BY <1>2, DropShrinks DEF Shrinks
<1>3. CASE IgnoreNext
  BY <1>3, IgnoreShrinks DEF Shrinks
<1>4. CASE SplitNext
  BY <1>4, SplitNextShrinks DEF Shrinks
<1>5. CASE SplitCurrent
  BY <1>5, SplitCurrentShrinks DEF Shrinks
<1>6. ASSUME NEW n \in Route, AddIP(n)
      PROVE  FiniteInv' /\ Shrinks
  BY <1>6, RouteFits, InsertFinite DEF AddIP, FiniteInv, Merging, Shrinks
<1>7. CASE Generate
  <2>1. UNCHANGED mIpAddresses /\ ~Merging
    BY <1>7 DEF Generate, Merging
  <2>2. CASE UNCHANGED networks
    BY <2>1, <2>2 DEF FiniteInv, Shrinks
  <2>3. ASSUME NEW n \in Heads(SetToBag(mIpAddresses)),
               networks' = Remove(SetToBag(mIpAddresses), n)
        PROVE  FiniteInv'
    <3>1. n \in BagToSet(SetToBag(mIpAddresses)) /\ IsABag(SetToBag(mIpAddresses))
      BY SetBag DEF Heads
    <3>2. n \in NetType
      BY <3>1, SetBag, RouteFits DEF BaseInv, TypeInv
    <3> QED BY <2>1, <2>3, <3>1, <3>2, RemoveWork DEF FiniteInv
  <2> QED BY <1>7, <2>1, <2>2, <2>3 DEF Generate, Shrinks
<1>8. CASE Return
  BY <1>8 DEF Return, FiniteInv, Shrinks, Merging
<1>9. CASE Clear
  <2>1. mIpAddresses' = {} /\ networks' = networks /\ ~Merging
    BY <1>9 DEF Clear, Merging
  <2>2. IsFiniteSet(Units(SetToBag({})))
    BY NoUnits DEF EmptyBag
  <2> QED BY <2>1, <2>2 DEF FiniteInv, Shrinks
<1> QED BY <1>1, <1>2, <1>3, <1>4, <1>5, <1>6, <1>7, <1>8, <1>9 DEF Next, Merge

(* Every iteration of the merge leaves less to do, ties or not, and there  *)
(* is never less than nothing: the merge cannot run forever.               *)
THEOREM MergeShrinks == Spec => [][Shrinks]_vars
<1>1. Init => FiniteInv
  BY NoUnits DEF Init, FiniteInv, EmptyBag
<1>2. BaseInv /\ FiniteInv /\ [Next]_vars => FiniteInv' /\ [Shrinks]_vars
  <2>1. CASE UNCHANGED vars
    BY <2>1 DEF vars, FiniteInv
  <2> QED BY <2>1, StepShrinks
<1> QED BY <1>1, <1>2, BaseHolds, PTL DEF Spec
=============================================================================
