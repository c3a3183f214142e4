--------------------------- MODULE ServePageProofs ---------------------------
(***************************************************************************)
(* What Auto-configure promises and Start keeps, for any checkpoints,      *)
(* recipes, nodes and memory.                                              *)
(*                                                                         *)
(* The argument has two halves.  What the server answers is sound when it  *)
(* is computed (AnswerIsSound): it asks for no more ranks than there are   *)
(* nodes and those hold the weights, its image takes its backend, and its  *)
(* window fits the share it names.  What is sound of an answer stays so,   *)
(* since it speaks of the nodes the answer was made for; the page hands it *)
(* to a job (Filed) whose gate looks at the cluster of its own moment      *)
(* (Passed), and the launch at that of a later one (PageInv).              *)
(***************************************************************************)
EXTENDS ServePage, WellFoundedInduction, FiniteSetTheorems, SequenceTheorems, TLAPS

\* Bounded sets of numbers.
LEMMA LeastElement ==
  ASSUME NEW T, T \subseteq Nat, T # {}
  PROVE  \E x \in T : \A y \in T : x <= y
<1>. DEFINE R == OpToRel(<, Nat)
<1>1. IsWellFoundedOn(R, Nat)
  BY NatLessThanWellFounded
<1>2. \E x \in T : \A y \in T : ~ (<<y, x>> \in R)
  <2>. HIDE DEF R
  <2>. QED
    BY <1>1, WFMin
<1>3. \A x, y \in Nat : <<y, x>> \in R <=> y < x
  BY DEF OpToRel
<1>4. PICK x \in T : \A y \in T : ~ (<<y, x>> \in R)
  BY <1>2
<1>. HIDE DEF R
<1>5. \A y \in T : x <= y
  <2>. TAKE y \in T
  <2>1. x \in Nat /\ y \in Nat
    OBVIOUS
  <2>2. ~(y < x)
    BY <1>3, <1>4, <2>1
  <2>. QED
    BY <2>1, <2>2
<1>. QED
  BY <1>5

\* A bounded set of numbers has a greatest one.
LEMMA Greatest ==
  ASSUME NEW S, S \subseteq Nat, S # {}, NEW B \in Nat, \A x \in S : x <= B
  PROVE  /\ Max(S) \in S /\ Max(S) \in Nat
         /\ \A x \in S : x <= Max(S)
<1>. DEFINE T == {n \in Nat : B - n \in S}
<1>1. PICK x \in S : TRUE
  OBVIOUS
<1>2. B - x \in T
  <2>1. x \in Nat /\ x <= B
    OBVIOUS
  <2>2. B - x \in Nat /\ B - (B - x) = x
    BY <2>1
  <2>. QED
    BY <2>2
<1>3. PICK n \in T : \A m \in T : n <= m
  <2>1. T \subseteq Nat /\ T # {}
    BY <1>2
  <2>. HIDE DEF T
  <2>. QED
    BY <2>1, LeastElement
<1>4. \A y \in S : y <= B - n
  <2>. TAKE y \in S
  <2>1. y \in Nat /\ y <= B
    OBVIOUS
  <2>2. B - y \in Nat /\ B - (B - y) = y
    BY <2>1
  <2>3. B - y \in T
    BY <2>2
  <2>4. n <= B - y /\ n \in Nat
    BY <1>3, <2>3
  <2>. QED
    BY <2>1, <2>4
<1>5. \E z \in S : \A y \in S : z >= y
  <2>1. B - n \in S /\ B - n \in Nat
    OBVIOUS
  <2>2. \A y \in S : B - n >= y
    BY <1>4, <2>1
  <2>. QED
    BY <2>1, <2>2
<1>6. Max(S) \in S /\ \A y \in S : Max(S) >= y
  BY <1>5 DEF Max
<1>. QED
  BY <1>6

LEMMA GreaterOfTwo ==
  ASSUME NEW a \in Int, NEW b \in Int
  PROVE  Max({a, b}) = IF a <= b THEN b ELSE a
<1>1. PICK m \in {a, b} : \A y \in {a, b} : m >= y
  OBVIOUS
<1>2. Max({a, b}) \in {a, b} /\ \A y \in {a, b} : Max({a, b}) >= y
  BY <1>1 DEF Max
<1>. QED
  BY <1>2

LEMMA LesserOfTwo ==
  ASSUME NEW a \in Int, NEW b \in Int
  PROVE  Min({a, b}) = IF a <= b THEN a ELSE b
<1>1. PICK m \in {a, b} : \A y \in {a, b} : m <= y
  OBVIOUS
<1>2. Min({a, b}) \in {a, b} /\ \A y \in {a, b} : Min({a, b}) <= y
  BY <1>1 DEF Min
<1>. QED
  BY <1>2
-----------------------------------------------------------------------------
(* Placement                                                               *)

\* More nodes hold what fewer hold.
LEMMA HoldsOnMore ==
  ASSUME NEW w \in Nat, NEW n \in Nat, NEW k \in Nat, n <= k, Holds(w, n)
  PROVE  Holds(w, k)
<1>1. Ram \in Nat /\ Ram >= 19
  BY RamAssumption
<1>. DEFINE c == Ram * 85 - Reserve * 100
<1>2. c \in Nat
  BY <1>1 DEF Reserve
<1>3. w * 100 <= n * c
  BY DEF Holds
<1>4. n * c <= k * c
  <2>. HIDE DEF c
  <2>1. PICK d \in Nat : k = n + d
    <3>1. k - n \in Nat /\ k = n + (k - n)
      OBVIOUS
    <3>. QED
      BY <3>1
  <2>2. d * c \in Nat /\ k * c = n * c + d * c
    BY <1>2, <2>1
  <2>. QED
    BY <1>2, <2>2
<1>5. w * 100 <= k * c
  <2>. HIDE DEF c
  <2>1. n * c \in Nat /\ k * c \in Nat
    BY <1>2
  <2>. QED
    BY <1>3, <1>4, <2>1
<1>. QED
  BY <1>5 DEF Holds

LEMMA FitsOnMore ==
  ASSUME NEW w \in Nat, NEW n \in Nat, NEW k \in Nat, n <= k, Fits(w, n)
  PROVE  Fits(w, k)
BY HoldsOnMore DEF Fits

LEMMA Needed ==
  ASSUME NEW w \in Nat, NEW avail \in Nat \ {0}
  PROVE  /\ NodesNeeded(w, avail) \in 1..avail
         /\ Fits(w, avail) => Fits(w, NodesNeeded(w, avail))
<1>. DEFINE T == {n \in 1..avail : n = avail \/ Holds(w, n)}
<1>1. CASE w = 0
  BY <1>1 DEF NodesNeeded, Fits
<1>2. CASE w # 0
  <2>1. PICK n \in T : \A m \in T : n <= m
    <3>1. T \subseteq Nat /\ avail \in T
      OBVIOUS
    <3>. HIDE DEF T
    <3>. QED
      BY <3>1, LeastElement
  <2>2. \A k \in 1..(n - 1) : ~Holds(w, k)
    <3>. SUFFICES ASSUME NEW k \in 1..(n - 1), Holds(w, k) PROVE FALSE
      OBVIOUS
    <3>1. k \in T /\ k < n
      OBVIOUS
    <3>. QED
      BY <2>1, <3>1
  <2>3. \E m \in 1..avail : (m = avail \/ Holds(w, m)) /\ \A k \in 1..(m - 1) : ~Holds(w, k)
    BY <2>1, <2>2
  <2>. DEFINE N == NodesNeeded(w, avail)
  <2>4. N \in 1..avail /\ (N = avail \/ Holds(w, N))
    BY <1>2, <2>3 DEF NodesNeeded
  <2>. QED
    BY <1>2, <2>4 DEF Fits
<1>. QED
  BY <1>1, <1>2
-----------------------------------------------------------------------------
(* The share of memory                                                     *)

LEMMA Quotient ==
  ASSUME NEW a \in Nat, NEW b \in Nat \ {0}
  PROVE  /\ a \div b \in Nat
         /\ b * (a \div b) <= a /\ a < b * (a \div b) + b
OBVIOUS

\* 2998 and 2999 have no divisor between 51 and 150.
LEMMA NoDivisor ==
  ASSUME NEW R \in 51..150, NEW v \in Int, NEW x \in Int, x = v * R, x \in {2998, 2999}
  PROVE  FALSE
<1>1. v \in 20..58
  <2>1. v >= 20
    OBVIOUS
  <2>2. v <= 58
    OBVIOUS
  <2>. QED
    BY <2>1, <2>2
<1>. QED
  BY <1>1

\* On nodes of 30 GiB and more, half of the memory leaves the reserve free.
LEMMA CapIs ==
  ASSUME Ram >= 30
  PROVE  \E D \in Nat : /\ Cap = 10000 - D /\ 5000 <= Cap /\ Cap <= 9000
                        /\ D * Ram <= 150000 /\ 150000 < D * Ram + Ram
<1>1. Ram \in Nat /\ Ram <= 150
  BY RamAssumption
<1>2. PICK D \in Nat : D = 150000 \div Ram
  BY <1>1, Quotient
<1>3. Ram * D <= 150000 /\ 150000 < Ram * D + Ram
  BY <1>1, <1>2, Quotient
<1>4. D <= 5000
  <2>. SUFFICES ASSUME D >= 5001 PROVE FALSE
    OBVIOUS
  <2>1. Ram * D >= 30 * 5001
    BY <1>1
  <2>. QED
    BY <1>1, <1>3, <2>1
<1>5. D >= 1000
  <2>. SUFFICES ASSUME D <= 999 PROVE FALSE
    OBVIOUS
  <2>1. Ram * D <= 150 * 999
    BY <1>1
  <2>. QED
    BY <1>1, <1>3, <2>1
<1>6. (Reserve * 10000) \div Ram = D
  BY <1>2 DEF Reserve
<1>7. Max({5000, 10000 - D}) = 10000 - D
  BY <1>4, GreaterOfTwo
<1>8. Min({9000, 10000 - D}) = 10000 - D
  BY <1>5, LesserOfTwo
<1>9. Cap = 10000 - D
  <2>1. Cap = Min({9000, Max({5000, 10000 - (Reserve * 10000) \div Ram})})
    BY ONLY DEF Cap
  <2>. QED
    BY ONLY <1>6, <1>7, <1>8, <2>1
<1>10. D * Ram = Ram * D
  BY <1>1
<1>. QED
  BY <1>3, <1>4, <1>5, <1>9, <1>10

LEMMA GreatestOfThree ==
  ASSUME NEW a \in Nat, NEW b \in Nat, NEW c \in Nat
  PROVE  /\ Max({a, b, c}) \in {a, b, c}
         /\ a <= Max({a, b, c}) /\ b <= Max({a, b, c}) /\ c <= Max({a, b, c})
<1>1. \E m \in {a, b, c} : \A y \in {a, b, c} : m >= y
  OBVIOUS
<1>2. Max({a, b, c}) \in {a, b, c} /\ \A y \in {a, b, c} : Max({a, b, c}) >= y
  BY <1>1 DEF Max
<1>. QED
  BY <1>2

\* The share is above what is needed, but for the half a percent lost to rounding, and
\* leaves the reserve to the system.
LEMMA ShareHolds ==
  ASSUME Ram >= 30, NEW per \in Nat, NEW kv \in Nat, per + kv <= (Ram - Reserve - Pad) * 1024
  PROVE  /\ RecommendedUtil(per, kv) \in Nat
         /\ (per + kv + Pad * 1024) * 100 <= RecommendedUtil(per, kv) * Ram * 1024 + 512 * Ram
         /\ RecommendedUtil(per, kv) * Ram * 1024 - 512 * Ram <= (Ram - Reserve) * 1024 * 100
<1>1. Ram \in Nat /\ Ram <= 150
  BY RamAssumption
<1>2. PICK D \in Nat : /\ Cap = 10000 - D /\ 5000 <= Cap /\ Cap <= 9000
                       /\ D * Ram <= 150000 /\ 150000 < D * Ram + Ram
  BY CapIs
<1>3. PICK C \in Nat : C = Cap /\ C <= 9000 /\ 5000 <= C
  BY <1>2
<1>4. PICK T \in Nat : T = per + kv + Pad * 1024
  BY DEF Pad
<1>5. PICK Q \in Nat : Q = (T * 675) \div (Ram * 64) /\ T * 675 < (Ram * 64) * Q + Ram * 64
  <2>1. T * 675 \in Nat /\ Ram * 64 \in Nat \ {0}
    BY <1>1
  <2>. QED
    BY <2>1, Quotient
<1>6. PICK s \in Nat : s = Share(per + Reserve * 1024)
  <2>1. (per + Reserve * 1024) * 625 \in Nat /\ Ram * 64 \in Nat \ {0}
    BY <1>1 DEF Reserve
  <2>. QED
    BY <2>1, Quotient DEF Share
<1>7. PICK L \in Nat : L = Min({C, s}) /\ L <= C
  BY LesserOfTwo
<1>8. PICK M \in Nat : M = Max({L, Q, 5000}) /\ Q <= M /\ 5000 <= M
  <2>1. Max({L, Q, 5000}) \in {L, Q, 5000}
    BY GreatestOfThree
  <2>2. Q <= Max({L, Q, 5000}) /\ 5000 <= Max({L, Q, 5000})
    BY GreatestOfThree
  <2>. QED
    BY <2>1, <2>2
<1>9. PICK m \in Nat : m = Min({C, M}) /\ m <= C /\ (m = C \/ m = M)
  BY LesserOfTwo
<1>10. PICK u \in Nat : u = (m + 50) \div 100 /\ 100 * u <= m + 50 /\ m + 50 < 100 * u + 100
  <2>1. m + 50 \in Nat /\ 100 \in Nat \ {0}
    OBVIOUS
  <2>. QED
    BY <2>1, Quotient
<1>11. RecommendedUtil(per, kv) = u
  <2>. DEFINE need == ((per + kv + Pad * 1024) * 675) \div (Ram * 64)
              least == Min({Cap, Share(per + Reserve * 1024)})
  <2>1. RecommendedUtil(per, kv) = (Min({Cap, Max({least, need, 5000})}) + 50) \div 100
    BY ONLY DEF RecommendedUtil
  <2>2. (per + kv + Pad * 1024) * 675 = T * 675
    BY ONLY <1>4
  <2>3. need = Q
    BY ONLY <1>5, <2>2
  <2>4. least = L
    BY ONLY <1>3, <1>6, <1>7
  <2>. HIDE DEF need, least
  <2>5. RecommendedUtil(per, kv) = (Min({Cap, Max({L, Q, 5000})}) + 50) \div 100
    BY ONLY <2>1, <2>3, <2>4
  <2>6. Min({Cap, Max({L, Q, 5000})}) = m
    BY ONLY <1>3, <1>8, <1>9
  <2>. QED
    BY ONLY <1>10, <2>5, <2>6
<1>12. PICK X \in Nat : X = u * Ram
  BY <1>1
<1>13. PICK P \in Nat : P = C * Ram
  BY <1>1
<1>14. P <= 100 * X + 49 * Ram \/ m # C
  <2>. SUFFICES ASSUME C <= 100 * u + 49 PROVE C * Ram <= 100 * (u * Ram) + 49 * Ram
    BY <1>10, <1>12, <1>13
  <2>. QED
    BY <1>1
<1>15. P >= 10000 * Ram - 150000
  <2>1. C * Ram = 10000 * Ram - D * Ram
    BY <1>1, <1>2, <1>3
  <2>. QED
    BY <1>1, <1>2, <1>13, <2>1
<1>16. T <= (Ram - 15) * 1024
  BY <1>1, <1>4 DEF Reserve, Pad
<1>17. T * 100 <= X * 1024 + 512 * Ram
  <2>1. CASE m = C
    BY <1>1, <1>14, <1>15, <1>16, <2>1
  <2>2. CASE m = M
    <3>1. Q + 1 <= 100 * u + 50
      BY <1>8, <1>10, <2>2
    <3>2. Ram * Q + Ram <= 100 * X + 50 * Ram
      <4>1. Ram * (Q + 1) <= Ram * (100 * u + 50)
        BY <1>1, <3>1
      <4>2. Ram * (Q + 1) = Ram * Q + Ram /\ Ram * (100 * u + 50) = 100 * (u * Ram) + 50 * Ram
        BY <1>1
      <4>. QED
        BY <1>12, <4>1, <4>2
    <3>3. PICK Y \in Nat : Y = Ram * Q /\ (Ram * 64) * Q = 64 * Y
      BY <1>1
    <3>. QED
      BY <1>1, <1>5, <3>2, <3>3
  <2>. QED
    BY <1>9, <2>1, <2>2
<1>18. X * 1024 - 512 * Ram <= (Ram - 15) * 102400
  <2>. SUFFICES ASSUME ~(X * 1024 - 512 * Ram <= (Ram - 15) * 102400) PROVE FALSE
    OBVIOUS
  <2>. DEFINE v == 201 - 2 * u
  <2>1. PICK x \in Int : x = v * Ram /\ x = 201 * Ram - 2 * X
    BY <1>1, <1>12
  <2>2. x <= 2999
    BY <1>1, <2>1
  <2>3. D <= 50 * v
    BY <1>2, <1>3, <1>9, <1>10
  <2>4. D * Ram <= 50 * x
    BY <1>1, <2>1, <2>3
  <2>5. 150000 < 50 * x + Ram
    BY <1>1, <1>2, <2>4
  <2>6. x \in {2998, 2999} /\ Ram \in 51..150
    BY <1>1, <2>2, <2>5
  <2>. HIDE DEF v
  <2>7. v \in Int
    BY DEF v
  <2>. QED
    BY <2>1, <2>6, <2>7, NoDivisor
<1>. QED
  <2>1. u * Ram * 1024 = X * 1024
    BY <1>12
  <2>2. (Ram - Reserve) * 1024 * 100 = (Ram - 15) * 102400
    BY <1>1 DEF Reserve
  <2>. QED
    BY <1>4, <1>11, <1>17, <1>18, <2>1, <2>2

\* A set of pairs of bounded numbers has a lexicographically greatest one.
LEMMA LexGreatest ==
  ASSUME NEW S, S \subseteq Nat \X Nat, S # {}, NEW A \in Nat, NEW B \in Nat,
         \A p \in S : p[1] <= A /\ p[2] <= B
  PROVE  \E p \in S : \A q \in S : q[1] < p[1] \/ (q[1] = p[1] /\ q[2] <= p[2])
<1>. DEFINE F == {p[1] : p \in S}
<1>1. PICK a \in Nat : a \in F /\ \A x \in F : x <= a
  <2>1. F \subseteq Nat /\ F # {} /\ \A x \in F : x <= A
    OBVIOUS
  <2>. HIDE DEF F
  <2>. QED
    BY <2>1, Greatest
<1>. DEFINE G == {p[2] : p \in {p \in S : p[1] = a}}
<1>2. PICK b \in Nat : b \in G /\ \A x \in G : x <= b
  <2>1. G \subseteq Nat /\ \A x \in G : x <= B
    OBVIOUS
  <2>2. G # {}
    BY <1>1
  <2>. HIDE DEF G
  <2>. QED
    BY <2>1, <2>2, Greatest
<1>3. PICK p \in S : p[1] = a /\ p[2] = b
  BY <1>2
<1>4. \A q \in S : q[1] <= a /\ (q[1] = a => q[2] <= b)
  BY <1>1, <1>2
<1>. HIDE DEF F, G
<1>. QED
  <2>1. \A q \in S : q[1] \in Nat /\ q[2] \in Nat
    OBVIOUS
  <2>2. ASSUME NEW q \in S PROVE q[1] < p[1] \/ (q[1] = p[1] /\ q[2] <= p[2])
    BY <1>3, <1>4, <2>1
  <2>. QED
    BY <2>2

\* The window and the sequences the sizing comes to fit the memory that is left.
SizedWithin(window, seqs, per, kv) ==
  \E a \in Nat, b \in Nat :
     /\ SizeMemory(window, seqs, per, kv) =
          [window |-> a, seqs |-> b, util |-> RecommendedUtil(per, a * Default(b, 4) * kv)]
     /\ a <= window /\ a * Default(b, 4) * kv <= Budget(per)

LEMMA Sizing ==
  ASSUME NEW window \in Nat \ {0}, NEW seqs \in Nat, NEW per \in Nat, NEW kv \in Nat,
         8 * 1024 <= Budget(per), 2 * kv <= Budget(per)
  PROVE  SizedWithin(window, seqs, per, kv)
<1>. DEFINE demand == Default(seqs, 4)
            rungs == {window} \cup {l \in Ladder : l < window}
            counts == {n \in {demand, 4, 2, 1} : n <= demand}
            fitting == {p \in rungs \X counts : p[1] * p[2] * kv <= Budget(per)}
            best == IF fitting = {} THEN <<2, 1>>
                    ELSE CHOOSE p \in fitting : \A q \in fitting :
                           q[1] < p[1] \/ (q[1] = p[1] /\ q[2] <= p[2])
<1>0. Budget(per) \in Int
  BY RamAssumption DEF Budget, Reserve, Pad
<1>1. demand \in Nat \ {0} /\ (seqs # 0 => demand = seqs)
  BY DEF Default
<1>2. rungs \subseteq Nat /\ \A x \in rungs : x <= window
  BY DEF Ladder
<1>3. counts \subseteq Nat \ {0} /\ \A x \in counts : x <= demand
  BY <1>1
<1>4. fitting # {}
  <2>. DEFINE x == IF window <= 2 THEN window ELSE 2
  <2>1. x \in rungs /\ 1 \in counts /\ x \in Nat /\ x <= 2
    BY <1>1 DEF Ladder
  <2>2. x * 1 * kv <= 2 * kv
    BY <2>1
  <2>3. x * 1 * kv <= Budget(per)
    BY <1>0, <2>1, <2>2
  <2>. HIDE DEF x, rungs, counts
  <2>4. <<x, 1>> \in fitting
    BY <2>1, <2>3
  <2>. QED
    BY <2>4
<1>5. \E p \in fitting : \A q \in fitting : q[1] < p[1] \/ (q[1] = p[1] /\ q[2] <= p[2])
  <2>1. fitting \subseteq Nat \X Nat /\ \A p \in fitting : p[1] <= window /\ p[2] <= demand
    BY <1>2, <1>3
  <2>2. window \in Nat /\ demand \in Nat
    BY <1>1
  <2>. HIDE DEF fitting, demand
  <2>. QED
    BY ONLY <1>4, <2>1, <2>2, LexGreatest
<1>6. best \in fitting
  <2>. HIDE DEF fitting
  <2>. QED
    BY <1>4, <1>5
<1>7. PICK a \in Nat, c \in Nat \ {0} : /\ a = best[1] /\ c = best[2] /\ a <= window
                         /\ c <= demand /\ a * c * kv <= Budget(per)
  <2>1. PICK p \in rungs \X counts : p = best /\ p[1] * p[2] * kv <= Budget(per)
    <3>. HIDE DEF best
    <3>. QED
      BY <1>6
  <2>2. p[1] \in Nat /\ p[1] <= window
    BY <1>2
  <2>3. p[2] \in Nat \ {0} /\ p[2] <= demand
    BY <1>3
  <2>. HIDE DEF best, rungs, counts, demand
  <2>. QED
    BY <2>1, <2>2, <2>3
<1>8. PICK b \in Nat : b = IF c = demand THEN seqs ELSE c
  OBVIOUS
<1>9. Default(b, 4) = c
  BY <1>8 DEF Default
<1>10. SizeMemory(window, seqs, per, kv) =
         [window |-> best[1], seqs |-> IF best[2] = demand THEN seqs ELSE best[2],
          util |-> RecommendedUtil(per, best[1] * best[2] * kv)]
  <2>1. ~(window = 0 \/ Budget(per) < 8 * 1024)
    BY <1>0
  <2>2. SizeMemory(window, seqs, per, kv) =
          IF window = 0 \/ Budget(per) < 8 * 1024
          THEN [window |-> window, seqs |-> seqs, util |-> RecommendedUtil(per, 0)]
          ELSE [window |-> best[1], seqs |-> IF best[2] = demand THEN seqs ELSE best[2],
                util |-> RecommendedUtil(per, best[1] * best[2] * kv)]
    BY ONLY DEF SizeMemory
  <2>. HIDE DEF best, demand
  <2>. QED
    BY ONLY <2>1, <2>2, Zenon
<1>. HIDE DEF best, demand
<1>11. SizeMemory(window, seqs, per, kv) =
         [window |-> a, seqs |-> b, util |-> RecommendedUtil(per, a * c * kv)]
  BY ONLY <1>7, <1>8, <1>10
<1>. QED
  BY <1>7, <1>9, <1>11 DEF SizedWithin
-----------------------------------------------------------------------------
(* Weights                                                                 *)

Pick(s) == CHOOSE x \in s : TRUE
Upto(S, n) == {s \in SUBSET S : Cardinality(s) <= n}
\* g adds up the sizes of the files in each set of D.
Sums(g, D) ==
  g = [s \in D |-> IF s = {} THEN 0 ELSE Pick(s).gib + g[s \ {Pick(s)}]]

LEMMA Smaller ==
  ASSUME NEW s, IsFiniteSet(s), s # {}
  PROVE  /\ Pick(s) \in s /\ IsFiniteSet(s \ {Pick(s)})
         /\ Cardinality(s) \in Nat \ {0} /\ Cardinality(s \ {Pick(s)}) = Cardinality(s) - 1
<1>1. Pick(s) \in s
  BY DEF Pick
<1>2. IsFiniteSet(s \ {Pick(s)}) /\ Cardinality(s \ {Pick(s)}) = Cardinality(s) - 1
  BY <1>1, FS_RemoveElement
<1>3. Cardinality(s) \in Nat /\ Cardinality(s) # 0
  BY FS_CardinalityType, FS_EmptySet
<1>. QED
  BY <1>1, <1>2, <1>3

LEMMA SumsExist ==
  ASSUME NEW S, IsFiniteSet(S)
  PROVE  \E g : Sums(g, SUBSET S)
<1>. DEFINE T == {n \in Nat : ~ \E g : Sums(g, Upto(S, n))}
<1>1. \A s \in SUBSET S : IsFiniteSet(s) /\ Cardinality(s) \in Nat /\ Cardinality(s) <= Cardinality(S)
  BY FS_Subset, FS_CardinalityType
<1>2. T = {}
  <2>. SUFFICES ASSUME T # {} PROVE FALSE
    OBVIOUS
  <2>1. PICK n \in T : \A m \in T : n <= m
    <3>1. T \subseteq Nat
      OBVIOUS
    <3>. HIDE DEF T
    <3>. QED
      BY <3>1, LeastElement
  <2>2. CASE n = 0
    <3>1. \A s \in Upto(S, 0) : s = {}
      BY <1>1, FS_EmptySet DEF Upto
    <3>2. Sums([s \in Upto(S, 0) |-> 0], Upto(S, 0))
      BY <3>1 DEF Sums
    <3>. QED
      BY <2>1, <2>2, <3>2
  <2>3. CASE n # 0
    <3>1. PICK k \in Nat : n = k + 1
      <4>1. n - 1 \in Nat /\ n = (n - 1) + 1
        BY <2>3
      <4>. QED
        BY <4>1
    <3>2. PICK g : Sums(g, Upto(S, k))
      <4>1. k \notin T
        BY <2>1, <3>1
      <4>. QED
        BY <4>1
    <3>. DEFINE h == [s \in Upto(S, n) |-> IF s = {} THEN 0 ELSE Pick(s).gib + g[s \ {Pick(s)}]]
    <3>3. ASSUME NEW s \in Upto(S, k) PROVE g[s] = h[s] /\ s \in Upto(S, n)
      <4>1. s \in Upto(S, n)
        BY <1>1, <3>1 DEF Upto
      <4>2. g[s] = IF s = {} THEN 0 ELSE Pick(s).gib + g[s \ {Pick(s)}]
        BY <3>2 DEF Sums
      <4>. QED
        BY <4>1, <4>2
    <3>4. ASSUME NEW s \in Upto(S, n), s # {} PROVE s \ {Pick(s)} \in Upto(S, k)
      <4>1. IsFiniteSet(s) /\ s \in SUBSET S /\ Cardinality(s) <= k + 1
        BY <1>1, <3>1 DEF Upto
      <4>2. Cardinality(s) \in Nat \ {0} /\ Cardinality(s \ {Pick(s)}) = Cardinality(s) - 1
        BY <3>4, <4>1, Smaller
      <4>. QED
        BY <4>1, <4>2 DEF Upto
    <3>5. ASSUME NEW s \in Upto(S, n)
          PROVE h[s] = IF s = {} THEN 0 ELSE Pick(s).gib + h[s \ {Pick(s)}]
      <4>1. s # {} => h[s \ {Pick(s)}] = g[s \ {Pick(s)}]
        <5>. HIDE DEF h
        <5>. QED
          BY <3>3, <3>4
      <4>. QED
        BY <4>1
    <3>6. Sums(h, Upto(S, n))
      <4>1. h = [s \in Upto(S, n) |-> h[s]]
        OBVIOUS
      <4>. HIDE DEF h
      <4>. QED
        BY <3>5, <4>1 DEF Sums
    <3>. HIDE DEF h
    <3>. QED
      BY <2>1, <3>6
  <2>. QED
    BY <2>2, <2>3
<1>3. Cardinality(S) \in Nat /\ Upto(S, Cardinality(S)) = SUBSET S
  BY <1>1, FS_CardinalityType DEF Upto
<1>. HIDE DEF T
<1>4. \E g : Sums(g, Upto(S, Cardinality(S)))
  BY <1>2, <1>3 DEF T
<1>. QED
  BY <1>3, <1>4

LEMMA TotalIsNumber ==
  ASSUME NEW S, IsFiniteSet(S), \A b \in S : b.gib \in Nat
  PROVE  Total(S) \in Nat
<1>. DEFINE g == CHOOSE g : g = [s \in SUBSET S |-> IF s = {} THEN 0 ELSE Pick(s).gib + g[s \ {Pick(s)}]]
<1>1. Total(S) = g[S]
  BY DEF Total, MapThenSumSet, MapThenFoldSet, Pick
<1>2. Sums(g, SUBSET S)
  BY SumsExist DEF Sums
<1>. HIDE DEF g
<1>. DEFINE T == {n \in Nat : \E s \in SUBSET S : Cardinality(s) = n /\ g[s] \notin Nat}
<1>3. \A s \in SUBSET S : IsFiniteSet(s) /\ Cardinality(s) \in Nat
  BY FS_Subset, FS_CardinalityType
<1>4. ASSUME T # {} PROVE FALSE
  <2>1. PICK n \in T : \A m \in T : n <= m
    <3>1. T \subseteq Nat
      OBVIOUS
    <3>. HIDE DEF T
    <3>. QED
      BY <1>4, <3>1, LeastElement
  <2>2. PICK s \in SUBSET S : Cardinality(s) = n /\ g[s] \notin Nat
    BY <2>1
  <2>3. g[s] = IF s = {} THEN 0 ELSE Pick(s).gib + g[s \ {Pick(s)}]
    BY <1>2 DEF Sums
  <2>4. s # {}
    BY <2>2, <2>3
  <2>5. Pick(s) \in S /\ s \ {Pick(s)} \in SUBSET S /\ n \in Nat \ {0} /\ Cardinality(s \ {Pick(s)}) = n - 1
    BY <1>3, <2>2, <2>4, Smaller
  <2>6. n - 1 \notin T
    BY <2>1, <2>5
  <2>7. g[s \ {Pick(s)}] \in Nat
    BY <2>5, <2>6
  <2>. QED
    BY <2>2, <2>3, <2>4, <2>5, <2>7
<1>5. g[S] \in Nat
  <2>1. S \in SUBSET S /\ Cardinality(S) \in Nat
    BY FS_CardinalityType
  <2>. QED
    BY <1>4, <2>1
<1>. QED
  BY <1>1, <1>5
-----------------------------------------------------------------------------
(* Weights and caches                                                      *)

LEMMA PartOfFiles ==
  ASSUME NEW f, Described(f), NEW S \in SUBSET f.files
  PROVE  Total(S) \in Nat
<1>1. IsFiniteSet(f.files) /\ \A b \in f.files : b.gib \in Nat
  BY DEF Described
<1>2. IsFiniteSet(S)
  BY <1>1, FS_Subset
<1>. QED
  BY <1>1, <1>2, TotalIsNumber

LEMMA MeasureIsNumber ==
  ASSUME NEW f, Described(f)
  PROVE  HubBlobMeasure(f) \in Nat
<1>1. \A S, d : Part(S, d) \subseteq S
  BY DEF Part
<1>2. \A S : Safetensors(S) \subseteq S
  BY DEF Safetensors
<1>3. \A S : SelectWeightBlobs(S) \subseteq S
  BY <1>1, <1>2 DEF SelectWeightBlobs
<1>4. \A S : PickSparkGguf(S) \subseteq S
  BY <1>1 DEF PickSparkGguf
<1>. DEFINE gguf == {b \in f.files : b.format = "gguf"}
            chosen == IF gguf = f.files THEN PickSparkGguf(gguf) ELSE SelectWeightBlobs(f.files \ gguf)
<1>5. chosen \in SUBSET f.files
  BY <1>3, <1>4
<1>6. HubBlobMeasure(f) = Total(chosen)
  BY DEF HubBlobMeasure
<1>. HIDE DEF chosen
<1>. QED
  BY <1>5, <1>6, PartOfFiles

LEMMA WeightIsNumber ==
  ASSUME NEW f, Described(f), NEW net \in BOOLEAN, NEW config \in BOOLEAN
  PROVE  EstimateWeights(f, net, config) \in Nat
<1>1. HubBlobMeasure(f) \in Nat
  BY MeasureIsNumber
<1>2. f.index \in Nat /\ f.heuristic \in Nat /\ f.floor \in Nat
  BY DEF Described
<1>3. PICK a \in Nat : a = WeightFloor(f, config)
  BY <1>2 DEF WeightFloor
<1>4. PICK b \in Nat : b = IF config THEN f.heuristic ELSE 0
  BY <1>2
<1>5. Max({a, b}) \in Nat
  BY GreaterOfTwo
<1>. QED
  BY <1>1, <1>2, <1>3, <1>4, <1>5 DEF EstimateWeights

LEMMA CacheIsNumber ==
  ASSUME NEW shape \in [layers : Nat, attending : Nat, heads : Nat, dim : Nat],
         NEW latent \in BOOLEAN, NEW dtype
  PROVE  KvCache(shape, latent, dtype) \in Nat
<1>. DEFINE attending == Default(shape.attending, shape.layers)
            width == HalfBytes(dtype)
            layer == IF width = 1 THEN 640 ELSE 1168
            bytes == IF latent THEN shape.layers * layer ELSE attending * 2 * shape.heads * shape.dim * width
<1>1. attending \in Nat
  BY DEF Default
<1>2. width \in Nat /\ layer \in Nat
  BY DEF HalfBytes
<1>2a. bytes \in Nat
  <2>. HIDE DEF attending, width, layer
  <2>1. PICK a \in Nat, b \in Nat, c \in Nat, d \in Nat :
          a = attending /\ b = shape.heads /\ c = shape.dim /\ d = width
    BY <1>1, <1>2
  <2>2. a * 2 * b * c * d \in Nat
    OBVIOUS
  <2>3. shape.layers * layer \in Nat
    BY <1>2
  <2>. QED
    BY <2>1, <2>2, <2>3
<1>3. KvCache(shape, latent, dtype) = (bytes * 11) \div 2560
  BY DEF KvCache
<1>. HIDE DEF bytes
<1>4. bytes * 11 \in Nat
  BY <1>2a
<1>. QED
  BY <1>3, <1>4, Quotient

-----------------------------------------------------------------------------
(* Recipes                                                                 *)

\* A form's fields that are numbers, as far as they are computed with.
Shaped(c) ==
  /\ {"moe", "image", "window", "seqs", "mtp"} \subseteq DOMAIN c
  /\ c.window \in Nat /\ c.seqs \in Nat

LEMMA Reshaped ==
  ASSUME NEW c, Shaped(c), NEW v
  PROVE  /\ Shaped([c EXCEPT !.moe = v]) /\ Shaped([c EXCEPT !.image = v]) /\ Shaped([c EXCEPT !.mtp = v])
         /\ v \in Nat => Shaped([c EXCEPT !.window = v]) /\ Shaped([c EXCEPT !.seqs = v])
BY DEF Shaped

LEMMA ScoreIsBounded ==
  ASSUME NEW r \in Recipe, NEW det
  PROVE  Score(r, det) \in Int /\ -1000 <= Score(r, det) /\ Score(r, det) <= 1000
<1>. DEFINE unsafe == Unsafe(r.moe, det, r.image)
            s == Section[r.at]
            a == Worth(r.moe \notin {"", "humming"} /\ ~unsafe, 25)
            b == Worth(r.cute, 35)
            n == Worth(r.kv # "", 10)
            c == Worth(r.quant, 20)
            d == Worth(r.seqs > 0, 8)
            e == Worth(r.mtp, -25)
            g == Worth(r.window = 1, -25)
            h == Worth(r.window >= 8, 8)
            i == Worth(Bare(r), IF det.method # "none" \/ det.moe \/ det.nvfp4 THEN -20 ELSE 1)
            j == Worth(~Bare(r) /\ ~r.quant /\ r.moe = "" /\ ~r.cute, 3)
            k == Worth(r.quant /\ det.method # "none", 15)
            l == Worth(unsafe, -80)
            m == Worth(unsafe /\ (r.cute \/ r.at = "spark"), 55)
<1>1. s \in -30..50
  <2>1. r.at \in DOMAIN Section
    BY DEF Recipe
  <2>. QED
    BY <2>1 DEF Section
<1>2. a \in 0..25
  BY DEF Worth
<1>3. b \in 0..35 /\ c \in 0..20 /\ n \in 0..10 /\ d \in 0..8
  BY DEF Worth
<1>4. e \in -25..0 /\ g \in -25..0 /\ h \in 0..8
  BY DEF Worth
<1>5. i \in -20..1
  BY DEF Worth
<1>6. j \in 0..3 /\ k \in 0..15 
  BY DEF Worth
<1>7. l \in -80..0 /\ m \in 0..55
  <2>. HIDE DEF unsafe
  <2>. QED
    BY DEF Worth
<1>8. Score(r, det) = s + a + b + c + n + d + e + g + h + i + j + k + l + m
  BY ONLY DEF Score
<1>. HIDE DEF s, a, b, c, n, d, e, g, h, i, j, k, l, m
<1>. QED
  BY ONLY <1>1, <1>2, <1>3, <1>4, <1>5, <1>6, <1>7, <1>8

LEMMA BestIsOne ==
  ASSUME NEW C, C # {}, \A c \in C : c.score \in Int /\ -1000 <= c.score /\ c.score <= 1000
  PROVE  Best(C) \in C
<1>. DEFINE S == {c.score + 1000 : c \in C}
<1>1. S \subseteq Nat /\ S # {} /\ \A x \in S : x <= 2000
  OBVIOUS
<1>2. PICK m \in S : \A x \in S : x <= m
  <2>1. PICK B \in Nat : \A x \in S : x <= B
    <3>. HIDE DEF S
    <3>. WITNESS 2000 \in Nat
    <3>. QED
      BY <1>1
  <2>2. S \subseteq Nat /\ S # {} /\ \A x \in S : x <= B
    BY <1>1, <2>1
  <2>. HIDE DEF S
  <2>. QED
    BY ONLY <2>1, <2>2, Greatest
<1>3. PICK c \in C : m = c.score + 1000
  OBVIOUS
<1>4. \A d \in C : d.score <= c.score
  <2>. TAKE d \in C
  <2>1. d.score + 1000 <= m
    BY <1>2
  <2>. QED
    BY <1>3, <2>1
<1>. QED
  BY <1>4 DEF Best

LEMMA CandidateIsShaped ==
  ASSUME NEW f, Described(f), NEW det, NEW card \in BOOLEAN, NEW web \in BOOLEAN,
         NEW c \in Candidates(f, det, card, web)
  PROVE  Shaped(c.recipe) /\ c.score \in Int /\ -1000 <= c.score /\ c.score <= 1000
<1>1. \A r \in Recipe : Shaped(Sanitized(r, det))
  <2>. TAKE r \in Recipe
  <2>1. Shaped(r)
    BY DEF Recipe, Shaped
  <2>. QED
    BY <2>1, Reshaped DEF Sanitized
<1>2. \A R : R \subseteq Recipe => \A x \in Scored(R, det) :
        Shaped(x.recipe) /\ x.score \in Int /\ -1000 <= x.score /\ x.score <= 1000
  BY <1>1, ScoreIsBounded DEF Scored
<1>3. f.recipes \subseteq Recipe /\ {r \in f.vendor : ~r.foreign} \subseteq Recipe
  BY DEF Described
<1>. QED
  BY <1>2, <1>3 DEF Candidates

\* The winning recipe is one of them.
LEMMA WinnerIsShaped ==
  ASSUME NEW f, Described(f), NEW det, NEW card \in BOOLEAN, NEW web \in BOOLEAN,
         Candidates(f, det, card, web) # {}
  PROVE  Shaped(Best(Candidates(f, det, card, web)).recipe)
BY CandidateIsShaped, BestIsOne

-----------------------------------------------------------------------------
(* Images and backends                                                     *)

LEMMA Resolved ==
  ASSUME NEW cfg, NEW f, NEW det, NEW pins
  PROVE  /\ cfg.image = Anemll => ResolveImage(cfg, f, det, pins) = Anemll
         /\ cfg.image # Anemll /\ f.playbook => ResolveImage(cfg, f, det, pins) = Playbook
         /\ cfg.image # Anemll /\ ~f.playbook =>
              /\ ResolveImage(cfg, f, det, pins) \in 1..100
              /\ cfg.image \in 1..100 => cfg.image <= ResolveImage(cfg, f, det, pins)
<1>. DEFINE S == {i \in {cfg.image, Lab, NeededImage(det, cfg.moe)} \cup pins : Stock(i)}
<1>1. S \subseteq 1..100 /\ Lab \in S /\ (cfg.image \in 1..100 => cfg.image \in S)
  BY LabAssumption DEF Stock
<1>2. PICK B \in Nat : B = 100
  OBVIOUS
<1>3. S \subseteq Nat /\ S # {} /\ \A x \in S : x <= B
  BY <1>1, <1>2
<1>4. Max(S) \in S /\ \A x \in S : x <= Max(S)
  <2>. HIDE DEF S
  <2>. QED
    BY ONLY <1>2, <1>3, Greatest
<1>5. ResolveImage(cfg, f, det, pins) =
        IF cfg.image = Anemll THEN Anemll ELSE IF f.playbook THEN Playbook ELSE Max(S)
  BY ONLY DEF ResolveImage
<1>. HIDE DEF S
<1>. QED
  BY <1>1, <1>4, <1>5

\* An image that was resolved once is resolved to no older one.
LEMMA ImageRises ==
  ASSUME NEW c0, NEW c1, NEW f, NEW det, NEW p0, NEW p1,
         c1.image = ResolveImage(c0, f, det, p0), AtLeast27(c1.image)
  PROVE  AtLeast27(ResolveImage(c1, f, det, p1))
<1>1. CASE c1.image = Anemll
  BY <1>1, Resolved
<1>2. CASE c1.image # Anemll /\ f.playbook
  <2>1. ResolveImage(c1, f, det, p1) = Playbook
    BY <1>2, Resolved
  <2>. QED
    BY <2>1 DEF AtLeast27, Stock, Playbook
<1>3. CASE c1.image # Anemll /\ ~f.playbook
  <2>1. c0.image # Anemll
    BY <1>3, Resolved
  <2>2. c1.image \in 1..100
    BY <1>3, <2>1, Resolved
  <2>3. ResolveImage(c1, f, det, p1) \in 1..100 /\ c1.image <= ResolveImage(c1, f, det, p1)
    BY <1>3, <2>2, Resolved
  <2>. QED
    BY <2>2, <2>3 DEF AtLeast27, Stock
<1>. QED
  BY <1>1, <1>2, <1>3

\* A newer image takes every backend an older one takes.
LEMMA UnsafeFalls ==
  ASSUME NEW moe, NEW det, NEW i, NEW j, AtLeast27(i) => AtLeast27(j), ~Unsafe(moe, det, i)
  PROVE  ~Unsafe(moe, det, j)
BY DEF Unsafe, B12xUnsafe, MarlinUnsafe

LEMMA NoBackendIsSafe ==
  ASSUME NEW det, NEW i
  PROVE  ~Unsafe("", det, i)
BY DEF Unsafe
-----------------------------------------------------------------------------
(* A vLLM form, step by step                                               *)

LEMMA SafeForm ==
  ASSUME NEW c, Shaped(c), NEW det
  PROVE  Shaped(Safe(c, det)) /\ Safe(c, det).image = c.image
BY DEF Safe, Shaped

LEMMA OverlayForm ==
  ASSUME NEW c, Shaped(c), NEW f, Described(f)
  PROVE  /\ Shaped(OverlayApplied(c, f.overlay))
         /\ f.overlay = NoOverlay => OverlayApplied(c, f.overlay) = c
<1>. DEFINE o == f.overlay
<1>1. o.window \in Nat /\ o.seqs \in Nat
  BY DEF Described
<1>. HIDE DEF o
<1>2. ASSUME o.kind # "none" PROVE Shaped(OverlayApplied(c, o))
  <2>1. Default(o.window, c.window) \in Nat /\ Default(o.seqs, c.seqs) \in Nat
    BY <1>1 DEF Default, Shaped
  <2>. QED
    BY <1>2, <2>1 DEF OverlayApplied, Shaped
<1>3. NoOverlay.kind = "none"
  BY DEF NoOverlay
<1>4. Shaped(OverlayApplied(c, o)) /\ (o = NoOverlay => OverlayApplied(c, o) = c)
  <2>1. o.kind = "none" => OverlayApplied(c, o) = c
    BY DEF OverlayApplied
  <2>2. o.kind # "none" => Shaped(OverlayApplied(c, o))
    BY <1>2
  <2>. QED
    BY <1>3, <2>1, <2>2
<1>. QED
  BY <1>4 DEF o

LEMMA FirstBootForm ==
  ASSUME NEW c, Shaped(c), NEW det
  PROVE  /\ Shaped(FirstBoot(c, det)) /\ FirstBoot(c, det).image = c.image
         /\ ~Unsafe(FirstBoot(c, det).moe, det, c.image)
<1>. DEFINE suits == {b \in {"marlin", "b12x"} : ~Unsafe(b, det, c.image)}
            moe == IF Unsafe(c.moe, det, c.image) \/ (det.moe /\ c.moe \notin suits \cup {"", "triton"})
                   THEN "" ELSE c.moe
<1>1. FirstBoot(c, det) = [c EXCEPT !.moe = moe, !.mtp = @ /\ moe \in {"marlin", "b12x"}]
  BY ONLY DEF FirstBoot
<1>2. ~Unsafe(moe, det, c.image)
  BY NoBackendIsSafe
<1>. HIDE DEF moe
<1>. QED
  BY <1>1, <1>2 DEF Shaped

LEMMA EnvelopedForm ==
  ASSUME NEW c, Shaped(c), NEW det, det.native \in Nat, NEW tp \in Nat
  PROVE  /\ Shaped(Enveloped(c, det, tp)) /\ Enveloped(c, det, tp).window # 0
         /\ Enveloped(c, det, tp).image = c.image /\ Enveloped(c, det, tp).moe = c.moe
<1>. DEFINE window == Default(c.window, Default(det.native, WorkflowWindow))
            last == IF tp < 2 THEN Min({window, WorkflowWindow}) ELSE window
<1>1. window \in Nat \ {0}
  BY DEF Default, WorkflowWindow, Shaped
<1>2. last \in Nat \ {0}
  <2>. HIDE DEF window
  <2>. QED
    BY <1>1, LesserOfTwo DEF WorkflowWindow
<1>3. Enveloped(c, det, tp) = [c EXCEPT !.window = last]
  BY ONLY DEF Enveloped
<1>. HIDE DEF last
<1>. QED
  BY <1>2, <1>3 DEF Shaped

LEMMA DetIs ==
  ASSUME NEW f, Described(f), NEW config \in BOOLEAN
  PROVE  /\ Analyze(f, config).native \in Nat /\ (config => Analyze(f, config).native = f.native)
<1>1. Analyze(f, config).native = IF config THEN f.native ELSE 0
  BY DEF Analyze
<1>2. f.native \in Nat
  BY DEF Described
<1>. QED
  BY <1>1, <1>2

LEMMA SomeImage ==
  ASSUME NEW cfg, NEW f, NEW det, NEW pins
  PROVE  ResolveImage(cfg, f, det, pins) # NoImage
<1>1. ResolveImage(cfg, f, det, pins) \in {Anemll, Playbook} \cup 1..100
  BY Resolved
<1>. QED
  BY <1>1 DEF Anemll, Playbook, NoImage

LEMMA CapIsNative ==
  ASSUME NEW window \in Nat \ {0}, NEW det, det.native \in Nat
  PROVE  /\ NativeCapped(window, det) \in Nat \ {0}
         /\ det.native > 0 => NativeCapped(window, det) <= det.native
BY LesserOfTwo DEF NativeCapped

\* What a vLLM recommendation r for weights w and n nodes is made of.
VllmMade(r, f, how, w, n) ==
  /\ r.weights = w /\ (r.blocked <=> ~Fits(w, n)) /\ r.tp = (IF n >= 2 THEN n ELSE 0)
  /\ r.image # NoImage
  /\ f.overlay = NoOverlay => ~Unsafe(r.moe, Analyze(f, how), r.image)
  /\ \E window \in Nat \ {0}, seqs \in Nat :
       /\ Analyze(f, how).native > 0 => window <= Analyze(f, how).native
       /\ LET size == SizeMemory(window, seqs, (w * 1024) \div n, KvCache(Shape(f, how, r.kv), Latent(f, r.kv), r.kv))
          IN r.window = size.window /\ r.seqs = size.seqs /\ r.util = size.util

LEMMA MadeHasImage ==
  ASSUME NEW r, NEW f, NEW how, NEW w, NEW n, VllmMade(r, f, how, w, n)
  PROVE  r.image # NoImage
BY DEF VllmMade

LEMMA VllmForm ==
  ASSUME NEW f, Described(f), NEW net \in BOOLEAN, NEW kept \in BOOLEAN, NEW avail \in Nat \ {0},
         NEW how, how = Known(net, kept), NEW w, w = EstimateWeights(f, net, how)
  PROVE  VllmMade(RecommendVllm(f, net, kept, avail), f, how, w, NodesNeeded(w, avail))
<1>. DEFINE det == Analyze(f, how)
            plan == PlanPlacement(w, avail)
            tp == IF plan.nodes >= 2 THEN plan.nodes ELSE 0
            cands == Candidates(f, det, how, net)
            card == IF how THEN f.pin ELSE NoImage
            pins == {card} \cup {c.recipe.image : c \in IF cands = {} THEN {} ELSE {Best(cands)}}
            filled == CardFilled(f, cands)
            named == [filled EXCEPT !.image = ResolveImage(filled, f, det, pins)]
            gated == Safe(named, det)
            own == OverlayApplied(gated, f.overlay)
            boot == IF f.overlay = NoOverlay THEN FirstBoot(own, det) ELSE own
            wide == Enveloped(boot, det, tp)
            again == IF f.overlay = NoOverlay THEN pins ELSE {}
            last == VllmConfig(f, det, how, net, tp)
            kv == KvCache(Shape(f, how, last.kv), Latent(f, last.kv), last.kv)
            window == NativeCapped(last.window, det)
            size == SizeMemory(window, last.seqs, plan.per, kv)
            r == RecommendVllm(f, net, kept, avail)
<1>1. r = [moe |-> last.moe, kv |-> last.kv, image |-> last.image, window |-> size.window, seqs |-> size.seqs,
           util |-> size.util, tp |-> tp, weights |-> w, blocked |-> ~plan.fits]
  BY DEF RecommendVllm, VllmSized
<1>1a. last = [wide EXCEPT !.image = ResolveImage(wide, f, det, again),
                           !.moe = IF @ = "humming" THEN "" ELSE @]
  BY DEF VllmConfig
<1>2. how \in BOOLEAN
  BY DEF Known
<1>3. w \in Nat
  BY <1>2, WeightIsNumber
<1>4. plan.nodes = NodesNeeded(w, avail) /\ plan.fits = Fits(w, plan.nodes) /\ plan.per = (w * 1024) \div plan.nodes
  BY DEF PlanPlacement
<1>5. plan.nodes \in 1..avail /\ tp \in Nat
  BY <1>3, <1>4, Needed
<1>6. Shaped(filled)
  <2>1. Shaped(Empty)
    BY DEF Empty, Shaped
  <2>2. cands # {} => Shaped([Best(cands).recipe EXCEPT !.image = NoImage])
    <3>. HIDE DEF det
    <3>. QED
      BY <1>2, WinnerIsShaped, Reshaped
  <2>3. filled = Empty \/ (cands # {} /\ filled = [Best(cands).recipe EXCEPT !.image = NoImage])
    BY DEF CardFilled, Poor
  <2>. QED
    BY <2>1, <2>2, <2>3
<1>7. Shaped(named) /\ named.image = ResolveImage(filled, f, det, pins)
  <2>. HIDE DEF filled, det, pins
  <2>. QED
    BY <1>6, Reshaped DEF Shaped
<1>8. Shaped(gated) /\ gated.image = named.image
  <2>. HIDE DEF named, det
  <2>. QED
    BY <1>7, SafeForm
<1>9. Shaped(own) /\ (f.overlay = NoOverlay => own = gated)
  <2>. HIDE DEF gated
  <2>. QED
    BY <1>8, OverlayForm
<1>10. Shaped(boot) /\ (f.overlay = NoOverlay => boot.image = own.image /\ ~Unsafe(boot.moe, det, own.image))
  <2>. HIDE DEF own, det
  <2>. QED
    BY <1>9, FirstBootForm
<1>11. det.native \in Nat
  BY <1>2, DetIs
<1>12. Shaped(wide) /\ wide.window # 0 /\ wide.image = boot.image /\ wide.moe = boot.moe
  <2>. HIDE DEF boot, det, tp
  <2>. QED
    BY <1>5, <1>10, <1>11, EnvelopedForm
<1>13. /\ last.window = wide.window /\ last.seqs = wide.seqs
       /\ last.image = ResolveImage(wide, f, det, again) /\ last.moe \in {"", wide.moe}
  <2>. HIDE DEF wide, det, again, last
  <2>. QED
    BY <1>1a, <1>12 DEF Shaped
<1>14. last.window \in Nat \ {0} /\ last.seqs \in Nat
  <2>. HIDE DEF wide, last
  <2>. QED
    BY <1>12, <1>13 DEF Shaped
<1>15. window \in Nat \ {0} /\ (det.native > 0 => window <= det.native)
  <2>. HIDE DEF last, det
  <2>. QED
    BY <1>11, <1>14, CapIsNative
<1>16. last.image # NoImage
  <2>. HIDE DEF wide, det, again, last
  <2>. QED
    BY <1>13, SomeImage
<1>17. ASSUME f.overlay = NoOverlay PROVE ~Unsafe(last.moe, det, last.image)
  <2>1. wide.image = ResolveImage(filled, f, det, pins)
    <3>. HIDE DEF wide, boot, own, gated, named, filled, det, pins
    <3>. QED
      BY <1>7, <1>8, <1>9, <1>10, <1>12, <1>17
  <2>2. AtLeast27(wide.image) => AtLeast27(last.image)
    <3>. HIDE DEF wide, filled, det, pins, again, last
    <3>. QED
      BY <1>13, <2>1, ImageRises
  <2>3. ~Unsafe(wide.moe, det, wide.image)
    <3>. HIDE DEF wide, boot, own, det
    <3>. QED
      BY <1>10, <1>12, <1>17
  <2>. HIDE DEF wide, last, det
  <2>4. ~Unsafe(wide.moe, det, last.image)
    BY <2>2, <2>3, UnsafeFalls
  <2>5. ~Unsafe("", det, last.image)
    BY NoBackendIsSafe
  <2>6. last.moe = "" \/ last.moe = wide.moe
    BY <1>13
  <2>. QED
    BY <2>4, <2>5, <2>6
<1>18. /\ r.weights = w /\ r.tp = tp /\ (r.blocked <=> ~plan.fits) /\ r.image = last.image /\ r.moe = last.moe /\ r.kv = last.kv
       /\ r.window = size.window /\ r.seqs = size.seqs /\ r.util = size.util
  <2>. HIDE DEF r, tp, plan, last, size
  <2>. QED
    BY <1>1
<1>. HIDE DEF r, det, kv, plan, tp, last, window
<1>19. VllmMade(r, f, how, w, NodesNeeded(w, avail))
  BY <1>4, <1>14, <1>15, <1>16, <1>17, <1>18 DEF VllmMade, det, kv, tp
<1>. QED
  BY <1>19 DEF r

\* A vLLM form leaves a node room for all it says, on nodes of 30 GiB and more.
LEMMA DetKnown ==
  ASSUME NEW f, NEW how, NEW kv
  PROVE  how => Analyze(f, how).native = f.native /\ Shape(f, how, kv) = f.shape
BY Zenon DEF Analyze, Shape

LEMMA EngineFields ==
  ASSUME NEW e, NEW window, NEW util, NEW tp \in Nat, NEW w, NEW blocked,
         NEW r, r = EngineForm(e, window, util, tp, w, blocked)
  PROVE  r.weights = w /\ r.blocked = blocked /\ r.tp = (IF tp >= 2 THEN tp ELSE 0) /\ r.tp \in Nat
BY DEF EngineForm

LEMMA VllmIsSized ==
  ASSUME Ram >= 30, NEW f, Described(f), NEW how, NEW w \in Nat, NEW n \in Nat \ {0},
         Analyze(f, how).native = f.native,
         NEW r, Shape(f, how, r.kv) = f.shape, VllmMade(r, f, how, w, n),
         NEW unit, unit = KvCache(f.shape, Latent(f, r.kv), r.kv),
         NEW per, per = (r.weights * 1024) \div Default(r.tp, 1),
         2 * unit <= Budget(per), Budget(per) >= 8 * 1024
  PROVE  LET kv == r.window * Default(r.seqs, 4) * unit
             share == r.util * Ram * 1024
             half == 512 * Ram
         IN /\ (per + kv + Pad * 1024) * 100 <= share + half
            /\ share - half <= (Ram - Reserve) * 1024 * 100
            /\ f.native > 0 => r.window <= f.native
<1>. DEFINE det == Analyze(f, how)
<1>3. /\ r.weights = w /\ r.tp = (IF n >= 2 THEN n ELSE 0)
      /\ \E window \in Nat \ {0}, seqs \in Nat :
           /\ det.native > 0 => window <= det.native
           /\ LET size == SizeMemory(window, seqs, (w * 1024) \div n, KvCache(Shape(f, how, r.kv), Latent(f, r.kv), r.kv))
              IN r.window = size.window /\ r.seqs = size.seqs /\ r.util = size.util
  BY DEF VllmMade
<1>4. Default(r.tp, 1) = n
  BY <1>3 DEF Default
<1>5. per = (w * 1024) \div n
  BY <1>3, <1>4
<1>6. per \in Nat
  <2>1. PICK x \in Nat : x = w * 1024
    OBVIOUS
  <2>2. x \div n \in Nat
    BY Quotient
  <2>. QED
    BY <1>5, <2>1, <2>2
<1>7. unit \in Nat /\ unit = KvCache(Shape(f, how, r.kv), Latent(f, r.kv), r.kv)
  <2>1. Latent(f, r.kv) \in BOOLEAN /\ f.shape \in [layers : Nat, attending : Nat, heads : Nat, dim : Nat]
    BY DEF Latent, Described
  <2>. QED
    BY <2>1, CacheIsNumber
<1>8. det.native = f.native /\ det.native \in Nat
  BY DEF Described
<1>9. PICK window \in Nat \ {0}, seqs \in Nat :
        /\ det.native > 0 => window <= det.native
        /\ LET size == SizeMemory(window, seqs, per, unit)
           IN r.window = size.window /\ r.seqs = size.seqs /\ r.util = size.util
  <2>. HIDE DEF det
  <2>. QED
    BY <1>3, <1>5, <1>7
<1>10. PICK a \in Nat, b \in Nat :
         /\ SizeMemory(window, seqs, per, unit) =
              [window |-> a, seqs |-> b, util |-> RecommendedUtil(per, a * Default(b, 4) * unit)]
         /\ a <= window /\ a * Default(b, 4) * unit <= Budget(per)
  <2>1. 8 * 1024 <= Budget(per) /\ 2 * unit <= Budget(per)
    OBVIOUS
  <2>2. window \in Nat \ {0} /\ seqs \in Nat /\ per \in Nat /\ unit \in Nat
    BY <1>6, <1>7
  <2>3. SizedWithin(window, seqs, per, unit)
    BY ONLY <2>1, <2>2, Sizing
  <2>. QED
    BY <2>3 DEF SizedWithin
<1>11. PICK kv \in Nat : kv = a * Default(b, 4) * unit
  <2>1. PICK c \in Nat : c = Default(b, 4)
    BY DEF Default
  <2>2. a * c * unit \in Nat
    BY <1>7
  <2>. QED
    BY <2>1, <2>2
<1>12. r.window = a /\ r.seqs = b /\ r.util = RecommendedUtil(per, kv)
  BY <1>9, <1>10, <1>11
<1>13. per + kv <= (Ram - Reserve - Pad) * 1024
  <2>1. Ram \in Nat
    BY RamAssumption
  <2>. QED
    BY <1>6, <1>10, <1>11, <2>1 DEF Budget, Reserve, Pad
<1>14. /\ (per + kv + Pad * 1024) * 100 <= RecommendedUtil(per, kv) * Ram * 1024 + 512 * Ram
       /\ RecommendedUtil(per, kv) * Ram * 1024 - 512 * Ram <= (Ram - Reserve) * 1024 * 100
  BY <1>6, <1>13, ShareHolds
<1>15. r.window * Default(r.seqs, 4) * unit = kv
  BY <1>11, <1>12
<1>16. f.native > 0 => r.window <= f.native
  BY <1>8, <1>9, <1>10, <1>12
<1>. QED
  BY ONLY <1>12, <1>14, <1>15, <1>16

\* What holds of every engine's answer.
LEMMA AnswerForm ==
  ASSUME NEW f, Described(f), NEW eng \in Engine, NEW net \in BOOLEAN, NEW kept \in BOOLEAN,
         NEW avail \in Nat \ {0}, NEW r, r = Recommend(f, eng, net, kept, avail)
  PROVE  /\ r.weights \in Nat /\ r.tp \in Nat
         /\ eng \in {"vllm", "tensorfold"} /\ ~r.blocked =>
              /\ Default(r.tp, 1) <= avail /\ Fits(r.weights, Default(r.tp, 1))
              /\ TpAllowed(eng, Default(r.tp, 1))
<1>. DEFINE how == Known(net, kept)
            w == EstimateWeights(f, net, how)
            n == NodesNeeded(w, avail)
<1>1. how \in BOOLEAN
  BY DEF Known
<1>2. w \in Nat /\ n \in 1..avail
  BY <1>1, WeightIsNumber, Needed
<1>3. PlanPlacement(w, avail).nodes = n /\ PlanPlacement(w, avail).fits = Fits(w, n)
  BY DEF PlanPlacement
<1>4. ASSUME eng = "vllm", r = RecommendVllm(f, net, kept, avail)
      PROVE  /\ r.weights \in Nat /\ r.tp \in Nat
             /\ ~r.blocked => Default(r.tp, 1) = n /\ r.weights = w /\ Fits(w, n)
  <2>1. r.weights = w /\ (r.blocked <=> ~Fits(w, n)) /\ r.tp = (IF n >= 2 THEN n ELSE 0)
    <3>1. VllmMade(r, f, how, w, n)
      BY <1>4, VllmForm
    <3>. HIDE DEF how, w, n
    <3>. QED
      BY <3>1 DEF VllmMade
  <2>. HIDE DEF w, n
  <2>. QED
    BY <1>2, <2>1 DEF Default
<1>5. ASSUME eng = "tensorfold", r = RecommendTensorfold(f, net, kept, avail)
      PROVE  /\ r.weights \in Nat /\ r.tp \in Nat
             /\ ~r.blocked => /\ Default(r.tp, 1) <= avail /\ Fits(r.weights, Default(r.tp, 1))
                              /\ TpAllowed("tensorfold", Default(r.tp, 1))
  <2>. DEFINE tp == Max({n, f.ranks})
              blocked == ~Fits(w, n) \/ ~TpAllowed("tensorfold", tp) \/ tp > avail \/ ~Fits(w, tp)
  <2>1. tp \in Nat /\ n <= tp
    <3>1. f.ranks \in Nat
      BY DEF Described
    <3>. HIDE DEF n
    <3>. QED
      BY <1>2, <3>1, GreaterOfTwo
  <2>2. r = EngineForm("tensorfold", 0, 0, tp, w, blocked)
    BY <1>3, <1>5 DEF RecommendTensorfold
  <2>3. r.weights = w /\ r.tp = (IF tp >= 2 THEN tp ELSE 0) /\ (r.blocked <=> blocked)
    <3>. HIDE DEF w, n, tp, blocked
    <3>. QED
      BY <2>1, <2>2, EngineFields
  <2>4. Default(r.tp, 1) = tp /\ r.tp \in Nat
    <3>. HIDE DEF w, n, tp, blocked
    <3>. QED
      BY <1>2, <2>1, <2>3 DEF Default
  <2>. HIDE DEF w, n, tp
  <2>. QED
    BY <1>2, <2>1, <2>3, <2>4
<1>6. ASSUME eng = "sglang", r = RecommendSglang(f, net, kept, avail)
      PROVE  r.weights \in Nat /\ r.tp \in Nat
  <2>. DEFINE vendor == IF how THEN f.vendorTp ELSE 0
              tp == IF vendor \in 1..n THEN vendor ELSE n
  <2>1. PICK window, util, blocked : r = EngineForm("sglang", window, util, tp, w, blocked)
    BY <1>3, <1>6 DEF RecommendSglang
  <2>2. tp \in Nat
    <3>. HIDE DEF n, vendor
    <3>. QED
      BY <1>2
  <2>. HIDE DEF w, tp
  <2>. QED
    BY <1>2, <2>1, <2>2, EngineFields
<1>7. ASSUME eng = "llamacpp", r = RecommendLlamacpp(f, net, avail)
      PROVE  r.weights \in Nat /\ r.tp \in Nat
  <2>. DEFINE v == EstimateWeights(f, net, net)
  <2>1. v \in Nat
    BY WeightIsNumber
  <2>2. PICK window, blocked : r = EngineForm("llamacpp", window, 0, 1, v, blocked)
    BY <1>7 DEF RecommendLlamacpp
  <2>. HIDE DEF v
  <2>. QED
    BY <2>1, <2>2, EngineFields
<1>8. \A x : TpAllowed("vllm", x)
  BY DEF TpAllowed, MaxTp
<1>9. /\ eng = "vllm" => r = RecommendVllm(f, net, kept, avail)
      /\ eng = "sglang" => r = RecommendSglang(f, net, kept, avail)
      /\ eng = "llamacpp" => r = RecommendLlamacpp(f, net, avail)
      /\ eng = "tensorfold" => r = RecommendTensorfold(f, net, kept, avail)
  BY DEF Recommend
<1>10. eng \in {"vllm", "sglang", "llamacpp", "tensorfold"}
  BY DEF Engine
<1>. HIDE DEF w, n
<1>. QED
  BY <1>2, <1>4, <1>5, <1>6, <1>7, <1>8, <1>9, <1>10
\* However often a repository holds the same tensors, f.size is what one copy of them weighs, and
\* the Hub's index and the estimate that stand in for the files say no more.
PackedOnce(f) ==
  LET tensors == {b \in f.files : b.format # "gguf"}
      dumps == {"shards", "consolidated", "single"}
  IN /\ \A d \in dumps : Part(tensors, d) # {} =>
          Total(Safetensors(Part(tensors, d)) \cup Part(tensors, "extra")) <= f.size
     /\ (\A d \in dumps : Part(tensors, d) = {}) => Total(Safetensors(tensors)) <= f.size
     /\ tensors = {} => Total(PickSparkGguf(f.files)) <= f.size
     /\ f.index <= f.size
     /\ HubBlobMeasure(f) = 0 /\ f.index = 0 => f.heuristic <= f.size /\ WeightFloor(f, TRUE) <= f.size

HubCountsOnce == \A w \in Worlds : \A m \in Model : PackedOnce(w[m])

LEMMA SelectedOnce ==
  ASSUME NEW S, NEW s,
         \A d \in {"shards", "consolidated", "single"} : Part(S, d) # {} =>
           Total(Safetensors(Part(S, d)) \cup Part(S, "extra")) <= s,
         (\A d \in {"shards", "consolidated", "single"} : Part(S, d) = {}) => Total(Safetensors(S)) <= s
  PROVE  Total(SelectWeightBlobs(S)) <= s
<1>. DEFINE dumps == <<"shards", "consolidated", "single">>
            has == {i \in 1..3 : Part(S, dumps[i]) # {}}
<1>1. dumps[1] = "shards" /\ dumps[2] = "consolidated" /\ dumps[3] = "single"
  OBVIOUS
<1>2. \A i \in 1..3 : i = 1 \/ i = 2 \/ i = 3
  OBVIOUS
<1>. HIDE DEF dumps
<1>3. SelectWeightBlobs(S) =
        IF has = {} THEN Safetensors(S)
        ELSE Safetensors(Part(S, dumps[Min(has)])) \cup Part(S, "extra")
  BY DEF SelectWeightBlobs, dumps
<1>4. CASE has = {}
  <2>1. \A d \in {"shards", "consolidated", "single"} : Part(S, d) = {}
    <3>1. \A i \in 1..3 : Part(S, dumps[i]) = {}
      BY <1>4
    <3>2. 1 \in 1..3 /\ 2 \in 1..3 /\ 3 \in 1..3
      OBVIOUS
    <3>. HIDE DEF has
    <3>. QED
      BY <1>1, <3>1, <3>2
  <2>. HIDE DEF has
  <2>. QED
    BY <1>3, <1>4, <2>1
<1>5. CASE has # {}
  <2>1. Min(has) \in has
    <3>1. \E x \in has : \A y \in has : x <= y
      <4>1. has \subseteq Nat
        OBVIOUS
      <4>. HIDE DEF has
      <4>. QED
        BY <1>5, <4>1, LeastElement
    <3>. HIDE DEF has
    <3>. QED
      BY <3>1 DEF Min
  <2>2. Min(has) \in 1..3 /\ Part(S, dumps[Min(has)]) # {}
    BY <2>1
  <2>. HIDE DEF has
  <2>3. dumps[Min(has)] \in {"shards", "consolidated", "single"}
    BY <1>1, <1>2, <2>2
  <2>. QED
    BY <1>3, <1>5, <2>2, <2>3
<1>. QED
  BY <1>4, <1>5

LEMMA MeasuredOnce ==
  ASSUME NEW f, Described(f), PackedOnce(f)
  PROVE  EstimateWeights(f, TRUE, TRUE) <= f.size
<1>. DEFINE gguf == {b \in f.files : b.format = "gguf"}
            tensors == {b \in f.files : b.format # "gguf"}
<1>1. f.files \ gguf = tensors /\ (gguf = f.files <=> tensors = {})
  OBVIOUS
<1>2. Total(SelectWeightBlobs(tensors)) <= f.size
  <2>1. /\ \A d \in {"shards", "consolidated", "single"} : Part(tensors, d) # {} =>
             Total(Safetensors(Part(tensors, d)) \cup Part(tensors, "extra")) <= f.size
        /\ (\A d \in {"shards", "consolidated", "single"} : Part(tensors, d) = {})
             => Total(Safetensors(tensors)) <= f.size
    BY DEF PackedOnce
  <2>. HIDE DEF tensors
  <2>. QED
    BY <2>1, SelectedOnce
<1>3. tensors = {} => Total(PickSparkGguf(f.files)) <= f.size
  BY DEF PackedOnce
<1>4. HubBlobMeasure(f) <= f.size
  <2>1. HubBlobMeasure(f) = Total(IF gguf = f.files THEN PickSparkGguf(gguf) ELSE SelectWeightBlobs(f.files \ gguf))
    BY DEF HubBlobMeasure
  <2>. HIDE DEF gguf, tensors
  <2>. QED
    BY <1>1, <1>2, <1>3, <2>1
<1>. HIDE DEF gguf, tensors
<1>5. HubBlobMeasure(f) \in Nat /\ f.index \in Nat /\ f.heuristic \in Nat /\ f.floor \in Nat /\ f.size \in Nat
  BY MeasureIsNumber DEF Described
<1>6. /\ f.index <= f.size
      /\ HubBlobMeasure(f) = 0 /\ f.index = 0 => f.heuristic <= f.size /\ WeightFloor(f, TRUE) <= f.size
  BY DEF PackedOnce
<1>7. WeightFloor(f, TRUE) \in Nat
  BY <1>5 DEF WeightFloor
<1>8. Max({WeightFloor(f, TRUE), f.heuristic}) \in {WeightFloor(f, TRUE), f.heuristic}
  <2>1. PICK a \in Nat : a = WeightFloor(f, TRUE)
    BY <1>7
  <2>2. Max({a, f.heuristic}) \in {a, f.heuristic}
    BY <1>5, GreaterOfTwo
  <2>. QED
    BY ONLY <2>1, <2>2
<1>. DEFINE e == EstimateWeights(f, TRUE, TRUE)
            h == HubBlobMeasure(f)
            a == WeightFloor(f, TRUE)
            b == f.heuristic
            x == Max({a, b})
<1>9. e = IF h > 0 THEN h ELSE IF f.index > 0 THEN f.index ELSE x
  BY <1>5 DEF EstimateWeights
<1>10. /\ h \in Nat /\ h <= f.size /\ x \in {a, b}
       /\ h = 0 /\ f.index = 0 => b <= f.size /\ a <= f.size
  BY <1>4, <1>5, <1>6, <1>8
<1>. HIDE DEF e, h, a, b, x
<1>11. e <= f.size
  BY ONLY <1>5, <1>6, <1>9, <1>10
<1>. QED
  BY <1>11 DEF e

LEMMA WeighedByHub ==
  ASSUME NEW f, NEW net \in BOOLEAN, net, NEW how \in BOOLEAN, how
  PROVE  EstimateWeights(f, net, how) = EstimateWeights(f, TRUE, TRUE)
<1>1. net = TRUE
  BY Zenon
<1>2. how = TRUE
  BY Zenon
<1>. QED
  BY ONLY Zenon, <1>1, <1>2

LEMMA LessFits ==
  ASSUME NEW w \in Nat, NEW s \in Nat, w <= s, NEW n \in Nat, Fits(s, n)
  PROVE  Fits(w, n)
<1>1. Ram \in Nat
  BY RamAssumption
<1>2. PICK c \in Int : c = n * (Ram * 85 - Reserve * 100)
  BY <1>1 DEF Reserve
<1>. QED
  BY <1>2 DEF Fits, Holds

\* All but TensorFold block a form only when all nodes together do not hold the weights.
LEMMA AnswerWeighs ==
  ASSUME NEW f, Described(f), NEW eng \in Engine, eng # "tensorfold", NEW net \in BOOLEAN, NEW kept \in BOOLEAN,
         NEW avail \in Nat \ {0}, NEW r, r = Recommend(f, eng, net, kept, avail)
  PROVE  /\ r.weights = EstimateWeights(f, net, IF eng = "llamacpp" THEN net ELSE Known(net, kept))
         /\ r.blocked => ~Fits(r.weights, avail)
<1>. DEFINE how == Known(net, kept)
            w == EstimateWeights(f, net, how)
            v == EstimateWeights(f, net, net)
            n == NodesNeeded(w, avail)
<1>1. how \in BOOLEAN
  BY DEF Known
<1>2. w \in Nat /\ v \in Nat /\ n \in Nat \ {0}
  BY <1>1, WeightIsNumber, Needed
<1>3. \A x \in Nat : ~Fits(x, NodesNeeded(x, avail)) => ~Fits(x, avail)
  BY Needed
<1>5. ASSUME eng = "vllm", r = RecommendVllm(f, net, kept, avail)
      PROVE  r.weights = w /\ (r.blocked <=> ~Fits(w, n))
  <2>1. VllmMade(r, f, how, w, n)
    BY <1>5, VllmForm
  <2>. HIDE DEF how, w, n
  <2>. QED
    BY <2>1 DEF VllmMade
<1>6. ASSUME eng = "sglang", r = RecommendSglang(f, net, kept, avail)
      PROVE  r.weights = w /\ (r.blocked <=> ~Fits(w, n))
  <2>. DEFINE nodes == PlanPlacement(w, avail).nodes
              vendor == IF how THEN f.vendorTp ELSE 0
              tp == IF vendor \in 1..nodes THEN vendor ELSE nodes
  <2>1. PlanPlacement(w, avail).nodes = n /\ PlanPlacement(w, avail).fits = Fits(w, n)
    BY DEF PlanPlacement
  <2>2. PICK window, util : r = EngineForm("sglang", window, util, tp, w, ~Fits(w, n))
    BY <1>6, <2>1 DEF RecommendSglang
  <2>3. tp \in Nat
    <3>. HIDE DEF n, w
    <3>. QED
      BY <1>2, <2>1
  <2>4. \E blocked : blocked = ~Fits(w, n)
    OBVIOUS
  <2>. HIDE DEF w, n, tp
  <2>5. PICK blocked : blocked = ~Fits(w, n)
    BY <2>4
  <2>6. r = EngineForm("sglang", window, util, tp, w, blocked)
    BY ONLY <2>2, <2>5
  <2>7. r.weights = w /\ r.blocked = blocked
    BY ONLY <2>3, <2>6, EngineFields
  <2>. QED
    BY ONLY Zenon, <2>5, <2>7
<1>7. ASSUME eng = "llamacpp", r = RecommendLlamacpp(f, net, avail)
      PROVE  r.weights = v /\ (r.blocked <=> ~Fits(v, NodesNeeded(v, avail)))
  <2>. DEFINE k == NodesNeeded(v, avail)
  <2>1. PlanPlacement(v, avail).fits = Fits(v, k)
    BY DEF PlanPlacement
  <2>2. PICK window : r = EngineForm("llamacpp", window, 0, 1, v, ~Fits(v, k))
    BY <1>7, <2>1 DEF RecommendLlamacpp
  <2>3. \E blocked : blocked = ~Fits(v, k)
    OBVIOUS
  <2>. HIDE DEF v, k
  <2>4. PICK blocked : blocked = ~Fits(v, k)
    BY <2>3
  <2>5. r = EngineForm("llamacpp", window, 0, 1, v, blocked)
    BY ONLY <2>2, <2>4
  <2>6. r.weights = v /\ r.blocked = blocked
    BY ONLY <2>5, EngineFields
  <2>. QED
    BY ONLY Zenon, <2>4, <2>6 DEF k
<1>8. /\ eng = "vllm" => r = RecommendVllm(f, net, kept, avail)
      /\ eng = "sglang" => r = RecommendSglang(f, net, kept, avail)
      /\ eng = "llamacpp" => r = RecommendLlamacpp(f, net, avail)
  BY DEF Recommend
<1>9. eng \in {"vllm", "sglang", "llamacpp"}
  BY DEF Engine
<1>10. /\ eng = "llamacpp" => v = EstimateWeights(f, net, IF eng = "llamacpp" THEN net ELSE how)
       /\ eng # "llamacpp" => w = EstimateWeights(f, net, IF eng = "llamacpp" THEN net ELSE how)
  BY Zenon
<1>11. /\ eng # "llamacpp" => r.weights = w /\ (r.blocked <=> ~Fits(w, n))
       /\ eng = "llamacpp" => r.weights = v /\ (r.blocked <=> ~Fits(v, NodesNeeded(v, avail)))
  <2>. HIDE DEF w, v, n
  <2>. QED
    BY <1>5, <1>6, <1>7, <1>8, <1>9
<1>12. ~Fits(w, n) => ~Fits(w, avail)
  BY <1>2, <1>3
<1>. DEFINE u == EstimateWeights(f, net, IF eng = "llamacpp" THEN net ELSE how)
<1>13. (eng = "llamacpp" => v = u) /\ (eng # "llamacpp" => w = u)
  BY <1>10
<1>. SUFFICES r.weights = u /\ (r.blocked => ~Fits(r.weights, avail))
  OBVIOUS
<1>. HIDE DEF w, v, n, u
<1>. QED
  BY <1>2, <1>3, <1>11, <1>12, <1>13
-----------------------------------------------------------------------------
(* The nodes of a launch                                                   *)

LEMMA Upward ==
  ASSUME NEW N \in Nat, NEW T, 0 \in T, \A n \in 0..(N - 1) : n \in T => n + 1 \in T
  PROVE  0..N \subseteq T
<1>. SUFFICES ASSUME (0..N) \ T # {} PROVE FALSE
  OBVIOUS
<1>. DEFINE out == (0..N) \ T
<1>0. out \subseteq Nat /\ out # {}
  OBVIOUS
<1>1. PICK x \in out : \A y \in out : x <= y
  <2>. HIDE DEF out
  <2>. QED
    BY <1>0, LeastElement
<1>2. x # 0 /\ x - 1 \in 0..(N - 1) /\ x - 1 \in T
  BY <1>1
<1>. QED
  BY <1>2

\* g lists the nodes that are online among the first n.
Next1(s, k) == IF Others[k] \in online THEN Append(s, Others[k]) ELSE s
Lists(g, n) == g = [k \in 0..n |-> IF k = 0 THEN <<>> ELSE Next1(g[k - 1], k)]
Listed(k) == {x \in online : \E i \in 1..k : x = Others[i]}

LEMMA ListExists ==
  ASSUME NEW N \in Nat
  PROVE  \E g : Lists(g, N)
<1>. DEFINE T == {n \in 0..N : \E g : Lists(g, n)}
<1>1. 0 \in T
  <2>1. Lists([k \in 0..0 |-> <<>>], 0)
    BY DEF Lists
  <2>. QED
    BY <2>1
<1>2. ASSUME NEW n \in 0..(N - 1), n \in T PROVE n + 1 \in T
  <2>1. PICK g : Lists(g, n)
    BY <1>2
  <2>. DEFINE h == [k \in 0..(n + 1) |-> IF k = n + 1 THEN Next1(g[n], n + 1) ELSE g[k]]
  <2>2. ASSUME NEW k \in 0..(n + 1) PROVE h[k] = IF k = 0 THEN <<>> ELSE Next1(h[k - 1], k)
    <3>1. CASE k = n + 1
      BY <3>1
    <3>2. CASE k # n + 1
      <4>1. k \in 0..n /\ (k # 0 => k - 1 \in 0..(n + 1) /\ k - 1 # n + 1)
        BY <3>2
      <4>2. h[k] = g[k] /\ (k # 0 => h[k - 1] = g[k - 1])
        BY <3>2, <4>1
      <4>3. g[k] = IF k = 0 THEN <<>> ELSE Next1(g[k - 1], k)
        BY <2>1, <4>1 DEF Lists
      <4>. HIDE DEF h
      <4>. QED
        BY <4>1, <4>2, <4>3
    <3>. QED
      BY <3>1, <3>2
  <2>3. h = [k \in 0..(n + 1) |-> h[k]]
    OBVIOUS
  <2>. HIDE DEF h
  <2>4. Lists(h, n + 1)
    BY <2>2, <2>3 DEF Lists
  <2>. QED
    BY <2>4
<1>. HIDE DEF T
<1>3. N \in T
  BY <1>1, <1>2, Upward
<1>. QED
  BY <1>3 DEF T

LEMMA AppendOne ==
  ASSUME NEW S, NEW s \in Seq(S), NEW x \in S, IsInjective(s), \A i \in 1..Len(s) : s[i] # x
  PROVE  IsInjective(Append(s, x))
<1>. DEFINE t == Append(s, x)
<1>1. /\ DOMAIN t = 1..(Len(s) + 1) /\ t[Len(s) + 1] = x /\ Len(s) \in Nat
      /\ \A i \in 1..Len(s) : t[i] = s[i]
  OBVIOUS
<1>. HIDE DEF t
<1>2. ASSUME NEW a \in DOMAIN t, NEW b \in DOMAIN t, t[a] = t[b] PROVE a = b
  <2>1. CASE a \in 1..Len(s) /\ b \in 1..Len(s)
    <3>1. DOMAIN s = 1..Len(s)
      OBVIOUS
    <3>. QED
      BY <1>1, <1>2, <2>1, <3>1 DEF IsInjective
  <2>2. CASE a = Len(s) + 1 /\ b \in 1..Len(s)
    BY <1>1, <1>2, <2>2
  <2>3. CASE b = Len(s) + 1 /\ a \in 1..Len(s)
    BY <1>1, <1>2, <2>3
  <2>4. CASE a = Len(s) + 1 /\ b = Len(s) + 1
    BY <2>4
  <2>. QED
    BY <1>1, <2>1, <2>2, <2>3, <2>4
<1>. QED
  BY <1>2 DEF IsInjective, t

LEMMA AppendIs ==
  ASSUME NEW S, NEW s \in Seq(S), NEW x \in S
  PROVE  /\ Append(s, x) \in Seq(S) /\ Len(Append(s, x)) = Len(s) + 1 /\ Len(s) \in Nat
         /\ Append(s, x)[Len(s) + 1] = x /\ \A i \in 1..Len(s) : Append(s, x)[i] = s[i]
OBVIOUS

LEMMA OthersAre ==
  /\ Len(Others) \in Nat /\ Others \in Seq(Range(Others))
  /\ \A i, j \in 1..Len(Others) : Others[i] = Others[j] => i = j
  /\ Range(Others) = {Others[i] : i \in 1..Len(Others)}
  /\ \A i \in 1..Len(Others) : Others[i] # Local
<1>1. Others \in Seq(Range(Others)) /\ IsInjective(Others) /\ Local \notin Range(Others)
  BY PageAssumption
<1>2. Len(Others) \in Nat /\ DOMAIN Others = 1..Len(Others)
  BY <1>1
<1>. QED
  BY <1>1, <1>2 DEF IsInjective, Range

LEMMA WorkersAre ==
  ASSUME online \subseteq Node, Local \in online
  PROVE  /\ Workers \in Seq(Node) /\ IsInjective(Workers)
         /\ \A i \in 1..Len(Workers) : Workers[i] # Local
         /\ Avail \in Nat /\ Len(Workers) + 1 = Avail
<1>. DEFINE N == Len(Others)
            g == CHOOSE g : g = [k \in 0..N |->
                   IF k = 0 THEN <<>>
                   ELSE IF Others[k] \in online THEN Append(g[k - 1], Others[k]) ELSE g[k - 1]]
<1>1. N \in Nat
  BY OthersAre
<1>2. Lists(g, N)
  <2>1. \E h : Lists(h, N)
    BY <1>1, ListExists
  <2>. QED
    BY <2>1 DEF Lists, Next1
<1>3. Workers = g[N]
  BY DEF Workers
<1>. HIDE DEF g
<1>4. ASSUME NEW k \in 0..N PROVE g[k] = IF k = 0 THEN <<>> ELSE Next1(g[k - 1], k)
  BY <1>2 DEF Lists
<1>. DEFINE Good(k) == /\ g[k] \in Seq(Node) /\ IsInjective(g[k])
                       /\ Listed(k) = {g[k][i] : i \in 1..Len(g[k])}
                       /\ IsFiniteSet(Listed(k)) /\ Cardinality(Listed(k)) = Len(g[k])
            T == {k \in 0..N : Good(k)}
<1>5. 0 \in T
  <2>1. g[0] = <<>>
    BY <1>1, <1>4
  <2>2. Listed(0) = {} /\ {g[0][i] : i \in 1..Len(g[0])} = {}
    BY <2>1 DEF Listed
  <2>3. IsInjective(<<>>)
    BY DEF IsInjective
  <2>4. IsFiniteSet({}) /\ Cardinality({}) = 0
    BY FS_EmptySet
  <2>5. <<>> \in Seq(Node) /\ Len(<<>>) = 0 /\ 0 \in 0..N
    BY <1>1
  <2>. HIDE DEF N
  <2>6. Good(0)
    BY <2>1, <2>2, <2>3, <2>4, <2>5
  <2>. QED
    BY <2>5, <2>6
<1>6. ASSUME NEW k \in 0..(N - 1), k \in T PROVE k + 1 \in T
  <2>. DEFINE x == Others[k + 1]
              s == g[k]
  <2>0. k + 1 \in 0..N /\ k + 1 \in 1..N /\ k + 1 # 0 /\ (k + 1) - 1 = k
    BY <1>1
  <2>1. g[k + 1] = Next1(s, k + 1)
    BY <1>4, <2>0
  <2>2. Good(k)
    BY <1>6
  <2>3. x \in Node
    BY <2>0, OthersAre DEF Node
  <2>. HIDE DEF s
  <2>4. s \in Seq(Node) /\ IsInjective(s) /\ Listed(k) = {s[i] : i \in 1..Len(s)} /\ IsFiniteSet(Listed(k))
        /\ Cardinality(Listed(k)) = Len(s)
    BY <2>2 DEF s
  <2>5. x \notin Listed(k)
    <3>1. \A i \in 1..k : Others[i] # x
      BY <2>0, OthersAre
    <3>. QED
      BY <3>1 DEF Listed
  <2>6. CASE x \notin online
    <3>1. g[k + 1] = s
      BY <2>1, <2>6 DEF Next1
    <3>2. Listed(k + 1) = Listed(k)
      BY <2>0, <2>6 DEF Listed
    <3>. QED
      BY <2>0, <2>4, <3>1, <3>2
  <2>7. CASE x \in online
    <3>1. g[k + 1] = Append(s, x)
      BY <2>1, <2>7 DEF Next1
    <3>2. Listed(k + 1) = Listed(k) \cup {x}
      BY <2>0, <2>7 DEF Listed
    <3>3. IsFiniteSet(Listed(k) \cup {x}) /\ Cardinality(Listed(k) \cup {x}) = Cardinality(Listed(k)) + 1
      BY <2>4, <2>5, FS_AddElement
    <3>4. IsInjective(Append(s, x))
      <4>1. \A i \in 1..Len(s) : s[i] # x
        BY <2>4, <2>5
      <4>. QED
        BY <2>3, <2>4, <4>1, AppendOne
    <3>. DEFINE t == Append(s, x)
    <3>5. /\ t \in Seq(Node) /\ Len(t) = Len(s) + 1 /\ t[Len(s) + 1] = x /\ Len(s) \in Nat
          /\ \A i \in 1..Len(s) : t[i] = s[i]
      <4>1. s \in Seq(Node) /\ x \in Node
        BY <2>3, <2>4
      <4>. HIDE DEF x
      <4>. QED
        BY ONLY <4>1, AppendIs
    <3>. HIDE DEF t
    <3>6. {t[i] : i \in 1..Len(t)} = Listed(k) \cup {x}
      <4>1. {t[i] : i \in 1..(Len(s) + 1)} = {t[i] : i \in 1..Len(s)} \cup {t[Len(s) + 1]}
        BY <3>5
      <4>2. {t[i] : i \in 1..Len(s)} = {s[i] : i \in 1..Len(s)}
        BY <3>5
      <4>. QED
        BY <2>4, <3>5, <4>1, <4>2
    <3>7. g[k + 1] = t /\ IsInjective(t)
      BY <3>1, <3>4 DEF t
    <3>. QED
      BY <2>0, <2>4, <3>2, <3>3, <3>5, <3>6, <3>7
  <2>. QED
    BY <2>6, <2>7
<1>7. Good(N)
  <2>. HIDE DEF T
  <2>1. 0..N \subseteq T
    BY <1>1, <1>5, <1>6, Upward
  <2>. QED
    BY <1>1, <2>1 DEF T
<1>8. Listed(N) = online \ {Local}
  <2>1. ASSUME NEW x \in online PROVE x = Local \/ \E i \in 1..N : x = Others[i]
    BY OthersAre DEF Node
  <2>2. \A i \in 1..N : Others[i] # Local
    BY OthersAre
  <2>. QED
    BY <2>1, <2>2 DEF Listed
<1>9. Avail = Cardinality(online \ {Local}) + 1
  <2>1. online = (online \ {Local}) \cup {Local} /\ IsFiniteSet(online \ {Local})
    BY <1>7, <1>8
  <2>2. Cardinality((online \ {Local}) \cup {Local}) = Cardinality(online \ {Local}) + 1
    BY <2>1, FS_AddElement
  <2>. QED
    BY <2>1, <2>2 DEF Avail
<1>10. \A i \in 1..Len(Workers) : Workers[i] # Local
  BY <1>3, <1>7, <1>8
<1>. QED
  <2>1. Workers \in Seq(Node) /\ IsInjective(Workers) /\ Cardinality(Listed(N)) = Len(Workers)
    BY <1>3, <1>7
  <2>. HIDE DEF N
  <2>2. Len(Workers) \in Nat
    BY <2>1
  <2>3. Len(Workers) + 1 = Avail
    BY <1>8, <1>9, <2>1
  <2>. QED
    BY <1>10, <2>1, <2>2, <2>3

\* The ranks of a launch are on different nodes, the local one first.
LEMMA RanksAre ==
  ASSUME online \subseteq Node, Local \in online, NEW tp \in Nat \ {0}, NEW w, tp <= Avail
  PROVE  /\ Len(RankNodes(tp, w)) = tp /\ IsInjective(RankNodes(tp, w)) /\ RankNodes(tp, w)[1] = Local
<1>. DEFINE s == Workers
            u == SubSeq(s, 1, tp - 1)
            t == <<Local>> \o u
<1>1. /\ s \in Seq(Node) /\ IsInjective(s) /\ Avail \in Nat /\ Len(s) + 1 = Avail
      /\ \A i \in 1..Len(s) : s[i] # Local
  BY WorkersAre
<1>. HIDE DEF s
<1>2. tp - 1 \in 0..Len(s) /\ Len(s) \in Nat /\ DOMAIN s = 1..Len(s)
  BY <1>1
<1>3. u \in Seq(Node) /\ Len(u) = tp - 1 /\ \A i \in 1..(tp - 1) : u[i] = s[i]
  BY <1>1, <1>2
<1>. HIDE DEF u
<1>4. <<Local>> \in Seq(Node) /\ Len(<<Local>>) = 1
  BY DEF Node
<1>5. /\ Len(t) = tp /\ t[1] = Local /\ DOMAIN t = 1..tp
      /\ \A i \in 2..tp : t[i] = s[i - 1]
  <2>1. Len(t) = 1 + (tp - 1) /\ DOMAIN t = 1..Len(t)
    BY <1>3, <1>4
  <2>2. \A i \in 1..Len(t) : t[i] = IF i <= 1 THEN <<Local>>[i] ELSE u[i - 1]
    BY <1>3, <1>4
  <2>3. \A i \in 2..tp : i - 1 \in 1..(tp - 1) /\ i \in 1..tp
    OBVIOUS
  <2>. HIDE DEF t
  <2>. QED
    BY <1>3, <2>1, <2>2, <2>3
<1>. HIDE DEF t
<1>6. IsInjective(t)
  <2>1. ASSUME NEW a \in 2..tp, NEW b \in 2..tp, t[a] = t[b] PROVE a = b
    <3>1. a - 1 \in DOMAIN s /\ b - 1 \in DOMAIN s
      BY <1>2
    <3>2. a - 1 = b - 1
      BY <1>1, <1>5, <2>1, <3>1 DEF IsInjective
    <3>. QED
      BY <3>2
  <2>2. \A a \in 2..tp : t[a] # Local
    <3>1. \A a \in 2..tp : a - 1 \in 1..Len(s)
      BY <1>2
    <3>. QED
      BY <1>1, <1>5, <3>1
  <2>3. \A a \in 1..tp : a = 1 \/ a \in 2..tp
    OBVIOUS
  <2>. QED
    BY <1>5, <2>1, <2>2, <2>3 DEF IsInjective
<1>7. RankNodes(tp, w) = t
  BY DEF RankNodes, s, t, u
<1>. QED
  BY <1>5, <1>6, <1>7
-----------------------------------------------------------------------------
(* The invariant                                                           *)

\* What holds of an answer, as long as it is kept.
Sound(fs, a) ==
  /\ a.model \in Model /\ a.tp \in Nat /\ a.weights \in Nat /\ Cardinality(a.nodes) \in Nat
  /\ a.engine \in {"vllm", "tensorfold"} /\ ~a.blocked =>
       /\ Default(a.tp, 1) <= Cardinality(a.nodes) /\ Fits(a.weights, Default(a.tp, 1))
       /\ TpAllowed(a.engine, Default(a.tp, 1))
  /\ a.blocked /\ a.engine # "tensorfold" => ~Fits(a.weights, Cardinality(a.nodes))
  /\ HubCountsOnce /\ a.byHub /\ a.engine # "tensorfold" => a.weights <= fs[a.model].size
  /\ a.engine = "vllm" => a.image # NoImage
  /\ FirstBoots(fs[a.model], a) => ~Unsafe(a.moe, Analyze(fs[a.model], TRUE), a.image)
  /\ Ram >= 30 => SizedWell(fs[a.model], a)

\* What Start put into a job, and the gate leaves of it.
Filed(fs, j) ==
  /\ {"stage", "model", "engine", "shown", "body", "typed", "kept", "weights", "nodes", "ranks"} \subseteq DOMAIN j
  /\ j.model \in Model /\ j.engine \in Engine
  /\ j.stage \in {"queued", "gated", "refused", "launched"}
  /\ Fields \subseteq DOMAIN j.body /\ j.body.tp \in Nat
  /\ j.shown # None => Sound(fs, j.shown) /\ ~j.shown.blocked
  /\ j.engine \in {"vllm", "tensorfold"} => j.body.tp = j.typed.tp
  /\ j.engine = "vllm" => j.body.image = j.typed.image
  /\ j.engine = "vllm" /\ j.stage = "queued" => j.body.moe = j.typed.moe

\* What the gate made sure of.
BackendKept(fs, j) ==
  j.engine = "vllm" /\ j.kept =>
    /\ ~Unsafe(j.body.moe, Analyze(fs[j.model], TRUE), ImageOf(j))
    /\ AsRecommended(j) /\ FirstBoots(fs[j.model], j.shown) => j.body.moe = j.shown.moe

Passed(fs, j) ==
  /\ j.weights \in Nat /\ Cardinality(j.nodes) \in Nat
  /\ Fits(j.weights, Min({Tp(j), Cardinality(j.nodes)}))
  /\ BackendKept(fs, j)

WorldTyped == facts \in Worlds /\ online \subseteq Node /\ Local \in online /\ hub \in BOOLEAN

PageTyped ==
  /\ engine \in Engine
  /\ Fields \cup {"model"} \subseteq DOMAIN form /\ form.tp \in Nat /\ form.model \in Model \cup {None}

Answers ==
  /\ rec # None => Sound(facts, rec)
  /\ asked # None => /\ {"model", "engine", "answer"} \subseteq DOMAIN asked
                     /\ asked.model \in Model /\ asked.engine \in Engine
                     /\ asked.answer # None => Sound(facts, asked.answer)

JobTyped ==
  job # None =>
    /\ Filed(facts, job)
    /\ job.stage \in {"gated", "launched"} => Passed(facts, job)

PageInv == WorldTyped /\ PageTyped /\ Answers /\ JobTyped /\ LaunchFits /\ RecommendedIsTaken


LEMMA FactsAre ==
  ASSUME WorldTyped, NEW m \in Model
  PROVE  Described(facts[m])
BY PageAssumption DEF WorldTyped

LEMMA AnalyzeKnown ==
  ASSUME NEW f, NEW how, how
  PROVE  Analyze(f, how) = Analyze(f, TRUE)
BY Zenon DEF Analyze

\* The server's answer is sound, whatever the model, the engine and the sources.
LEMMA AnswerIsSound ==
  ASSUME WorldTyped, asked.model \in Model, asked.engine \in Engine, NEW r,
         r = Recommend(facts[asked.model], asked.engine, hub, asked.model \in cached, Avail)
  PROVE  Sound(facts, Answer(r))
<1>. DEFINE f == facts[asked.model]
            kept == asked.model \in cached
            how == Known(hub, kept)
            w == EstimateWeights(f, hub, how)
            n == NodesNeeded(w, Avail)
            a == Answer(r)
<1>1. /\ a.model = asked.model /\ a.engine = asked.engine /\ a.nodes = online /\ a.known = how /\ a.byHub = hub
      /\ a.moe = r.moe /\ a.kv = r.kv /\ a.image = r.image /\ a.window = r.window /\ a.seqs = r.seqs /\ a.util = r.util
      /\ a.tp = r.tp /\ a.weights = r.weights /\ a.blocked = r.blocked
  BY DEF Answer
<1>2. Described(f)
  BY FactsAre
<1>3. hub \in BOOLEAN /\ kept \in BOOLEAN /\ how \in BOOLEAN
  BY DEF WorldTyped, Known
<1>4. Avail \in Nat \ {0} /\ Avail = Cardinality(online)
  <2>1. Avail \in Nat /\ Len(Workers) + 1 = Avail /\ Workers \in Seq(Node)
    BY WorkersAre DEF WorldTyped
  <2>2. Len(Workers) \in Nat
    BY <2>1
  <2>. QED
    BY <2>1, <2>2 DEF Avail
<1>5. /\ r.weights \in Nat /\ r.tp \in Nat
      /\ asked.engine \in {"vllm", "tensorfold"} /\ ~r.blocked =>
           /\ Default(r.tp, 1) <= Avail /\ Fits(r.weights, Default(r.tp, 1))
           /\ TpAllowed(asked.engine, Default(r.tp, 1))
  <2>1. r = Recommend(f, asked.engine, hub, kept, Avail)
    OBVIOUS
  <2>. HIDE DEF f, kept
  <2>. QED
    BY <1>2, <1>3, <1>4, <2>1, AnswerForm
<1>6. w \in Nat /\ n \in Nat \ {0}
  <2>. HIDE DEF f, how
  <2>. QED
    BY <1>2, <1>3, <1>4, WeightIsNumber, Needed
<1>7. asked.engine = "vllm" => VllmMade(r, f, how, w, n)
  <2>1. r = Recommend(f, asked.engine, hub, kept, Avail)
    OBVIOUS
  <2>. HIDE DEF f, kept
  <2>2. asked.engine = "vllm" => r = RecommendVllm(f, hub, kept, Avail)
    BY <2>1 DEF Recommend
  <2>. QED
    BY <1>2, <1>3, <1>4, <2>2, VllmForm
<1>. HIDE DEF f, kept, how, w, n, a
<1>8. a.engine = "vllm" => a.image # NoImage
  BY <1>1, <1>7, MadeHasImage
<1>9. FirstBoots(f, a) => ~Unsafe(a.moe, Analyze(f, TRUE), a.image)
  <2>. SUFFICES ASSUME FirstBoots(f, a) PROVE ~Unsafe(a.moe, Analyze(f, TRUE), a.image)
    OBVIOUS
  <2>1. how /\ asked.engine = "vllm" /\ f.overlay = NoOverlay
    BY <1>1 DEF FirstBoots
  <2>2. ~Unsafe(r.moe, Analyze(f, how), r.image)
    BY <1>7, <2>1 DEF VllmMade
  <2>3. Analyze(f, how) = Analyze(f, TRUE)
    BY <2>1, AnalyzeKnown
  <2>. QED
    BY <1>1, <2>2, <2>3
<1>10. Ram >= 30 => SizedWell(f, a)
  <2>. DEFINE unit == KvCache(f.shape, Latent(f, r.kv), r.kv)
              per == (r.weights * 1024) \div Default(r.tp, 1)
              kv == r.window * Default(r.seqs, 4) * unit
              share == r.util * Ram * 1024
              half == 512 * Ram
  <2>1. ASSUME Ram >= 30, asked.engine = "vllm", how, 2 * unit <= Budget(per), Budget(per) >= 8 * 1024
        PROVE  /\ (per + kv + Pad * 1024) * 100 <= share + half
               /\ share - half <= (Ram - Reserve) * 1024 * 100
               /\ f.native > 0 => r.window <= f.native
    <3>1. VllmMade(r, f, how, w, n)
      BY <1>7, <2>1
    <3>2. Analyze(f, how).native = f.native /\ Shape(f, how, r.kv) = f.shape
      <4>1. how => Analyze(f, how).native = f.native /\ Shape(f, how, r.kv) = f.shape
        BY ONLY DetKnown
      <4>2. how
        BY <2>1
      <4>. QED
        BY ONLY Zenon, <4>1, <4>2
    <3>. HIDE DEF unit, per
    <3>3. unit = KvCache(f.shape, Latent(f, r.kv), r.kv) /\ per = (r.weights * 1024) \div Default(r.tp, 1)
      BY DEF unit, per
    <3>4. 2 * unit <= Budget(per) /\ Budget(per) >= 8 * 1024 /\ Ram >= 30
      BY <2>1
    <3>. QED
      BY ONLY <1>2, <1>6, <3>1, <3>2, <3>3, <3>4, VllmIsSized
  <2>. SUFFICES ASSUME Ram >= 30, a.engine = "vllm", ~a.blocked, a.known,
                       2 * unit <= Budget(per), Budget(per) >= 8 * 1024
                PROVE  /\ (per + kv + Pad * 1024) * 100 <= share + half
                       /\ share - half <= (Ram - Reserve) * 1024 * 100
                       /\ f.native > 0 => r.window <= f.native
    BY <1>1 DEF SizedWell
  <2>2. how /\ asked.engine = "vllm"
    BY <1>1
  <2>. HIDE DEF unit, per, kv, share, half
  <2>. QED
    BY <2>1, <2>2
<1>11. a.blocked /\ a.engine # "tensorfold" => ~Fits(a.weights, Cardinality(a.nodes))
  <2>. SUFFICES ASSUME r.blocked, asked.engine # "tensorfold" PROVE ~Fits(r.weights, Avail)
    BY <1>1, <1>4
  <2>1. r = Recommend(f, asked.engine, hub, kept, Avail)
    BY DEF f, kept
  <2>. QED
    BY <1>2, <1>3, <1>4, <2>1, AnswerWeighs
<1>. DEFINE config == IF asked.engine = "llamacpp" THEN hub ELSE Known(hub, kept)
<1>12. asked.engine # "tensorfold" => r.weights = EstimateWeights(f, hub, config)
  <2>1. r = Recommend(f, asked.engine, hub, kept, Avail)
    BY DEF f, kept
  <2>. QED
    BY <1>2, <1>3, <1>4, <2>1, AnswerWeighs
<1>13. HubCountsOnce /\ a.byHub /\ a.engine # "tensorfold" => a.weights <= facts[a.model].size
  <2>. SUFFICES ASSUME HubCountsOnce, hub, asked.engine # "tensorfold" PROVE r.weights <= f.size
    BY <1>1 DEF f
  <2>1. config \in BOOLEAN /\ config
    BY <1>3 DEF Known
  <2>. HIDE DEF config
  <2>2. EstimateWeights(f, hub, config) = EstimateWeights(f, TRUE, TRUE)
    BY <1>3, <2>1, WeighedByHub
  <2>3. PackedOnce(f)
    BY DEF HubCountsOnce, WorldTyped, f
  <2>. QED
    BY <1>2, <1>12, <2>2, <2>3, MeasuredOnce
<1>14. Sound(facts, a)
  <2>1. a.model \in Model /\ a.tp \in Nat /\ a.weights \in Nat /\ Cardinality(a.nodes) \in Nat
    BY <1>1, <1>4, <1>5
  <2>2. a.engine \in {"vllm", "tensorfold"} /\ ~a.blocked =>
          /\ Default(a.tp, 1) <= Cardinality(a.nodes) /\ Fits(a.weights, Default(a.tp, 1))
          /\ TpAllowed(a.engine, Default(a.tp, 1))
    BY <1>1, <1>4, <1>5
  <2>3. f = facts[a.model]
    BY <1>1 DEF f
  <2>. HIDE DEF HubCountsOnce
  <2>. QED
    BY <1>8, <1>9, <1>10, <1>11, <1>13, <2>1, <2>2, <2>3 DEF Sound
<1>. QED
  BY <1>14 DEF a

LEMMA InitHolds == Init => PageInv
<1>. SUFFICES ASSUME Init PROVE PageInv
  OBVIOUS
<1>1. WorldTyped
  BY DEF Init, WorldTyped, Node
<1>2. PageTyped
  BY DEF Init, PageTyped, Engine, Fields, Blank
<1>3. rec = None /\ asked = None /\ job = None
  BY DEF Init
<1>. QED
  BY <1>1, <1>2, <1>3 DEF PageInv, Answers, JobTyped, LaunchFits, RecommendedIsTaken

\* Each part of the invariant outlives a step that leaves its variables alone.
LEMMA JobStays ==
  ASSUME PageInv, facts' = facts, job' = job
  PROVE  JobTyped' /\ LaunchFits' /\ RecommendedIsTaken'
<1>1. JobTyped'
  <2>. SUFFICES ASSUME job # None
                PROVE  Filed(facts, job) /\ (job.stage \in {"gated", "launched"} => Passed(facts, job))
    BY DEF JobTyped
  <2>. QED
    BY DEF PageInv, JobTyped
<1>2. LaunchFits'
  BY DEF PageInv, LaunchFits, Tp
<1>3. RecommendedIsTaken'
  BY DEF PageInv, RecommendedIsTaken, AsRecommended
<1>. QED
  BY <1>1, <1>2, <1>3

LEMMA WorldStays ==
  ASSUME PageInv, facts' = facts, UNCHANGED <<online, hub>>
  PROVE  WorldTyped'
BY DEF PageInv, WorldTyped

LEMMA AnswersStay ==
  ASSUME PageInv, facts' = facts, rec' = rec \/ rec' = None, asked' = asked \/ asked' = None
  PROVE  Answers'
<1>1. rec' # None => Sound(facts', rec')
  BY DEF PageInv, Answers
<1>2. asked' # None => /\ {"model", "engine", "answer"} \subseteq DOMAIN asked'
                       /\ asked'.model \in Model /\ asked'.engine \in Engine
                       /\ asked'.answer # None => Sound(facts', asked'.answer)
  BY DEF PageInv, Answers
<1>. QED
  BY <1>1, <1>2 DEF Answers

\* A step of the user on the form alone.
LEMMA FormStep ==
  ASSUME PageInv, facts' = facts, job' = job, UNCHANGED <<online, hub, asked>>,
         rec' = rec \/ rec' = None, PageTyped'
  PROVE  PageInv'
BY JobStays, WorldStays, AnswersStay DEF PageInv

LEMMA BlankIs ==
  /\ Fields \cup {"model"} \subseteq DOMAIN Blank /\ Blank.tp = 0 /\ Blank.model = None /\ Blank.image = NoImage
BY DEF Fields, Blank

LEMMA TypeKeeps == ASSUME PageInv, NEW m \in Model, Type(m) PROVE PageInv'
<1>1. PageTyped'
  BY DEF PageInv, PageTyped, Type, Fields
<1>. QED
  BY <1>1, FormStep DEF Type, world

LEMMA TypeTpKeeps == ASSUME PageInv, NEW n \in 0..Cardinality(Node), TypeTp(n) PROVE PageInv'
<1>1. PageTyped'
  BY DEF PageInv, PageTyped, TypeTp, Fields
<1>. QED
  BY <1>1, FormStep DEF TypeTp, world

LEMMA SelectEngineKeeps == ASSUME PageInv, NEW e \in Engine, SelectEngine(e) PROVE PageInv'
<1>1. PageTyped'
  BY BlankIs DEF PageInv, PageTyped, SelectEngine, Fields
<1>. QED
  BY <1>1, FormStep DEF SelectEngine, world

LEMMA ClearFormKeeps == ASSUME PageInv, ClearForm PROVE PageInv'
<1>1. PageTyped'
  BY BlankIs DEF PageInv, PageTyped, ClearForm
<1>. QED
  BY <1>1, FormStep DEF ClearForm, world

LEMMA ApplyExampleKeeps == ASSUME PageInv, NEW x \in Presets, ApplyExample(x) PROVE PageInv'
<1>1. PageTyped'
  <2>1. x.model \in Model
    BY PageAssumption
  <2>. DEFINE g == IF engine = "vllm" THEN form ELSE Blank
  <2>2. Fields \cup {"model"} \subseteq DOMAIN g /\ g.tp \in Nat
    BY BlankIs DEF PageInv, PageTyped
  <2>3. form' = [g EXCEPT !.model = x.model, !.moe = x.moe, !.seqs = x.seqs] /\ engine' = "vllm"
    BY DEF ApplyExample
  <2>. HIDE DEF g
  <2>. QED
    BY <2>1, <2>2, <2>3 DEF PageTyped, Fields, Engine
<1>. QED
  BY <1>1, FormStep DEF ApplyExample, world

LEMMA FilledIs ==
  ASSUME NEW g, NEW r, Fields \cup {"model"} \subseteq DOMAIN g
  PROVE  /\ Fields \cup {"model"} \subseteq DOMAIN Filled(g, r)
         /\ Filled(g, r).tp = g.tp /\ Filled(g, r).model = g.model
BY DEF Filled, Fields

LEMMA ApplyRecipeKeeps == ASSUME PageInv, NEW r, ApplyRecipe(r) PROVE PageInv'
<1>1. PageTyped'
  BY FilledIs DEF PageInv, PageTyped, ApplyRecipe
<1>. QED
  BY <1>1, FormStep DEF ApplyRecipe, world
-----------------------------------------------------------------------------
LEMMA AskKeeps == ASSUME PageInv, Ask PROVE PageInv'
<1>1. form.model \in Model /\ engine \in Engine /\ rec' = rec /\ facts' = facts
  BY DEF PageInv, PageTyped, Ask
<1>2. asked' = [model |-> form.model, engine |-> engine, answer |-> None]
  BY DEF Ask
<1>3. Answers'
  BY <1>1, <1>2 DEF PageInv, Answers
<1>4. PageTyped'
  BY DEF PageInv, PageTyped, Ask
<1>. QED
  BY <1>3, <1>4, JobStays, WorldStays DEF PageInv, Ask, world

LEMMA ComputeKeeps == ASSUME PageInv, Compute PROVE PageInv'
<1>1. PICK r \in {Recommend(facts[asked.model], asked.engine, hub, asked.model \in cached, Avail)} :
         asked' = [asked EXCEPT !.answer = Answer(r)]
  BY DEF Compute
<1>2. /\ {"model", "engine", "answer"} \subseteq DOMAIN asked
      /\ asked.model \in Model /\ asked.engine \in Engine
  BY DEF PageInv, Answers, Compute
<1>3. Sound(facts, Answer(r))
  BY <1>1, <1>2, AnswerIsSound DEF PageInv
<1>4. /\ {"model", "engine", "answer"} \subseteq DOMAIN asked' /\ asked'.answer = Answer(r)
      /\ asked'.model = asked.model /\ asked'.engine = asked.engine
  BY <1>1, <1>2
<1>5. Answers'
  BY <1>2, <1>3, <1>4 DEF PageInv, Answers, Compute
<1>6. PageTyped'
  BY DEF PageInv, PageTyped, Compute
<1>. QED
  BY <1>5, <1>6, JobStays, WorldStays DEF PageInv, Compute, world

LEMMA ShowKeeps == ASSUME PageInv, Show PROVE PageInv'
<1>. DEFINE a == asked.answer
            g == Applied(form, a)
<1>1. Sound(facts, a)
  BY DEF PageInv, Answers, Show
<1>2. a.model \in Model /\ a.tp \in Nat
  BY <1>1 DEF Sound
<1>3. Fields \cup {"model"} \subseteq DOMAIN g /\ g.tp \in Nat
  <2>1. Fields \cup {"model"} \subseteq DOMAIN Filled(form, a) /\ Filled(form, a).tp \in Nat
    BY FilledIs DEF PageInv, PageTyped
  <2>2. g = [Filled(form, a) EXCEPT !.tp = Default(a.tp, @), !.util = Default(a.util, @)]
    BY DEF Applied
  <2>. HIDE DEF g, a
  <2>. QED
    BY <1>2, <2>1, <2>2 DEF Fields, Default
<1>4. form' = [g EXCEPT !.model = a.model] /\ rec' = a /\ asked' = None /\ engine' = engine
  BY DEF Show
<1>. HIDE DEF a, g
<1>5. PageTyped'
  BY <1>2, <1>3, <1>4 DEF PageInv, PageTyped, Fields
<1>6. Answers'
  BY <1>1, <1>4 DEF Answers, Show
<1>. QED
  BY <1>5, <1>6, JobStays, WorldStays DEF PageInv, Show, world

LEMMA AskFailsKeeps == ASSUME PageInv, AskFails PROVE PageInv'
<1>1. PageTyped'
  BY DEF PageInv, PageTyped, AskFails
<1>2. Answers'
  BY DEF Answers, AskFails
<1>. QED
  BY <1>1, <1>2, JobStays, WorldStays DEF PageInv, AskFails, world

-----------------------------------------------------------------------------
LEMMA PageStays ==
  ASSUME PageInv, UNCHANGED <<facts, engine, form, rec, asked>>
  PROVE  PageTyped' /\ Answers'
BY AnswersStay DEF PageInv, PageTyped

LEMMA SentIs ==
  ASSUME NEW e \in Engine, form.tp \in Nat
  PROVE  /\ Fields \subseteq DOMAIN Sent(e) /\ Sent(e).tp \in Nat
         /\ e \in {"vllm", "tensorfold"} => Sent(e).tp = form.tp
         /\ e = "vllm" => Sent(e).image = form.image /\ Sent(e).moe = form.moe
<1>1. \A x \in Fields : Sent(e)[x] = IF x \in Translates[e] THEN form[x] ELSE Blank[x]
  BY DEF Sent
<1>2. {"tp", "image", "moe"} \subseteq Fields /\ DOMAIN Sent(e) = Fields
  BY DEF Fields, Sent
<1>3. /\ Translates["vllm"] = Fields
      /\ "tp" \in Translates["tensorfold"]
  BY DEF Translates
<1>. QED
  BY <1>1, <1>2, <1>3, BlankIs

LEMMA StartKeeps == ASSUME PageInv, NEW d \in BOOLEAN, Start(d) PROVE PageInv'
<1>. DEFINE j == [stage |-> "queued", model |-> form.model, engine |-> engine, shown |-> rec,
                  body |-> Sent(engine), typed |-> form, kept |-> FALSE, weights |-> 0, nodes |-> {},
                  ranks |-> <<>>]
<1>1. job' = j /\ facts' = facts
  BY DEF Start
<1>2. /\ form.model \in Model /\ engine \in Engine /\ form.tp \in Nat
      /\ rec # None => Sound(facts, rec) /\ ~rec.blocked
  BY DEF PageInv, PageTyped, Answers, Start
<1>3. Filed(facts, j)
  BY <1>2, SentIs DEF Filed
<1>4. j.stage = "queued"
  OBVIOUS
<1>. HIDE DEF j
<1>5. JobTyped' /\ LaunchFits' /\ RecommendedIsTaken'
  BY <1>1, <1>3, <1>4 DEF JobTyped, LaunchFits, RecommendedIsTaken
<1>. QED
  BY <1>5, PageStays, WorldStays DEF PageInv, Start, page
-----------------------------------------------------------------------------
LEMMA GuardedIs ==
  ASSUME NEW j, Fields \subseteq DOMAIN j.body
  PROVE  /\ Fields \subseteq DOMAIN Guarded(j) /\ Guarded(j).tp = j.body.tp /\ Guarded(j).image = j.body.image
         /\ Unsafe(j.body.moe, Analyze(facts[j.model], j.model \in cached), ImageOf(j)) => Guarded(j).moe = ""
         /\ ~Unsafe(j.body.moe, Analyze(facts[j.model], j.model \in cached), ImageOf(j)) => Guarded(j) = j.body
BY DEF Guarded, Fields

\* With config.json in the cache the guards drop an unsafe backend, and leave the one
\* auto-configure had found safe.
LEMMA GuardKeeps ==
  ASSUME NEW j, Filed(facts, j), j.stage = "queued",
         NEW stage, NEW w,
         NEW k, k = [j EXCEPT !.stage = stage, !.weights = w, !.nodes = online, !.body = Guarded(j),
                              !.kept = j.model \in cached]
  PROVE  BackendKept(facts, k)
<1>1. /\ {"stage", "model", "engine", "shown", "body", "typed", "kept", "weights", "nodes", "ranks"} \subseteq DOMAIN j
      /\ Fields \subseteq DOMAIN j.body
      /\ j.shown # None => Sound(facts, j.shown)
  BY DEF Filed
<1>2. /\ k.model = j.model /\ k.engine = j.engine /\ k.shown = j.shown /\ k.typed = j.typed
      /\ k.body = Guarded(j) /\ k.kept = (j.model \in cached)
  BY <1>1
<1>3. SUFFICES ASSUME j.engine = "vllm", j.model \in cached
               PROVE  /\ ~Unsafe(k.body.moe, Analyze(facts[k.model], TRUE), ImageOf(k))
                      /\ AsRecommended(k) /\ FirstBoots(facts[k.model], k.shown) => k.body.moe = k.shown.moe
  BY <1>2 DEF BackendKept
<1>. DEFINE det == Analyze(facts[j.model], TRUE)
            g == Guarded(j)
<1>4. Analyze(facts[j.model], j.model \in cached) = det
  BY <1>3, AnalyzeKnown
<1>5. /\ g.image = j.body.image
      /\ Unsafe(j.body.moe, det, ImageOf(j)) => g.moe = ""
      /\ ~Unsafe(j.body.moe, det, ImageOf(j)) => g = j.body
  <2>1. /\ g.image = j.body.image
        /\ Unsafe(j.body.moe, Analyze(facts[j.model], j.model \in cached), ImageOf(j)) => g.moe = ""
        /\ ~Unsafe(j.body.moe, Analyze(facts[j.model], j.model \in cached), ImageOf(j)) => g = j.body
    BY <1>1, GuardedIs
  <2>. HIDE DEF det, g
  <2>. QED
    BY ONLY <1>4, <2>1
<1>6. k.body = g
  BY <1>2
<1>. HIDE DEF g
<1>7. ImageOf(k) = ImageOf(j)
  BY <1>2, <1>5, <1>6 DEF ImageOf
<1>. HIDE DEF det
<1>8. CASE Unsafe(j.body.moe, det, ImageOf(j))
  <2>1. k.body.moe = ""
    BY <1>8, <1>5, <1>6
  <2>2. ~Unsafe("", det, ImageOf(j))
    BY NoBackendIsSafe
  <2>3. ASSUME AsRecommended(k), FirstBoots(facts[k.model], k.shown) PROVE FALSE
    <3>1. /\ k.shown # None /\ k.shown.model = j.model /\ k.shown.engine = "vllm"
          /\ k.typed.image = k.shown.image /\ k.typed.moe = k.shown.moe
      BY <1>2, <1>3, <2>3 DEF AsRecommended
    <3>2. k.shown.image # NoImage /\ ~Unsafe(k.shown.moe, det, k.shown.image)
      BY <1>1, <1>2, <2>3, <3>1 DEF Sound, det
    <3>3. j.body.moe = k.shown.moe /\ j.body.image = k.shown.image
      BY <1>2, <1>3, <3>1 DEF Filed
    <3>4. ImageOf(j) = k.shown.image
      BY <3>2, <3>3 DEF ImageOf, Default, NoImage
    <3>. QED
      BY <1>8, <3>2, <3>3, <3>4
  <2>. QED
    BY <1>2, <1>7, <2>1, <2>2, <2>3 DEF det
<1>9. CASE ~Unsafe(j.body.moe, det, ImageOf(j))
  <2>1. k.body = j.body
    BY <1>9, <1>5, <1>6
  <2>2. AsRecommended(k) => k.body.moe = k.shown.moe
    BY <1>2, <1>3, <2>1 DEF AsRecommended, Filed
  <2>. QED
    BY <1>2, <1>7, <1>9, <2>1, <2>2 DEF det
<1>. QED
  BY <1>8, <1>9

\* A recommended form asks as many ranks as the nodes it was made for can give.
LEMMA RecommendedRanks ==
  ASSUME NEW j, Filed(facts, j), AsRecommended(j), j.engine \in {"vllm", "tensorfold"}
  PROVE  /\ Tp(j) \in Nat \ {0} /\ Tp(j) <= Cardinality(j.shown.nodes) /\ Cardinality(j.shown.nodes) \in Nat
         /\ Fits(j.shown.weights, Tp(j)) /\ TpAllowed(j.engine, Tp(j))
<1>1. j.shown # None /\ j.shown.engine = j.engine /\ j.typed.tp = j.shown.tp
  BY DEF AsRecommended
<1>2. Sound(facts, j.shown) /\ ~j.shown.blocked /\ j.body.tp = j.shown.tp
  BY <1>1 DEF Filed
<1>3. Tp(j) = Default(j.shown.tp, 1)
  BY <1>2 DEF Tp
<1>4. /\ j.shown.tp \in Nat /\ Cardinality(j.shown.nodes) \in Nat
      /\ Default(j.shown.tp, 1) <= Cardinality(j.shown.nodes)
      /\ Fits(j.shown.weights, Default(j.shown.tp, 1))
      /\ TpAllowed(j.engine, Default(j.shown.tp, 1))
  BY <1>1, <1>2 DEF Sound
<1>5. Default(j.shown.tp, 1) \in Nat \ {0}
  BY <1>4 DEF Default
<1>. QED
  BY <1>3, <1>4, <1>5

LEMMA OnlineNodes ==
  ASSUME WorldTyped
  PROVE  Avail \in Nat \ {0} /\ Avail = Cardinality(online)
<1>1. Avail \in Nat /\ Len(Workers) + 1 = Avail /\ Workers \in Seq(Node)
  BY WorkersAre DEF WorldTyped
<1>2. Len(Workers) \in Nat
  BY <1>1
<1>. QED
  BY <1>1, <1>2 DEF Avail

LEMMA GateKeeps == ASSUME PageInv, Gate PROVE PageInv'
<1>. DEFINE w == Measured(job)
            passes == /\ TpAllowed(job.engine, Tp(job))
                      /\ Fits(w, NodesUsed(Tp(job), w))
                      /\ Tp(job) >= 2 => job.engine \in Together
            stage == IF passes THEN "gated" ELSE "refused"
            k == [job EXCEPT !.stage = stage, !.weights = w, !.nodes = online, !.body = Guarded(job),
                             !.kept = job.model \in cached]
<1>1. job' = k /\ facts' = facts
  BY DEF Gate
<1>2. Filed(facts, job) /\ job.stage = "queued" /\ WorldTyped
  BY DEF PageInv, JobTyped, Gate
<1>3. w \in Nat
  <2>1. Described(facts[job.model])
    BY <1>2, FactsAre DEF Filed
  <2>2. hub \in BOOLEAN /\ (job.model \in cached) \in BOOLEAN
    BY <1>2 DEF WorldTyped
  <2>. QED
    BY <2>1, <2>2, WeightIsNumber DEF Measured
<1>4. Avail \in Nat \ {0} /\ Avail = Cardinality(online)
  BY <1>2, OnlineNodes
<1>5. BackendKept(facts, k)
  <2>. HIDE DEF stage, w
  <2>. QED
    BY <1>2, GuardKeeps
<1>. DEFINE g == Guarded(job)
<1>6. /\ Fields \subseteq DOMAIN g /\ g.tp = job.body.tp /\ g.image = job.body.image
      /\ {"stage", "model", "engine", "shown", "body", "typed", "kept", "weights", "nodes", "ranks"} \subseteq DOMAIN job
  BY <1>2, GuardedIs DEF Filed
<1>7. /\ {"stage", "model", "engine", "shown", "body", "typed", "kept", "weights", "nodes", "ranks"} \subseteq DOMAIN k
      /\ k.stage = stage /\ k.model = job.model /\ k.engine = job.engine /\ k.shown = job.shown
      /\ k.typed = job.typed /\ k.body = g /\ k.weights = w /\ k.nodes = online
  <2>. HIDE DEF stage, w, g
  <2>. QED
    BY <1>6 DEF g
<1>8. stage \in {"gated", "refused"} /\ (stage = "gated" <=> passes)
  OBVIOUS
<1>. HIDE DEF k, stage, g
<1>9. Filed(facts, k)
  BY <1>2, <1>6, <1>7, <1>8 DEF Filed
<1>10. Tp(k) = Tp(job)
  BY <1>6, <1>7 DEF Tp
<1>11. k.stage \in {"gated", "launched"} => Passed(facts, k)
  <2>. SUFFICES ASSUME passes PROVE Passed(facts, k)
    BY <1>7, <1>8
  <2>1. Fits(w, Min({Tp(k), Avail}))
    BY <1>10 DEF NodesUsed
  <2>. HIDE DEF w, passes
  <2>. QED
    BY <1>3, <1>4, <1>5, <1>7, <2>1 DEF Passed
<1>12. ASSUME k.stage = "refused", k.engine \in {"vllm", "tensorfold"}, AsRecommended(k),
              k.nodes = k.shown.nodes, k.weights = k.shown.weights
       PROVE  FALSE
  <2>1. /\ Tp(k) \in Nat \ {0} /\ Tp(k) <= Cardinality(k.shown.nodes)
        /\ Fits(k.shown.weights, Tp(k)) /\ TpAllowed(k.engine, Tp(k))
    BY <1>9, <1>12, RecommendedRanks
  <2>2. Min({Tp(k), Avail}) = Tp(k)
    <3>1. Tp(k) <= Avail
      BY <1>4, <1>7, <1>12, <2>1
    <3>. QED
      BY <1>4, <2>1, <3>1, LesserOfTwo
  <2>3. Fits(w, NodesUsed(Tp(job), w))
    <3>. HIDE DEF w
    <3>. QED
      BY <1>7, <1>10, <1>12, <2>1, <2>2 DEF NodesUsed
  <2>4. TpAllowed(job.engine, Tp(job)) /\ job.engine \in Together
    BY <1>7, <1>10, <1>12, <2>1 DEF Together, Engine
  <2>5. passes
    <3>. HIDE DEF w
    <3>. QED
      BY <2>3, <2>4
  <2>. QED
    BY <1>7, <1>8, <1>12, <2>5
<1>. HIDE DEF w, passes
<1>13. JobTyped'
  BY <1>1, <1>9, <1>11 DEF JobTyped
<1>14. LaunchFits'
  BY <1>1, <1>7, <1>8 DEF LaunchFits
<1>15. RecommendedIsTaken'
  BY <1>1, <1>12 DEF RecommendedIsTaken, AsRecommended
<1>. QED
  BY <1>13, <1>14, <1>15, PageStays, WorldStays DEF PageInv, Gate, page, world

LEMMA LaunchKeeps == ASSUME PageInv, Launch PROVE PageInv'
<1>1. Filed(facts, job) /\ job.stage = "gated" /\ WorldTyped /\ Passed(facts, job) /\ facts' = facts
  BY DEF PageInv, JobTyped, Launch
<1>2. Avail \in Nat \ {0} /\ Avail = Cardinality(online)
  BY <1>1, OnlineNodes
<1>3. Tp(job) \in Nat \ {0}
  BY <1>1 DEF Filed, Tp, Default
<1>4. {"stage", "model", "engine", "shown", "body", "typed", "kept", "weights", "nodes", "ranks"} \subseteq DOMAIN job
  BY <1>1 DEF Filed
<1>5. CASE Tp(job) >= 2 /\ Avail < Tp(job)
  <2>. DEFINE k == [job EXCEPT !.stage = "refused", !.nodes = online]
  <2>1. job' = k
    BY <1>5 DEF Launch
  <2>2. /\ {"stage", "model", "engine", "shown", "body", "typed", "kept", "weights", "nodes", "ranks"} \subseteq DOMAIN k
        /\ k.stage = "refused" /\ k.model = job.model /\ k.engine = job.engine /\ k.shown = job.shown
        /\ k.typed = job.typed /\ k.body = job.body /\ k.nodes = online
    BY <1>4
  <2>. HIDE DEF k
  <2>3. Filed(facts, k) /\ Tp(k) = Tp(job)
    BY <1>1, <2>2 DEF Filed, Tp
  <2>4. ASSUME k.engine \in {"vllm", "tensorfold"}, AsRecommended(k), k.nodes = k.shown.nodes
        PROVE  FALSE
    <3>1. Tp(k) <= Cardinality(k.shown.nodes)
      BY <2>3, <2>4, RecommendedRanks
    <3>2. Tp(job) <= Avail
      BY <1>2, <2>2, <2>3, <2>4, <3>1
    <3>. QED
      BY <1>2, <1>3, <1>5, <3>2
  <2>5. JobTyped'
    BY <1>1, <2>1, <2>2, <2>3 DEF JobTyped
  <2>6. LaunchFits'
    BY <2>1, <2>2 DEF LaunchFits
  <2>7. RecommendedIsTaken'
    BY <2>1, <2>4 DEF RecommendedIsTaken, AsRecommended
  <2>. QED
    BY <2>5, <2>6, <2>7, PageStays, WorldStays DEF PageInv, Launch, page
<1>6. CASE ~(Tp(job) >= 2 /\ Avail < Tp(job))
  <2>. DEFINE ranks == RankNodes(Tp(job), job.weights)
              k == [job EXCEPT !.stage = "launched", !.ranks = ranks]
  <2>1. job' = k
    BY <1>6 DEF Launch
  <2>2. Len(ranks) = Tp(job) /\ IsInjective(ranks) /\ ranks[1] = Local
    <3>1. Tp(job) <= Avail
      BY <1>2, <1>3, <1>6
    <3>. QED
      BY <1>1, <1>3, <3>1, RanksAre DEF WorldTyped
  <2>. HIDE DEF ranks
  <2>3. /\ {"stage", "model", "engine", "shown", "body", "typed", "kept", "weights", "nodes", "ranks"} \subseteq DOMAIN k
        /\ k.stage = "launched" /\ k.model = job.model /\ k.engine = job.engine /\ k.shown = job.shown
        /\ k.typed = job.typed /\ k.body = job.body /\ k.nodes = job.nodes /\ k.weights = job.weights
        /\ k.kept = job.kept /\ k.ranks = ranks
    BY <1>4
  <2>. HIDE DEF k
  <2>4. Filed(facts, k) /\ Tp(k) = Tp(job)
    BY <1>1, <2>3 DEF Filed, Tp
  <2>5. BackendKept(facts, k)
    BY <1>1, <2>3 DEF Passed, BackendKept, ImageOf, AsRecommended
  <2>6. Passed(facts, k)
    BY <1>1, <2>3, <2>4, <2>5 DEF Passed
  <2>7. Fits(k.weights, Tp(k))
    <3>1. /\ job.weights \in Nat /\ Cardinality(job.nodes) \in Nat
          /\ Fits(job.weights, Min({Tp(job), Cardinality(job.nodes)}))
      BY <1>1 DEF Passed
    <3>2. Min({Tp(job), Cardinality(job.nodes)}) \in Nat /\ Min({Tp(job), Cardinality(job.nodes)}) <= Tp(job)
      BY <1>3, <3>1, LesserOfTwo
    <3>. QED
      BY <1>3, <2>3, <2>4, <3>1, <3>2, FitsOnMore
  <2>8. JobTyped'
    BY <1>1, <2>1, <2>4, <2>6 DEF JobTyped
  <2>9. LaunchFits'
    <3>1. Tp(job)' = Tp(k)
      BY <2>1 DEF Tp
    <3>. QED
      BY <2>1, <2>2, <2>3, <2>4, <2>7, <3>1 DEF LaunchFits
  <2>10. RecommendedIsTaken'
    BY <2>1, <2>3 DEF RecommendedIsTaken
  <2>. QED
    BY <2>8, <2>9, <2>10, PageStays, WorldStays DEF PageInv, Launch, page
<1>. QED
  BY <1>5, <1>6

LEMMA JobEndsKeeps == ASSUME PageInv, JobEnds PROVE PageInv'
<1>1. JobTyped' /\ LaunchFits' /\ RecommendedIsTaken'
  BY DEF JobEnds, JobTyped, LaunchFits, RecommendedIsTaken
<1>. QED
  BY <1>1, PageStays, WorldStays DEF PageInv, JobEnds, page, world

\* Nodes come and go, the Hub with them; the local node stays.
LEMMA ChangeKeeps ==
  ASSUME PageInv, (\E n \in Node : Joins(n) \/ Leaves(n)) \/ HubFlips PROVE PageInv'
<1>1. UNCHANGED <<facts, page, job>>
  BY DEF Joins, Leaves, HubFlips, Change
<1>2. online' \subseteq Node /\ Local \in online' /\ hub' \in BOOLEAN
  <2>1. online \subseteq Node /\ Local \in online /\ hub \in BOOLEAN
    BY DEF PageInv, WorldTyped
  <2>2. ASSUME NEW n \in Node, Joins(n) \/ Leaves(n) PROVE online' \subseteq Node /\ Local \in online' /\ hub' = hub
    BY <2>1, <2>2 DEF Joins, Leaves
  <2>3. ASSUME HubFlips PROVE online' = online /\ hub' \in BOOLEAN
    BY <2>3 DEF HubFlips
  <2>. QED
    BY <2>1, <2>2, <2>3
<1>3. WorldTyped'
  BY <1>1, <1>2 DEF PageInv, WorldTyped
<1>. QED
  BY <1>1, <1>3, JobStays, PageStays DEF PageInv, page

LEMMA StepKeeps == PageInv /\ [Next]_vars => PageInv'
<1>. SUFFICES ASSUME PageInv, [Next]_vars PROVE PageInv'
  OBVIOUS
<1>1. CASE UNCHANGED vars
  BY <1>1, JobStays, PageStays, WorldStays DEF vars, PageInv
<1>2. ASSUME NEW m \in Model, Type(m) PROVE PageInv'
  BY <1>2, TypeKeeps
<1>3. ASSUME NEW n \in 0..Cardinality(Node), TypeTp(n) PROVE PageInv'
  BY <1>3, TypeTpKeeps
<1>4. ASSUME NEW e \in Engine, SelectEngine(e) PROVE PageInv'
  BY <1>4, SelectEngineKeeps
<1>5. ASSUME NEW x \in Presets, ApplyExample(x) PROVE PageInv'
  BY <1>5, ApplyExampleKeeps
<1>6. ASSUME NEW r, ApplyRecipe(r) PROVE PageInv'
  BY <1>6, ApplyRecipeKeeps
<1>7. ASSUME NEW d \in BOOLEAN, Start(d) PROVE PageInv'
  BY <1>7, StartKeeps
<1>8. CASE ClearForm \/ Ask \/ Compute \/ Show \/ AskFails
  BY <1>8, ClearFormKeeps, AskKeeps, ComputeKeeps, ShowKeeps, AskFailsKeeps
<1>9. CASE Gate \/ Launch \/ JobEnds
  BY <1>9, GateKeeps, LaunchKeeps, JobEndsKeeps
<1>10. CASE (\E n \in Node : Joins(n) \/ Leaves(n)) \/ HubFlips
  BY <1>10, ChangeKeeps
<1>. QED
  BY <1>1, <1>2, <1>3, <1>4, <1>5, <1>6, <1>7, <1>8, <1>9, <1>10 DEF Next

THEOREM PageHolds == Spec => []PageInv
<1>1. Init => PageInv
  BY InitHolds
<1>2. PageInv /\ [Next]_vars => PageInv'
  BY StepKeeps
<1>. QED
  BY <1>1, <1>2, PTL DEF Spec
-----------------------------------------------------------------------------
(* The theorems                                                            *)

\* However the cluster changes between the gate's look at it and the launch's, a serve that is
\* launched has one node for every rank, no node twice and the local one first, and the weights
\* the gate measured fit those nodes.
THEOREM LaunchesFit == Spec => []LaunchFits
<1>1. PageInv => LaunchFits
  BY DEF PageInv
<1>. QED
  BY <1>1, PageHolds, PTL

\* A recommended vLLM or TensorFold form that the page lets the user start is refused only when
\* other nodes are online by then, or the weights measure otherwise.
THEOREM RecommendedFormsAreTaken == Spec => []RecommendedIsTaken
<1>1. PageInv => RecommendedIsTaken
  BY DEF PageInv
<1>. QED
  BY <1>1, PageHolds, PTL

\* And where the Hub's files, its index and the estimate say no more than what one copy of the
\* weights weighs, a recommendation is blocked only when all nodes together do not hold them.
THEOREM StartAndConfigureAgree == ASSUME HubCountsOnce PROVE Spec => []StartAgrees
<1>1. PageInv => StartAgrees
  <2>. SUFFICES ASSUME PageInv, rec # None, rec.blocked, rec.byHub, rec.engine # "tensorfold",
                       Fits(facts[rec.model].size, Cardinality(rec.nodes))
                PROVE  FALSE
    BY DEF StartAgrees, PageInv
  <2>1. /\ rec.model \in Model /\ rec.weights \in Nat /\ Cardinality(rec.nodes) \in Nat
        /\ ~Fits(rec.weights, Cardinality(rec.nodes)) /\ rec.weights <= facts[rec.model].size
    BY DEF PageInv, Answers, Sound
  <2>2. facts[rec.model].size \in Nat
    BY <2>1, FactsAre DEF PageInv, Described
  <2>. QED
    BY <2>1, <2>2, LessFits
<1>. QED
  BY <1>1, PageHolds, PTL

\* Neither a recommendation made from a known config.json nor a vLLM serve launched with
\* config.json in the cache forces a MoE backend that crashes the checkpoint on its image, and
\* the guards of the job do not drop the backend that was recommended.
THEOREM BackendsAreSafe == Spec => []BackendIsSafe
<1>1. PageInv => BackendIsSafe
  BY DEF PageInv, Answers, Sound, JobTyped, Passed, BackendKept, BackendIsSafe
<1>. QED
  BY <1>1, PageHolds, PTL

\* On nodes of 30 GiB and more, a recommended vLLM form whose weights leave room holds on every
\* node the weights, the cache and the runtime within the share of memory it names, and that
\* share leaves the reserve free.  Below 30 GiB the floor of one half reaches into the reserve.
THEOREM FormsAreSized == ASSUME Ram >= 30 PROVE Spec => []SizedAsPromised
<1>1. PageInv => SizedAsPromised
  BY DEF PageInv, Answers, Sound, SizedAsPromised
<1>. QED
  BY <1>1, PageHolds, PTL
=============================================================================
