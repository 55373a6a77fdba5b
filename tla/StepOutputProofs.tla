-------------------------- MODULE StepOutputProofs --------------------------
(***************************************************************************)
(* Proofs about StepOutput: its types, for all sizes of a period that can  *)
(* hold a step, and for one session of the thread that the count is the    *)
(* position of the drive, that the step pin is known, and that the drive   *)
(* gets its times.                                                         *)
(*                                                                         *)
(* makePulses is first shown to be right about one fill: which slots it    *)
(* writes, which level the pin has in each, how far the drive is moved     *)
(* and what the joint keeps for the next period.  The invariants then say  *)
(* where the pins and the drive will be when all that is queued has been   *)
(* played, and which distances all edges keep, those that the drive has    *)
(* seen and those that it will see.                                        *)
(***************************************************************************)
EXTENDS StepOutput, FiniteSetTheorems, WellFoundedInduction, TLAPS
-----------------------------------------------------------------------------
(***************************************************************************)
(* Sets, toggles, edges and moves.                                         *)
(***************************************************************************)

(* The constants and the times in slots are positive.                      *)
LEMMA Sizes ==
  /\ Slots \in Nat \ {0} /\ Half \in Nat \ {0} /\ CountMod \in Nat \ {0}
  /\ Length \in Nat \ {0} /\ Space \in Nat \ {0} /\ Hold \in Nat \ {0}
  /\ SetupTime \in Nat \ {0} /\ StepPosMod \in Nat \ {0}
  /\ LongAgo \in Int /\ LongAgo <= 0
  BY StepgenAssumption
     DEF Length, Space, Hold, SetupTime, AtLeastOne, LongAgo

(* A set of natural numbers has a least one; the proofs over the slots of  *)
(* a buffer take a least counterexample, since induction is out of reach.  *)
LEMMA Least ==
  ASSUME NEW S \in SUBSET Nat, S # {}
  PROVE  \E m \in S : \A x \in S : m <= x
  <1>1. PICK m \in S : \A x \in S : ~(<<x, m>> \in OpToRel(<, Nat))
    BY WFMin, NatLessThanWellFounded
  <1>2. \A x \in S : ~(x < m)
    BY <1>1 DEF OpToRel
  <1> QED
    BY <1>2

(* A set of integers within bounds has a greatest one, which is its Max.   *)
LEMMA Greatest ==
  ASSUME NEW lo \in Int, NEW hi \in Int, NEW S \in SUBSET (lo..hi), S # {}
  PROVE  Max(S) \in S /\ \A x \in S : x <= Max(S)
  <1> DEFINE D == {hi - x : x \in S}
  <1>1. D \in SUBSET Nat /\ D # {}
    OBVIOUS
  <1>2. PICK m \in D : \A d \in D : m <= d
    BY <1>1, Least
  <1>3. PICK x \in S : m = hi - x
    BY <1>2
  <1>4. ASSUME NEW y \in S PROVE x >= y
    <2>1. m <= hi - y /\ y \in Int /\ x \in Int
      BY <1>2
    <2> QED
      BY <2>1, <1>3
  <1> QED
    BY <1>4 DEF Max

(* Max and Min of two numbers.                                             *)
LEMMA MaxOfTwo ==
  ASSUME NEW x \in Int, NEW y \in Int
  PROVE  Max({x, y}) = IF x >= y THEN x ELSE y
  <1>1. \A z \in {x, y} : z = x \/ z = y
    OBVIOUS
  <1>2. CASE x >= y
    <2>1. \A z \in {x, y} : x >= z
      BY <1>2
    <2>2. Max({x, y}) \in {x, y} /\ \A z \in {x, y} : Max({x, y}) >= z
      BY <2>1, Zenon DEF Max
    <2> QED
      BY <1>2, <2>2
  <1>3. CASE ~(x >= y)
    <2>1. \A z \in {x, y} : y >= z
      BY <1>3
    <2>2. Max({x, y}) \in {x, y} /\ \A z \in {x, y} : Max({x, y}) >= z
      BY <2>1, Zenon DEF Max
    <2> QED
      BY <1>3, <2>2
  <1> QED
    BY <1>2, <1>3

LEMMA MinOfTwo ==
  ASSUME NEW x \in Int, NEW y \in Int
  PROVE  Min({x, y}) = IF x <= y THEN x ELSE y
  <1>2. CASE x <= y
    <2>1. \A z \in {x, y} : x <= z
      BY <1>2
    <2>2. Min({x, y}) \in {x, y} /\ \A z \in {x, y} : Min({x, y}) <= z
      BY <2>1, Zenon DEF Min
    <2> QED
      BY <1>2, <2>2
  <1>3. CASE ~(x <= y)
    <2>1. \A z \in {x, y} : y <= z
      BY <1>3
    <2>2. Min({x, y}) \in {x, y} /\ \A z \in {x, y} : Min({x, y}) <= z
      BY <2>1, Zenon DEF Min
    <2> QED
      BY <1>3, <2>2
  <1> QED
    BY <1>2, <1>3

-----------------------------------------------------------------------------

(* The sizes of disjoint finite sets add up.                               *)
LEMMA Disjoint ==
  ASSUME NEW A, NEW B, IsFiniteSet(A), IsFiniteSet(B), A \cap B = {}
  PROVE  /\ IsFiniteSet(A \cup B)
         /\ Cardinality(A) \in Nat /\ Cardinality(B) \in Nat
         /\ Cardinality(A \cup B) = Cardinality(A) + Cardinality(B)
  <1>1. Cardinality(A \cap B) = 0
    BY FS_EmptySet
  <1>2. Cardinality(A) \in Nat /\ Cardinality(B) \in Nat
    BY FS_CardinalityType
  <1>3. /\ IsFiniteSet(A \cup B)
        /\ Cardinality(A \cup B)
             = Cardinality(A) + Cardinality(B) - Cardinality(A \cap B)
    BY FS_Union
  <1> QED
    BY <1>1, <1>2, <1>3

(* A level after two disjoint sets of toggles is the level after the one   *)
(* and then after the other.                                               *)
LEMMA AfterUnion ==
  ASSUME NEW level \in BOOLEAN, NEW A, NEW B,
         IsFiniteSet(A), IsFiniteSet(B), A \cap B = {}
  PROVE  After(level, A \cup B) = After(After(level, A), B)
  <1>1. /\ Cardinality(A) \in Nat /\ Cardinality(B) \in Nat
        /\ Cardinality(A \cup B) = Cardinality(A) + Cardinality(B)
    BY Disjoint
  <1>2. Odd(A \cup B) <=> ~(Odd(A) <=> Odd(B))
    BY <1>1 DEF Odd
  <1>3. Odd(A) \in BOOLEAN /\ Odd(B) \in BOOLEAN /\ Odd(A \cup B) \in BOOLEAN
    BY DEF Odd
  <1> QED
    BY <1>2, <1>3, Zenon DEF After

(* No toggle keeps the level, one changes it.                              *)
LEMMA AfterOne ==
  ASSUME NEW level \in BOOLEAN
  PROVE  /\ After(level, {}) = level
         /\ \A x : After(level, {x}) = ~level
  <1>1. Cardinality({}) = 0 /\ \A x : Cardinality({x}) = 1
    BY FS_EmptySet, FS_Singleton
  <1>2. ~(0 % 2 = 1) /\ 1 % 2 = 1
    OBVIOUS
  <1>3. Odd({}) = FALSE /\ \A x : Odd({x}) = TRUE
    BY <1>1, <1>2, Zenon DEF Odd
  <1> QED
    BY <1>3, Zenon DEF After

LEMMA AfterType == \A level, S : After(level, S) \in BOOLEAN
  BY DEF After

(* The toggles of a pin in a stretch are a finite set of slots.            *)
LEMMA AtIs ==
  ASSUME NEW T \in SUBSET Toggle, NEW pin, NEW a \in Int, NEW b \in Int
  PROVE  /\ \A s : s \in At(T, pin, a, b) <=> <<pin, s>> \in T /\ a <= s /\ s < b
         /\ At(T, pin, a, b) \subseteq 0..Slots - 1
         /\ IsFiniteSet(At(T, pin, a, b))
  <1>1. \A s : s \in At(T, pin, a, b) <=> <<pin, s>> \in T /\ a <= s /\ s < b
    BY DEF At, Toggle
  <1>2. At(T, pin, a, b) \subseteq 0..Slots - 1
    <2>1. \A s : <<pin, s>> \in T => s \in 0..Slots - 1
      BY DEF Toggle
    <2> QED
      BY <1>1, <2>1
  <1>3. IsFiniteSet(0..Slots - 1)
    BY Sizes, FS_Interval
  <1> QED
    BY <1>1, <1>2, <1>3, FS_Subset

(* A stretch of toggles that is cut in two.                                *)
LEMMA AtSplit ==
  ASSUME NEW T \in SUBSET Toggle, NEW pin,
         NEW a \in Int, NEW b \in Int, NEW c \in Int, a <= b, b <= c
  PROVE  /\ At(T, pin, a, c) = At(T, pin, a, b) \cup At(T, pin, b, c)
         /\ At(T, pin, a, b) \cap At(T, pin, b, c) = {}
         /\ At(T, pin, a, b) = {s \in At(T, pin, a, c) : s < b}
         /\ At(T, pin, b, c) = {s \in At(T, pin, a, c) : b <= s}
  <1>1. ASSUME NEW s
        PROVE  /\ s \in At(T, pin, a, c) => s \in Int
               /\ s \in At(T, pin, a, b)
                    <=> s \in At(T, pin, a, c) /\ s < b
               /\ s \in At(T, pin, b, c)
                    <=> s \in At(T, pin, a, c) /\ b <= s
    <2>1. /\ s \in At(T, pin, a, c) <=> <<pin, s>> \in T /\ a <= s /\ s < c
          /\ s \in At(T, pin, a, b) <=> <<pin, s>> \in T /\ a <= s /\ s < b
          /\ s \in At(T, pin, b, c) <=> <<pin, s>> \in T /\ b <= s /\ s < c
      BY AtIs, Zenon
    <2>2. \A r : <<pin, r>> \in T => r \in Int
      BY Sizes DEF Toggle
    <2> QED
      BY <2>1, <2>2
  <1>2. \A s \in At(T, pin, a, c) : ~(s < b) <=> b <= s
    BY <1>1
  <1>3. /\ At(T, pin, a, b) = {s \in At(T, pin, a, c) : s < b}
        /\ At(T, pin, b, c) = {s \in At(T, pin, a, c) : b <= s}
    BY <1>1, Zenon
  <1> HIDE DEF At
  <1>4. At(T, pin, a, c) = At(T, pin, a, b) \cup At(T, pin, b, c)
    BY <1>2, <1>3
  <1>5. At(T, pin, a, b) \cap At(T, pin, b, c) = {}
    BY <1>2, <1>3
  <1> QED
    BY <1>3, <1>4, <1>5

(* The level at its end, by the level at the cut.                          *)
LEMMA LevelSplit ==
  ASSUME NEW T \in SUBSET Toggle, NEW pin, NEW level \in BOOLEAN,
         NEW a \in Int, NEW b \in Int, NEW c \in Int, a <= b, b <= c
  PROVE  After(level, At(T, pin, a, c))
           = After(After(level, At(T, pin, a, b)), At(T, pin, b, c))
  <1>1. /\ At(T, pin, a, c) = At(T, pin, a, b) \cup At(T, pin, b, c)
        /\ At(T, pin, a, b) \cap At(T, pin, b, c) = {}
    BY AtSplit
  <1>2. IsFiniteSet(At(T, pin, a, b)) /\ IsFiniteSet(At(T, pin, b, c))
    BY AtIs, Zenon
  <1>3. After(level, At(T, pin, a, b) \cup At(T, pin, b, c))
          = After(After(level, At(T, pin, a, b)), At(T, pin, b, c))
    BY <1>1, <1>2, AfterUnion
  <1> QED
    BY <1>1, <1>3

(* The edges of a stretch that is cut at b are those before it and, with   *)
(* the level that the pin has there, those after it.                       *)
LEMMA EdgesSplit ==
  ASSUME NEW T \in SUBSET Toggle, NEW level \in BOOLEAN,
         NEW a \in Int, NEW b \in Int, NEW c \in Int, a <= b, b <= c
  PROVE  /\ Rises(T, level, a, b) = {s \in Rises(T, level, a, c) : s < b}
         /\ Falls(T, level, a, b) = {s \in Falls(T, level, a, c) : s < b}
         /\ Rises(T, After(level, At(T, "step", a, b)), b, c)
              = {s \in Rises(T, level, a, c) : b <= s}
         /\ Falls(T, After(level, At(T, "step", a, b)), b, c)
              = {s \in Falls(T, level, a, c) : b <= s}
  <1> DEFINE there == After(level, At(T, "step", a, b))
  <1>1. /\ At(T, "step", a, b) = {s \in At(T, "step", a, c) : s < b}
        /\ At(T, "step", b, c) = {s \in At(T, "step", a, c) : b <= s}
    BY AtSplit
  <1>2. \A s \in At(T, "step", b, c) :
          After(there, At(T, "step", b, s)) = After(level, At(T, "step", a, s))
    <2> SUFFICES ASSUME NEW s \in At(T, "step", b, c)
                 PROVE  After(there, At(T, "step", b, s))
                          = After(level, At(T, "step", a, s))
      OBVIOUS
    <2>1. s \in 0..Slots - 1 /\ b <= s
      BY AtIs, Zenon
    <2>2. s \in Int
      BY <2>1, Sizes
    <2> QED
      BY <2>1, <2>2, LevelSplit
  <1>3. /\ Rises(T, level, a, b) = {s \in Rises(T, level, a, c) : s < b}
        /\ Rises(T, there, b, c) = {s \in Rises(T, level, a, c) : b <= s}
    BY <1>1, <1>2, Zenon DEF Rises
  <1>4. /\ Falls(T, level, a, b) = {s \in Falls(T, level, a, c) : s < b}
        /\ Falls(T, there, b, c) = {s \in Falls(T, level, a, c) : b <= s}
    BY <1>1, <1>3, Zenon DEF Falls
  <1> QED
    BY <1>3, <1>4

(* Edges are toggles of the step pin.                                      *)
LEMMA EdgesAre ==
  ASSUME NEW T \in SUBSET Toggle, NEW level \in BOOLEAN,
         NEW a \in Int, NEW b \in Int
  PROVE  /\ Rises(T, level, a, b) \subseteq At(T, "step", a, b)
         /\ Falls(T, level, a, b) \subseteq At(T, "step", a, b)
         /\ Rises(T, level, a, b) \subseteq 0..Slots - 1
         /\ Falls(T, level, a, b) \subseteq 0..Slots - 1
         /\ IsFiniteSet(Rises(T, level, a, b))
  <1>1. At(T, "step", a, b) \subseteq 0..Slots - 1 /\ IsFiniteSet(At(T, "step", a, b))
    BY AtIs
  <1>2. /\ Rises(T, level, a, b) \subseteq At(T, "step", a, b)
        /\ Falls(T, level, a, b) \subseteq At(T, "step", a, b)
    BY DEF Rises, Falls
  <1> QED
    BY <1>1, <1>2, FS_Subset

(* The moves of the two parts add up.                                      *)
Ups(T, step, dir, a, b) ==
    {s \in Rises(T, step, a, b) : After(dir, At(T, "dir", a, s + 1))}

LEMMA MovesAre ==
  ASSUME NEW T, NEW step, NEW dir, NEW a, NEW b
  PROVE  Moves(T, step, dir, a, b)
           = Cardinality(Ups(T, step, dir, a, b))
               - Cardinality(Rises(T, step, a, b) \ Ups(T, step, dir, a, b))
  BY DEF Moves, Ups

LEMMA MovesType ==
  ASSUME NEW T \in SUBSET Toggle, NEW step \in BOOLEAN, NEW dir,
         NEW a \in Int, NEW b \in Int
  PROVE  Moves(T, step, dir, a, b) \in Int
  <1>1. IsFiniteSet(Rises(T, step, a, b))
    BY EdgesAre
  <1>2. /\ IsFiniteSet(Ups(T, step, dir, a, b))
        /\ IsFiniteSet(Rises(T, step, a, b) \ Ups(T, step, dir, a, b))
    BY <1>1, FS_Subset DEF Ups
  <1>3. /\ Cardinality(Ups(T, step, dir, a, b)) \in Nat
        /\ Cardinality(Rises(T, step, a, b) \ Ups(T, step, dir, a, b)) \in Nat
    BY <1>2, FS_CardinalityType
  <1> QED
    BY <1>3, MovesAre

(* The moves of the two parts of a stretch add up.                         *)
LEMMA MovesSplit ==
  ASSUME NEW T \in SUBSET Toggle, NEW step \in BOOLEAN, NEW dir \in BOOLEAN,
         NEW a \in Int, NEW b \in Int, NEW c \in Int, a <= b, b <= c
  PROVE  Moves(T, step, dir, a, c)
           = Moves(T, step, dir, a, b)
               + Moves(T, After(step, At(T, "step", a, b)),
                       After(dir, At(T, "dir", a, b)), b, c)
  <1> DEFINE R == Rises(T, step, a, c)
             U == Ups(T, step, dir, a, c)
             thereS == After(step, At(T, "step", a, b))
             thereD == After(dir, At(T, "dir", a, b))
             R1 == Rises(T, step, a, b)
             R2 == Rises(T, thereS, b, c)
             U1 == Ups(T, step, dir, a, b)
             U2 == Ups(T, thereS, thereD, b, c)
  <1>1. R1 = {s \in R : s < b} /\ R2 = {s \in R : b <= s} /\ R \subseteq Int
    <2>1. R1 = {s \in R : s < b} /\ R2 = {s \in R : b <= s}
      BY EdgesSplit
    <2>2. R \subseteq 0..Slots - 1
      BY EdgesAre, Zenon
    <2> QED
      BY <2>1, <2>2, Sizes
  <1>2. U1 = {s \in U : s < b}
    BY <1>1, Zenon DEF Ups
  <1>3. U2 = {s \in U : b <= s}
    <2>1. \A s \in R2 : After(thereD, At(T, "dir", b, s + 1))
                          = After(dir, At(T, "dir", a, s + 1))
      <3> SUFFICES ASSUME NEW s \in R2
                   PROVE  After(thereD, At(T, "dir", b, s + 1))
                            = After(dir, At(T, "dir", a, s + 1))
        OBVIOUS
      <3>1. s + 1 \in Int /\ b <= s + 1
        BY <1>1
      <3> QED
        BY <3>1, LevelSplit
    <2> QED
      BY <1>1, <2>1, Zenon DEF Ups
  <1> HIDE DEF R, U, R1, R2, U1, U2
  <1>4. U \subseteq R
    BY DEF U, R, Ups
  <1>5. /\ U = U1 \cup U2 /\ U1 \cap U2 = {}
        /\ R \ U = (R1 \ U1) \cup (R2 \ U2) /\ (R1 \ U1) \cap (R2 \ U2) = {}
    <2>1. \A s \in R : ~(s < b) <=> b <= s
      BY <1>1
    <2> QED
      BY <1>1, <1>2, <1>3, <1>4, <2>1
  <1>6. /\ IsFiniteSet(U1) /\ IsFiniteSet(U2)
        /\ IsFiniteSet(R1 \ U1) /\ IsFiniteSet(R2 \ U2)
    <2>1. IsFiniteSet(R)
      BY EdgesAre DEF R
    <2>2. /\ U1 \subseteq R /\ U2 \subseteq R
          /\ (R1 \ U1) \subseteq R /\ (R2 \ U2) \subseteq R
      BY <1>1, <1>2, <1>3, <1>4
    <2> QED
      BY <2>1, <2>2, FS_Subset
  <1>7. /\ Cardinality(U) = Cardinality(U1) + Cardinality(U2)
        /\ Cardinality(R \ U) = Cardinality(R1 \ U1) + Cardinality(R2 \ U2)
        /\ Cardinality(U1) \in Nat /\ Cardinality(U2) \in Nat
        /\ Cardinality(R1 \ U1) \in Nat /\ Cardinality(R2 \ U2) \in Nat
    BY <1>5, <1>6, Disjoint
  <1>8. /\ Moves(T, step, dir, a, c) = Cardinality(U) - Cardinality(R \ U)
        /\ Moves(T, step, dir, a, b) = Cardinality(U1) - Cardinality(R1 \ U1)
        /\ Moves(T, thereS, thereD, b, c) = Cardinality(U2) - Cardinality(R2 \ U2)
    BY MovesAre DEF U, R, U1, U2, R1, R2
  <1> QED
    BY <1>7, <1>8

-----------------------------------------------------------------------------
(***************************************************************************)
(* makePulses in counts: the times of the steps of a period.               *)
(***************************************************************************)

(* Products with a positive number, by small steps for the solver.         *)
LEMMA Product ==
  ASSUME NEW m \in Nat \ {0}, NEW x \in Int, NEW y \in Int
  PROVE  /\ x * m \in Int /\ y * m \in Int
         /\ (x + y) * m = x * m + y * m
         /\ (x - y) * m = x * m - y * m
         /\ x <= y <=> x * m <= y * m
         /\ x < y => x * m + m <= y * m
  <1>1. /\ x * m \in Int /\ y * m \in Int
        /\ (x + y) * m = x * m + y * m
        /\ (x - y) * m = x * m - y * m
    BY SMT
  <1>2. x <= y => x * m <= y * m
    BY SMT
  <1>3. x < y => x * m + m <= y * m
    <2>1. (y - x) * m = y * m - x * m /\ (x < y => (y - x) * m >= m)
      BY SMT
    <2> QED
      BY <2>1, <1>1
  <1>4. y < x => y * m + m <= x * m
    <2>1. (x - y) * m = x * m - y * m /\ (y < x => (x - y) * m >= m)
      BY SMT
    <2> QED
      BY <2>1, <1>1
  <1> QED
    BY <1>1, <1>2, <1>3, <1>4

(* The quotient of a natural number by a positive one.                     *)
LEMMA Quotient ==
  ASSUME NEW m \in Nat \ {0}, NEW t \in Nat
  PROVE  /\ t \div m \in Nat
         /\ (t \div m) * m <= t
         /\ t < (t \div m + 1) * m
  <1>1. /\ t \div m \in Nat
        /\ (t \div m) * m <= t
        /\ t < (t \div m) * m + m
    BY SMT
  <1>2. (t \div m + 1) * m = (t \div m) * m + m
    BY <1>1, SMT
  <1> QED
    BY <1>1, <1>2

(* Times below half the range of stepPos keep their value, and no time     *)
(* gets later (DMAstepgen.cpp:212, a 16-bit variable).                     *)
LEMMA StepPosIs ==
  ASSUME NEW n \in Nat, n < StepPosMod \div 2
  PROVE  StepPos(n) = n
  <1>1. PICK m \in Nat \ {0} : m = StepPosMod
    BY Sizes
  <1>2. m \div 2 \in Nat /\ 2 * (m \div 2) <= m
    BY SMT
  <1>3. n + m \div 2 \in 0..m - 1
    BY <1>1, <1>2
  <1>4. (n + m \div 2) % m = n + m \div 2
    BY <1>3, SMT
  <1> QED
    BY <1>1, <1>2, <1>4 DEF StepPos

LEMMA StepPosBound ==
  ASSUME NEW n \in Nat
  PROVE  StepPos(n) \in Int /\ StepPos(n) <= n
  <1>1. PICK m \in Nat \ {0} : m = StepPosMod
    BY Sizes
  <1>2. PICK d \in Nat : d = m \div 2
    BY SMT
  <1>3. (n + d) % m \in Int /\ (n + d) % m <= n + d
    BY SMT
  <1> QED
    BY <1>1, <1>2, <1>3 DEF StepPos

(* A step takes at least its length and its space.                         *)
LEMMA AddValueIs ==
  ASSUME NEW f \in Frequencies \ {0}
  PROVE  /\ AddValue(f) \in Nat \ {0}
         /\ AddValue(f) >= (Length + Space) * Half
  <1>1. Magnitude(f) \in Nat \ {0}
    BY OutputAssumption DEF Magnitude
  <1>2. PICK c \in Nat : c = Counts * ServoFreq
    BY StepgenAssumption DEF Counts
  <1>3. c \div Magnitude(f) \in Int
    BY <1>1, SMT
  <1>4. MinAddValue \in Nat \ {0}
    <2>1. Length + Space \in Nat \ {0} /\ Half \in Nat \ {0}
      BY Sizes
    <2> QED
      BY <2>1, SMT DEF MinAddValue
  <1>5. AddValue(f) = IF c \div Magnitude(f) >= MinAddValue
                        THEN c \div Magnitude(f) ELSE MinAddValue
    BY <1>2, <1>3, <1>4, MaxOfTwo DEF AddValue
  <1>6. AddValue(f) \in Nat \ {0} /\ AddValue(f) >= MinAddValue
    BY <1>3, <1>4, <1>5
  <1> QED
    BY <1>6 DEF MinAddValue

(* A period in counts.                                                     *)
LEMMA CountsIs == Counts \in Nat \ {0} /\ Counts = Slots * Half
  <1>1. PICK s \in Nat \ {0}, h \in Nat \ {0} : s = Slots /\ h = Half
    BY Sizes
  <1>2. s * h \in Nat \ {0}
    BY SMT
  <1> QED
    BY <1>1, <1>2 DEF Counts

(* What is carried over of the remainder is never more than it, nor than a *)
(* step.                                                                   *)
LEMMA CarriedIs ==
  ASSUME NEW f \in Frequencies \ {0}, prevRemainder \in Nat
  PROVE  /\ Carried(f) \in Nat
         /\ Carried(f) <= prevRemainder /\ Carried(f) <= AddValue(f)
         /\ prevRemainder <= AddValue(f) => Carried(f) = prevRemainder
         /\ prevRemainder >= AddValue(f) => Carried(f) = AddValue(f)
  BY AddValueIs, MinOfTwo DEF Carried

-----------------------------------------------------------------------------

(* A step of the last period, the hold and the setup time fit into one     *)
(* period; otherwise makePulses writes beyond the buffer.                  *)
Fits == Length + Hold + SetupTime <= Slots

(* The turn comes early in the period, and there is time for the setup     *)
(* after it.                                                               *)
LEMMA DirPosIs ==
  ASSUME JointTypeOK
  PROVE  DirPos \in 0..Length + Hold - 1
  BY Sizes DEF JointTypeOK, DirPos

LEMMA TurnTime ==
  ASSUME JointTypeOK, Fits
  PROVE  /\ (DirPos + SetupTime) * Half \in 0..Counts
         /\ (DirPos + SetupTime) * Half + Half <= (Length + Hold + SetupTime) * Half
  <1>1. /\ DirPos + SetupTime \in Nat
        /\ DirPos + SetupTime < Length + Hold + SetupTime
        /\ Length + Hold + SetupTime \in Nat
    BY DirPosIs, Sizes
  <1>2. /\ (DirPos + SetupTime) * Half + Half <= (Length + Hold + SetupTime) * Half
        /\ (Length + Hold + SetupTime) * Half <= Slots * Half
        /\ 0 * Half <= (DirPos + SetupTime) * Half
        /\ (DirPos + SetupTime) * Half \in Int
        /\ (Length + Hold + SetupTime) * Half \in Int
    BY <1>1, Product, Sizes DEF Fits
  <1> QED
    BY <1>2, Sizes, CountsIs

(* The first step of a period comes when the rest of its time is over, and *)
(* not before the setup time.                                              *)
LEMMA FirstStepIs ==
  ASSUME NEW f \in Frequencies \ {0}, NEW pin, JointTypeOK, Fits,
         StepsThisPeriod(f)
  PROVE  /\ FirstStep(f, pin) \in 0..Counts
         /\ FirstStep(f, pin) >= AddValue(f) - Carried(f)
         /\ Turns(f, pin)
              => FirstStep(f, pin) >= StepPos((DirPos + SetupTime) * Half)
  <1>1. /\ AddValue(f) - Carried(f) \in Nat
        /\ AddValue(f) - Carried(f) <= Counts
    BY AddValueIs, CarriedIs DEF JointTypeOK, StepsThisPeriod
  <1>2. PICK n \in Nat : n = (DirPos + SetupTime) * Half /\ n <= Counts
    BY TurnTime, CountsIs
  <1>3. StepPos(n) \in Int /\ StepPos(n) <= Counts
    BY <1>2, StepPosBound, CountsIs
  <1> QED
    BY <1>1, <1>2, <1>3, MaxOfTwo, CountsIs DEF FirstStep

(* The steps of a period lie within it, and a step time apart.             *)
LEMMA StepTimesAre ==
  ASSUME NEW f \in Frequencies \ {0}, NEW pin, JointTypeOK, Fits,
         StepsThisPeriod(f)
  PROVE  /\ StepTimes(f, pin) \subseteq FirstStep(f, pin)..Counts
         /\ FirstStep(f, pin) \in StepTimes(f, pin)
         /\ \A t, u \in StepTimes(f, pin) : t < u => u - t >= AddValue(f)
  <1>1. PICK a \in Nat \ {0} : a = AddValue(f)
    BY AddValueIs
  <1>2. PICK s \in Nat : s = FirstStep(f, pin) /\ s <= Counts
    BY FirstStepIs, CountsIs
  <1>3. PICK k \in Nat : k = (Counts - s) \div a /\ k * a <= Counts - s
    <2>1. Counts - s \in Nat
      BY <1>2, CountsIs
    <2> QED
      BY <2>1, Quotient
  <1>4. LastIndex(f, pin) = k
    BY <1>1, <1>2, <1>3, MaxOfTwo DEF LastIndex
  <1>5. StepTimes(f, pin) = {s + i * a : i \in 0..k}
    BY <1>1, <1>2, <1>4 DEF StepTimes
  <1>6. \A i \in 0..k : i * a \in Nat /\ i * a <= k * a
    <2> SUFFICES ASSUME NEW i \in 0..k PROVE i * a \in Nat /\ i * a <= k * a
      OBVIOUS
    <2>1. 0 * a <= i * a /\ i * a <= k * a /\ i * a \in Int /\ 0 * a = 0
      BY Product
    <2> QED
      BY <2>1
  <1>7. ASSUME NEW t \in StepTimes(f, pin), NEW u \in StepTimes(f, pin), t < u
        PROVE  u - t >= a
    <2>1. PICK i \in 0..k : t = s + i * a
      BY <1>5
    <2>2. PICK j \in 0..k : u = s + j * a
      BY <1>5
    <2>3. i * a \in Int /\ j * a \in Int
      BY <1>6
    <2>4. i * a < j * a
      BY <1>7, <2>1, <2>2, <2>3
    <2>5. i < j
      <3>1. j <= i <=> j * a <= i * a
        BY Product
      <3> QED
        BY <3>1, <2>3, <2>4
    <2>6. i * a + a <= j * a
      BY <2>5, Product
    <2> QED
      BY <2>1, <2>2, <2>3, <2>6
  <1>8. StepTimes(f, pin) \subseteq s..Counts
    BY <1>2, <1>3, <1>5, <1>6, CountsIs
  <1>9. s \in StepTimes(f, pin)
    <2>1. 0 \in 0..k /\ s + 0 * a = s
      OBVIOUS
    <2> QED
      BY <1>5, <2>1
  <1> QED
    BY <1>1, <1>2, <1>7, <1>8, <1>9

(* The slot in which a step at time t begins.                              *)
LEMMA HighSlotIs ==
  ASSUME NEW t \in 0..Counts, NEW turns \in BOOLEAN, Fits
  PROVE  /\ HighSlot(t, turns) \in 0..Slots - 1
         /\ ~turns \/ t >= Half
              => HighSlot(t, turns) * Half <= t
         /\ ~turns \/ t >= Half
              => (t = Counts /\ HighSlot(t, turns) = Slots - 1)
                   \/ t < (HighSlot(t, turns) + 1) * Half
  <1> DEFINE r == IF t = Counts THEN t - 1 ELSE t
             q == r \div Half
  <1>1. r \in Nat /\ r <= t /\ r < Counts
    BY CountsIs
  <1>2. q \in Nat /\ q * Half <= r /\ r < (q + 1) * Half
    BY <1>1, Sizes, Quotient
  <1>3. q < Slots
    <2>1. q * Half < Slots * Half /\ (Slots <= q <=> Slots * Half <= q * Half)
          /\ q * Half \in Int /\ Slots * Half \in Int
      BY <1>1, <1>2, CountsIs, Sizes, Product
    <2> QED
      BY <2>1, <1>2, Sizes
  <1>4. HighSlot(t, turns) = IF turns /\ q = 0 THEN SetupTime ELSE q
    BY DEF HighSlot
  <1>5. HighSlot(t, turns) \in 0..Slots - 1
    BY <1>2, <1>3, <1>4, Sizes DEF Fits
  <1>6. t = Counts => q = Slots - 1
    <2>1. Slots * Half - 1 < (q + 1) * Half \/ t # Counts
      BY <1>2, CountsIs
    <2>2. Slots * Half <= (q + 1) * Half \/ t # Counts
      BY <2>1, <1>2, Sizes, Product
    <2>3. Slots <= q + 1 \/ t # Counts
      BY <2>2, <1>2, Sizes, Product
    <2> QED
      BY <2>3, <1>2, <1>3, Sizes
  <1>7. t >= Half /\ q = 0 => t = Counts /\ Slots = 1
    BY <1>2, <1>6, Sizes
  <1>8. Slots > 1
    BY Sizes DEF Fits
  <1>9. ~turns \/ t >= Half => HighSlot(t, turns) = q
    BY <1>4, <1>7, <1>8
  <1>10. t < (q + 1) * Half \/ t = Counts
    BY <1>2
  <1>11. q * Half <= t
    BY <1>1, <1>2, Sizes, Product
  <1> HIDE DEF q, r
  <1> QED
    BY <1>5, <1>6, <1>9, <1>10, <1>11

-----------------------------------------------------------------------------
(***************************************************************************)
(* makePulses in slots: the slots in which the steps begin.                *)
(***************************************************************************)

(* The assumption on the sizes: besides Fits, no time that matters         *)
(* overflows stepPos, the space is two slots at least, and a buffer is     *)
(* filled after the turn of the playing one and a setup time before its    *)
(* end.                                                                    *)
Roomy ==
    /\ Fits
    /\ (Length + Hold + SetupTime) * Half <= StepPosMod \div 2
    /\ \A f \in Frequencies \ {0} : AddValue(f) >= (Length + 2) * Half
    /\ \A b \in FillSlots : Length + Hold <= b /\ b + SetupTime <= Slots

(* After a turn the first step keeps the setup time, and so half a slot    *)
(* more than none.                                                         *)
LEMMA TurnStep ==
  ASSUME NEW f \in Frequencies \ {0}, NEW pin, JointTypeOK, Roomy,
         StepsThisPeriod(f), Turns(f, pin)
  PROVE  /\ FirstStep(f, pin) >= (DirPos + SetupTime) * Half
         /\ FirstStep(f, pin) >= Half
  <1>1. PICK n \in Nat : n = (DirPos + SetupTime) * Half
    BY TurnTime, CountsIs DEF Roomy
  <1>2. n < StepPosMod \div 2
    <2>1. n + Half <= (Length + Hold + SetupTime) * Half
      BY <1>1, TurnTime DEF Roomy
    <2>2. (Length + Hold + SetupTime) * Half <= StepPosMod \div 2
      BY DEF Roomy
    <2>3. StepPosMod \div 2 \in Int /\ (Length + Hold + SetupTime) * Half \in Int
      <3>1. Length + Hold + SetupTime \in Int
        BY Sizes
      <3> QED
        BY <3>1, Sizes, Product, Quotient
    <2> QED
      BY <2>1, <2>2, <2>3, Sizes
  <1>3. FirstStep(f, pin) >= n /\ FirstStep(f, pin) \in Int
    BY <1>1, <1>2, StepPosIs, FirstStepIs, CountsIs DEF Roomy
  <1>4. n >= Half
    <2>1. 1 <= DirPos + SetupTime /\ DirPos + SetupTime \in Int
      BY DirPosIs, Sizes
    <2>2. 1 * Half <= n /\ 1 * Half = Half
      BY <1>1, <2>1, Sizes, Product
    <2> QED
      BY <2>2
  <1> QED
    BY <1>1, <1>3, <1>4, Sizes

(* The slot in which a step begins holds its time, or at the end of the    *)
(* period is the one before.                                               *)
LEMMA HighOf ==
  ASSUME NEW f \in Frequencies \ {0}, NEW pin, JointTypeOK, Roomy,
         StepsThisPeriod(f), NEW t \in StepTimes(f, pin),
         NEW h, h = HighSlot(t, Turns(f, pin))
  PROVE  /\ t \in 0..Counts /\ t >= FirstStep(f, pin)
         /\ h \in 0..Slots - 1 /\ h * Half <= t
         /\ \A k \in Int : k * Half <= t => h >= k - 1 /\ (k < Slots => h >= k)
  <1>f. FirstStep(f, pin) \in 0..Counts /\ Fits
    BY FirstStepIs DEF Roomy
  <1>1. t \in 0..Counts /\ t >= FirstStep(f, pin)
    BY <1>f, StepTimesAre, CountsIs
  <1>2. Turns(f, pin) \in BOOLEAN
    BY DEF Turns, JointTypeOK
  <1>3. ~Turns(f, pin) \/ t >= Half
    BY <1>1, <1>f, TurnStep, Sizes, CountsIs
  <1>4. /\ h \in 0..Slots - 1 /\ h * Half <= t
        /\ (t = Counts /\ h = Slots - 1) \/ t < (h + 1) * Half
    BY <1>f, <1>1, <1>2, <1>3, HighSlotIs
  <1>5. ASSUME NEW k \in Int, k * Half <= t
        PROVE  h >= k - 1 /\ (k < Slots => h >= k)
    <2>1. CASE t < (h + 1) * Half
      <3>1. /\ h + 1 \in Int /\ k * Half \in Int /\ (h + 1) * Half \in Int
            /\ h + 1 <= k <=> (h + 1) * Half <= k * Half
        BY <1>4, Sizes, Product
      <3> QED
        BY <1>1, <1>4, <1>5, <2>1, <3>1, CountsIs, Sizes
    <2>2. CASE t = Counts /\ h = Slots - 1
      <3>1. k <= Slots <=> k * Half <= Slots * Half
        BY Sizes, Product
      <3> QED
        BY <1>5, <2>2, <3>1, CountsIs, Sizes
    <2> QED
      BY <1>4, <2>1, <2>2
  <1> QED
    BY <1>1, <1>4, <1>5

LEMMA HighsOf ==
  ASSUME NEW f, NEW pin, StepsThisPeriod(f)
  PROVE  Highs(f, pin) = {HighSlot(t, Turns(f, pin)) : t \in StepTimes(f, pin)}
  BY DEF Highs

(* Steps are far enough apart, in counts, for the length and the space.    *)
LEMMA GapOf ==
  ASSUME NEW f \in Frequencies \ {0}, Roomy
  PROVE  \A n \in {Length + 2, Length + Space} :
            n \in Nat /\ n * Half <= AddValue(f)
  BY AddValueIs, Sizes DEF Roomy

(* Two steps of a period are a length and a space apart, but for one slot. *)
LEMMA HighGap ==
  ASSUME NEW f \in Frequencies \ {0}, NEW pin, JointTypeOK, Roomy,
         StepsThisPeriod(f),
         NEW t \in StepTimes(f, pin), NEW u \in StepTimes(f, pin), t < u,
         NEW h, h = HighSlot(t, Turns(f, pin)),
         NEW g, g = HighSlot(u, Turns(f, pin))
  PROVE  /\ h \in Int /\ g \in Int
         /\ g - h >= Length + 1 /\ g - h >= Length + Space - 1
  <1>1. /\ h \in 0..Slots - 1 /\ h * Half <= t /\ t \in 0..Counts
    BY HighOf
  <1>2. /\ g \in 0..Slots - 1 /\ u \in 0..Counts
        /\ \A k \in Int : k * Half <= u => g >= k - 1
    BY HighOf
  <1>3. u - t >= AddValue(f)
    BY StepTimesAre DEF Roomy
  <1>4. ASSUME NEW n \in {Length + 2, Length + Space}
        PROVE  g >= h + n - 1
    <2>1. n \in Nat /\ n * Half <= AddValue(f)
      BY GapOf
    <2>2. /\ (h + n) * Half = h * Half + n * Half
          /\ h * Half \in Int /\ n * Half \in Int
      BY <1>1, <2>1, Sizes, Product
    <2>3. (h + n) * Half <= u
      BY <1>1, <1>2, <1>3, <2>1, <2>2, AddValueIs, CountsIs
    <2>4. h + n \in Int
      BY <1>1, <2>1, Sizes
    <2>5. g >= (h + n) - 1
      BY <1>2, <2>3, <2>4
    <2> QED
      BY <1>1, <1>2, <2>1, <2>5
  <1>5. g >= h + (Length + 2) - 1 /\ g >= h + (Length + Space) - 1
    BY <1>4
  <1> QED
    BY <1>1, <1>2, <1>5, Sizes

LEMMA HighsGap ==
  ASSUME NEW f \in Frequencies \ {0}, NEW pin, JointTypeOK, Roomy,
         StepsThisPeriod(f),
         NEW h \in Highs(f, pin), NEW g \in Highs(f, pin), h < g
  PROVE  g - h >= Length + 1 /\ g - h >= Length + Space - 1
  <1>1. PICK t \in StepTimes(f, pin) : h = HighSlot(t, Turns(f, pin))
    BY HighsOf
  <1>2. PICK u \in StepTimes(f, pin) : g = HighSlot(u, Turns(f, pin))
    BY HighsOf
  <1>3. t \in Int /\ u \in Int /\ h \in Int /\ g \in Int
    BY <1>1, <1>2, HighOf, CountsIs, Sizes
  <1>4. CASE t < u
    BY <1>1, <1>2, <1>4, HighGap
  <1>5. CASE u < t
    <2>1. h - g >= Length + 1
      BY <1>1, <1>2, <1>5, HighGap
    <2> QED
      BY <2>1, <1>3, Sizes
  <1>6. CASE t = u
    BY <1>1, <1>2, <1>3, <1>6
  <1> QED
    BY <1>3, <1>4, <1>5, <1>6

(* Every step keeps its distance from what fell before the period.  An old *)
(* edge at slot l is far enough back for the time since then to be in      *)
(* prevRemainder, or so far that it does not matter.                       *)
Past(l, p) == (l - Length) * Half + p <= 0 \/ l <= -(Length + Space)

(* The first step keeps its distance from a fall whose time is in the      *)
(* remainder.                                                              *)
LEMMA FirstAfter ==
  ASSUME NEW f \in Frequencies \ {0}, NEW pin, JointTypeOK, Roomy,
         StepsThisPeriod(f), NEW n \in Nat, n * Half <= AddValue(f),
         NEW l \in Int, (l - Length) * Half + prevRemainder <= 0
  PROVE  (l - Length + n) * Half <= FirstStep(f, pin)
  <1>1. /\ (l - Length + n) * Half = (l - Length) * Half + n * Half
        /\ (l - Length) * Half \in Int /\ n * Half \in Int
    <2>1. l - Length \in Int
      BY Sizes
    <2> QED
      BY <2>1, Sizes, Product
  <1>2. /\ FirstStep(f, pin) \in Int
        /\ FirstStep(f, pin) >= AddValue(f) - Carried(f)
        /\ FirstStep(f, pin) >= 0
    BY FirstStepIs, CountsIs DEF Roomy
  <1>3. Carried(f) \in Nat /\ Carried(f) <= prevRemainder /\ prevRemainder \in Nat
    BY CarriedIs DEF JointTypeOK
  <1> QED
    BY <1>1, <1>2, <1>3, AddValueIs

(* So do the others, in slots.                                             *)
LEMMA HighsAfter ==
  ASSUME NEW f \in Frequencies \ {0}, NEW pin, JointTypeOK, Roomy,
         StepsThisPeriod(f), NEW h \in Highs(f, pin),
         NEW l \in Int, Past(l, prevRemainder)
  PROVE  h - l >= Space - 1
  <1>1. PICK t \in StepTimes(f, pin) : h = HighSlot(t, Turns(f, pin))
    BY HighsOf
  <1>2. /\ t \in 0..Counts /\ t >= FirstStep(f, pin) /\ h \in 0..Slots - 1
        /\ \A k \in Int : k * Half <= t => h >= k - 1
    BY <1>1, HighOf
  <1>3. CASE l <= -(Length + Space)
    BY <1>2, <1>3, Sizes
  <1>4. CASE (l - Length) * Half + prevRemainder <= 0
    <2>1. Length + Space \in Nat /\ (Length + Space) * Half <= AddValue(f)
      BY GapOf
    <2>2. (l - Length + (Length + Space)) * Half <= FirstStep(f, pin)
      BY <1>4, <2>1, FirstAfter
    <2>3. l - Length + (Length + Space) = l + Space /\ l + Space \in Int
      BY Sizes
    <2>4. (l + Space) * Half <= t
      <3>1. FirstStep(f, pin) \in Int /\ (l + Space) * Half \in Int
        BY <2>3, FirstStepIs, Sizes, CountsIs, Product DEF Roomy
      <3> QED
        BY <1>2, <2>2, <2>3, <3>1, CountsIs
    <2>5. h >= (l + Space) - 1
      BY <1>2, <2>3, <2>4
    <2> QED
      BY <1>2, <2>5, Sizes
  <1> QED
    BY <1>3, <1>4 DEF Past

(* The unfinished step of the last period is lowered before the first one  *)
(* of this period.                                                         *)
Unfinished == isStepping => (stepLow - Length) * Half + prevRemainder <= 0

(* The unfinished step is over before the first one of the period begins.  *)
LEMMA HighsAfterFinish ==
  ASSUME NEW f \in Frequencies \ {0}, NEW pin, JointTypeOK, Roomy, Unfinished,
         StepsThisPeriod(f), NEW h \in Highs(f, pin), isStepping
  PROVE  h > stepLow
  <1>1. PICK t \in StepTimes(f, pin) : h = HighSlot(t, Turns(f, pin))
    BY HighsOf
  <1>2. /\ t \in 0..Counts /\ t >= FirstStep(f, pin) /\ h \in 0..Slots - 1
        /\ \A k \in Int : k * Half <= t => h >= k - 1
    BY <1>1, HighOf
  <1>3. stepLow \in Int
    BY Sizes DEF JointTypeOK
  <1>4. Length + 2 \in Nat /\ (Length + 2) * Half <= AddValue(f)
    BY GapOf
  <1>5. (stepLow - Length + (Length + 2)) * Half <= FirstStep(f, pin)
    BY <1>3, <1>4, FirstAfter DEF Unfinished
  <1>6. stepLow - Length + (Length + 2) = stepLow + 2 /\ stepLow + 2 \in Int
    BY <1>3, Sizes
  <1>7. (stepLow + 2) * Half <= t
    <2>1. FirstStep(f, pin) \in Int /\ (stepLow + 2) * Half \in Int
      BY <1>6, FirstStepIs, Sizes, CountsIs, Product DEF Roomy
    <2> QED
      BY <1>2, <1>5, <1>6, <2>1, CountsIs
  <1>8. h >= (stepLow + 2) - 1
    BY <1>2, <1>6, <1>7
  <1> QED
    BY <1>2, <1>3, <1>8

(* No step begins before the setup time after a turn is over.              *)
LEMMA HighsAfterTurn ==
  ASSUME NEW f \in Frequencies \ {0}, NEW pin, JointTypeOK, Roomy,
         StepsThisPeriod(f), NEW h \in Highs(f, pin)
  PROVE  Turns(f, pin) => h >= DirPos + SetupTime
  <1>1. PICK t \in StepTimes(f, pin) : h = HighSlot(t, Turns(f, pin))
    BY HighsOf
  <1>2. /\ t \in 0..Counts /\ t >= FirstStep(f, pin) /\ h \in 0..Slots - 1
        /\ \A k \in Int : k * Half <= t => (k < Slots => h >= k)
    BY <1>1, HighOf
  <1>3. DirPos + SetupTime \in Int /\ DirPos + SetupTime < Slots
    BY DirPosIs, Sizes DEF Roomy, Fits
  <1>4. Turns(f, pin) => (DirPos + SetupTime) * Half <= t
    <2>1. FirstStep(f, pin) \in Int /\ (DirPos + SetupTime) * Half \in Int
      BY <1>3, FirstStepIs, Sizes, CountsIs, Product DEF Roomy
    <2> QED
      BY <1>2, <2>1, TurnStep, CountsIs
  <1> QED
    BY <1>2, <1>3, <1>4

(* The last step.                                                          *)
LEMMA LastTime ==
  ASSUME NEW f \in Frequencies \ {0}, NEW pin, JointTypeOK, Fits,
         StepsThisPeriod(f)
  PROVE  /\ Max(StepTimes(f, pin)) \in StepTimes(f, pin)
         /\ Max(StepTimes(f, pin)) \in 0..Counts
         /\ \A t \in StepTimes(f, pin) : t <= Max(StepTimes(f, pin))
  <1>1. /\ StepTimes(f, pin) \in SUBSET (0..Counts)
        /\ StepTimes(f, pin) # {}
    BY FirstStepIs, StepTimesAre, CountsIs
  <1>2. 0 \in Int /\ Counts \in Int
    BY CountsIs
  <1> QED
    BY <1>1, <1>2, Greatest

(* The slot of the last step.                                              *)
LEMMA LastHigh ==
  ASSUME NEW f \in Frequencies \ {0}, NEW pin, JointTypeOK, Roomy,
         StepsThisPeriod(f),
         NEW h, h = HighSlot(Max(StepTimes(f, pin)), Turns(f, pin))
  PROVE  /\ h \in Highs(f, pin) /\ h \in 0..Slots - 1
         /\ h * Half <= Max(StepTimes(f, pin))
         /\ \A g \in Highs(f, pin) : g \in 0..Slots - 1 /\ g <= h
  <1>1. PICK u \in StepTimes(f, pin) : u = Max(StepTimes(f, pin))
    BY LastTime DEF Roomy
  <1>2. h \in 0..Slots - 1 /\ h * Half <= u
    BY <1>1, HighOf
  <1>3. h \in Highs(f, pin)
    BY <1>1, HighsOf
  <1>4. ASSUME NEW g \in Highs(f, pin) PROVE g \in 0..Slots - 1 /\ g <= h
    <2>1. PICK t \in StepTimes(f, pin) : g = HighSlot(t, Turns(f, pin))
      BY HighsOf
    <2>2. g \in 0..Slots - 1 /\ t \in Int /\ u \in Int /\ t <= u
      BY <1>1, <2>1, HighOf, LastTime, CountsIs DEF Roomy
    <2>3. CASE t < u
      <3>1. h - g >= Length + 1
        BY <1>1, <2>1, <2>3, HighGap
      <3> QED
        BY <1>2, <2>2, <3>1, Sizes
    <2>4. CASE t = u
      BY <1>1, <1>2, <2>1, <2>2, <2>4, Sizes
    <2> QED
      BY <2>2, <2>3, <2>4
  <1> QED
    BY <1>1, <1>2, <1>3, <1>4

(* Every time has a slot of its own: as many steps are made as are counted.*)
LEMMA HighsCount ==
  ASSUME NEW f \in Frequencies \ {0}, NEW pin, JointTypeOK, Roomy,
         StepsThisPeriod(f)
  PROVE  /\ IsFiniteSet(Highs(f, pin))
         /\ Cardinality(Highs(f, pin)) = Cardinality(StepTimes(f, pin))
         /\ Cardinality(Highs(f, pin)) \in Nat
  <1> DEFINE X == StepTimes(f, pin)
             H == Highs(f, pin)
             s == [t \in X |-> HighSlot(t, Turns(f, pin))]
  <1>1. IsFiniteSet(X)
    <2>1. X \subseteq 0..Counts
      BY FirstStepIs, StepTimesAre, CountsIs DEF Roomy
    <2>2. IsFiniteSet(0..Counts)
      BY CountsIs, FS_Interval
    <2> QED
      BY <2>1, <2>2, FS_Subset
  <1>2. s \in [X -> H] /\ \A h \in H : \E t \in X : s[t] = h
    BY HighsOf
  <1>3. ASSUME NEW t \in X, NEW u \in X, s[t] = s[u] PROVE t = u
    <2>1. t \in Int /\ u \in Int
      BY HighOf, CountsIs
    <2>2. ~(t < u) /\ ~(u < t)
      BY <1>3, HighGap, Sizes
    <2> QED
      BY <2>1, <2>2
  <1> HIDE DEF s, X, H
  <1>4. s \in Bijection(X, H)
    BY <1>2, <1>3 DEF Bijection, Injection, Surjection, IsInjective
  <1>5. ExistsBijection(X, H)
    BY <1>4 DEF ExistsBijection
  <1> QED
    BY <1>1, <1>5, FS_Bijection, FS_CardinalityType DEF X, H

-----------------------------------------------------------------------------
(***************************************************************************)
(* The level of a pin that is only ever toggled.                           *)
(***************************************************************************)

(* The pulses H after an unfinished step that ends at low: where the pin   *)
(* is toggled, and when it is high.                                        *)
Edges(H, high, low, s) ==
    \/ high /\ s = low
    \/ s \in H
    \/ \E h \in H : s = h + Length
High(H, high, low, s) ==
    \/ high /\ s <= low
    \/ \E h \in H : h < s /\ s <= h + Length

(* The pin is toggled exactly where its level changes.                     *)
LEMMA HighNext ==
  ASSUME NEW H \in SUBSET (0..Slots - 1), NEW high \in BOOLEAN,
         NEW low \in 0..Length - 1,
         \A h, g \in H : h < g => g - h >= Length + 1,
         high => \A h \in H : h > low,
         NEW n \in 0..Slots - 1
  PROVE  High(H, high, low, n + 1)
           <=> ~(High(H, high, low, n) <=> Edges(H, high, low, n))
  <1>s. /\ Length \in Nat \ {0} /\ n \in Nat /\ low \in Nat
        /\ \A h \in H : h \in Nat
    BY Sizes
  <1>1. CASE high /\ n = low
    <2>1. High(H, high, low, n) /\ Edges(H, high, low, n)
      BY <1>1, <1>s DEF High, Edges
    <2>2. ~High(H, high, low, n + 1)
      BY <1>1, <1>s DEF High
    <2> QED
      BY <2>1, <2>2
  <1>2. CASE n \in H
    <2>1. Edges(H, high, low, n) /\ High(H, high, low, n + 1)
      BY <1>2, <1>s DEF High, Edges
    <2>2. ~(high /\ n <= low)
      BY <1>2, <1>s
    <2>3. \A h \in H : ~(h < n /\ n <= h + Length)
      BY <1>2, <1>s
    <2>4. ~High(H, high, low, n)
      BY <2>2, <2>3, Zenon DEF High
    <2> QED
      BY <2>1, <2>4
  <1>3. ASSUME NEW h \in H, n = h + Length
        PROVE  High(H, high, low, n + 1)
                 <=> ~(High(H, high, low, n) <=> Edges(H, high, low, n))
    <2>1. Edges(H, high, low, n) /\ High(H, high, low, n)
      BY <1>3, <1>s DEF High, Edges
    <2>2. ~(high /\ n + 1 <= low)
      BY <1>3, <1>s
    <2>3. ASSUME NEW g \in H, g < n + 1, n + 1 <= g + Length PROVE FALSE
      <3>1. g > h
        BY <1>3, <1>s, <2>3
      <3>2. g - h >= Length + 1
        BY <3>1
      <3> QED
        BY <1>3, <1>s, <2>3, <3>2
    <2>4. ~High(H, high, low, n + 1)
      BY <2>2, <2>3, Zenon DEF High
    <2> QED
      BY <2>1, <2>4
  <1>4. CASE ~Edges(H, high, low, n)
    <2>1. ~(high /\ n = low) /\ n \notin H /\ \A h \in H : n # h + Length
      BY <1>4, Zenon DEF Edges
    <2>2. high /\ n + 1 <= low <=> high /\ n <= low
      BY <2>1, <1>s
    <2>3. \A h \in H : h < n + 1 /\ n + 1 <= h + Length
                         <=> h < n /\ n <= h + Length
      BY <2>1, <1>s
    <2>4. High(H, high, low, n + 1) <=> High(H, high, low, n)
      BY <2>2, <2>3, Zenon DEF High
    <2> QED
      BY <1>4, <2>4
  <1> QED
    BY <1>1, <1>2, <1>3, <1>4, Zenon DEF Edges

(* The level of the pin, by the least slot where it would be another one.  *)
LEMMA LevelIs ==
  ASSUME NEW H \in SUBSET (0..Slots - 1), NEW high \in BOOLEAN,
         NEW low \in 0..Length - 1,
         \A h, g \in H : h < g => g - h >= Length + 1,
         high => \A h \in H : h > low,
         NEW T \in SUBSET Toggle,
         \A s \in 0..Slots - 1 : <<"step", s>> \in T <=> Edges(H, high, low, s)
  PROVE  \A s \in 0..Slots :
           After(high, At(T, "step", 0, s)) <=> High(H, high, low, s)
  <1> DEFINE Bad == {s \in 0..Slots :
                       ~(After(high, At(T, "step", 0, s)) <=> High(H, high, low, s))}
  <1>1. SUFFICES ASSUME Bad # {} PROVE FALSE
    BY Zenon
  <1>2. PICK m \in Bad : \A x \in Bad : m <= x
    <2>1. Bad \in SUBSET Nat
      BY Sizes
    <2> QED
      BY <1>1, <2>1, Least, Zenon
  <1>3. m \in 0..Slots /\ m \in Nat
    BY <1>2, Sizes
  <1>4. m # 0
    <2>1. At(T, "step", 0, 0) = {}
      <3>1. 0 \in Int /\ \A s \in 0..Slots - 1 : ~(s < 0)
        BY Sizes
      <3>2. \A s : s \in At(T, "step", 0, 0) => s \in 0..Slots - 1 /\ s < 0
        BY <3>1, AtIs, Zenon
      <3> QED
        BY <3>1, <3>2, Zenon
    <2>2. After(high, At(T, "step", 0, 0)) = high
      BY <2>1, AfterOne
    <2>3. High(H, high, low, 0) <=> high
      BY Sizes DEF High
    <2>4. 0 \notin Bad
      BY <2>2, <2>3, Zenon
    <2> QED
      BY <1>2, <2>4
  <1>5. PICK n \in 0..Slots - 1 : m = n + 1
    BY <1>3, <1>4, Sizes
  <1>6. n \in 0..Slots /\ n \in Nat /\ n \notin Bad
    BY <1>2, <1>5, Sizes
  <1>7. After(high, At(T, "step", 0, n)) <=> High(H, high, low, n)
    BY <1>6, Zenon
  <1> DEFINE before == After(high, At(T, "step", 0, n))
  <1>8. After(high, At(T, "step", 0, n + 1)) = After(before, At(T, "step", n, n + 1))
    BY <1>6, LevelSplit
  <1>9. At(T, "step", n, n + 1) = IF <<"step", n>> \in T THEN {n} ELSE {}
    <2>1. \A s : s \in At(T, "step", n, n + 1)
                   <=> <<"step", s>> \in T /\ n <= s /\ s < n + 1
      <3>1. n \in Int /\ n + 1 \in Int
        BY <1>6
      <3> QED
        BY <3>1, AtIs, Zenon
    <2>2. \A s : <<"step", s>> \in T => s \in Int
      BY Sizes DEF Toggle
    <2>3. \A s \in Int : n <= s /\ s < n + 1 <=> s = n
      BY <1>6
    <2>4. \A s : s \in At(T, "step", n, n + 1) <=> s = n /\ <<"step", n>> \in T
      BY <1>6, <2>1, <2>2, <2>3, Zenon
    <2> QED
      BY <2>4
  <1>10. After(before, At(T, "step", n, n + 1))
           <=> ~(before <=> <<"step", n>> \in T)
    <2>1. before \in BOOLEAN
      BY AfterType
    <2> HIDE DEF before
    <2>2. CASE <<"step", n>> \in T
      BY <1>9, <2>1, <2>2, AfterOne
    <2>3. CASE <<"step", n>> \notin T
      BY <1>9, <2>1, <2>3, AfterOne
    <2> QED
      BY <2>2, <2>3
  <1>11. <<"step", n>> \in T <=> Edges(H, high, low, n)
    OBVIOUS
  <1>12. High(H, high, low, n + 1)
           <=> ~(High(H, high, low, n) <=> Edges(H, high, low, n))
    BY HighNext
  <1>13. After(high, At(T, "step", 0, m)) <=> High(H, high, low, m)
    <2> HIDE DEF Bad
    <2>1. After(high, At(T, "step", 0, n + 1)) <=> High(H, high, low, n + 1)
      BY <1>7, <1>8, <1>10, <1>11, <1>12, Zenon
    <2> QED
      BY <1>5, <2>1, Zenon
  <1> QED
    BY <1>2, <1>13, Zenon

-----------------------------------------------------------------------------
(***************************************************************************)
(* What a fill makes of the pins.                                          *)
(***************************************************************************)

(* Steps begin within the buffer.                                          *)
LEMMA HighsType ==
  ASSUME NEW f \in Frequencies \ {0}, NEW pin, JointTypeOK, Fits
  PROVE  Highs(f, pin) \in SUBSET (0..Slots - 1)
  <1>1. CASE StepsThisPeriod(f)
    <2>1. \A t \in StepTimes(f, pin) : t \in 0..Counts
      BY <1>1, FirstStepIs, StepTimesAre, CountsIs
    <2>2. Turns(f, pin) \in BOOLEAN
      BY DEF Turns, JointTypeOK
    <2>3. \A t \in StepTimes(f, pin) : HighSlot(t, Turns(f, pin)) \in 0..Slots - 1
      BY <2>1, <2>2, HighSlotIs
    <2> QED
      BY <1>1, <2>3, HighsOf
  <1>2. CASE ~StepsThisPeriod(f)
    BY <1>2 DEF Highs
  <1> QED
    BY <1>1, <1>2

(* The toggles that makePulses writes, by pin.                             *)
LEMMA TogglesAre ==
  ASSUME NEW f \in Frequencies \ {0}, NEW pin, JointTypeOK, Fits
  PROVE  /\ Toggles(f, pin) \in SUBSET Toggle
         /\ \A s : <<"dir", s>> \in Toggles(f, pin) <=> Turns(f, pin) /\ s = DirPos
         /\ \A s \in 0..Slots - 1 :
              <<"step", s>> \in Toggles(f, pin)
                <=> Edges(Highs(f, pin), isStepping, stepLow, s)
  <1> DEFINE H == Highs(f, pin)
             turn == IF Turns(f, pin) THEN {DirPos} ELSE {}
             finish == IF isStepping THEN {stepLow} ELSE {}
             lows == {h + Length : h \in H}
             steps == finish \cup H \cup {l \in lows : l < Slots}
  <1>1. H \in SUBSET (0..Slots - 1)
    BY HighsType
  <1>2. DirPos \in 0..Slots - 1 /\ stepLow \in 0..Slots - 1
    BY DirPosIs, Sizes DEF Fits, JointTypeOK
  <1>3. Toggles(f, pin) = ({"dir"} \X turn) \cup ({"step"} \X steps)
    BY DEF Toggles
  <1> HIDE DEF H
  <1>4. turn \subseteq 0..Slots - 1 /\ steps \subseteq 0..Slots - 1
    <2>1. \A l \in lows : l \in Nat
      BY <1>1, Sizes
    <2> HIDE DEF lows
    <2>2. {l \in lows : l < Slots} \subseteq 0..Slots - 1
      BY <2>1, Sizes
    <2>3. turn \subseteq 0..Slots - 1 /\ finish \subseteq 0..Slots - 1
      BY <1>2
    <2> HIDE DEF finish, turn
    <2> QED
      BY <1>1, <2>2, <2>3
  <1>5. \A s : s \in turn <=> Turns(f, pin) /\ s = DirPos
    OBVIOUS
  <1>6. \A s \in 0..Slots - 1 : s \in steps <=> Edges(H, isStepping, stepLow, s)
    BY Sizes DEF Edges
  <1> HIDE DEF turn, steps
  <1>7. \A s : /\ <<"dir", s>> \in Toggles(f, pin) <=> s \in turn
               /\ <<"step", s>> \in Toggles(f, pin) <=> s \in steps
    BY <1>3
  <1>8. Toggles(f, pin) \in SUBSET Toggle
    BY <1>3, <1>4 DEF Toggle
  <1> QED
    BY <1>5, <1>6, <1>7, <1>8, Zenon DEF H

(* The pulses of a fill are disjoint.                                      *)
LEMMA FillGap ==
  ASSUME NEW f \in Frequencies \ {0}, NEW pin, JointTypeOK, Roomy, Unfinished
  PROVE  /\ \A h, g \in Highs(f, pin) : h < g => g - h >= Length + 1
         /\ isStepping => \A h \in Highs(f, pin) : h > stepLow
  <1>1. CASE StepsThisPeriod(f)
    BY <1>1, HighsGap, HighsAfterFinish
  <1>2. CASE ~StepsThisPeriod(f)
    BY <1>2 DEF Highs
  <1> QED
    BY <1>1, <1>2

(* The level of the step pin in every slot of a fill: high in the pulses.  *)
LEMMA FillLevel ==
  ASSUME NEW f \in Frequencies \ {0}, NEW pin, JointTypeOK, Roomy, Unfinished
  PROVE  \A s \in 0..Slots :
           After(isStepping, At(Toggles(f, pin), "step", 0, s))
             <=> High(Highs(f, pin), isStepping, stepLow, s)
  <1>1. Highs(f, pin) \in SUBSET (0..Slots - 1)
    BY HighsType DEF Roomy
  <1>2. /\ Toggles(f, pin) \in SUBSET Toggle
        /\ \A s \in 0..Slots - 1 :
              <<"step", s>> \in Toggles(f, pin)
                <=> Edges(Highs(f, pin), isStepping, stepLow, s)
    BY TogglesAre DEF Roomy
  <1>3. /\ \A h, g \in Highs(f, pin) : h < g => g - h >= Length + 1
        /\ isStepping => \A h \in Highs(f, pin) : h > stepLow
    BY FillGap
  <1>4. isStepping \in BOOLEAN /\ stepLow \in 0..Length - 1
    BY DEF JointTypeOK
  <1> QED
    BY <1>1, <1>2, <1>3, <1>4, LevelIs, Zenon

(* The step pin rises where the steps begin, and falls at the end of the   *)
(* unfinished one and of those that end in this period.                    *)
LEMMA FillEdges ==
  ASSUME NEW f \in Frequencies \ {0}, NEW pin, JointTypeOK, Roomy, Unfinished
  PROVE  /\ Rises(Toggles(f, pin), isStepping, 0, Slots) = Highs(f, pin)
         /\ \A s \in Falls(Toggles(f, pin), isStepping, 0, Slots) :
              \/ isStepping /\ s = stepLow
              \/ \E h \in Highs(f, pin) : s = h + Length
  <1> DEFINE H == Highs(f, pin)
             T == Toggles(f, pin)
             S == At(T, "step", 0, Slots)
  <1>1. H \in SUBSET (0..Slots - 1)
    BY HighsType DEF Roomy
  <1>2. T \in SUBSET Toggle /\ 0 \in Int /\ Slots \in Int
    BY TogglesAre, Sizes DEF Roomy
  <1>3. \A s : s \in S <=> s \in 0..Slots - 1
                           /\ Edges(H, isStepping, stepLow, s)
    <2>1. /\ \A s : s \in S <=> <<"step", s>> \in T /\ 0 <= s /\ s < Slots
          /\ S \subseteq 0..Slots - 1
      BY <1>2, AtIs, Zenon
    <2>2. \A s \in 0..Slots - 1 : 0 <= s /\ s < Slots
      BY Sizes
    <2>3. \A s \in 0..Slots - 1 :
            <<"step", s>> \in T <=> Edges(H, isStepping, stepLow, s)
      BY TogglesAre DEF Roomy
    <2> QED
      BY <2>1, <2>2, <2>3, Zenon
  <1>4. \A s \in S : After(isStepping, At(T, "step", 0, s))
                       <=> High(H, isStepping, stepLow, s)
    <2>1. \A s \in S : s \in 0..Slots
      BY <1>3, Sizes
    <2> QED
      BY <2>1, FillLevel
  <1>5. ASSUME NEW s \in S
        PROVE  ~High(H, isStepping, stepLow, s) <=> s \in H
    <2>1. /\ \A h, g \in H : h < g => g - h >= Length + 1
          /\ isStepping => \A h \in H : h > stepLow
      BY FillGap
    <2> HIDE DEF H
    <2>2. /\ stepLow \in Nat /\ s \in Nat /\ Length \in Nat \ {0}
          /\ \A h \in H : h \in Nat
      BY <1>1, <1>3, Sizes DEF JointTypeOK
    <2>3. CASE s \in H
      BY <2>1, <2>2, <2>3 DEF High
    <2>4. CASE s \notin H
      <3>1. Edges(H, isStepping, stepLow, s)
        BY <1>3
      <3> QED
        BY <2>2, <2>4, <3>1 DEF High, Edges
    <2> QED
      BY <2>3, <2>4
  <1>6. H \subseteq S
    BY <1>1, <1>3 DEF Edges
  <1>7. Rises(T, isStepping, 0, Slots) = H
    <2>1. Rises(T, isStepping, 0, Slots) = {s \in S : s \in H}
      BY <1>4, <1>5, Zenon DEF Rises
    <2> QED
      BY <1>6, <2>1
  <1>8. ASSUME NEW s \in Falls(T, isStepping, 0, Slots)
        PROVE  \/ isStepping /\ s = stepLow
               \/ \E h \in H : s = h + Length
    <2>1. s \in S /\ s \notin H
      BY <1>7 DEF Falls
    <2> QED
      BY <1>3, <2>1, Zenon DEF Edges
  <1> QED
    BY <1>7, <1>8

(* At the end of the period the pin is high when the last step goes on.    *)
LEMMA FillEnd ==
  ASSUME NEW f \in Frequencies \ {0}, NEW pin, JointTypeOK, Roomy, Unfinished
  PROVE  After(isStepping, At(Toggles(f, pin), "step", 0, Slots))
           <=> /\ StepsThisPeriod(f)
               /\ HighSlot(Max(StepTimes(f, pin)), Turns(f, pin)) + Length >= Slots
  <1>1. After(isStepping, At(Toggles(f, pin), "step", 0, Slots))
          <=> \E h \in Highs(f, pin) : h + Length >= Slots
    <2>1. After(isStepping, At(Toggles(f, pin), "step", 0, Slots))
            <=> High(Highs(f, pin), isStepping, stepLow, Slots)
      <3>1. Slots \in 0..Slots
        BY Sizes
      <3> QED
        BY <3>1, FillLevel
    <2>2. ~(isStepping /\ Slots <= stepLow)
      BY Sizes DEF JointTypeOK, Roomy, Fits
    <2>3. Highs(f, pin) \in SUBSET (0..Slots - 1)
      BY HighsType DEF Roomy
    <2>4. \A h \in Highs(f, pin) : (h < Slots /\ Slots <= h + Length)
                                     <=> h + Length >= Slots
      BY <2>3, Sizes
    <2> QED
      BY <2>1, <2>2, <2>4, Zenon DEF High
  <1>2. CASE StepsThisPeriod(f)
    <2>1. PICK h \in 0..Slots - 1 :
            /\ h = HighSlot(Max(StepTimes(f, pin)), Turns(f, pin))
            /\ h \in Highs(f, pin)
            /\ \A g \in Highs(f, pin) : g \in 0..Slots - 1 /\ g <= h
      BY <1>2, LastHigh
    <2>2. (\E g \in Highs(f, pin) : g + Length >= Slots) <=> h + Length >= Slots
      BY <2>1, Sizes
    <2> QED
      BY <1>1, <1>2, <2>1, <2>2
  <1>3. CASE ~StepsThisPeriod(f)
    BY <1>1, <1>3 DEF Highs
  <1> QED
    BY <1>2, <1>3

(* The drive follows the count: it makes as many steps, in the direction   *)
(* of the command.                                                         *)
Sign(f) == IF Forwards(f) THEN 1 ELSE -1

(* Every step of a fill finds the direction of the command on the pin.     *)
LEMMA FillDirection ==
  ASSUME NEW f \in Frequencies \ {0}, NEW pin \in BOOLEAN, JointTypeOK, Roomy,
         Unfinished, ~dirChange, NEW h \in Highs(f, pin)
  PROVE  After(pin, At(Toggles(f, pin), "dir", 0, h + 1)) = Forwards(f)
  <1> DEFINE D == At(Toggles(f, pin), "dir", 0, h + 1)
  <1>1. h \in 0..Slots - 1 /\ 0 \in Int /\ h + 1 \in Int
    BY HighsType, Sizes DEF Roomy
  <1>2. \A s : s \in D <=> Turns(f, pin) /\ s = DirPos /\ 0 <= s /\ s < h + 1
    <2>1. Toggles(f, pin) \in SUBSET Toggle
      BY TogglesAre DEF Roomy
    <2>2. \A s : s \in D <=> <<"dir", s>> \in Toggles(f, pin) /\ 0 <= s /\ s < h + 1
      BY <1>1, <2>1, AtIs, Zenon
    <2>3. \A s : <<"dir", s>> \in Toggles(f, pin) <=> Turns(f, pin) /\ s = DirPos
      BY TogglesAre DEF Roomy
    <2> QED
      BY <2>2, <2>3, Zenon
  <1>3. Turns(f, pin) => 0 <= DirPos /\ DirPos < h + 1
    <2>1. StepsThisPeriod(f)
      BY DEF Highs
    <2>2. Turns(f, pin) => h >= DirPos + SetupTime
      BY <2>1, HighsAfterTurn
    <2> QED
      BY <1>1, <2>2, DirPosIs, Sizes
  <1>4. D = IF Turns(f, pin) THEN {DirPos} ELSE {}
    <2> HIDE DEF D
    <2>1. CASE Turns(f, pin)
      <3>1. \A s : s \in D <=> s = DirPos
        BY <1>2, <1>3, <2>1, Zenon
      <3> QED
        BY <2>1, <3>1
    <2>2. CASE ~Turns(f, pin)
      <3>1. \A s : s \notin D
        BY <1>2, <2>2, Zenon
      <3> QED
        BY <2>2, <3>1
    <2> QED
      BY <2>1, <2>2
  <1>5. Turns(f, pin) <=> ~(Forwards(f) <=> pin)
    BY DEF Turns, Forwards
  <1>6. Forwards(f) \in BOOLEAN
    BY DEF Forwards
  <1> HIDE DEF D
  <1>7. CASE Turns(f, pin)
    <2>1. After(pin, D) = ~pin
      BY <1>4, <1>7, AfterOne
    <2> QED
      BY <1>5, <1>6, <1>7, <2>1 DEF D
  <1>8. CASE ~Turns(f, pin)
    <2>1. After(pin, D) = pin
      BY <1>4, <1>8, AfterOne
    <2> QED
      BY <1>5, <1>6, <1>8, <2>1 DEF D
  <1> QED
    BY <1>7, <1>8

(* So a fill moves the drive by as many steps, with the sign of the        *)
(* command.                                                                *)
LEMMA FillMoves ==
  ASSUME NEW f \in Frequencies \ {0}, NEW pin \in BOOLEAN, JointTypeOK, Roomy,
         Unfinished, ~dirChange
  PROVE  Moves(Toggles(f, pin), isStepping, pin, 0, Slots)
           = Sign(f) * Cardinality(Highs(f, pin))
  <1> DEFINE H == Highs(f, pin)
             T == Toggles(f, pin)
             U == Ups(T, isStepping, pin, 0, Slots)
  <1>1. Rises(T, isStepping, 0, Slots) = H
    BY FillEdges
  <1>2. U = {h \in H : Forwards(f)}
    BY <1>1, FillDirection, Zenon DEF Ups
  <1>3. Moves(T, isStepping, pin, 0, Slots) = Cardinality(U) - Cardinality(H \ U)
    BY <1>1, MovesAre
  <1>4. Cardinality({}) = 0 /\ Cardinality(H) \in Nat
    <2>1. CASE StepsThisPeriod(f)
      BY <2>1, HighsCount, FS_EmptySet
    <2>2. CASE ~StepsThisPeriod(f)
      BY <2>2, FS_EmptySet DEF Highs
    <2> QED
      BY <2>1, <2>2
  <1> HIDE DEF H, U, T
  <1>5. CASE Forwards(f)
    <2>1. U = H /\ H \ U = {}
      BY <1>2, <1>5
    <2>2. Moves(T, isStepping, pin, 0, Slots) = Cardinality(H)
      BY <1>3, <1>4, <2>1
    <2> QED
      BY <1>4, <1>5, <2>2 DEF Sign, H, T
  <1>6. CASE ~Forwards(f)
    <2>1. U = {} /\ H \ U = H
      BY <1>2, <1>6
    <2>2. Moves(T, isStepping, pin, 0, Slots) = -Cardinality(H)
      BY <1>3, <1>4, <2>1
    <2> QED
      BY <1>4, <1>6, <2>2 DEF Sign, H, T
  <1> QED
    BY <1>5, <1>6

-----------------------------------------------------------------------------
(***************************************************************************)
(* Playing a buffer.                                                       *)
(***************************************************************************)

(* The last edge before a slot is in the past or one of the stretch.       *)
LEMMA LatestIs ==
  ASSUME NEW S \in SUBSET (0..Slots - 1), NEW past \in LongAgo..Slots, NEW s \in Int
  PROVE  Latest(S, past, s) \in {past} \cup {e \in S : e < s}
  <1> DEFINE X == {past} \cup {e \in S : e < s}
  <1>1. X \in SUBSET (LongAgo..Slots) /\ X # {}
    <2>1. \A e \in S : e \in LongAgo..Slots
      BY Sizes
    <2> QED
      BY <2>1, Zenon
  <1>2. LongAgo \in Int /\ Slots \in Int
    BY Sizes
  <1> HIDE DEF X
  <1>3. Max(X) \in X
    BY <1>1, <1>2, Greatest
  <1> QED
    BY <1>3 DEF X, Latest

(* The edges of the stretch that is played next.                           *)
Stretch(b) ==
    [rise |-> Rises(buf[tcd], stepPin, at, b),
     fall |-> Falls(buf[tcd], stepPin, at, b),
     dir |-> At(buf[tcd], "dir", at, b)]

(* The edges that the drive remembers.                                     *)
Kinds == {"rise", "fall", "dir"}

(* The types of what is loaded and of what comes next.                     *)
LEMMA Loaded ==
  ASSUME TypeOK
  PROVE  /\ buf[tcd] \in SUBSET Toggle /\ buf[Other(tcd)] \in SUBSET Toggle
         /\ Coming \in SUBSET Toggle
         /\ at \in Int /\ 0 <= at /\ at <= Slots
         /\ stepPin \in BOOLEAN /\ dirPin \in BOOLEAN
         /\ isStepping \in BOOLEAN
  <1>1. buf \in [{0, 1} -> SUBSET Toggle] /\ tcd \in {0, 1} /\ 1 - tcd \in {0, 1}
    BY DEF TypeOK, DmaTypeOK, Buffers
  <1>2. buf[tcd] \in SUBSET Toggle /\ buf[Other(tcd)] \in SUBSET Toggle
    BY <1>1 DEF Other
  <1> QED
    BY <1>2, Sizes DEF TypeOK, JointTypeOK, Coming

(* The edges of a stretch are slots of the buffer.                         *)
LEMMA StretchIs ==
  ASSUME TypeOK, NEW b \in 0..Slots
  PROVE  \A e \in Kinds : Stretch(b)[e] \in SUBSET (0..Slots - 1)
  <1>1. b \in Int
    BY Sizes
  <1>2. /\ Rises(buf[tcd], stepPin, at, b) \in SUBSET (0..Slots - 1)
        /\ Falls(buf[tcd], stepPin, at, b) \in SUBSET (0..Slots - 1)
        /\ At(buf[tcd], "dir", at, b) \in SUBSET (0..Slots - 1)
    BY <1>1, Loaded, EdgesAre, AtIs
  <1> QED
    BY <1>2 DEF Stretch, Kinds

(* What the drive remembers is what it remembered or an edge that it has   *)
(* seen since, and at the end of a buffer that one period less.            *)
LEMMA LastIs ==
  ASSUME TypeOK, NEW b \in 0..Slots, PlayTo(b)
  PROVE  /\ last' \in [Kinds -> LongAgo..Slots]
         /\ b < Slots => \A e \in Kinds :
              last'[e] = last[e] \/ (last'[e] \in Stretch(b)[e] /\ last'[e] < b)
         /\ b = Slots => \A e \in Kinds :
              \/ last'[e] = LongAgo
              \/ last'[e] = last[e] - Slots
              \/ last'[e] + Slots \in Stretch(b)[e] /\ last'[e] + Slots < b
  <1> DEFINE reached == [e \in Kinds |-> Latest(Stretch(b)[e], last[e], b)]
             shifted == [e \in Kinds |-> Max({reached[e] - Slots, LongAgo})]
  <1>1. last' = IF b < Slots THEN reached ELSE shifted
    BY DEF PlayTo, Stretch, Kinds
  <1>2. last \in [Kinds -> LongAgo..Slots]
    BY DEF TypeOK, Kinds
  <1>3. ASSUME NEW e \in Kinds
        PROVE  /\ reached[e] = last[e] \/ (reached[e] \in Stretch(b)[e] /\ reached[e] < b)
               /\ reached[e] \in LongAgo..Slots
               /\ shifted[e] = LongAgo \/ shifted[e] = reached[e] - Slots
               /\ shifted[e] \in LongAgo..Slots
    <2>1. last[e] \in LongAgo..Slots /\ Stretch(b)[e] \in SUBSET (0..Slots - 1)
      BY <1>2, StretchIs
    <2>2. b \in Int
      BY Sizes
    <2>3. Latest(Stretch(b)[e], last[e], b)
            \in {last[e]} \cup {x \in Stretch(b)[e] : x < b}
      BY <2>1, <2>2, LatestIs
    <2>4. reached[e] = Latest(Stretch(b)[e], last[e], b)
      OBVIOUS
    <2>5. shifted[e] = Max({reached[e] - Slots, LongAgo})
      OBVIOUS
    <2> HIDE DEF reached, shifted
    <2>6. reached[e] = last[e] \/ (reached[e] \in Stretch(b)[e] /\ reached[e] < b)
      BY <2>3, <2>4
    <2>7. reached[e] \in LongAgo..Slots
      BY <2>1, <2>6, Sizes
    <2>8. reached[e] - Slots \in Int /\ LongAgo \in Int /\ reached[e] \in Int
          /\ reached[e] <= Slots
      BY <2>7, Sizes
    <2>9. shifted[e] = IF reached[e] - Slots >= LongAgo THEN reached[e] - Slots
                                                        ELSE LongAgo
      BY <2>5, <2>8, MaxOfTwo
    <2> QED
      BY <2>6, <2>7, <2>8, <2>9, Sizes
  <1>4. /\ reached \in [Kinds -> LongAgo..Slots]
        /\ shifted \in [Kinds -> LongAgo..Slots]
    BY <1>3
  <1> HIDE DEF reached, shifted
  <1>5. last' \in [Kinds -> LongAgo..Slots]
    BY <1>1, <1>4
  <1>6. CASE b < Slots
    BY <1>1, <1>3, <1>5, <1>6, Sizes
  <1>7. CASE ~(b < Slots)
    <2>1. last' = shifted /\ b = Slots
      BY <1>1, <1>7, Sizes
    <2>2. ASSUME NEW e \in Kinds
          PROVE  \/ last'[e] = LongAgo
                 \/ last'[e] = last[e] - Slots
                 \/ last'[e] + Slots \in Stretch(b)[e] /\ last'[e] + Slots < b
      <3>1. reached[e] \in Int
        BY <1>3, Sizes
      <3>2. reached[e] - Slots + Slots = reached[e]
        BY <3>1, Sizes
      <3> QED
        BY <1>3, <2>1, <3>2
    <2> QED
      BY <1>5, <1>7, <2>1, <2>2
  <1> QED
    BY <1>6, <1>7

(* A counter keeps its width.                                              *)
LEMMA ModIs ==
  ASSUME NEW x \in Int
  PROVE  x % CountMod \in 0..CountMod - 1
  BY Sizes

(* Playing, filling and makePulses keep the types.                         *)
LEMMA PlayTypes ==
  ASSUME TypeOK, NEW b \in 0..Slots, PlayTo(b)
  PROVE  /\ stepPin' \in BOOLEAN /\ dirPin' \in BOOLEAN
         /\ position' \in 0..CountMod - 1
         /\ last' \in [{"rise", "fall", "dir"} -> LongAgo..Slots]
         /\ broken' \subseteq Times
  <1>1. stepPin' \in BOOLEAN /\ dirPin' \in BOOLEAN
    BY AfterType DEF PlayTo
  <1>2. position' \in 0..CountMod - 1
    <2>1. position \in Int /\ Moves(buf[tcd], stepPin, dirPin, at, b) \in Int
      BY Loaded, MovesType, Sizes DEF TypeOK
    <2> QED
      BY <2>1, ModIs DEF PlayTo
  <1>3. last' \in [{"rise", "fall", "dir"} -> LongAgo..Slots]
    BY LastIs DEF Kinds
  <1>4. broken' \subseteq Times
    <2>1. TooShort(buf[tcd], at, b) \subseteq Times
      BY DEF TooShort
    <2> QED
      BY <2>1 DEF PlayTo, TypeOK
  <1> QED
    BY <1>1, <1>2, <1>3, <1>4

LEMMA FillType ==
  ASSUME NEW f \in Frequencies, NEW pin, JointTypeOK, Fits
  PROVE  Fill(f, pin) \in SUBSET Toggle
  BY TogglesAre DEF Fill

LEMMA MakePulsesTypes ==
  ASSUME NEW f \in Frequencies \ {0}, NEW pin, JointTypeOK, Fits,
         MakePulses(f, pin)
  PROVE  JointTypeOK'
  <1>1. CASE StepsThisPeriod(f)
    <2> DEFINE tl == Max(StepTimes(f, pin))
               hl == HighSlot(tl, Turns(f, pin))
               low == hl + Length
    <2>1. tl \in 0..Counts
      BY <1>1, LastTime
    <2>2. hl \in 0..Slots - 1
      <3>1. Turns(f, pin) \in BOOLEAN
        BY DEF Turns, JointTypeOK
      <3> QED
        BY <2>1, <3>1, HighSlotIs
    <2>3. /\ isStepping' = (low >= Slots)
          /\ stepLow' = IF low >= Slots THEN low - Slots ELSE 0
          /\ prevRemainder' = Counts - tl
          /\ dirChange' = FALSE
          /\ rawCount' = (rawCount + (IF Forwards(f) THEN 1 ELSE -1)
                                       * Cardinality(StepTimes(f, pin))) % CountMod
      BY <1>1, Zenon DEF MakePulses
    <2>4. Cardinality(StepTimes(f, pin)) \in Nat
      <3>1. StepTimes(f, pin) \subseteq 0..Counts
        BY <1>1, FirstStepIs, StepTimesAre, CountsIs
      <3>2. IsFiniteSet(0..Counts)
        BY CountsIs, FS_Interval
      <3> QED
        BY <3>1, <3>2, FS_Subset, FS_CardinalityType
    <2>l. low = hl + Length
      OBVIOUS
    <2> HIDE DEF tl, hl, low
    <2>5. isStepping' \in BOOLEAN
      BY <2>3
    <2>6. stepLow' \in 0..Length - 1
      BY <2>2, <2>3, <2>l, Sizes
    <2>7. prevRemainder' \in Nat
      BY <2>1, <2>3, CountsIs
    <2>8. rawCount' \in 0..CountMod - 1
      <3>1. rawCount + (IF Forwards(f) THEN 1 ELSE -1)
                         * Cardinality(StepTimes(f, pin)) \in Int
        BY <2>4, Sizes DEF JointTypeOK
      <3> QED
        BY <2>3, <3>1, ModIs
    <2> QED
      BY <2>3, <2>5, <2>6, <2>7, <2>8 DEF JointTypeOK
  <1>2. CASE ~StepsThisPeriod(f)
    <2>1. Carried(f) \in Nat /\ Counts \in Nat
      BY CarriedIs, CountsIs DEF JointTypeOK
    <2>2. /\ dirChange' = FALSE /\ isStepping' = FALSE
          /\ stepLow' = IF isStepping THEN 0 ELSE stepLow
          /\ prevRemainder' = Carried(f) + Counts
          /\ rawCount' = rawCount
      BY <1>2, Zenon DEF MakePulses
    <2>3. stepLow' \in 0..Length - 1 /\ prevRemainder' \in Nat
      BY <2>1, <2>2, Sizes DEF JointTypeOK
    <2> QED
      BY <2>2, <2>3 DEF JointTypeOK
  <1> QED
    BY <1>1, <1>2

LEMMA EnabledTypes ==
  ASSUME NEW f \in Frequencies, NEW pin, JointTypeOK, Fits, Enabled(f, pin)
  PROVE  JointTypeOK'
  BY MakePulsesTypes DEF Enabled, jointVars, JointTypeOK

-----------------------------------------------------------------------------
(***************************************************************************)
(* Type correctness.                                                       *)
(***************************************************************************)

(* The initial state has its types.                                        *)
LEMMA InitTypes == Init => TypeOK
  <1> SUFFICES ASSUME Init PROVE TypeOK
    OBVIOUS
  <1>1. DmaTypeOK(Toggle)
    BY DEF Init, DmaInit, DmaTypeOK, Buffers
  <1>2. JointTypeOK
    BY Sizes, StepgenAssumption DEF Init, JointInit, JointTypeOK
  <1>3. LongAgo \in LongAgo..Slots /\ 0 \in 0..CountMod - 1 /\ 0 \in 0..Slots
        /\ 0 \in 0..MaxSessions
    BY Sizes, OutputAssumption
  <1>4. last \in [{"rise", "fall", "dir"} -> LongAgo..Slots]
    BY <1>3, Zenon DEF Init
  <1> QED
    BY <1>1, <1>2, <1>3, <1>4 DEF Init, TypeOK

(* The buffer that is filled holds toggles again.                          *)
LEMMA BuffersFilled ==
  ASSUME DmaTypeOK(Toggle), NEW i \in Buffers, NEW X \in SUBSET Toggle
  PROVE  /\ [buf EXCEPT ![i] = X] \in [Buffers -> SUBSET Toggle]
         /\ [buf EXCEPT ![i] = @ \cup X] \in [Buffers -> SUBSET Toggle]
         /\ Other(tcd) \in Buffers
  BY DEF DmaTypeOK, Buffers, Other

(* A start, and the service of a buffer, keep the types of the DMA thread. *)
LEMMA StartTypes ==
  ASSUME TypeOK, NEW X \in SUBSET Toggle, RunAndStart(X),
         sessions < MaxSessions, sessions' = sessions + 1
  PROVE  DmaTypeOK(Toggle)' /\ sessions' \in 0..MaxSessions
  <1>1. DmaTypeOK(Toggle)
    BY DEF TypeOK
  <1>2. buf' \in [Buffers -> SUBSET Toggle]
    BY <1>1, BuffersFilled DEF RunAndStart, DmaTypeOK
  <1>3. sessions' \in 0..MaxSessions
    BY OutputAssumption DEF TypeOK
  <1> QED
    BY <1>1, <1>2, <1>3 DEF RunAndStart, DmaTypeOK

LEMMA ServeTypes ==
  ASSUME TypeOK, NEW X \in SUBSET Toggle,
         active' = Other(tcd), done' = FALSE,
         buf' = [buf EXCEPT ![Other(tcd)] = X],
         UNCHANGED <<playing, tcd, sessions>>
  PROVE  DmaTypeOK(Toggle)' /\ sessions' \in 0..MaxSessions
  <1>1. DmaTypeOK(Toggle)
    BY DEF TypeOK
  <1>2. Other(tcd) \in Buffers
    BY <1>1 DEF DmaTypeOK, Buffers, Other
  <1>3. buf' \in [Buffers -> SUBSET Toggle]
    BY <1>1, <1>2, BuffersFilled
  <1> QED
    BY <1>1, <1>2, <1>3 DEF DmaTypeOK, TypeOK

(* Slots up to which a buffer may be played.                               *)
LEMMA SlotTypes ==
  FillSlots \subseteq 0..Slots /\ 0 \in 0..Slots /\ Slots \in 0..Slots
  BY OutputAssumption, Sizes

(* Type correctness: the toggles of every fill lie within the buffer of    *)
(* 1000 slots that the code gives them, the direction pin is turned early  *)
(* in the period, and the remainder and the end of an unfinished step stay *)
(* within theirs (DMAstepgen.cpp:133-239).                                 *)
THEOREM TypeCorrect == ASSUME Fits PROVE Spec => []TypeOK
  <1>1. TypeOK /\ [Next]_vars => TypeOK'
    <2> SUFFICES ASSUME TypeOK, [Next]_vars PROVE TypeOK'
      OBVIOUS
    <2>t. DmaTypeOK(Toggle) /\ JointTypeOK
      BY DEF TypeOK
    <2>1. ASSUME NEW f \in Frequencies, StartRunning(f) PROVE TypeOK'
      <3>1. Fill(f, dirPin) \in SUBSET Toggle
        BY <2>t, FillType
      <3>2. DmaTypeOK(Toggle)' /\ sessions' \in 0..MaxSessions
        BY <2>1, <3>1, StartTypes DEF StartRunning
      <3>3. JointTypeOK'
        BY <2>1, <2>t, EnabledTypes DEF StartRunning
      <3> QED
        BY <2>1, <3>2, <3>3, SlotTypes DEF StartRunning, TypeOK
    <2>2. ASSUME NEW f \in Frequencies, NEW b \in FillSlots, Serve(f, b)
          PROVE  TypeOK'
      <3>1. Fill(f, DirPinAt(b)) \in SUBSET Toggle
        BY <2>t, FillType
      <3>2. DmaTypeOK(Toggle)' /\ sessions' \in 0..MaxSessions
        BY <2>2, <3>1, ServeTypes DEF Serve
      <3>3. JointTypeOK'
        BY <2>2, <2>t, EnabledTypes DEF Serve
      <3>4. b \in 0..Slots /\ at' = b /\ PlayTo(b)
        BY <2>2, SlotTypes DEF Serve
      <3>5. /\ stepPin' \in BOOLEAN /\ dirPin' \in BOOLEAN
            /\ position' \in 0..CountMod - 1
            /\ last' \in [{"rise", "fall", "dir"} -> LongAgo..Slots]
            /\ broken' \subseteq Times
        BY <3>4, PlayTypes
      <3> QED
        BY <3>2, <3>3, <3>4, <3>5 DEF TypeOK
    <2>d. ASSUME Disable PROVE JointTypeOK'
      <3>1. 0 \in Nat
        OBVIOUS
      <3> QED
        BY <2>d, <2>t, <3>1, Zenon DEF Disable, JointTypeOK
    <2>3. ASSUME NEW b \in FillSlots, ServeDisabled(b) PROVE TypeOK'
      <3>1. DmaTypeOK(Toggle)' /\ sessions' \in 0..MaxSessions
        BY <2>3, ServeTypes DEF ServeDisabled
      <3>2. JointTypeOK'
        BY <2>3, <2>d DEF ServeDisabled
      <3>3. b \in 0..Slots /\ at' = b /\ Lower(b)
        BY <2>3, SlotTypes DEF ServeDisabled
      <3>4. position' \in 0..CountMod - 1
        <4>1. position \in Int /\ Moves(buf[tcd], stepPin, dirPin, at, b) \in Int
          BY <3>3, Loaded, MovesType, Sizes DEF TypeOK
        <4> QED
          BY <3>3, <4>1, ModIs DEF Lower
      <3>5. last' \in [{"rise", "fall", "dir"} -> LongAgo..Slots]
        <4>1. b \in LongAgo..Slots
          BY <3>3, Sizes
        <4> QED
          BY <3>3, <4>1 DEF Lower, TypeOK
      <3> QED
        BY <3>1, <3>2, <3>3, <3>4, <3>5 DEF TypeOK, Lower
    <2>4. ASSUME StartDisabled PROVE TypeOK'
      <3>1. DmaTypeOK(Toggle)' /\ sessions' \in 0..MaxSessions
        BY <2>4, StartTypes DEF StartDisabled
      <3>2. JointTypeOK'
        BY <2>4, <2>d DEF StartDisabled
      <3> QED
        BY <2>4, <3>1, <3>2, SlotTypes DEF StartDisabled, TypeOK
    <2>u. UNCHANGED jointVars => JointTypeOK'
      BY <2>t DEF jointVars, JointTypeOK
    <2>5. ASSUME EndBuffer PROVE TypeOK'
      <3>1. DmaTypeOK(Toggle)'
        BY <2>5, <2>t DEF EndBuffer, MajorComplete, DmaTypeOK, Buffers, Other
      <3>2. /\ stepPin' \in BOOLEAN /\ dirPin' \in BOOLEAN
            /\ position' \in 0..CountMod - 1
            /\ last' \in [{"rise", "fall", "dir"} -> LongAgo..Slots]
            /\ broken' \subseteq Times
        BY <2>5, SlotTypes, PlayTypes DEF EndBuffer
      <3>3. at' \in 0..Slots /\ sessions' \in 0..MaxSessions /\ JointTypeOK'
        BY <2>5, <2>u, SlotTypes DEF EndBuffer, TypeOK
      <3> QED
        BY <3>1, <3>2, <3>3 DEF TypeOK
    <2>6. ASSUME NEW b \in FillSlots, Abort(b) PROVE TypeOK'
      <3>1. DmaTypeOK(Toggle)'
        BY <2>6, <2>t DEF Abort, StopThread, DmaTypeOK, Buffers
      <3>2. /\ stepPin' \in BOOLEAN /\ dirPin' \in BOOLEAN
            /\ position' \in 0..CountMod - 1
            /\ last' \in [{"rise", "fall", "dir"} -> LongAgo..Slots]
            /\ broken' \subseteq Times
        BY <2>6, SlotTypes, PlayTypes DEF Abort
      <3>3. at' \in 0..Slots /\ sessions' \in 0..MaxSessions /\ JointTypeOK'
        BY <2>6, <2>u, SlotTypes DEF Abort, TypeOK
      <3> QED
        BY <3>1, <3>2, <3>3 DEF TypeOK
    <2>7. ASSUME UNCHANGED vars PROVE TypeOK'
      BY <2>7, <2>t, <2>u
         DEF TypeOK, DmaTypeOK, vars, dmaVars, driveVars
    <2> QED
      BY <2>1, <2>2, <2>3, <2>4, <2>5, <2>6, <2>7 DEF Next, Idle
  <1> QED
    BY <1>1, InitTypes, PTL DEF Spec

-----------------------------------------------------------------------------
(***************************************************************************)
(* What is queued to be played.                                            *)
(***************************************************************************)

(* The levels when the loaded buffer ends, and what is queued behind it.   *)
StepAtSwap == After(stepPin, At(buf[tcd], "step", at, Slots))
DirAtSwap == After(dirPin, At(buf[tcd], "dir", at, Slots))
QueuedStep == After(StepAtSwap, At(Coming, "step", 0, Slots))
QueuedPosition ==
    (position + Moves(buf[tcd], stepPin, dirPin, at, Slots)
              + Moves(Coming, StepAtSwap, DirAtSwap, 0, Slots)) % CountMod

(* A buffer turns the direction pin only while the last step may still be  *)
(* held.                                                                   *)
EarlyTurns(T) == \A d \in At(T, "dir", 0, Slots) : d < Length + Hold

(* What is left of the loaded buffer, as the properties have it and as it  *)
(* is used here.                                                           *)
LEMMA RestIs ==
  ASSUME TypeOK
  PROVE  /\ \A pin : At(Rest, pin, 0, Slots) = At(buf[tcd], pin, at, Slots)
         /\ Moves(Rest, stepPin, dirPin, 0, Slots)
              = Moves(buf[tcd], stepPin, dirPin, at, Slots)
  <1>1. ASSUME NEW pin, NEW s
        PROVE  At(Rest, pin, 0, s) = At(buf[tcd], pin, at, s)
    <2>1. \A t \in buf[tcd] : t[2] >= at => 0 <= t[2]
      <3>1. \A t \in buf[tcd] : t[2] \in 0..Slots - 1
        BY Loaded DEF Toggle
      <3> QED
        BY <3>1, Sizes
    <2>2. \A t \in buf[tcd] : t[2] >= at <=> at <= t[2]
      <3>1. \A t \in buf[tcd] : t[2] \in 0..Slots - 1
        BY Loaded DEF Toggle
      <3> QED
        BY <3>1, Loaded, Sizes
    <2>3. {x \in Rest : x[1] = pin /\ 0 <= x[2] /\ x[2] < s}
            = {x \in buf[tcd] : x[1] = pin /\ at <= x[2] /\ x[2] < s}
      BY <2>1, <2>2, Zenon DEF Rest
    <2> QED
      BY <2>3, Zenon DEF At
  <1>2. Rises(Rest, stepPin, 0, Slots) = Rises(buf[tcd], stepPin, at, Slots)
    BY <1>1, Zenon DEF Rises
  <1>3. Ups(Rest, stepPin, dirPin, 0, Slots) = Ups(buf[tcd], stepPin, dirPin, at, Slots)
    BY <1>1, <1>2, Zenon DEF Ups
  <1> QED
    BY <1>1, <1>2, <1>3, MovesAre, Zenon

LEMMA QueuedIs ==
  ASSUME TypeOK
  PROVE  StepAtEnd = QueuedStep /\ PositionAtEnd = QueuedPosition
  <1>1. /\ At(Rest, "step", 0, Slots) = At(buf[tcd], "step", at, Slots)
        /\ At(Rest, "dir", 0, Slots) = At(buf[tcd], "dir", at, Slots)
        /\ Moves(Rest, stepPin, dirPin, 0, Slots)
              = Moves(buf[tcd], stepPin, dirPin, at, Slots)
    BY RestIs
  <1>2. /\ After(stepPin, At(Rest, "step", 0, Slots)) = StepAtSwap
        /\ After(dirPin, At(Rest, "dir", 0, Slots)) = DirAtSwap
    BY <1>1, Zenon DEF StepAtSwap, DirAtSwap
  <1>3. StepAtEnd = QueuedStep
    BY <1>2, Zenon DEF StepAtEnd, QueuedStep
  <1>4. PositionAtEnd = QueuedPosition
    BY <1>1, <1>2 DEF PositionAtEnd, QueuedPosition
  <1> QED
    BY <1>3, <1>4

(* Nothing is played from an empty stretch.                                *)
LEMMA NothingPlayed ==
  ASSUME NEW T, NEW step \in BOOLEAN, NEW dir, NEW a, NEW b,
         At(T, "step", a, b) = {}
  PROVE  After(step, At(T, "step", a, b)) = step /\ Moves(T, step, dir, a, b) = 0
  <1>1. Rises(T, step, a, b) = {}
    BY DEF Rises
  <1>2. Ups(T, step, dir, a, b) = {} /\ {} \ {} = {}
    BY <1>1 DEF Ups
  <1>3. Moves(T, step, dir, a, b) = Cardinality({}) - Cardinality({})
    BY <1>1, <1>2, MovesAre, Zenon
  <1> QED
    BY <1>3, AfterOne, FS_EmptySet

(* An empty buffer has no toggles.                                         *)
LEMMA EmptyAt == \A pin, a, b : At({}, pin, a, b) = {}
  BY DEF At

(* Arithmetic of the counter: division, and the sum of a reduced number.   *)
LEMMA Division ==
  ASSUME NEW m \in Nat \ {0}, NEW z \in Int
  PROVE  \E q \in Int, r \in 0..m - 1 : r = z % m /\ q * m \in Int /\ z = q * m + r
  <1>1. /\ z % m \in 0..m - 1 /\ z \div m \in Int
        /\ z = m * (z \div m) + (z % m)
    BY SMT
  <1>2. (z \div m) * m = m * (z \div m) /\ (z \div m) * m \in Int
    BY <1>1, SMT
  <1> QED
    BY <1>1, <1>2

LEMMA ModAdd ==
  ASSUME NEW x \in Int, NEW y \in Int
  PROVE  ((x % CountMod) + y) % CountMod = (x + y) % CountMod
  <1> DEFINE m == CountMod
  <1>1. m \in Nat \ {0}
    BY Sizes
  <1> HIDE DEF m
  <1>2. PICK q \in Int, r \in 0..m - 1 :
          r = x % m /\ q * m \in Int /\ x = q * m + r
    BY <1>1, Division
  <1>3. r + y \in Int /\ x + y \in Int
    BY <1>1, <1>2
  <1>4. PICK d \in Int, s \in 0..m - 1 :
          s = (r + y) % m /\ d * m \in Int /\ r + y = d * m + s
    BY <1>1, <1>3, Division
  <1>5. PICK c \in Int, u \in 0..m - 1 :
          u = (x + y) % m /\ c * m \in Int /\ x + y = c * m + u
    BY <1>1, <1>3, Division
  <1>6. PICK k \in Int : k = q + d
    OBVIOUS
  <1>7. k * m = q * m + d * m
    BY <1>1, <1>6, Product
  <1>8. k * m \in Int /\ k * m + s = c * m + u
    <2>1. PICK qm \in Int, dm \in Int, cm \in Int :
            qm = q * m /\ dm = d * m /\ cm = c * m
      BY <1>2, <1>4, <1>5
    <2>2. x = qm + r /\ r + y = dm + s /\ x + y = cm + u
      BY <1>2, <1>4, <1>5, <2>1
    <2>3. r \in Int /\ s \in Int /\ u \in Int
      BY <1>1
    <2>4. qm + dm + s = cm + u
      BY <2>2, <2>3
    <2> QED
      BY <1>7, <2>1, <2>4
  <1>9. k = c
    <2>1. ~(k < c)
      <3>1. k < c => k * m + m <= c * m
        BY <1>1, Product
      <3> QED
        BY <1>1, <1>4, <1>5, <1>8, <3>1
    <2>2. ~(c < k)
      <3>1. c < k => c * m + m <= k * m
        BY <1>1, Product
      <3> QED
        BY <1>1, <1>4, <1>5, <1>8, <3>1
    <2> QED
      BY <2>1, <2>2
  <1>10. s = u
    BY <1>1, <1>4, <1>5, <1>8, <1>9
  <1> QED
    BY <1>2, <1>4, <1>5, <1>10 DEF m

-----------------------------------------------------------------------------
(***************************************************************************)
(* What makePulses leaves in the joint.                                    *)
(***************************************************************************)

LEMMA ModSmall ==
  ASSUME NEW n \in 0..CountMod - 1
  PROVE  (n + 0) % CountMod = n
  <1>1. PICK m \in Nat \ {0} : m = CountMod
    BY Sizes
  <1>2. n \in Nat /\ n < m
    BY <1>1
  <1>3. n % m = n
    BY <1>1, <1>2, SMT
  <1> QED
    BY <1>1, <1>2, <1>3

(* What makePulses leaves in the joint fits what it has put in the buffer. *)
LEMMA MakePulsesResult ==
  ASSUME NEW f \in Frequencies \ {0}, NEW pin, JointTypeOK, Roomy,
         MakePulses(f, pin)
  PROVE  /\ dirChange' = FALSE
         /\ StepsThisPeriod(f) =>
              LET tl == Max(StepTimes(f, pin))
                  low == HighSlot(tl, Turns(f, pin)) + Length
              IN  /\ isStepping' = (low >= Slots)
                  /\ stepLow' = IF low >= Slots THEN low - Slots ELSE 0
                  /\ prevRemainder' = Counts - tl
                  /\ rawCount' = (rawCount + Sign(f) * Cardinality(StepTimes(f, pin)))
                                   % CountMod
         /\ ~StepsThisPeriod(f) =>
              /\ isStepping' = FALSE
              /\ prevRemainder' = Carried(f) + Counts
              /\ rawCount' = rawCount
  BY Zenon DEF MakePulses, Sign

(* A step that is not finished in this period is lowered before the first  *)
(* one of the next.                                                        *)
LEMMA UnfinishedNext ==
  ASSUME NEW f \in Frequencies \ {0}, NEW pin, JointTypeOK, Roomy,
         MakePulses(f, pin)
  PROVE  Unfinished'
  <1>1. CASE StepsThisPeriod(f)
    <2> DEFINE tl == Max(StepTimes(f, pin))
               h == HighSlot(tl, Turns(f, pin))
               low == h + Length
    <2>3. tl \in 0..Counts
      BY <1>1, LastTime DEF Roomy
    <2>4. h \in 0..Slots - 1 /\ h * Half <= tl
      BY <1>1, LastHigh
    <2>l. low = h + Length
      OBVIOUS
    <2>r. /\ isStepping' = (low >= Slots)
          /\ stepLow' = IF low >= Slots THEN low - Slots ELSE 0
          /\ prevRemainder' = Counts - tl
      BY <1>1, Zenon DEF MakePulses
    <2> HIDE DEF tl, h, low
    <2>5. isStepping' => stepLow' = low - Slots
      <3>1. ASSUME isStepping' PROVE low >= Slots
        BY <2>r, <3>1, Zenon
      <3> QED
        BY <2>r, <3>1, Zenon
    <2>6. isStepping' => stepLow' - Length = h - Slots
      <3>1. low - Slots - Length = h - Slots
        BY <2>4, <2>l, Sizes
      <3> QED
        BY <2>5, <3>1, Zenon
    <2>7. /\ (h - Slots) * Half = h * Half - Counts
          /\ h * Half \in Int /\ Counts \in Int
      BY <2>4, Product, CountsIs, Sizes
    <2>8. (h - Slots) * Half + (Counts - tl) <= 0
      BY <2>3, <2>4, <2>7
    <2> QED
      BY <2>r, <2>6, <2>8, Zenon DEF Unfinished
  <1>2. CASE ~StepsThisPeriod(f)
    <2>1. isStepping' = FALSE
      BY <1>2, MakePulsesResult
    <2> QED
      BY <2>1 DEF Unfinished
  <1> QED
    BY <1>1, <1>2

(* makePulses turns the direction pin early.                               *)
LEMMA EarlyFill ==
  ASSUME NEW f \in Frequencies, NEW pin, JointTypeOK, Roomy
  PROVE  EarlyTurns(Fill(f, pin))
  <1>1. CASE f = 0
    BY <1>1, EmptyAt DEF Fill, EarlyTurns
  <1>2. CASE f # 0
    <2>1. /\ Toggles(f, pin) \in SUBSET Toggle
          /\ \A s : <<"dir", s>> \in Toggles(f, pin) <=> Turns(f, pin) /\ s = DirPos
      BY <1>2, TogglesAre DEF Roomy
    <2>2. 0 \in Int /\ Slots \in Int
      BY Sizes
    <2>3. \A s \in At(Toggles(f, pin), "dir", 0, Slots) : s = DirPos
      BY <2>1, <2>2, AtIs, Zenon
    <2>4. DirPos < Length + Hold
      BY DirPosIs, Sizes
    <2> QED
      BY <1>2, <2>3, <2>4 DEF Fill, EarlyTurns
  <1> QED
    BY <1>1, <1>2

(* A fill of a joint that is enabled: the step pin will be left as         *)
(* isStepping says, and the count changes by what the drive will be moved. *)
LEMMA FillResult ==
  ASSUME NEW f \in Frequencies, NEW pin \in BOOLEAN, JointTypeOK, Roomy,
         Unfinished, dirChange = FALSE, Enabled(f, pin)
  PROVE  /\ dirChange' = FALSE /\ Unfinished'
         /\ After(isStepping, At(Fill(f, pin), "step", 0, Slots)) = isStepping'
         /\ rawCount' = (rawCount + Moves(Fill(f, pin), isStepping, pin, 0, Slots))
                          % CountMod
         /\ Moves(Fill(f, pin), isStepping, pin, 0, Slots) \in Int
  <1>t. isStepping \in BOOLEAN /\ isStepping' \in BOOLEAN
        /\ rawCount \in 0..CountMod - 1
    BY EnabledTypes DEF JointTypeOK, Roomy
  <1>1. CASE f = 0
    <2>1. Fill(f, pin) = {} /\ UNCHANGED jointVars
      BY <1>1 DEF Fill, Enabled
    <2>2. /\ dirChange' = FALSE /\ Unfinished'
          /\ isStepping' = isStepping /\ rawCount' = rawCount
      BY <2>1 DEF jointVars, Unfinished
    <2>3. /\ After(isStepping, At({}, "step", 0, Slots)) = isStepping
          /\ Moves({}, isStepping, pin, 0, Slots) = 0
      BY <1>t, EmptyAt, NothingPlayed
    <2> QED
      BY <1>t, <2>1, <2>2, <2>3, ModSmall
  <1>2. CASE f # 0
    <2>1. Fill(f, pin) = Toggles(f, pin) /\ MakePulses(f, pin)
      BY <1>2 DEF Fill, Enabled
    <2>2. After(isStepping, At(Toggles(f, pin), "step", 0, Slots)) = isStepping'
      <3>1. PICK low : low = HighSlot(Max(StepTimes(f, pin)), Turns(f, pin)) + Length
        OBVIOUS
      <3>2. isStepping' <=> StepsThisPeriod(f) /\ low >= Slots
        BY <1>2, <2>1, <3>1, MakePulsesResult
      <3>3. After(isStepping, At(Toggles(f, pin), "step", 0, Slots))
              <=> StepsThisPeriod(f) /\ low >= Slots
        BY <1>2, <3>1, FillEnd
      <3> QED
        BY <1>t, <3>2, <3>3, AfterType
    <2>3. Moves(Toggles(f, pin), isStepping, pin, 0, Slots)
            = Sign(f) * Cardinality(Highs(f, pin))
      BY <1>2, FillMoves
    <2>4. /\ rawCount' = (rawCount + Sign(f) * Cardinality(Highs(f, pin))) % CountMod
          /\ Sign(f) * Cardinality(Highs(f, pin)) \in Int
      <3>1. CASE StepsThisPeriod(f)
        <4>1. /\ Cardinality(Highs(f, pin)) = Cardinality(StepTimes(f, pin))
              /\ Cardinality(Highs(f, pin)) \in Nat
          BY <1>2, <3>1, HighsCount
        <4>2. rawCount' = (rawCount + Sign(f) * Cardinality(StepTimes(f, pin)))
                            % CountMod
          BY <1>2, <2>1, <3>1, MakePulsesResult
        <4> QED
          BY <4>1, <4>2 DEF Sign
      <3>2. CASE ~StepsThisPeriod(f)
        <4>1. Cardinality(Highs(f, pin)) = 0
          BY <3>2, FS_EmptySet DEF Highs
        <4>2. Sign(f) * Cardinality(Highs(f, pin)) = 0
          BY <4>1 DEF Sign
        <4>3. rawCount' = rawCount
          BY <1>2, <2>1, <3>2, MakePulsesResult
        <4> QED
          BY <1>t, <4>2, <4>3, ModSmall
      <3> QED
        BY <3>1, <3>2
    <2>5. dirChange' = FALSE /\ Unfinished'
      BY <1>2, <2>1, MakePulsesResult, UnfinishedNext
    <2> QED
      BY <2>1, <2>2, <2>3, <2>4, <2>5
  <1> QED
    BY <1>1, <1>2

-----------------------------------------------------------------------------
(***************************************************************************)
(* The count and the level of the step pin, in one session.                *)
(***************************************************************************)

(* One session of the thread, served in time, of a joint that is disabled  *)
(* only when its pins are at rest, with isStepping and dirChange starting  *)
(* as FALSE; the runs with other values violate the properties.            *)
OneSession ==
    /\ Prompt /\ MaxSessions <= 1
    /\ PowerUpFlags = {FALSE} /\ DisableWhen # "any"
    /\ Roomy

(* Nothing has been played or queued yet.                                  *)
Fresh ==
    /\ buf = [b \in Buffers |-> {}]
    /\ active = 0 /\ tcd = 0 /\ done = FALSE /\ at = 0
    /\ stepPin = FALSE /\ dirPin = FALSE /\ position = 0
    /\ last = [e \in Kinds |-> LongAgo]
    /\ isStepping = FALSE /\ stepLow = 0 /\ prevRemainder = 0 /\ rawCount = 0

(* The invariant of a session: the pins and the drive will be, when all    *)
(* that is queued has been played, where the joint has them.               *)
Tracked ==
    /\ done => at = 0
    /\ QueuedStep = isStepping
    /\ rawCount = QueuedPosition
    /\ EarlyTurns(buf[tcd]) /\ EarlyTurns(Coming)

(* The inductive invariant of CountIsPosition and StepPinKnown.            *)
CountInv ==
    /\ TypeOK
    /\ dirChange = FALSE
    /\ Unfinished
    /\ playing => sessions # 0
    /\ ~playing /\ sessions = 0 => Fresh
    /\ playing => Tracked

(* The buffers before and after the first fill.                            *)
LEMMA FreshIs ==
  ASSUME TypeOK, Fresh
  PROVE  /\ buf[active] = {} /\ buf[Other(tcd)] = {} /\ buf[tcd] = {}
         /\ \A X : [buf EXCEPT ![active] = @ \cup X] = [buf EXCEPT ![0] = X]
         /\ \A X : LET filled == [buf EXCEPT ![0] = X]
                   IN  filled[0] = X /\ filled[1] = {}
         /\ Other(0) = 1
  BY DEF Fresh, Buffers, Other

(* The types of what is queued.                                            *)
LEMMA QueuedTypes ==
  ASSUME TypeOK
  PROVE  /\ StepAtSwap \in BOOLEAN /\ DirAtSwap \in BOOLEAN /\ QueuedStep \in BOOLEAN
         /\ Moves(buf[tcd], stepPin, dirPin, at, Slots) \in Int
         /\ Moves(Coming, StepAtSwap, DirAtSwap, 0, Slots) \in Int
         /\ position \in Int
  <1>1. /\ StepAtSwap \in BOOLEAN /\ DirAtSwap \in BOOLEAN /\ QueuedStep \in BOOLEAN
    BY AfterType DEF StepAtSwap, DirAtSwap, QueuedStep
  <1>2. 0 \in Int /\ Slots \in Int
    BY Sizes
  <1>3. Moves(buf[tcd], stepPin, dirPin, at, Slots) \in Int
    BY <1>2, Loaded, MovesType
  <1>4. Moves(Coming, StepAtSwap, DirAtSwap, 0, Slots) \in Int
    BY <1>1, <1>2, Loaded, MovesType
  <1>5. position \in Int
    BY Sizes DEF TypeOK
  <1> QED
    BY <1>1, <1>3, <1>4, <1>5

(* The state of a session whose first buffer has just been filled with X.  *)
LEMMA FirstFill ==
  ASSUME TypeOK, Fresh, NEW X \in SUBSET Toggle, RunAndStart(X),
         at' = 0, position' = position, stepPin' = FALSE,
         After(FALSE, At(X, "step", 0, Slots)) = isStepping',
         rawCount' = Moves(X, FALSE, dirPin', 0, Slots) % CountMod,
         EarlyTurns(X)
  PROVE  Tracked'
  <1>1. /\ buf' = [buf EXCEPT ![0] = X] /\ tcd' = 0 /\ done' = FALSE
        /\ position' = 0
    BY FreshIs DEF RunAndStart, Fresh
  <1>2. buf'[tcd'] = X /\ Coming' = {}
    BY <1>1, FreshIs DEF Coming
  <1>3. StepAtSwap' = isStepping'
    BY <1>2 DEF StepAtSwap
  <1>4. QueuedStep' = isStepping'
    <2>1. isStepping' \in BOOLEAN
      BY AfterType
    <2> QED
      BY <1>2, <1>3, <2>1, EmptyAt, AfterOne DEF QueuedStep
  <1>5. Moves({}, StepAtSwap', DirAtSwap', 0, Slots) = 0
    <2>1. StepAtSwap' \in BOOLEAN
      BY AfterType DEF StepAtSwap
    <2> QED
      BY <2>1, EmptyAt, NothingPlayed
  <1>6. rawCount' = QueuedPosition'
    <2>m. Moves(X, FALSE, dirPin', 0, Slots) \in Int
      <3>1. 0 \in Int /\ Slots \in Int /\ FALSE \in BOOLEAN
        BY Sizes
      <3> QED
        BY <3>1, MovesType, Zenon
    <2>1. PICK n \in Int : n = Moves(X, FALSE, dirPin', 0, Slots)
      BY <2>m
    <2>2. QueuedPosition' = (0 + n + 0) % CountMod
      BY <1>1, <1>2, <1>5, <2>1 DEF QueuedPosition
    <2>3. 0 + n + 0 = n
      OBVIOUS
    <2> QED
      BY <2>1, <2>2, <2>3, Zenon
  <1>7. EarlyTurns({})
    BY EmptyAt DEF EarlyTurns
  <1> QED
    BY <1>1, <1>2, <1>4, <1>6, <1>7 DEF Tracked

(* A session begins with what is queued being the first fill.              *)
LEMMA StartCounts ==
  ASSUME CountInv, OneSession, NEW f \in Frequencies, StartRunning(f)
  PROVE  Tracked' /\ dirChange' = FALSE /\ Unfinished'
  <1>1. TypeOK /\ Fresh /\ JointTypeOK /\ Roomy /\ Fits /\ Unfinished
        /\ dirChange = FALSE
    <2>1. sessions = 0 /\ ~playing
      BY OutputAssumption DEF StartRunning, RunAndStart, OneSession, CountInv, TypeOK
    <2> QED
      BY <2>1 DEF CountInv, OneSession, Roomy, TypeOK
  <1>2. /\ dirPin = FALSE /\ isStepping = FALSE /\ rawCount = 0 /\ stepPin = FALSE
    BY <1>1 DEF Fresh
  <1>3. /\ dirChange' = FALSE /\ Unfinished'
        /\ After(isStepping, At(Fill(f, dirPin), "step", 0, Slots)) = isStepping'
        /\ rawCount' = (rawCount + Moves(Fill(f, dirPin), isStepping, dirPin, 0, Slots))
                          % CountMod
        /\ Moves(Fill(f, dirPin), isStepping, dirPin, 0, Slots) \in Int
    <2>1. dirPin \in BOOLEAN /\ Enabled(f, dirPin)
      BY <1>2 DEF StartRunning
    <2> QED
      BY <1>1, <2>1, FillResult
  <1>4. Fill(f, dirPin) \in SUBSET Toggle /\ EarlyTurns(Fill(f, dirPin))
    BY <1>1, FillType, EarlyFill
  <1>5. /\ at' = 0 /\ position' = position /\ stepPin' = FALSE /\ dirPin' = dirPin
        /\ RunAndStart(Fill(f, dirPin))
    BY <1>2 DEF StartRunning
  <1>6. After(FALSE, At(Fill(f, dirPin), "step", 0, Slots)) = isStepping'
    BY <1>2, <1>3
  <1>7. rawCount' = Moves(Fill(f, dirPin), FALSE, dirPin', 0, Slots) % CountMod
    <2>1. PICK n \in Int : n = Moves(Fill(f, dirPin), isStepping, dirPin, 0, Slots)
      BY <1>3, Zenon
    <2>2. rawCount' = (0 + n) % CountMod
      BY <1>2, <1>3, <2>1, Zenon
    <2>3. 0 + n = n
      OBVIOUS
    <2>4. n = Moves(Fill(f, dirPin), FALSE, dirPin', 0, Slots)
      BY <1>2, <1>5, <2>1, Zenon
    <2> QED
      BY <2>2, <2>3, <2>4, Zenon
  <1>8. Tracked'
    BY <1>1, <1>4, <1>5, <1>6, <1>7, FirstFill
  <1> QED
    BY <1>3, <1>8

LEMMA StartDisabledCounts ==
  ASSUME CountInv, OneSession, StartDisabled
  PROVE  Tracked' /\ dirChange' = FALSE /\ Unfinished'
  <1>1. TypeOK /\ Fresh
    <2>1. sessions = 0 /\ ~playing
      BY OutputAssumption DEF StartDisabled, RunAndStart, OneSession, CountInv, TypeOK
    <2> QED
      BY <2>1 DEF CountInv
  <1>2. /\ dirChange' = FALSE /\ isStepping' = FALSE /\ rawCount' = 0
        /\ stepPin' = FALSE /\ dirPin' = FALSE /\ at' = 0 /\ position' = position
        /\ RunAndStart({})
    BY <1>1 DEF StartDisabled, Disable, Fresh, CountInv
  <1>3. After(FALSE, At({}, "step", 0, Slots)) = isStepping'
    BY <1>2, EmptyAt, AfterOne
  <1>4. rawCount' = Moves({}, FALSE, dirPin', 0, Slots) % CountMod
    <2>1. Moves({}, FALSE, dirPin', 0, Slots) = 0
      BY EmptyAt, NothingPlayed
    <2>2. 0 % CountMod = 0
      BY Sizes, ModSmall
    <2> QED
      BY <1>2, <2>1, <2>2
  <1>5. {} \in SUBSET Toggle /\ EarlyTurns({})
    BY EmptyAt DEF EarlyTurns
  <1>6. Tracked'
    BY <1>1, <1>2, <1>3, <1>4, <1>5, FirstFill
  <1> QED
    BY <1>2, <1>6 DEF Unfinished

(* Playing on changes neither the levels at the end of the buffer nor the  *)
(* position that the drive will reach.                                     *)
LEMMA PlayOn ==
  ASSUME TypeOK, NEW b \in 0..Slots, at <= b, PlayTo(b),
         tcd' = tcd, buf'[tcd] = buf[tcd], at' = b
  PROVE  /\ StepAtSwap' = StepAtSwap /\ DirAtSwap' = DirAtSwap
         /\ \E m \in Int, n \in Int :
              /\ position' = (position + m) % CountMod
              /\ n = Moves(buf'[tcd'], stepPin', dirPin', at', Slots)
              /\ Moves(buf[tcd], stepPin, dirPin, at, Slots) = m + n
  <1> DEFINE T == buf[tcd]
  <1>1. /\ T \in SUBSET Toggle /\ stepPin \in BOOLEAN /\ dirPin \in BOOLEAN
        /\ at \in Int /\ b \in Int /\ Slots \in Int /\ at <= b /\ b <= Slots
    BY Loaded, Sizes
  <1>2. /\ stepPin' = After(stepPin, At(T, "step", at, b))
        /\ dirPin' = After(dirPin, At(T, "dir", at, b))
        /\ position' = (position + Moves(T, stepPin, dirPin, at, b)) % CountMod
    BY DEF PlayTo
  <1>3. buf'[tcd'] = T
    OBVIOUS
  <1> HIDE DEF T
  <1>4. StepAtSwap' = StepAtSwap
    <2>1. After(stepPin, At(T, "step", at, Slots))
            = After(After(stepPin, At(T, "step", at, b)), At(T, "step", b, Slots))
      BY <1>1, LevelSplit
    <2>2. StepAtSwap' = After(stepPin', At(T, "step", b, Slots))
      BY <1>3 DEF StepAtSwap
    <2>3. StepAtSwap = After(stepPin, At(T, "step", at, Slots))
      BY DEF StepAtSwap, T
    <2> QED
      BY <1>2, <2>1, <2>2, <2>3
  <1>5. DirAtSwap' = DirAtSwap
    <2>1. After(dirPin, At(T, "dir", at, Slots))
            = After(After(dirPin, At(T, "dir", at, b)), At(T, "dir", b, Slots))
      BY <1>1, LevelSplit
    <2>2. DirAtSwap' = After(dirPin', At(T, "dir", b, Slots))
      BY <1>3 DEF DirAtSwap
    <2>3. DirAtSwap = After(dirPin, At(T, "dir", at, Slots))
      BY DEF DirAtSwap, T
    <2> QED
      BY <1>2, <2>1, <2>2, <2>3
  <1>6. \E m \in Int, n \in Int :
              /\ position' = (position + m) % CountMod
              /\ n = Moves(buf'[tcd'], stepPin', dirPin', at', Slots)
              /\ Moves(buf[tcd], stepPin, dirPin, at, Slots) = m + n
    <2>1. stepPin' \in BOOLEAN /\ dirPin' \in BOOLEAN
      BY <1>2, AfterType
    <2>2. PICK m \in Int : m = Moves(T, stepPin, dirPin, at, b)
      BY <1>1, MovesType
    <2>3. PICK n \in Int : n = Moves(T, stepPin', dirPin', b, Slots)
      BY <1>1, <2>1, MovesType
    <2>4. Moves(T, stepPin, dirPin, at, Slots) = m + n
      BY <1>1, <1>2, <2>2, <2>3, MovesSplit
    <2>5. n = Moves(buf'[tcd'], stepPin', dirPin', at', Slots)
      BY <1>3, <2>3
    <2>6. Moves(buf[tcd], stepPin, dirPin, at, Slots) = m + n
      BY <2>4 DEF T
    <2>7. position' = (position + m) % CountMod
      BY <1>2, <2>2
    <2> QED
      BY <2>5, <2>6, <2>7
  <1> QED
    BY <1>4, <1>5, <1>6

(* All turns of a buffer have been played when the other one is filled, so *)
(* the pin reads as it will when the buffer ends.                          *)
LEMMA PinRead ==
  ASSUME TypeOK, Roomy, EarlyTurns(buf[tcd]), at = 0, NEW b \in FillSlots
  PROVE  DirPinAt(b) = DirAtSwap /\ DirPinAt(b) \in BOOLEAN
  <1>1. /\ buf[tcd] \in SUBSET Toggle /\ 0 \in Int /\ b \in Int /\ Slots \in Int
        /\ Length + Hold <= b /\ b <= Slots /\ 0 <= b /\ Length + Hold \in Int
    BY Loaded, Sizes, SlotTypes DEF Roomy
  <1>2. \A s : s \in At(buf[tcd], "dir", 0, Slots) <=> s \in At(buf[tcd], "dir", 0, b)
    <2>1. At(buf[tcd], "dir", 0, b) = {s \in At(buf[tcd], "dir", 0, Slots) : s < b}
      <3> DEFINE T == buf[tcd]
      <3>1. T \in SUBSET Toggle
        BY <1>1
      <3> HIDE DEF T
      <3>2. At(T, "dir", 0, b) = {s \in At(T, "dir", 0, Slots) : s < b}
        BY <1>1, <3>1, AtSplit
      <3> QED
        BY <3>2 DEF T
    <2>2. At(buf[tcd], "dir", 0, Slots) \subseteq 0..Slots - 1
      BY <1>1, AtIs
    <2>3. \A s \in At(buf[tcd], "dir", 0, Slots) : s < b
      BY <1>1, <2>2 DEF EarlyTurns
    <2> QED
      BY <2>1, <2>3, Zenon
  <1>3. At(buf[tcd], "dir", 0, Slots) = At(buf[tcd], "dir", 0, b)
    BY <1>2
  <1> QED
    BY <1>3, AfterType DEF DirPinAt, DirAtSwap

(* A fill is added behind what is queued.                                  *)
LEMMA ServeCounts ==
  ASSUME CountInv, OneSession, NEW f \in Frequencies, NEW b \in FillSlots,
         Serve(f, b)
  PROVE  Tracked' /\ dirChange' = FALSE /\ Unfinished'
  <1> DEFINE X == Fill(f, DirPinAt(b))
  <1>1. /\ TypeOK /\ JointTypeOK /\ Roomy /\ Fits /\ Unfinished
        /\ dirChange = FALSE /\ Tracked /\ done /\ at = 0
    <2>1. playing /\ done
      BY DEF Serve
    <2> QED
      BY <2>1 DEF CountInv, OneSession, Roomy, TypeOK, Tracked
  <1>2. Coming = {}
    BY <1>1 DEF Coming
  <1>3. /\ tcd' = tcd /\ at' = b /\ PlayTo(b) /\ done' = FALSE
        /\ b \in 0..Slots /\ at <= b
    BY <1>1, SlotTypes, Sizes DEF Serve
  <1>4. buf'[tcd] = buf[tcd] /\ Coming' = X
    BY <1>1, <1>3 DEF Serve, Coming, TypeOK, DmaTypeOK, Buffers, Other
  <1>5. /\ StepAtSwap' = StepAtSwap /\ DirAtSwap' = DirAtSwap
        /\ \E m \in Int, n \in Int :
              /\ position' = (position + m) % CountMod
              /\ n = Moves(buf'[tcd'], stepPin', dirPin', at', Slots)
              /\ Moves(buf[tcd], stepPin, dirPin, at, Slots) = m + n
    BY <1>1, <1>3, <1>4, PlayOn
  <1>6. DirPinAt(b) = DirAtSwap /\ DirPinAt(b) \in BOOLEAN
    BY <1>1, PinRead DEF Tracked
  <1>7. StepAtSwap = isStepping /\ StepAtSwap \in BOOLEAN
    <2>1. StepAtSwap \in BOOLEAN
      BY <1>1, QueuedTypes
    <2> QED
      BY <1>1, <1>2, <2>1, EmptyAt, AfterOne DEF QueuedStep, Tracked
  <1>8. /\ dirChange' = FALSE /\ Unfinished'
        /\ After(isStepping, At(X, "step", 0, Slots)) = isStepping'
        /\ rawCount' = (rawCount + Moves(X, isStepping, DirPinAt(b), 0, Slots))
                          % CountMod
        /\ Moves(X, isStepping, DirPinAt(b), 0, Slots) \in Int
    <2>1. Enabled(f, DirPinAt(b))
      BY DEF Serve
    <2> HIDE DEF X
    <2> QED
      BY <1>1, <1>6, <2>1, FillResult DEF X
  <1>9. X \in SUBSET Toggle /\ EarlyTurns(X)
    BY <1>1, FillType, EarlyFill
  <1> HIDE DEF X
  <1>10. QueuedStep' = isStepping'
    BY <1>4, <1>5, <1>7, <1>8 DEF QueuedStep
  <1>11. rawCount' = QueuedPosition'
    <2>1. PICK m \in Int, n \in Int :
              /\ position' = (position + m) % CountMod
              /\ n = Moves(buf'[tcd'], stepPin', dirPin', at', Slots)
              /\ Moves(buf[tcd], stepPin, dirPin, at, Slots) = m + n
      BY <1>5
    <2>2. PICK k \in Int : k = Moves(X, isStepping, DirPinAt(b), 0, Slots)
      BY <1>8
    <2>3. Moves(Coming', StepAtSwap', DirAtSwap', 0, Slots) = k
      BY <1>4, <1>5, <1>6, <1>7, <2>2
    <2>4. QueuedPosition' = (position' + n + k) % CountMod
      BY <2>1, <2>3 DEF QueuedPosition
    <2>5. Moves(Coming, StepAtSwap, DirAtSwap, 0, Slots) = 0
      BY <1>2, <1>7, EmptyAt, NothingPlayed
    <2>6. rawCount = (position + (m + n) + 0) % CountMod
      BY <1>1, <2>1, <2>5 DEF Tracked, QueuedPosition
    <2>7. rawCount' = (rawCount + k) % CountMod
      BY <1>8, <2>2
    <2>8. PICK p \in Int : p = position
      BY <1>1, QueuedTypes
    <2>9. (((p + (m + n) + 0) % CountMod) + k) % CountMod
             = (p + (m + n) + 0 + k) % CountMod
      BY ModAdd
    <2>10. (((p + m) % CountMod) + (n + k)) % CountMod = (p + m + (n + k)) % CountMod
      BY ModAdd
    <2>11. /\ p + (m + n) + 0 + k = p + m + (n + k)
           /\ \A q \in Int : q + n + k = q + (n + k)
      OBVIOUS
    <2>12. position' \in Int
      BY <2>1, <2>8, ModIs, Sizes
    <2>13. position' + n + k = position' + (n + k)
      BY <2>11, <2>12
    <2> QED
      BY <2>1, <2>4, <2>6, <2>7, <2>8, <2>9, <2>10, <2>11, <2>13, Zenon
  <1>12. EarlyTurns(buf'[tcd']) /\ EarlyTurns(Coming')
    BY <1>1, <1>3, <1>4, <1>9 DEF Tracked
  <1> QED
    BY <1>3, <1>8, <1>10, <1>11, <1>12 DEF Tracked

(* A joint is only disabled when the pins are at rest.                     *)
LEMMA DisableCounts ==
  ASSUME CountInv, OneSession, NEW b \in FillSlots, ServeDisabled(b)
  PROVE  Tracked' /\ dirChange' = FALSE /\ Unfinished'
  <1>1. /\ TypeOK /\ Tracked /\ done /\ at = 0 /\ dirChange = FALSE
    <2>1. playing /\ done
      BY DEF ServeDisabled
    <2> QED
      BY <2>1 DEF CountInv, Tracked
  <1>2. /\ At(buf[tcd], "step", 0, Slots) = {} /\ At(buf[tcd], "dir", 0, Slots) = {}
    BY <1>1, OutputAssumption DEF ServeDisabled, OneSession
  <1>3. /\ tcd' = tcd /\ at' = b /\ stepPin' = FALSE /\ dirPin' = FALSE
        /\ isStepping' = FALSE /\ dirChange' = FALSE /\ rawCount' = rawCount
        /\ done' = FALSE /\ b \in 0..Slots
        /\ position' = (position + Moves(buf[tcd], stepPin, dirPin, at, b)) % CountMod
    BY <1>1, SlotTypes DEF ServeDisabled, Lower, Disable
  <1>4. buf'[tcd] = buf[tcd] /\ Coming' = {} /\ Coming = {}
    BY <1>1, <1>3 DEF ServeDisabled, Coming, TypeOK, DmaTypeOK, Buffers, Other
  <1>5. At(buf[tcd], "step", 0, b) = {} /\ At(buf[tcd], "step", b, Slots) = {}
    <2>1. /\ buf[tcd] \in SUBSET Toggle /\ 0 \in Int /\ b \in Int /\ Slots \in Int
          /\ 0 <= b /\ b <= Slots
      BY <1>1, <1>3, Loaded, Sizes
    <2>2. At(buf[tcd], "step", 0, Slots)
            = At(buf[tcd], "step", 0, b) \cup At(buf[tcd], "step", b, Slots)
      <3> DEFINE T == buf[tcd]
      <3>1. T \in SUBSET Toggle
        BY <2>1
      <3> HIDE DEF T
      <3>2. At(T, "step", 0, Slots) = At(T, "step", 0, b) \cup At(T, "step", b, Slots)
        BY <2>1, <3>1, AtSplit
      <3> QED
        BY <3>2 DEF T
    <2> QED
      BY <1>2, <2>2
  <1>6. StepAtSwap' = FALSE
    BY <1>3, <1>4, <1>5, AfterOne DEF StepAtSwap
  <1>7. QueuedStep' = isStepping'
    BY <1>3, <1>4, <1>6, EmptyAt, AfterOne DEF QueuedStep
  <1>8. rawCount' = QueuedPosition'
    <2>1. /\ Moves(buf[tcd], stepPin, dirPin, at, b) = 0
          /\ Moves(buf[tcd], stepPin, dirPin, at, Slots) = 0
      BY <1>1, <1>2, <1>5, Loaded, NothingPlayed
    <2>2. Moves(Coming, StepAtSwap, DirAtSwap, 0, Slots) = 0
      BY <1>1, <1>4, QueuedTypes, EmptyAt, NothingPlayed
    <2>3. rawCount = (position + 0 + 0) % CountMod
      BY <1>1, <2>1, <2>2 DEF Tracked, QueuedPosition
    <2>4. Moves(buf'[tcd'], stepPin', dirPin', at', Slots) = 0
      <3>1. /\ stepPin' \in BOOLEAN
            /\ At(buf'[tcd'], "step", at', Slots) = {}
        BY <1>3, <1>4, <1>5
      <3> QED
        BY <3>1, NothingPlayed
    <2>5. Moves(Coming', StepAtSwap', DirAtSwap', 0, Slots) = 0
      BY <1>4, <1>6, EmptyAt, NothingPlayed
    <2>6. QueuedPosition' = (position' + 0 + 0) % CountMod
      BY <2>4, <2>5 DEF QueuedPosition
    <2>7. PICK p \in Int : p = position
      BY <1>1, QueuedTypes
    <2>8. p + 0 + 0 = p /\ p + 0 = p
      OBVIOUS
    <2>9. position' = p % CountMod /\ rawCount = p % CountMod
      BY <1>3, <2>1, <2>3, <2>7, <2>8
    <2>10. ((p % CountMod) + 0) % CountMod = p % CountMod
      BY <2>7, ModIs, ModSmall
    <2>11. \A q \in Int : q + 0 + 0 = q + 0
      OBVIOUS
    <2>12. p % CountMod \in Int
      BY <2>7, ModIs, Sizes
    <2> QED
      BY <1>3, <2>6, <2>9, <2>10, <2>11, <2>12, Zenon
  <1>9. EarlyTurns(buf'[tcd']) /\ EarlyTurns(Coming')
    BY <1>1, <1>3, <1>4, EmptyAt DEF Tracked, EarlyTurns
  <1> QED
    BY <1>3, <1>7, <1>8, <1>9 DEF Tracked, Unfinished

(* The buffers change places: what was behind is now to be played.         *)
LEMMA EndCounts ==
  ASSUME CountInv, OneSession, EndBuffer
  PROVE  Tracked'
  <1>1. TypeOK /\ Tracked /\ done = FALSE
    <2>1. playing /\ (Prompt => ~done)
      BY DEF EndBuffer, MajorComplete
    <2> QED
      BY <2>1 DEF CountInv, OneSession, TypeOK, DmaTypeOK
  <1> DEFINE C == Coming
  <1>2. /\ tcd' = Other(tcd) /\ buf' = buf /\ done' = TRUE /\ at' = 0
        /\ isStepping' = isStepping /\ rawCount' = rawCount /\ PlayTo(Slots)
    BY DEF EndBuffer, MajorComplete, jointVars
  <1>3. C = buf'[tcd'] /\ Coming' = {}
    BY <1>1, <1>2 DEF Coming
  <1>4. stepPin' = StepAtSwap /\ dirPin' = DirAtSwap
    BY <1>2 DEF PlayTo, StepAtSwap, DirAtSwap
  <1>5. StepAtSwap' = QueuedStep
    BY <1>2, <1>3, <1>4 DEF StepAtSwap, QueuedStep
  <1>t. StepAtSwap' \in BOOLEAN
    BY AfterType DEF StepAtSwap
  <1>6. QueuedStep' = isStepping'
    <2>1. QueuedStep' = StepAtSwap'
      BY <1>3, <1>t, EmptyAt, AfterOne DEF QueuedStep
    <2> QED
      BY <1>1, <1>2, <1>5, <2>1 DEF Tracked
  <1>7. rawCount' = QueuedPosition'
    <2>1. PICK m \in Int : m = Moves(buf[tcd], stepPin, dirPin, at, Slots)
      BY <1>1, QueuedTypes
    <2>2. PICK n \in Int : n = Moves(Coming, StepAtSwap, DirAtSwap, 0, Slots)
      BY <1>1, QueuedTypes
    <2>3. PICK p \in Int : p = position
      BY <1>1, QueuedTypes
    <2>4. rawCount = (p + m + n) % CountMod
      BY <1>1, <2>1, <2>2, <2>3 DEF Tracked, QueuedPosition
    <2>5. position' = (p + m) % CountMod
      BY <1>2, <2>1, <2>3 DEF PlayTo
    <2>6. Moves(buf'[tcd'], stepPin', dirPin', at', Slots) = n
      BY <1>2, <1>3, <1>4, <2>2
    <2>7. Moves(Coming', StepAtSwap', DirAtSwap', 0, Slots) = 0
      BY <1>3, <1>t, EmptyAt, NothingPlayed
    <2>8. QueuedPosition' = (position' + n + 0) % CountMod
      BY <2>6, <2>7 DEF QueuedPosition
    <2>9. (((p + m) % CountMod) + n) % CountMod = (p + m + n) % CountMod
      BY ModAdd
    <2>10. position' \in Int
      BY <2>5, ModIs, Sizes
    <2>11. position' + n + 0 = position' + n
      BY <2>10
    <2> QED
      BY <1>2, <2>4, <2>5, <2>8, <2>9, <2>11, Zenon
  <1>8. EarlyTurns(buf'[tcd']) /\ EarlyTurns(Coming')
    BY <1>1, <1>3, EmptyAt DEF Tracked, EarlyTurns
  <1> QED
    BY <1>2, <1>6, <1>7, <1>8 DEF Tracked

(* The invariant holds at first, is kept by every step, and so always      *)
(* holds.                                                                  *)
LEMMA CountInit == Init /\ OneSession => CountInv
  <1> SUFFICES ASSUME Init, OneSession PROVE CountInv
    OBVIOUS
  <1>1. TypeOK
    BY InitTypes
  <1>2. dirChange = FALSE /\ isStepping = FALSE
    BY DEF Init, JointInit, OneSession
  <1>3. playing = FALSE
    BY DEF Init, DmaInit
  <1>4. Fresh
    BY <1>2 DEF Init, DmaInit, JointInit, Fresh, Kinds
  <1> QED
    BY <1>1, <1>2, <1>3, <1>4 DEF CountInv, Unfinished

LEMMA CountStep == CountInv /\ OneSession /\ TypeOK' /\ [Next]_vars => CountInv'
  <1> SUFFICES ASSUME CountInv, OneSession, TypeOK', [Next]_vars PROVE CountInv'
    OBVIOUS
  <1>t. sessions \in Nat
    BY OutputAssumption DEF CountInv, TypeOK
  <1>1. ASSUME NEW f \in Frequencies, StartRunning(f) PROVE CountInv'
    <2>1. playing' /\ sessions' # 0
      BY <1>1, <1>t DEF StartRunning, RunAndStart
    <2> QED
      BY <1>1, <2>1, StartCounts DEF CountInv
  <1>2. ASSUME NEW f \in Frequencies, NEW b \in FillSlots, Serve(f, b)
        PROVE  CountInv'
    <2>1. playing' /\ sessions' # 0
      BY <1>2 DEF Serve, CountInv
    <2> QED
      BY <1>2, <2>1, ServeCounts DEF CountInv
  <1>3. ASSUME NEW b \in FillSlots, ServeDisabled(b) PROVE CountInv'
    <2>1. playing' /\ sessions' # 0
      BY <1>3 DEF ServeDisabled, CountInv
    <2> QED
      BY <1>3, <2>1, DisableCounts DEF CountInv
  <1>4. ASSUME StartDisabled PROVE CountInv'
    <2>1. playing' /\ sessions' # 0
      BY <1>4, <1>t DEF StartDisabled, RunAndStart
    <2> QED
      BY <1>4, <2>1, StartDisabledCounts DEF CountInv
  <1>u. ASSUME UNCHANGED jointVars PROVE dirChange' = FALSE /\ Unfinished'
    BY <1>u DEF CountInv, jointVars, Unfinished
  <1>5. ASSUME EndBuffer PROVE CountInv'
    <2>1. playing' /\ sessions' # 0 /\ dirChange' = FALSE /\ Unfinished'
      BY <1>5, <1>u DEF EndBuffer, MajorComplete, CountInv
    <2> QED
      BY <1>5, <2>1, EndCounts DEF CountInv
  <1>6. ASSUME NEW b \in FillSlots, Abort(b) PROVE CountInv'
    <2>1. ~playing' /\ sessions' # 0 /\ dirChange' = FALSE /\ Unfinished'
      BY <1>6, <1>u DEF Abort, StopThread, CountInv
    <2> QED
      BY <2>1 DEF CountInv
  <1>7. ASSUME UNCHANGED vars PROVE CountInv'
    <2>1. /\ dirChange' = FALSE /\ Unfinished' /\ playing' = playing
          /\ sessions' = sessions
      BY <1>7, <1>u DEF vars, dmaVars, driveVars
    <2>2. Fresh => Fresh'
      BY <1>7 DEF vars, dmaVars, driveVars, jointVars, Fresh
    <2>3. Tracked => Tracked'
      BY <1>7 DEF vars, dmaVars, driveVars, jointVars, Tracked, QueuedStep,
                  QueuedPosition, StepAtSwap, DirAtSwap, Coming
    <2> QED
      BY <2>1, <2>2, <2>3 DEF CountInv
  <1> QED
    BY <1>1, <1>2, <1>3, <1>4, <1>5, <1>6, <1>7 DEF Next, Idle

LEMMA CountAlways == ASSUME OneSession PROVE Spec => []CountInv
  <1>1. Fits
    BY DEF OneSession, Roomy
  <1>2. Spec => []TypeOK
    BY <1>1, TypeCorrect
  <1>3. Init => CountInv
    BY CountInit
  <1>4. CountInv /\ TypeOK' /\ [Next]_vars => CountInv'
    BY CountStep
  <1> QED
    BY <1>2, <1>3, <1>4, PTL DEF Spec

(* The step pin ends up high exactly when isStepping says that the next    *)
(* period has to lower it, so the toggles of DR_TOGGLE never invert it for *)
(* good (DMAstepgen.cpp:260).                                              *)
THEOREM StepPinKnownCorrect == ASSUME OneSession PROVE Spec => []StepPinKnown
  <1>1. CountInv => StepPinKnown
    BY QueuedIs DEF CountInv, Tracked, StepPinKnown
  <1> QED
    BY <1>1, CountAlways, PTL

(* The count that is reported is the position that the drive reaches: no   *)
(* step is lost between two buffers, doubled or made in the wrong          *)
(* direction (DMAstepgen.h:54).                                            *)
THEOREM CountIsPositionCorrect == ASSUME OneSession PROVE Spec => []CountIsPosition
  <1>1. CountInv => CountIsPosition
    BY QueuedIs DEF CountInv, Tracked, CountIsPosition
  <1> QED
    BY <1>1, CountAlways, PTL

-----------------------------------------------------------------------------
(***************************************************************************)
(* The times of the drive, for any two sets of edges.                      *)
(***************************************************************************)

(* What lies before the end e of all that is queued, and keeps a step of   *)
(* the next fill away from it.                                             *)
Before(R, F, D, e, p, high, low) ==
    /\ \A r \in R : r < e /\ (high => r + Length <= e + low)
    /\ \A l \in F : l < e /\ Past(l - e, p)
    /\ \A d \in D : d + SetupTime <= e

(* The times of the drive: rises R, falls F and turns D, of which Ra, Fa   *)
(* and Da are still to come.                                               *)
Apart(R, F, D, Ra, Fa) ==
    /\ \A l \in Fa, r \in R : l >= r => l - r >= Length
    /\ \A r \in Ra, l \in F : r >= l => r - l >= Space - 1
    /\ \A r \in Ra, d \in D : r >= d => r - d >= SetupTime
Held(F, Da) == \A d \in Da, l \in F : d >= l => d - l >= Hold

(* What is past stays past for anything earlier.                           *)
LEMMA PastLater ==
  ASSUME NEW l \in Int, NEW m \in Int, m <= l, NEW p \in Nat, Past(l, p)
  PROVE  Past(m, p)
  <1>1. CASE (l - Length) * Half + p <= 0
    <2>1. /\ (m - Length) * Half <= (l - Length) * Half
          /\ (m - Length) * Half \in Int /\ (l - Length) * Half \in Int
      <3>1. m - Length \in Int /\ l - Length \in Int /\ m - Length <= l - Length
        BY Sizes
      <3> QED
        BY <3>1, Sizes, Product
    <2>2. (m - Length) * Half + p <= 0
      BY <1>1, <2>1
    <2> QED
      BY <2>2 DEF Past
  <1>2. CASE l <= -(Length + Space)
    <2>1. m <= -(Length + Space)
      BY <1>2, Sizes
    <2> QED
      BY <2>1 DEF Past
  <1> QED
    BY <1>1, <1>2 DEF Past

(* One period passes without a step.                                       *)
LEMMA PastPeriod ==
  ASSUME NEW l \in Int, NEW p \in Nat, NEW c \in Nat, c <= p, Past(l, p)
  PROVE  Past(l - Slots, c + Counts)
  <1>1. CASE (l - Length) * Half + p <= 0
    <2>1. /\ (l - Slots - Length) * Half = (l - Length) * Half - Counts
          /\ (l - Length) * Half \in Int /\ Counts \in Nat
      <3>1. l - Slots - Length = (l - Length) - Slots /\ l - Length \in Int
        BY Sizes
      <3> QED
        BY <3>1, Sizes, Product, CountsIs
    <2>2. (l - Slots - Length) * Half + (c + Counts) <= 0
      BY <1>1, <2>1
    <2> QED
      BY <2>2 DEF Past
  <1>2. CASE l <= -(Length + Space)
    <2>1. l - Slots <= -(Length + Space)
      BY <1>2, Sizes
    <2> QED
      BY <2>1 DEF Past
  <1> QED
    BY <1>1, <1>2 DEF Past

(* What falls no later than the last step of a period and its length.      *)
LEMMA PastStep ==
  ASSUME NEW h \in Int, NEW t \in 0..Counts, h * Half <= t,
         NEW l \in Int, l <= h + Length - Slots
  PROVE  Past(l, Counts - t)
  <1>1. l - Length \in Int /\ l - Length <= h - Slots /\ h - Slots \in Int
    BY Sizes
  <1>2. /\ (l - Length) * Half <= (h - Slots) * Half
        /\ (h - Slots) * Half = h * Half - Counts
        /\ (l - Length) * Half \in Int /\ h * Half \in Int
    BY <1>1, Sizes, Product, CountsIs
  <1>3. (l - Length) * Half + (Counts - t) <= 0
    BY <1>2, CountsIs
  <1> QED
    BY <1>3 DEF Past

(* What lies before a slot lies before a later one.                        *)
LEMMA BeforeLater ==
  ASSUME NEW R \in SUBSET Int, NEW F \in SUBSET Int, NEW D \in SUBSET Int,
         NEW e \in Int, NEW n \in Int, e <= n, NEW p \in Nat, NEW high, NEW low \in Int,
         Before(R, F, D, e, p, high, low)
  PROVE  Before(R, F, D, n, p, high, low)
  <1>1. \A r \in R : r < n /\ (high => r + Length <= n + low)
    <2>1. ASSUME NEW r \in R PROVE r < n /\ (high => r + Length <= n + low)
      <3>1. r < e /\ (high => r + Length <= e + low)
        BY DEF Before
      <3>2. r < n
        BY <3>1
      <3>3. r + Length <= e + low => r + Length <= n + low
        BY Sizes
      <3> QED
        BY <3>1, <3>2, <3>3
    <2> QED
      BY <2>1
  <1>2. ASSUME NEW l \in F PROVE l < n /\ Past(l - n, p)
    <2>1. l < e /\ Past(l - e, p)
      BY DEF Before
    <2>2. l < n /\ l - n \in Int /\ l - e \in Int /\ l - n <= l - e
      BY <2>1
    <2> QED
      BY <2>1, <2>2, PastLater
  <1>3. \A d \in D : d + SetupTime <= n
    BY Sizes DEF Before
  <1> QED
    BY <1>1, <1>2, <1>3, Zenon DEF Before

(* The same, one period later: slots count from the new buffer on, and     *)
(* LongAgo is as far as the drive remembers.                               *)
Moved(R, F, D, Ra, Fa, Da, R1, F1, D1, Ra1, Fa1, Da1) ==
    /\ R \in SUBSET Int /\ F \in SUBSET Int /\ D \in SUBSET Int
    /\ Ra \in SUBSET Int /\ Fa \in SUBSET Int /\ Da \in SUBSET Int
    /\ R1 \in SUBSET Int /\ F1 \in SUBSET Int /\ D1 \in SUBSET Int
    /\ Ra1 \in SUBSET Nat /\ Fa1 \in SUBSET Nat /\ Da1 \in SUBSET Nat
    /\ \A x \in R1 : x = LongAgo \/ x + Slots \in R
    /\ \A x \in F1 : x = LongAgo \/ x + Slots \in F
    /\ \A x \in D1 : x = LongAgo \/ x + Slots \in D
    /\ \A x \in Ra1 : x + Slots \in Ra
    /\ \A x \in Fa1 : x + Slots \in Fa
    /\ \A x \in Da1 : x + Slots \in Da

(* The times do not change by that.                                        *)
LEMMA Shifted ==
  ASSUME NEW R, NEW F, NEW D, NEW Ra, NEW Fa, NEW Da,
         NEW R1, NEW F1, NEW D1, NEW Ra1, NEW Fa1, NEW Da1,
         Moved(R, F, D, Ra, Fa, Da, R1, F1, D1, Ra1, Fa1, Da1)
  PROVE  /\ Apart(R, F, D, Ra, Fa) => Apart(R1, F1, D1, Ra1, Fa1)
         /\ Held(F, Da) => Held(F1, Da1)
         /\ \A p \in Nat, high \in BOOLEAN, low \in Nat :
              Before(R, F, D, 2 * Slots, p, high, low)
                => Before(R1, F1, D1, Slots, p, high, low)
  <1>s. /\ LongAgo = -(Slots + Length + Space + Hold + SetupTime)
        /\ Slots \in Nat \ {0} /\ Length \in Nat \ {0} /\ Space \in Nat \ {0}
        /\ Hold \in Nat \ {0} /\ SetupTime \in Nat \ {0}
    BY Sizes DEF LongAgo
  <1>m. /\ R \in SUBSET Int /\ F \in SUBSET Int /\ D \in SUBSET Int
        /\ R1 \in SUBSET Int /\ F1 \in SUBSET Int /\ D1 \in SUBSET Int
        /\ Ra1 \in SUBSET Nat /\ Fa1 \in SUBSET Nat /\ Da1 \in SUBSET Nat
        /\ \A x \in R1 : x = LongAgo \/ x + Slots \in R
        /\ \A x \in F1 : x = LongAgo \/ x + Slots \in F
        /\ \A x \in D1 : x = LongAgo \/ x + Slots \in D
        /\ \A x \in Ra1 : x + Slots \in Ra
        /\ \A x \in Fa1 : x + Slots \in Fa
        /\ \A x \in Da1 : x + Slots \in Da
    BY DEF Moved
  <1>1. ASSUME Apart(R, F, D, Ra, Fa) PROVE Apart(R1, F1, D1, Ra1, Fa1)
    <2>1. ASSUME NEW l \in Fa1, NEW r \in R1, l >= r PROVE l - r >= Length
      <3>1. CASE r = LongAgo
        BY <1>s, <1>m, <3>1
      <3>2. CASE r + Slots \in R
        <4>1. l + Slots \in Fa /\ l + Slots >= r + Slots
          BY <1>s, <1>m, <2>1
        <4>2. (l + Slots) - (r + Slots) >= Length
          BY <1>1, <1>m, <3>2, <4>1 DEF Apart
        <4> QED
          BY <1>s, <1>m, <4>2
      <3> QED
        BY <1>m, <3>1, <3>2
    <2>2. ASSUME NEW r \in Ra1, NEW l \in F1, r >= l PROVE r - l >= Space - 1
      <3>1. CASE l = LongAgo
        BY <1>s, <1>m, <3>1
      <3>2. CASE l + Slots \in F
        <4>1. r + Slots \in Ra /\ r + Slots >= l + Slots
          BY <1>s, <1>m, <2>2
        <4>2. (r + Slots) - (l + Slots) >= Space - 1
          BY <1>1, <1>m, <3>2, <4>1 DEF Apart
        <4> QED
          BY <1>s, <1>m, <4>2
      <3> QED
        BY <1>m, <3>1, <3>2
    <2>3. ASSUME NEW r \in Ra1, NEW d \in D1, r >= d PROVE r - d >= SetupTime
      <3>1. CASE d = LongAgo
        BY <1>s, <1>m, <3>1
      <3>2. CASE d + Slots \in D
        <4>1. r + Slots \in Ra /\ r + Slots >= d + Slots
          BY <1>s, <1>m, <2>3
        <4>2. (r + Slots) - (d + Slots) >= SetupTime
          BY <1>1, <1>m, <3>2, <4>1 DEF Apart
        <4> QED
          BY <1>s, <1>m, <4>2
      <3> QED
        BY <1>m, <3>1, <3>2
    <2> QED
      BY <2>1, <2>2, <2>3, Zenon DEF Apart
  <1>2. ASSUME Held(F, Da) PROVE Held(F1, Da1)
    <2>1. ASSUME NEW d \in Da1, NEW l \in F1, d >= l PROVE d - l >= Hold
      <3>1. CASE l = LongAgo
        BY <1>s, <1>m, <3>1
      <3>2. CASE l + Slots \in F
        <4>1. d + Slots \in Da /\ d + Slots >= l + Slots
          BY <1>s, <1>m, <2>1
        <4>2. (d + Slots) - (l + Slots) >= Hold
          BY <1>2, <3>2, <4>1 DEF Held
        <4> QED
          BY <1>s, <1>m, <4>2
      <3> QED
        BY <1>m, <3>1, <3>2
    <2> QED
      BY <2>1, Zenon DEF Held
  <1>3. ASSUME NEW p \in Nat, NEW high \in BOOLEAN, NEW low \in Nat,
               Before(R, F, D, 2 * Slots, p, high, low)
        PROVE  Before(R1, F1, D1, Slots, p, high, low)
    <2>1. ASSUME NEW r \in R1
          PROVE  r < Slots /\ (high => r + Length <= Slots + low)
      <3>1. CASE r = LongAgo
        BY <1>s, <1>m, <3>1
      <3>2. CASE r + Slots \in R
        <4>1. r + Slots < 2 * Slots
              /\ (high => r + Slots + Length <= 2 * Slots + low)
          BY <1>3, <3>2 DEF Before
        <4>2. r + Slots + Length <= 2 * Slots + low => r + Length <= Slots + low
          BY <1>s, <1>m
        <4> QED
          BY <1>s, <1>m, <4>1, <4>2
      <3> QED
        BY <1>m, <3>1, <3>2
    <2>2. ASSUME NEW l \in F1 PROVE l < Slots /\ Past(l - Slots, p)
      <3>1. CASE l = LongAgo
        <4>1. l < Slots /\ l - Slots <= -(Length + Space)
          BY <1>s, <1>m, <3>1
        <4> QED
          BY <4>1 DEF Past
      <3>2. CASE l + Slots \in F
        <4>1. l + Slots < 2 * Slots /\ Past((l + Slots) - 2 * Slots, p)
          BY <1>3, <3>2 DEF Before
        <4>2. (l + Slots) - 2 * Slots = l - Slots
          BY <1>s, <1>m
        <4> QED
          BY <1>s, <1>m, <4>1, <4>2
      <3> QED
        BY <1>m, <3>1, <3>2
    <2>3. ASSUME NEW d \in D1 PROVE d + SetupTime <= Slots
      <3>1. CASE d = LongAgo
        BY <1>s, <1>m, <3>1
      <3>2. CASE d + Slots \in D
        <4>1. d + Slots + SetupTime <= 2 * Slots
          BY <1>3, <3>2 DEF Before
        <4> QED
          BY <1>s, <1>m, <4>1
      <3> QED
        BY <1>m, <3>1, <3>2
    <2> QED
      BY <2>1, <2>2, <2>3, Zenon DEF Before
  <1> QED
    BY <1>1, <1>2, <1>3

-----------------------------------------------------------------------------
(***************************************************************************)
(* The times of a fill.                                                    *)
(***************************************************************************)

(* What is known of the beginning of a step.                               *)
LEMMA HighFacts ==
  ASSUME NEW f \in Frequencies \ {0}, NEW pin, JointTypeOK, Roomy, Unfinished,
         NEW h \in Highs(f, pin)
  PROVE  /\ StepsThisPeriod(f) /\ h \in 0..Slots - 1
         /\ \A l \in Int : Past(l, prevRemainder) => h - l >= Space - 1
         /\ isStepping => h > stepLow
         /\ Turns(f, pin) => h >= DirPos + SetupTime
         /\ \A g \in Highs(f, pin) :
              h < g => g - h >= Length + 1 /\ g - h >= Length + Space - 1
  <1>1. StepsThisPeriod(f)
    BY DEF Highs
  <1>2. h \in 0..Slots - 1
    BY HighsType DEF Roomy
  <1>3. \A l \in Int : Past(l, prevRemainder) => h - l >= Space - 1
    BY <1>1, HighsAfter
  <1>4. isStepping => h > stepLow
    BY <1>1, HighsAfterFinish
  <1>5. Turns(f, pin) => h >= DirPos + SetupTime
    BY <1>1, HighsAfterTurn
  <1>6. \A g \in Highs(f, pin) :
              h < g => g - h >= Length + 1 /\ g - h >= Length + Space - 1
    BY <1>1, HighsGap
  <1> QED
    BY <1>1, <1>2, <1>3, <1>4, <1>5, <1>6

(* N, M and K are the rises, falls and turns of a fill that begins at slot *)
(* e of the time line.                                                     *)
Adds(f, pin, e, N, M, K) ==
    /\ \A x \in N : x - e \in Highs(f, pin)
    /\ \A x \in M :
          /\ x < e + Slots
          /\ \/ isStepping /\ x - e = stepLow
             \/ \E h \in Highs(f, pin) : x - e = h + Length
    /\ \A x \in K : Turns(f, pin) /\ x - e = DirPos

(* The edges of a fill keep the times with those before it: length, space  *)
(* and setup.                                                              *)
LEMMA FillApart ==
  ASSUME NEW f \in Frequencies \ {0}, NEW pin, JointTypeOK, Roomy, Unfinished,
         NEW e \in Int,
         NEW R \in SUBSET Int, NEW F \in SUBSET Int, NEW D \in SUBSET Int,
         NEW Ra \in SUBSET R, NEW Fa \in SUBSET F,
         NEW N \in SUBSET Int, NEW M \in SUBSET Int, NEW K \in SUBSET Int,
         Adds(f, pin, e, N, M, K),
         Before(R, F, D, e, prevRemainder, isStepping, stepLow),
         Apart(R, F, D, Ra, Fa)
  PROVE  Apart(R \cup N, F \cup M, D \cup K, Ra \cup N, Fa \cup M)
  <1>s. /\ Slots \in Nat \ {0} /\ Length \in Nat \ {0} /\ Space \in Nat \ {0}
        /\ SetupTime \in Nat \ {0} /\ stepLow \in Nat /\ DirPos \in Nat
    BY Sizes, DirPosIs DEF JointTypeOK
  <1>1. \A l \in Fa, r \in R : l >= r => l - r >= Length
    BY DEF Apart
  <1>2. \A r \in Ra, l \in F : r >= l => r - l >= Space - 1
    BY DEF Apart
  <1>3. \A r \in Ra, d \in D : r >= d => r - d >= SetupTime
    BY DEF Apart
  <1>4. \A r \in R : r < e /\ (isStepping => r + Length <= e + stepLow)
    BY DEF Before
  <1>5. \A l \in F : l < e /\ Past(l - e, prevRemainder)
    BY DEF Before
  <1>6. \A d \in D : d + SetupTime <= e
    BY DEF Before
  <1>n. ASSUME NEW x \in N
        PROVE  /\ x - e \in 0..Slots - 1 /\ x - e \in Highs(f, pin) /\ x >= e
               /\ \A l \in Int : Past(l, prevRemainder) => (x - e) - l >= Space - 1
               /\ isStepping => x - e > stepLow
               /\ Turns(f, pin) => x - e >= DirPos + SetupTime
               /\ \A g \in Highs(f, pin) :
                    x - e < g => g - (x - e) >= Length + 1
               /\ \A g \in Highs(f, pin) :
                    g < x - e => (x - e) - g >= Length + Space - 1
    <2>1. PICK h \in Highs(f, pin) : h = x - e
      BY DEF Adds
    <2>2. h \in 0..Slots - 1
      BY HighFacts
    <2>3. x >= e
      BY <2>1, <2>2, <1>s
    <2>4. /\ \A l \in Int : Past(l, prevRemainder) => h - l >= Space - 1
          /\ isStepping => h > stepLow
          /\ Turns(f, pin) => h >= DirPos + SetupTime
          /\ \A g \in Highs(f, pin) : h < g => g - h >= Length + 1
      BY HighFacts
    <2>5. \A g \in Highs(f, pin) : g < h => h - g >= Length + Space - 1
      BY HighFacts
    <2> QED
      BY <2>1, <2>2, <2>3, <2>4, <2>5, Zenon
  <1>m. ASSUME NEW x \in M
        PROVE  /\ x >= e
               /\ \/ isStepping /\ x - e = stepLow
                  \/ \E h \in Highs(f, pin) : h \in 0..Slots - 1 /\ x - e = h + Length
    <2>1. \/ isStepping /\ x - e = stepLow
          \/ \E h \in Highs(f, pin) : x - e = h + Length
      BY DEF Adds
    <2>2. \A h \in Highs(f, pin) : h \in 0..Slots - 1
      BY HighFacts
    <2> QED
      BY <2>1, <2>2, <1>s
  <1>7. ASSUME NEW l \in Fa \cup M, NEW r \in R \cup N, l >= r
        PROVE  l - r >= Length
    <2>1. CASE l \in Fa /\ r \in R
      BY <1>1, <1>7, <2>1
    <2>2. CASE l \in Fa /\ r \in N
      <3>1. l < e /\ r >= e
        BY <1>5, <1>n, <2>2
      <3> QED
        BY <1>7, <2>2, <3>1
    <2>3. CASE l \in M /\ r \in R
      <3>1. r \in Int /\ l \in Int /\ r < e /\ (isStepping => r + Length <= e + stepLow)
        BY <1>4, <2>3
      <3>2. CASE isStepping /\ l - e = stepLow
        BY <1>s, <3>1, <3>2
      <3>3. CASE \E h \in Highs(f, pin) : h \in 0..Slots - 1 /\ l - e = h + Length
        BY <1>s, <3>1, <3>3
      <3> QED
        BY <1>m, <2>3, <3>2, <3>3
    <2>4. CASE l \in M /\ r \in N
      <3>0. r \in Int /\ l \in Int
        BY <2>4
      <3>1. CASE isStepping /\ l - e = stepLow
        <4>1. r - e > stepLow
          BY <1>n, <2>4, <3>1
        <4> QED
          BY <1>s, <1>7, <3>0, <3>1, <4>1
      <3>2. ASSUME NEW h \in Highs(f, pin), h \in 0..Slots - 1, l - e = h + Length
            PROVE  l - r >= Length
        <4>1. h < r - e => (r - e) - h >= Length + Space - 1
          BY <1>n, <2>4
        <4>2. r - e \in Highs(f, pin) /\ r - e \in 0..Slots - 1
          BY <1>n, <2>4
        <4>3. h < r - e => (r - e) - h >= Length + 1
          BY <4>2, HighFacts
        <4> QED
          BY <1>s, <1>7, <3>0, <3>2, <4>3
      <3> QED
        BY <1>m, <2>4, <3>1, <3>2
    <2> QED
      BY <2>1, <2>2, <2>3, <2>4
  <1>8. ASSUME NEW r \in Ra \cup N, NEW l \in F \cup M, r >= l
        PROVE  r - l >= Space - 1
    <2>1. CASE r \in Ra /\ l \in F
      BY <1>2, <1>8, <2>1
    <2>2. CASE r \in Ra /\ l \in M
      <3>1. r < e /\ l >= e
        BY <1>4, <1>m, <2>2
      <3> QED
        BY <1>8, <2>2, <3>1
    <2>3. CASE r \in N /\ l \in F
      <3>1. Past(l - e, prevRemainder) /\ l - e \in Int
        BY <1>5, <2>3
      <3>2. (r - e) - (l - e) >= Space - 1
        BY <1>n, <2>3, <3>1
      <3> QED
        BY <1>s, <2>3, <3>2
    <2>4. CASE r \in N /\ l \in M
      <3>0. r \in Int /\ l \in Int
        BY <2>4
      <3>1. CASE isStepping /\ l - e = stepLow
        <4>1. Past(stepLow, prevRemainder)
          BY <3>1 DEF Past, Unfinished
        <4>2. (r - e) - stepLow >= Space - 1
          BY <1>n, <1>s, <2>4, <4>1
        <4> QED
          BY <1>s, <3>0, <3>1, <4>2
      <3>2. ASSUME NEW h \in Highs(f, pin), h \in 0..Slots - 1, l - e = h + Length
            PROVE  r - l >= Space - 1
        <4>1. h < r - e
          BY <1>s, <1>8, <3>0, <3>2
        <4>2. (r - e) - h >= Length + Space - 1
          BY <1>n, <2>4, <4>1
        <4> QED
          BY <1>s, <3>0, <3>2, <4>2
      <3> QED
        BY <1>m, <2>4, <3>1, <3>2
    <2> QED
      BY <2>1, <2>2, <2>3, <2>4
  <1>9. ASSUME NEW r \in Ra \cup N, NEW d \in D \cup K, r >= d
        PROVE  r - d >= SetupTime
    <2>1. CASE r \in Ra /\ d \in D
      BY <1>3, <1>9, <2>1
    <2>2. CASE r \in Ra /\ d \in K
      <3>1. r < e /\ d - e = DirPos
        BY <1>4, <2>2 DEF Adds
      <3> QED
        BY <1>s, <1>9, <2>2, <3>1
    <2>3. CASE r \in N /\ d \in D
      <3>1. d + SetupTime <= e /\ r >= e
        BY <1>6, <1>n, <2>3
      <3> QED
        BY <1>s, <2>3, <3>1
    <2>4. CASE r \in N /\ d \in K
      <3>1. Turns(f, pin) /\ d - e = DirPos
        BY <2>4 DEF Adds
      <3>2. r - e >= DirPos + SetupTime
        BY <1>n, <2>4, <3>1
      <3> QED
        BY <1>s, <2>4, <3>1, <3>2
    <2> QED
      BY <2>1, <2>2, <2>3, <2>4
  <1> QED
    BY <1>7, <1>8, <1>9, Zenon DEF Apart

(* With a hold of one slot, a turn comes after the last step has been      *)
(* lowered.                                                                *)
LEMMA FillHeld ==
  ASSUME NEW f \in Frequencies \ {0}, NEW pin, JointTypeOK, Roomy, Unfinished,
         Hold = 1, NEW e \in Int,
         NEW R \in SUBSET Int, NEW F \in SUBSET Int, NEW D \in SUBSET Int,
         NEW Da \in SUBSET D,
         NEW N \in SUBSET Int, NEW M \in SUBSET Int, NEW K \in SUBSET Int,
         Adds(f, pin, e, N, M, K),
         Before(R, F, D, e, prevRemainder, isStepping, stepLow),
         Held(F, Da)
  PROVE  Held(F \cup M, Da \cup K)
  <1>s. /\ Slots \in Nat \ {0} /\ Length \in Nat \ {0} /\ SetupTime \in Nat \ {0}
        /\ stepLow \in Nat /\ DirPos \in Nat
    BY Sizes, DirPosIs DEF JointTypeOK
  <1>1. ASSUME NEW d \in Da \cup K, NEW l \in F \cup M, d >= l PROVE d - l >= Hold
    <2>0. d \in Int /\ l \in Int
      OBVIOUS
    <2>1. CASE d \in Da /\ l \in F
      BY <1>1, <2>1 DEF Held
    <2>k. ASSUME d \in K PROVE Turns(f, pin) /\ d - e = DirPos
      BY <2>k DEF Adds
    <2>m. ASSUME l \in M
          PROVE  \/ isStepping /\ l - e = stepLow
                 \/ \E h \in Highs(f, pin) : h \in 0..Slots - 1 /\ l - e = h + Length
      <3>1. \A h \in Highs(f, pin) : h \in 0..Slots - 1
        BY HighFacts
      <3> QED
        BY <2>m, <3>1 DEF Adds
    <2>2. CASE d \in Da /\ l \in M
      <3>1. d + SetupTime <= e
        BY <2>2 DEF Before
      <3>2. l >= e
        BY <1>s, <2>0, <2>2, <2>m
      <3> QED
        BY <1>1, <1>s, <2>0, <3>1, <3>2
    <2>3. CASE d \in K /\ l \in F
      <3>1. l < e /\ d - e = DirPos
        BY <2>3, <2>k DEF Before
      <3> QED
        BY <1>s, <2>0, <3>1
    <2>4. CASE d \in K /\ l \in M
      <3>1. Turns(f, pin) /\ d - e = DirPos
        BY <2>4, <2>k
      <3>2. CASE isStepping /\ l - e = stepLow
        <4>1. DirPos = stepLow + Hold
          BY <3>2 DEF DirPos
        <4> QED
          BY <1>s, <2>0, <3>1, <3>2, <4>1
      <3>3. ASSUME NEW h \in Highs(f, pin), h \in 0..Slots - 1, l - e = h + Length
            PROVE  d - l >= Hold
        <4>1. h >= DirPos + SetupTime
          BY <3>1, HighFacts
        <4> QED
          BY <1>1, <1>s, <2>0, <3>1, <3>3, <4>1
      <3> QED
        BY <2>4, <2>m, <3>2, <3>3
    <2> QED
      BY <2>1, <2>2, <2>3, <2>4
  <1> QED
    BY <1>1, Zenon DEF Held

(* And the joint remembers what keeps the next fill away from them.        *)
LEMMA FillBefore ==
  ASSUME NEW f \in Frequencies \ {0}, NEW pin, JointTypeOK, Roomy, Unfinished,
         MakePulses(f, pin), NEW e \in Int,
         NEW R \in SUBSET Int, NEW F \in SUBSET Int, NEW D \in SUBSET Int,
         NEW N \in SUBSET Int, NEW M \in SUBSET Int, NEW K \in SUBSET Int,
         Adds(f, pin, e, N, M, K),
         Before(R, F, D, e, prevRemainder, isStepping, stepLow)
  PROVE  Before(R \cup N, F \cup M, D \cup K, e + Slots,
                prevRemainder', isStepping', stepLow')
  <1>s. /\ Slots \in Nat \ {0} /\ Length \in Nat \ {0} /\ Space \in Nat \ {0}
        /\ SetupTime \in Nat \ {0} /\ stepLow \in Nat /\ stepLow < Length
        /\ DirPos \in Nat /\ DirPos + SetupTime <= Slots /\ Length <= Slots
        /\ prevRemainder \in Nat
    BY Sizes, DirPosIs DEF JointTypeOK, Roomy, Fits
  <1>4. \A r \in R : r < e
    BY DEF Before
  <1>5. \A l \in F : l < e /\ Past(l - e, prevRemainder)
    BY DEF Before
  <1>6. \A d \in D : d + SetupTime <= e
    BY DEF Before
  <1>h. \A h \in Highs(f, pin) : StepsThisPeriod(f) /\ h \in 0..Slots - 1
    BY HighFacts
  <1>m. ASSUME NEW x \in M
        PROVE  /\ x < e + Slots
               /\ \/ isStepping /\ x - e = stepLow
                  \/ \E h \in Highs(f, pin) : x - e = h + Length
    BY DEF Adds
  <1>l. stepLow' \in Nat
    BY MakePulsesTypes, Sizes DEF JointTypeOK, Roomy
  <1>1. ASSUME NEW d \in D \cup K PROVE d + SetupTime <= e + Slots
    <2>1. CASE d \in D
      BY <1>6, <1>s, <2>1
    <2>2. CASE d \in K
      <3>1. d - e = DirPos
        BY <2>2 DEF Adds
      <3> QED
        BY <1>s, <2>2, <3>1
    <2> QED
      BY <2>1, <2>2
  <1>2. CASE StepsThisPeriod(f)
    <2> DEFINE tl == Max(StepTimes(f, pin))
               h == HighSlot(tl, Turns(f, pin))
               low == h + Length
    <2>3. tl \in 0..Counts
      BY <1>2, LastTime DEF Roomy
    <2>4. /\ h \in 0..Slots - 1 /\ h * Half <= tl
          /\ \A g \in Highs(f, pin) : g \in 0..Slots - 1 /\ g <= h
      BY <1>2, LastHigh
    <2>l. low = h + Length
      OBVIOUS
    <2>r. /\ isStepping' = (low >= Slots)
          /\ stepLow' = IF low >= Slots THEN low - Slots ELSE 0
          /\ prevRemainder' = Counts - tl
      BY <1>2, Zenon DEF MakePulses
    <2> HIDE DEF tl, h, low
    <2>5. isStepping' => stepLow' = low - Slots
      <3>1. ASSUME isStepping' PROVE low >= Slots
        BY <2>r, <3>1, Zenon
      <3> QED
        BY <2>r, <3>1, Zenon
    <2>6. ASSUME NEW r \in R \cup N
          PROVE  r < e + Slots /\ (isStepping' => r + Length <= e + Slots + stepLow')
      <3>1. CASE r \in R
        <4>1. r < e + Slots /\ r + Length <= e + Slots + stepLow'
          <5>1. PICK n \in Nat : n = stepLow'
            BY <1>l
          <5>2. r \in Int /\ r < e
            BY <1>4, <3>1
          <5>3. r < e + Slots /\ r + Length <= e + Slots + n
            BY <1>s, <5>2
          <5> QED
            BY <5>1, <5>3
        <4> QED
          BY <4>1
      <3>2. CASE r \in N
        <4>1. r - e \in 0..Slots - 1 /\ r - e <= h
          BY <2>4, <3>2 DEF Adds
        <4>2. r \in Int /\ r < e + Slots /\ r + Length <= e + low
          BY <1>s, <2>4, <2>l, <3>2, <4>1
        <4>3. r + Length <= e + Slots + (low - Slots)
          BY <1>s, <2>4, <2>l, <4>2
        <4> QED
          BY <2>5, <4>2, <4>3, Zenon
      <3> QED
        BY <3>1, <3>2
    <2>7. ASSUME NEW l \in F \cup M
          PROVE  l < e + Slots /\ Past(l - (e + Slots), prevRemainder')
      <3>1. l < e + Slots
        <4>1. CASE l \in F
          BY <1>5, <1>s, <4>1
        <4>2. CASE l \in M
          BY <1>m, <4>2
        <4> QED
          BY <4>1, <4>2
      <3>2. l - (e + Slots) \in Int /\ l - (e + Slots) <= h + Length - Slots
        <4>1. CASE l \in F
          BY <1>5, <1>s, <2>4, <4>1
        <4>2. CASE l \in M
          <5>1. CASE isStepping /\ l - e = stepLow
            BY <1>s, <2>4, <4>2, <5>1
          <5>2. ASSUME NEW g \in Highs(f, pin), l - e = g + Length
                PROVE  l - (e + Slots) \in Int /\ l - (e + Slots) <= h + Length - Slots
            <6>1. g \in 0..Slots - 1 /\ g <= h
              BY <2>4
            <6> QED
              BY <1>s, <2>4, <4>2, <5>2, <6>1
          <5> QED
            BY <1>m, <4>2, <5>1, <5>2
        <4> QED
          BY <4>1, <4>2
      <3>3. Past(l - (e + Slots), Counts - tl)
        <4>1. h \in Int
          BY <2>4, Sizes
        <4> QED
          BY <2>3, <2>4, <3>2, <4>1, PastStep
      <3> QED
        BY <2>r, <3>1, <3>3, Zenon
    <2> QED
      BY <1>1, <2>6, <2>7, Zenon DEF Before
  <1>3. CASE ~StepsThisPeriod(f)
    <2>1. Highs(f, pin) = {}
      BY <1>h, <1>3, Zenon
    <2>2. isStepping' = FALSE /\ prevRemainder' = Carried(f) + Counts
      BY <1>3, MakePulsesResult
    <2>3. Carried(f) \in Nat /\ Carried(f) <= prevRemainder
      BY <1>s, CarriedIs
    <2>4. ASSUME NEW r \in R \cup N PROVE r < e + Slots
      <3>1. N = {}
        BY <2>1 DEF Adds
      <3> QED
        BY <1>4, <1>s, <3>1
    <2>5. ASSUME NEW l \in F \cup M
          PROVE  l < e + Slots /\ Past(l - (e + Slots), Carried(f) + Counts)
      <3>1. PICK m \in Int : m = l - e
        OBVIOUS
      <3>2. l < e + Slots /\ Past(m, prevRemainder)
        <4>1. CASE l \in F
          BY <1>5, <1>s, <3>1, <4>1
        <4>2. CASE l \in M
          <5>1. isStepping /\ m = stepLow /\ l < e + Slots
            BY <1>m, <2>1, <3>1, <4>2
          <5> QED
            BY <5>1 DEF Past, Unfinished
        <4> QED
          BY <4>1, <4>2
      <3>3. Past(m - Slots, Carried(f) + Counts)
        BY <1>s, <2>3, <3>2, PastPeriod
      <3>4. m - Slots = l - (e + Slots)
        BY <1>s, <3>1
      <3> QED
        BY <3>2, <3>3, <3>4
    <2> QED
      BY <1>1, <2>2, <2>4, <2>5, Zenon DEF Before
  <1> QED
    BY <1>2, <1>3

-----------------------------------------------------------------------------
(***************************************************************************)
(* The times of what is queued.                                            *)
(***************************************************************************)

(* The edges that are still to be played, and all that the drive knows of  *)
(* or will see, in slots from the begin of the loaded buffer.              *)
Later(S) == {s + Slots : s \in S}
RisesAhead == Rises(buf[tcd], stepPin, at, Slots)
                \cup Later(Rises(Coming, StepAtSwap, 0, Slots))
FallsAhead == Falls(buf[tcd], stepPin, at, Slots)
                \cup Later(Falls(Coming, StepAtSwap, 0, Slots))
DirsAhead == At(buf[tcd], "dir", at, Slots)
               \cup Later(At(Coming, "dir", 0, Slots))
AllRises == {last["rise"]} \cup RisesAhead
AllFalls == {last["fall"]} \cup FallsAhead
AllDirs == {last["dir"]} \cup DirsAhead

(* The slot in which the next fill begins.                                 *)
QueueEnd == IF done THEN Slots ELSE 2 * Slots

(* The pin is low in every slot from a on in which the direction changes.  *)
LowAtTurns(T, level, a) ==
    \A d \in At(T, "dir", a, Slots) : After(level, At(T, "step", a, d + 1)) = FALSE

(* The invariant of the times while the channel runs: what the drive has   *)
(* seen and will see keeps them, and the next fill will.                   *)
Spaced ==
    /\ \A e \in Kinds : last[e] <= at
    /\ LowAtTurns(buf[tcd], stepPin, at)
    /\ LowAtTurns(Coming, StepAtSwap, 0)
    /\ Before(AllRises, AllFalls, AllDirs, QueueEnd,
              prevRemainder, isStepping, stepLow)
    /\ Apart(AllRises, AllFalls, AllDirs, RisesAhead, FallsAhead)
    /\ Hold = 1 => Held(AllFalls, DirsAhead)

(* Slots of the next buffer, in those of the loaded one.                   *)
LEMMA LaterIs ==
  ASSUME NEW S \in SUBSET (0..Slots - 1)
  PROVE  Later(S) \in SUBSET Nat /\ \A x \in Nat : x + Slots \in Later(S) => x \in S
  BY Sizes DEF Later

(* The types of what the drive remembers and of what is ahead.             *)
LEMMA LastTypes ==
  ASSUME TypeOK
  PROVE  \A e \in Kinds : last[e] \in LongAgo..Slots /\ last[e] \in Int
  BY Sizes DEF TypeOK, Kinds

LEMMA AheadTypes ==
  ASSUME TypeOK
  PROVE  /\ RisesAhead \in SUBSET Nat /\ FallsAhead \in SUBSET Nat
         /\ DirsAhead \in SUBSET Nat
         /\ AllRises \in SUBSET Int /\ AllFalls \in SUBSET Int
         /\ AllDirs \in SUBSET Int
         /\ RisesAhead \in SUBSET AllRises /\ FallsAhead \in SUBSET AllFalls
         /\ DirsAhead \in SUBSET AllDirs
  <1>1. 0 \in Int /\ Slots \in Int /\ StepAtSwap \in BOOLEAN
    BY Sizes, QueuedTypes
  <1>2. /\ Rises(buf[tcd], stepPin, at, Slots) \in SUBSET (0..Slots - 1)
        /\ Falls(buf[tcd], stepPin, at, Slots) \in SUBSET (0..Slots - 1)
        /\ At(buf[tcd], "dir", at, Slots) \in SUBSET (0..Slots - 1)
    BY <1>1, Loaded, EdgesAre, AtIs
  <1>3. /\ Rises(Coming, StepAtSwap, 0, Slots) \in SUBSET (0..Slots - 1)
        /\ Falls(Coming, StepAtSwap, 0, Slots) \in SUBSET (0..Slots - 1)
        /\ At(Coming, "dir", 0, Slots) \in SUBSET (0..Slots - 1)
    BY <1>1, Loaded, EdgesAre, AtIs
  <1>4. 0..Slots - 1 \subseteq Nat
    BY Sizes
  <1>5. RisesAhead \in SUBSET Nat
    BY <1>2, <1>3, <1>4, LaterIs DEF RisesAhead
  <1>6. FallsAhead \in SUBSET Nat
    BY <1>2, <1>3, <1>4, LaterIs DEF FallsAhead
  <1>7. DirsAhead \in SUBSET Nat
    BY <1>2, <1>3, <1>4, LaterIs DEF DirsAhead
  <1>8. last["rise"] \in Int /\ last["fall"] \in Int /\ last["dir"] \in Int
    BY LastTypes DEF Kinds
  <1>9. \A S \in SUBSET Nat, x \in Int :
          {x} \cup S \in SUBSET Int /\ S \in SUBSET ({x} \cup S)
    OBVIOUS
  <1> QED
    <2>1. AllRises \in SUBSET Int /\ RisesAhead \in SUBSET AllRises
      BY <1>5, <1>8, <1>9, Zenon DEF AllRises
    <2>2. AllFalls \in SUBSET Int /\ FallsAhead \in SUBSET AllFalls
      BY <1>6, <1>8, <1>9, Zenon DEF AllFalls
    <2>3. AllDirs \in SUBSET Int /\ DirsAhead \in SUBSET AllDirs
      BY <1>7, <1>8, <1>9, Zenon DEF AllDirs
    <2> QED
      BY <1>5, <1>6, <1>7, <2>1, <2>2, <2>3

(* A stretch up to b and the rest are parts of the whole.                  *)
LEMMA Parts ==
  ASSUME NEW T \in SUBSET Toggle, NEW level \in BOOLEAN,
         NEW a \in Int, NEW b \in Int, NEW c \in Int, a <= b, b <= c
  PROVE  LET there == After(level, At(T, "step", a, b))
         IN  /\ Rises(T, level, a, b) \subseteq Rises(T, level, a, c)
             /\ Falls(T, level, a, b) \subseteq Falls(T, level, a, c)
             /\ At(T, "dir", a, b) \subseteq At(T, "dir", a, c)
             /\ Rises(T, there, b, c) \subseteq Rises(T, level, a, c)
             /\ Falls(T, there, b, c) \subseteq Falls(T, level, a, c)
             /\ At(T, "dir", b, c) \subseteq At(T, "dir", a, c)
  <1> DEFINE there == After(level, At(T, "step", a, b))
  <1>1. /\ Rises(T, level, a, b) \subseteq Rises(T, level, a, c)
        /\ Falls(T, level, a, b) \subseteq Falls(T, level, a, c)
    BY EdgesSplit
  <1>2. /\ Rises(T, there, b, c) \subseteq Rises(T, level, a, c)
        /\ Falls(T, there, b, c) \subseteq Falls(T, level, a, c)
    <2>1. ASSUME NEW s
          PROVE  /\ s \in Rises(T, there, b, c) => s \in Rises(T, level, a, c)
                 /\ s \in Falls(T, there, b, c) => s \in Falls(T, level, a, c)
      BY EdgesSplit
    <2> QED
      BY <2>1
  <1>3. /\ At(T, "dir", a, b) \subseteq At(T, "dir", a, c)
        /\ At(T, "dir", b, c) \subseteq At(T, "dir", a, c)
    BY AtSplit
  <1> QED
    BY <1>1, <1>2, <1>3, Zenon

(* Edges lie in their stretch.                                             *)
LEMMA Bounds ==
  ASSUME NEW T \in SUBSET Toggle, NEW level \in BOOLEAN,
         NEW a \in Int, NEW b \in Int
  PROVE  /\ \A x \in Rises(T, level, a, b) : x \in 0..Slots - 1 /\ a <= x /\ x < b
         /\ \A x \in Falls(T, level, a, b) : x \in 0..Slots - 1 /\ a <= x /\ x < b
         /\ \A x \in At(T, "dir", a, b) : x \in 0..Slots - 1 /\ a <= x /\ x < b
  <1>1. ASSUME NEW pin, NEW x \in At(T, pin, a, b)
        PROVE  x \in 0..Slots - 1 /\ a <= x /\ x < b
    <2>1. x \in 0..Slots - 1
      BY AtIs
    <2>2. a <= x /\ x < b
      BY AtIs, Zenon
    <2> QED
      BY <2>1, <2>2
  <1>2. /\ Rises(T, level, a, b) \subseteq At(T, "step", a, b)
        /\ Falls(T, level, a, b) \subseteq At(T, "step", a, b)
    BY EdgesAre
  <1> QED
    BY <1>1, <1>2

(* What is played next is part of what is still to be played.              *)
LEMMA StretchAhead ==
  ASSUME TypeOK, NEW b \in 0..Slots, at <= b
  PROVE  /\ Stretch(b)["rise"] \subseteq RisesAhead
         /\ Stretch(b)["fall"] \subseteq FallsAhead
         /\ Stretch(b)["dir"] \subseteq DirsAhead
         /\ \A e \in Kinds : \A x \in Stretch(b)[e] :
              x \in Nat /\ at <= x /\ x < b
  <1> DEFINE T == buf[tcd]
  <1>1. /\ T \in SUBSET Toggle /\ stepPin \in BOOLEAN
        /\ at \in Int /\ b \in Int /\ Slots \in Int /\ b <= Slots
    BY Loaded, Sizes
  <1>2. /\ Stretch(b)["rise"] = Rises(T, stepPin, at, b)
        /\ Stretch(b)["fall"] = Falls(T, stepPin, at, b)
        /\ Stretch(b)["dir"] = At(T, "dir", at, b)
    BY DEF Stretch
  <1>3. /\ Rises(T, stepPin, at, Slots) \subseteq RisesAhead
        /\ Falls(T, stepPin, at, Slots) \subseteq FallsAhead
        /\ At(T, "dir", at, Slots) \subseteq DirsAhead
    BY DEF RisesAhead, FallsAhead, DirsAhead
  <1> HIDE DEF T
  <1>4. /\ Rises(T, stepPin, at, b) \subseteq Rises(T, stepPin, at, Slots)
        /\ Falls(T, stepPin, at, b) \subseteq Falls(T, stepPin, at, Slots)
        /\ At(T, "dir", at, b) \subseteq At(T, "dir", at, Slots)
    BY <1>1, Parts
  <1>5. /\ \A x \in Rises(T, stepPin, at, b) : x \in 0..Slots - 1 /\ at <= x /\ x < b
        /\ \A x \in Falls(T, stepPin, at, b) : x \in 0..Slots - 1 /\ at <= x /\ x < b
        /\ \A x \in At(T, "dir", at, b) : x \in 0..Slots - 1 /\ at <= x /\ x < b
    BY <1>1, Bounds
  <1>6. 0..Slots - 1 \subseteq Nat
    BY Sizes
  <1>7. \A e \in Kinds : \A x \in Stretch(b)[e] : x \in Nat /\ at <= x /\ x < b
    BY <1>2, <1>5, <1>6 DEF Kinds
  <1> QED
    BY <1>2, <1>3, <1>4, <1>7

(* A time that is too short, by the two edges.                             *)
LEMMA ShortIs ==
  ASSUME NEW T, NEW b,
         NEW rises, NEW falls, NEW dirs,
         rises = Rises(T, stepPin, at, b), falls = Falls(T, stepPin, at, b),
         dirs = At(T, "dir", at, b)
  PROVE  /\ "length" \in TooShort(T, at, b) =>
              \E s \in falls : s - Latest(rises, last["rise"], s) < Length
         /\ "space - 1" \in TooShort(T, at, b) =>
              \E s \in rises : s - Latest(falls, last["fall"], s) < Space - 1
         /\ "setup" \in TooShort(T, at, b) =>
              \E s \in rises : s - Latest(dirs, last["dir"], s + 1) < SetupTime
         /\ "hold" \in TooShort(T, at, b) =>
              \E s \in dirs :
                 \/ After(stepPin, At(T, "step", at, s + 1))
                 \/ s - Latest(falls, last["fall"], s + 1) < Hold
  BY DEF TooShort

(* With the invariant, none is too short in what is played next.           *)
LEMMA NoneShort ==
  ASSUME TypeOK, Spaced, NEW b \in 0..Slots, at <= b
  PROVE  /\ TooShort(buf[tcd], at, b) \cap {"length", "space - 1", "setup"} = {}
         /\ Hold = 1 => "hold" \notin TooShort(buf[tcd], at, b)
  <1> DEFINE rises == Stretch(b)["rise"]
             falls == Stretch(b)["fall"]
             dirs == Stretch(b)["dir"]
  <1>1. /\ rises = Rises(buf[tcd], stepPin, at, b)
        /\ falls = Falls(buf[tcd], stepPin, at, b)
        /\ dirs = At(buf[tcd], "dir", at, b)
    BY DEF Stretch
  <1>2. /\ rises \subseteq RisesAhead /\ falls \subseteq FallsAhead
        /\ dirs \subseteq DirsAhead
        /\ \A x \in rises : x \in Nat /\ at <= x /\ x < b
        /\ \A x \in falls : x \in Nat /\ at <= x /\ x < b
        /\ \A x \in dirs : x \in Nat /\ at <= x /\ x < b
    BY StretchAhead DEF Kinds
  <1>3. /\ rises \in SUBSET (0..Slots - 1) /\ falls \in SUBSET (0..Slots - 1)
        /\ dirs \in SUBSET (0..Slots - 1)
    BY StretchIs DEF Kinds
  <1>4. /\ last["rise"] \in LongAgo..Slots /\ last["rise"] <= at
        /\ last["fall"] \in LongAgo..Slots /\ last["fall"] <= at
        /\ last["dir"] \in LongAgo..Slots /\ last["dir"] <= at
        /\ last["rise"] \in Int /\ last["fall"] \in Int /\ last["dir"] \in Int
        /\ at \in Int
    BY LastTypes, Loaded DEF Kinds, Spaced
  <1>s. /\ last["rise"] \in AllRises /\ last["fall"] \in AllFalls
        /\ last["dir"] \in AllDirs
        /\ rises \subseteq AllRises /\ falls \subseteq AllFalls
        /\ dirs \subseteq AllDirs
    BY <1>2 DEF AllRises, AllFalls, AllDirs
  <1> HIDE DEF rises, falls, dirs
  <1>5. ASSUME NEW s \in falls, s - Latest(rises, last["rise"], s) < Length
        PROVE  FALSE
    <2>1. PICK r : r = Latest(rises, last["rise"], s)
      OBVIOUS
    <2>2. s \in Int /\ s \in Nat
      BY <1>2
    <2>3. r \in {last["rise"]} \cup {x \in rises : x < s}
      BY <1>3, <1>4, <2>1, <2>2, LatestIs
    <2>4. r \in AllRises /\ r \in Int /\ s >= r /\ s \in FallsAhead
      BY <1>2, <1>4, <1>s, <2>2, <2>3
    <2>5. s - r >= Length
      BY <2>4, Zenon DEF Spaced, Apart
    <2> QED
      BY <1>5, <2>1, <2>2, <2>4, <2>5, Sizes
  <1>6. ASSUME NEW s \in rises, s - Latest(falls, last["fall"], s) < Space - 1
        PROVE  FALSE
    <2>1. PICK l : l = Latest(falls, last["fall"], s)
      OBVIOUS
    <2>2. s \in Int /\ s \in Nat
      BY <1>2
    <2>3. l \in {last["fall"]} \cup {x \in falls : x < s}
      BY <1>3, <1>4, <2>1, <2>2, LatestIs
    <2>4. l \in AllFalls /\ l \in Int /\ s >= l /\ s \in RisesAhead
      BY <1>2, <1>4, <1>s, <2>2, <2>3
    <2>5. s - l >= Space - 1
      BY <2>4, Zenon DEF Spaced, Apart
    <2> QED
      BY <1>6, <2>1, <2>2, <2>4, <2>5, Sizes
  <1>7. ASSUME NEW s \in rises, s - Latest(dirs, last["dir"], s + 1) < SetupTime
        PROVE  FALSE
    <2>1. PICK d : d = Latest(dirs, last["dir"], s + 1)
      OBVIOUS
    <2>2. s \in Int /\ s \in Nat /\ s + 1 \in Int
      BY <1>2
    <2>3. d \in {last["dir"]} \cup {x \in dirs : x < s + 1}
      BY <1>3, <1>4, <2>1, <2>2, LatestIs
    <2>4. d \in AllDirs /\ d \in Int /\ s >= d /\ s \in RisesAhead
      BY <1>2, <1>4, <1>s, <2>2, <2>3
    <2>5. s - d >= SetupTime
      BY <2>4, Zenon DEF Spaced, Apart
    <2> QED
      BY <1>7, <2>1, <2>2, <2>4, <2>5, Sizes
  <1>8. ASSUME Hold = 1, NEW s \in dirs,
               \/ After(stepPin, At(buf[tcd], "step", at, s + 1))
               \/ s - Latest(falls, last["fall"], s + 1) < Hold
        PROVE  FALSE
    <2>0. At(buf[tcd], "dir", at, b) \subseteq At(buf[tcd], "dir", at, Slots)
      <3> DEFINE T == buf[tcd]
      <3>1. T \in SUBSET Toggle /\ at \in Int /\ b \in Int /\ Slots \in Int /\ b <= Slots
        BY Loaded, Sizes
      <3> HIDE DEF T
      <3>2. At(T, "dir", at, b) = {x \in At(T, "dir", at, Slots) : x < b}
        BY <3>1, AtSplit
      <3> QED
        BY <3>2 DEF T
    <2>1. After(stepPin, At(buf[tcd], "step", at, s + 1)) = FALSE
      BY <1>1, <2>0 DEF Spaced, LowAtTurns
    <2>2. s \in Int /\ s \in Nat /\ s + 1 \in Int
      BY <1>2
    <2>3. PICK l : l = Latest(falls, last["fall"], s + 1)
      OBVIOUS
    <2>4. l \in {last["fall"]} \cup {x \in falls : x < s + 1}
      BY <1>3, <1>4, <2>2, <2>3, LatestIs
    <2>5. l \in AllFalls /\ l \in Int /\ s >= l /\ s \in DirsAhead
      BY <1>2, <1>4, <1>s, <2>2, <2>4
    <2>6. s - l >= Hold
      BY <1>8, <2>5, Zenon DEF Spaced, Held
    <2> QED
      BY <1>8, <2>1, <2>2, <2>3, <2>5, <2>6, Sizes
  <1>9. /\ "length" \notin TooShort(buf[tcd], at, b)
        /\ "space - 1" \notin TooShort(buf[tcd], at, b)
        /\ "setup" \notin TooShort(buf[tcd], at, b)
        /\ Hold = 1 => "hold" \notin TooShort(buf[tcd], at, b)
    <2>1. "length" \notin TooShort(buf[tcd], at, b)
      BY <1>1, <1>5, ShortIs, Zenon
    <2>2. "space - 1" \notin TooShort(buf[tcd], at, b)
      BY <1>1, <1>6, ShortIs, Zenon
    <2>3. "setup" \notin TooShort(buf[tcd], at, b)
      BY <1>1, <1>7, ShortIs, Zenon
    <2>4. Hold = 1 => "hold" \notin TooShort(buf[tcd], at, b)
      BY <1>1, <1>8, ShortIs, Zenon
    <2> QED
      BY <2>1, <2>2, <2>3, <2>4
  <1> QED
    BY <1>9

(* The edges of a fill, by the slots of its steps.                         *)
LEMMA AddsIs ==
  ASSUME NEW f \in Frequencies \ {0}, NEW pin, JointTypeOK, Roomy, Unfinished,
         NEW e \in Int,
         NEW N \in SUBSET Int, NEW M \in SUBSET Int, NEW K \in SUBSET Int,
         \A x \in N : x - e \in Rises(Toggles(f, pin), isStepping, 0, Slots),
         \A x \in M : x - e \in Falls(Toggles(f, pin), isStepping, 0, Slots),
         \A x \in K : x - e \in At(Toggles(f, pin), "dir", 0, Slots)
  PROVE  Adds(f, pin, e, N, M, K)
  <1> DEFINE T == Toggles(f, pin)
  <1>1. /\ T \in SUBSET Toggle
        /\ \A s : <<"dir", s>> \in T <=> Turns(f, pin) /\ s = DirPos
    BY TogglesAre DEF Roomy
  <1>2. /\ Rises(T, isStepping, 0, Slots) = Highs(f, pin)
        /\ \A s \in Falls(T, isStepping, 0, Slots) :
              \/ isStepping /\ s = stepLow
              \/ \E h \in Highs(f, pin) : s = h + Length
    BY FillEdges
  <1>3. 0 \in Int /\ Slots \in Int /\ isStepping \in BOOLEAN
    BY Sizes DEF JointTypeOK
  <1>4. \A s \in Falls(T, isStepping, 0, Slots) : s < Slots
    BY <1>1, <1>3, Bounds
  <1>5. \A s \in At(T, "dir", 0, Slots) : Turns(f, pin) /\ s = DirPos
    BY <1>1, <1>3, AtIs, Zenon
  <1>6. \A x \in N : x - e \in Highs(f, pin)
    BY <1>2
  <1>7. ASSUME NEW x \in M
        PROVE  /\ x < e + Slots
               /\ \/ isStepping /\ x - e = stepLow
                  \/ \E h \in Highs(f, pin) : x - e = h + Length
    <2>1. x - e \in Falls(T, isStepping, 0, Slots)
      OBVIOUS
    <2>2. x - e < Slots
      BY <1>4, <2>1
    <2>3. x < e + Slots
      BY <1>3, <2>2
    <2> QED
      BY <1>2, <2>1, <2>3
  <1>8. \A x \in K : Turns(f, pin) /\ x - e = DirPos
    BY <1>5
  <1> QED
    BY <1>6, <1>7, <1>8, Zenon DEF Adds

(* The times after a fill that begins at slot e of the time line.          *)
LEMMA Filled ==
  ASSUME NEW f \in Frequencies, NEW pin, JointTypeOK, Roomy, Unfinished,
         Enabled(f, pin), NEW e \in Int,
         NEW R \in SUBSET Int, NEW F \in SUBSET Int, NEW D \in SUBSET Int,
         NEW Ra \in SUBSET R, NEW Fa \in SUBSET F, NEW Da \in SUBSET D,
         NEW N \in SUBSET Int, NEW M \in SUBSET Int, NEW K \in SUBSET Int,
         \A x \in N : x - e \in Rises(Fill(f, pin), isStepping, 0, Slots),
         \A x \in M : x - e \in Falls(Fill(f, pin), isStepping, 0, Slots),
         \A x \in K : x - e \in At(Fill(f, pin), "dir", 0, Slots),
         Before(R, F, D, e, prevRemainder, isStepping, stepLow),
         Apart(R, F, D, Ra, Fa),
         Hold = 1 => Held(F, Da)
  PROVE  /\ Before(R \cup N, F \cup M, D \cup K, e + Slots,
                   prevRemainder', isStepping', stepLow')
         /\ Apart(R \cup N, F \cup M, D \cup K, Ra \cup N, Fa \cup M)
         /\ Hold = 1 => Held(F \cup M, Da \cup K)
  <1>1. CASE f = 0
    <2>1. Fill(f, pin) = {} /\ UNCHANGED jointVars
      BY <1>1 DEF Fill, Enabled
    <2>2. Rises({}, isStepping, 0, Slots) = {} /\ Falls({}, isStepping, 0, Slots) = {}
      BY EmptyAt DEF Rises, Falls
    <2>3. N = {} /\ M = {} /\ K = {}
      BY <2>1, <2>2, EmptyAt
    <2>4. /\ R \cup N = R /\ F \cup M = F /\ D \cup K = D
          /\ Ra \cup N = Ra /\ Fa \cup M = Fa /\ Da \cup K = Da
      BY <2>3
    <2>5. Before(R, F, D, e + Slots, prevRemainder, isStepping, stepLow)
      <3>1. e + Slots \in Int /\ e <= e + Slots /\ prevRemainder \in Nat /\ stepLow \in Int
        BY Sizes DEF JointTypeOK
      <3> QED
        BY <3>1, BeforeLater
    <2>6. UNCHANGED <<prevRemainder, isStepping, stepLow>>
      BY <2>1 DEF jointVars
    <2> QED
      BY <2>4, <2>5, <2>6
  <1>2. CASE f # 0
    <2>1. Fill(f, pin) = Toggles(f, pin) /\ MakePulses(f, pin)
      BY <1>2 DEF Fill, Enabled
    <2>2. Adds(f, pin, e, N, M, K)
      <3>1. /\ \A x \in N : x - e \in Rises(Toggles(f, pin), isStepping, 0, Slots)
            /\ \A x \in M : x - e \in Falls(Toggles(f, pin), isStepping, 0, Slots)
            /\ \A x \in K : x - e \in At(Toggles(f, pin), "dir", 0, Slots)
        BY <2>1
      <3> QED
        BY <1>2, <3>1, AddsIs
    <2>3. Before(R \cup N, F \cup M, D \cup K, e + Slots,
                 prevRemainder', isStepping', stepLow')
      BY <1>2, <2>1, <2>2, FillBefore
    <2>4. Apart(R \cup N, F \cup M, D \cup K, Ra \cup N, Fa \cup M)
      BY <1>2, <2>2, FillApart
    <2>5. Hold = 1 => Held(F \cup M, Da \cup K)
      BY <1>2, <2>2, FillHeld
    <2> QED
      BY <2>3, <2>4, <2>5
  <1> QED
    BY <1>1, <1>2

(* makePulses changes the direction while the step pin is low.             *)
LEMMA LowFill ==
  ASSUME NEW f \in Frequencies, NEW pin, JointTypeOK, Roomy, Unfinished
  PROVE  LowAtTurns(Fill(f, pin), isStepping, 0)
  <1>1. CASE f = 0
    BY <1>1, EmptyAt DEF Fill, LowAtTurns
  <1>2. CASE f # 0
    <2> DEFINE T == Toggles(f, pin)
               H == Highs(f, pin)
    <2>1. /\ T \in SUBSET Toggle
          /\ \A s : <<"dir", s>> \in T <=> Turns(f, pin) /\ s = DirPos
      BY <1>2, TogglesAre DEF Roomy
    <2>2. 0 \in Int /\ Slots \in Int
      BY Sizes
    <2>3. ASSUME NEW d \in At(T, "dir", 0, Slots)
          PROVE  After(isStepping, At(T, "step", 0, d + 1)) = FALSE
      <3>1. Turns(f, pin) /\ d = DirPos
        BY <2>1, <2>2, AtIs, Zenon
      <3>2. d \in Nat /\ d + 1 \in 0..Slots
        BY <3>1, DirPosIs, Sizes DEF Roomy, Fits
      <3>3. After(isStepping, At(T, "step", 0, d + 1))
              <=> High(H, isStepping, stepLow, d + 1)
        BY <1>2, <3>2, FillLevel
      <3>4. ~(isStepping /\ d + 1 <= stepLow)
        BY <3>1, Sizes DEF DirPos, JointTypeOK
      <3>5. \A h \in H : ~(h < d + 1)
        <4>1. ASSUME NEW h \in H PROVE ~(h < d + 1)
          <5>1. h \in 0..Slots - 1 /\ h >= DirPos + SetupTime
            BY <1>2, <3>1, HighFacts
          <5> QED
            BY <3>1, <3>2, <5>1, Sizes
        <4> QED
          BY <4>1
      <3>6. ~High(H, isStepping, stepLow, d + 1)
        BY <3>4, <3>5, Zenon DEF High
      <3> QED
        BY <3>3, <3>6, AfterType
    <2>4. Fill(f, pin) = T
      BY <1>2 DEF Fill
    <2> QED
      BY <2>3, <2>4, Zenon DEF LowAtTurns
  <1> QED
    BY <1>1, <1>2

(* The drive remembers an edge of what was played.                         *)
LEMMA Remembered ==
  ASSUME TypeOK, NEW b \in 0..Slots, at <= b, PlayTo(b), b < Slots,
         \A e \in Kinds : last[e] <= at
  PROVE  /\ last'["rise"] \in AllRises /\ last'["fall"] \in AllFalls
         /\ last'["dir"] \in AllDirs
         /\ \A e \in Kinds : last'[e] <= b
  <1>1. \A e \in Kinds : last'[e] = last[e] \/ last'[e] \in Stretch(b)[e]
    BY LastIs
  <1>2. /\ last'["rise"] \in AllRises /\ last'["fall"] \in AllFalls
        /\ last'["dir"] \in AllDirs
    BY <1>1, StretchAhead DEF Kinds, AllRises, AllFalls, AllDirs
  <1>3. ASSUME NEW e \in Kinds PROVE last'[e] <= b
    <2>1. CASE last'[e] = last[e]
      <3>1. last[e] <= at /\ last[e] \in Int /\ at \in Int /\ b \in Int
        BY LastTypes, Loaded, Sizes
      <3> QED
        BY <2>1, <3>1
    <2>2. CASE last'[e] \in Stretch(b)[e]
      <3>1. last'[e] \in Nat /\ last'[e] < b
        BY <2>2, StretchAhead
      <3> QED
        BY <3>1, Sizes
    <2> QED
      BY <1>1, <2>1, <2>2
  <1> QED
    BY <1>2, <1>3

(* The rest of a buffer turns the direction while the pin is low, if all   *)
(* of it does.                                                             *)
LEMMA TurnsLater ==
  ASSUME NEW T \in SUBSET Toggle, NEW level \in BOOLEAN,
         NEW a \in Int, NEW b \in Int, a <= b, b <= Slots, LowAtTurns(T, level, a)
  PROVE  LowAtTurns(T, After(level, At(T, "step", a, b)), b)
  <1> DEFINE there == After(level, At(T, "step", a, b))
  <1>1. ASSUME NEW d \in At(T, "dir", b, Slots)
        PROVE  After(there, At(T, "step", b, d + 1)) = FALSE
    <2>0. Slots \in Int
      BY Sizes
    <2>1. d \in At(T, "dir", a, Slots)
      <3>1. At(T, "dir", b, Slots) \subseteq At(T, "dir", a, Slots)
        BY <2>0, Parts
      <3> QED
        BY <3>1
    <2>2. d \in Int /\ b <= d
      <3>1. \A x \in At(T, "dir", b, Slots) : x \in 0..Slots - 1 /\ b <= x
        BY <2>0, Bounds
      <3> QED
        BY <3>1, Sizes
    <2>3. d + 1 \in Int /\ b <= d + 1
      BY <2>2
    <2>4. After(level, At(T, "step", a, d + 1)) = After(there, At(T, "step", b, d + 1))
      BY <2>3, LevelSplit
    <2>5. After(level, At(T, "step", a, d + 1)) = FALSE
      BY <2>1 DEF LowAtTurns
    <2> QED
      BY <2>4, <2>5
  <1> QED
    BY <1>1 DEF LowAtTurns

-----------------------------------------------------------------------------
(***************************************************************************)
(* The times, step by step.                                                *)
(***************************************************************************)

(* The times that the drive has been given; the hold time only if it is    *)
(* one slot, since the code compares counts from the rising edge with      *)
(* slots from the falling one (DMAstepgen.cpp:177).                        *)
Unbroken(w) ==
    /\ w \cap {"length", "space - 1", "setup"} = {}
    /\ Hold = 1 => "hold" \notin w

(* The inductive invariant of DriveTimes.                                  *)
TimeInv ==
    /\ CountInv
    /\ Unbroken(broken)
    /\ playing => Spaced

(* Playing on, nothing becomes too short.                                  *)
LEMMA StillUnbroken ==
  ASSUME TypeOK, Spaced, NEW b \in 0..Slots, at <= b, PlayTo(b), Unbroken(broken)
  PROVE  Unbroken(broken')
  <1>1. broken' = broken \cup TooShort(buf[tcd], at, b)
    BY DEF PlayTo
  <1>2. /\ TooShort(buf[tcd], at, b) \cap {"length", "space - 1", "setup"} = {}
        /\ Hold = 1 => "hold" \notin TooShort(buf[tcd], at, b)
    BY NoneShort
  <1> QED
    BY <1>1, <1>2 DEF Unbroken

(* Slots of the next buffer and edges of an empty one.                     *)
LEMMA LaterBack ==
  ASSUME NEW S \in SUBSET (0..Slots - 1)
  PROVE  \A x \in Later(S) : x \in Nat /\ x - Slots \in S
  BY Sizes DEF Later

LEMMA NoEdges ==
  \A level, a, b : Rises({}, level, a, b) = {} /\ Falls({}, level, a, b) = {}
  BY EmptyAt DEF Rises, Falls

LEMMA LaterEmpty == Later({}) = {}
  BY DEF Later

(* The first fill of a session.                                            *)
LEMMA FirstTimes ==
  ASSUME TypeOK, TypeOK', Fresh, Roomy, Unfinished, NEW f \in Frequencies,
         Enabled(f, dirPin), RunAndStart(Fill(f, dirPin)),
         at' = 0, stepPin' = FALSE, last' = last
  PROVE  Spaced'
  <1> DEFINE X == Fill(f, dirPin)
             N == Rises(X, FALSE, 0, Slots)
             M == Falls(X, FALSE, 0, Slots)
             K == At(X, "dir", 0, Slots)
             A == {LongAgo}
  <1>f. JointTypeOK /\ Fits
    BY DEF TypeOK, Roomy
  <1>0. X \in SUBSET Toggle
    BY <1>f, FillType
  <1>1. /\ isStepping = FALSE /\ stepLow = 0 /\ prevRemainder = 0
        /\ \A e \in Kinds : last[e] = LongAgo
    BY DEF Fresh
  <1>2. tcd' = 0 /\ done' = FALSE /\ buf' = [buf EXCEPT ![0] = X]
    BY FreshIs DEF RunAndStart, Fresh
  <1>3. buf'[tcd'] = X /\ Coming' = {}
    BY <1>2, FreshIs DEF Coming
  <1>4. N \in SUBSET (0..Slots - 1) /\ M \in SUBSET (0..Slots - 1)
        /\ K \in SUBSET (0..Slots - 1)
    <2>1. 0 \in Int /\ Slots \in Int /\ FALSE \in BOOLEAN
      BY Sizes
    <2> HIDE DEF X
    <2> QED
      BY <1>0, <2>1, EdgesAre, AtIs
  <1>5. /\ RisesAhead' = N /\ FallsAhead' = M /\ DirsAhead' = K
    BY <1>3, NoEdges, EmptyAt, LaterEmpty DEF RisesAhead, FallsAhead, DirsAhead
  <1>6. /\ AllRises' = A \cup N /\ AllFalls' = A \cup M /\ AllDirs' = A \cup K
    BY <1>1, <1>5 DEF AllRises, AllFalls, AllDirs, Kinds
  <1>7. QueueEnd' = 2 * Slots
    BY <1>2 DEF QueueEnd
  <1>l. LowAtTurns(X, FALSE, 0)
    BY <1>1, <1>f, LowFill
  <1>8. /\ Before(A \cup N, A \cup M, A \cup K, 0 + Slots,
                  prevRemainder', isStepping', stepLow')
        /\ Apart(A \cup N, A \cup M, A \cup K, N, M)
        /\ Hold = 1 => Held(A \cup M, K)
    <2>1. /\ \A x \in N : x - 0 \in Rises(X, isStepping, 0, Slots)
          /\ \A x \in M : x - 0 \in Falls(X, isStepping, 0, Slots)
          /\ \A x \in K : x - 0 \in At(X, "dir", 0, Slots)
      <3>1. \A x \in Int : x - 0 = x
        OBVIOUS
      <3>2. 0..Slots - 1 \subseteq Int
        BY Sizes
      <3>3. /\ N = Rises(X, isStepping, 0, Slots)
            /\ M = Falls(X, isStepping, 0, Slots)
        BY <1>1
      <3> HIDE DEF N, M, X
      <3> QED
        BY <1>4, <3>1, <3>2, <3>3
    <2>2. Before(A, A, A, 0, prevRemainder, isStepping, stepLow)
      <3>1. /\ LongAgo < 0 /\ LongAgo - 0 <= -(Length + Space)
            /\ LongAgo + SetupTime <= 0
        BY Sizes DEF LongAgo
      <3>2. Past(LongAgo - 0, prevRemainder)
        BY <3>1 DEF Past
      <3> QED
        BY <1>1, <3>1, <3>2 DEF Before
    <2>3. Apart(A, A, A, {}, {}) /\ (Hold = 1 => Held(A, {}))
      BY DEF Apart, Held
    <2>4. A \in SUBSET Int /\ {} \in SUBSET A /\ 0 \in Int
          /\ N \in SUBSET Int /\ M \in SUBSET Int /\ K \in SUBSET Int
      <3>1. 0..Slots - 1 \subseteq Int /\ LongAgo \in Int
        BY Sizes
      <3> HIDE DEF N, M, K
      <3> QED
        BY <1>4, <3>1
    <2> HIDE DEF X, N, M, K, A
    <2>5. /\ Before(A \cup N, A \cup M, A \cup K, 0 + Slots,
                    prevRemainder', isStepping', stepLow')
          /\ Apart(A \cup N, A \cup M, A \cup K, {} \cup N, {} \cup M)
          /\ Hold = 1 => Held(A \cup M, {} \cup K)
      BY <1>f, <2>1, <2>2, <2>3, <2>4, Filled DEF X
    <2>6. {} \cup N = N /\ {} \cup M = M /\ {} \cup K = K
      OBVIOUS
    <2> QED
      BY <2>5, <2>6
  <1>9. Before(AllRises', AllFalls', AllDirs', QueueEnd',
               prevRemainder', isStepping', stepLow')
    <2>1. 0 + Slots \in Int /\ 2 * Slots \in Int /\ 0 + Slots <= 2 * Slots
      BY Sizes
    <2>2. prevRemainder' \in Nat /\ stepLow' \in Int
      BY Sizes DEF TypeOK, JointTypeOK
    <2>3. A \cup N \in SUBSET Int /\ A \cup M \in SUBSET Int /\ A \cup K \in SUBSET Int
      <3>1. 0..Slots - 1 \subseteq Int /\ LongAgo \in Int
        BY Sizes
      <3> HIDE DEF N, M, K
      <3> QED
        BY <1>4, <3>1
    <2> HIDE DEF X, N, M, K, A
    <2>4. Before(A \cup N, A \cup M, A \cup K, 2 * Slots,
                 prevRemainder', isStepping', stepLow')
      BY <1>8, <2>1, <2>2, <2>3, BeforeLater
    <2> QED
      BY <1>6, <1>7, <2>4
  <1>10. Apart(AllRises', AllFalls', AllDirs', RisesAhead', FallsAhead')
         /\ (Hold = 1 => Held(AllFalls', DirsAhead'))
    BY <1>5, <1>6, <1>8
  <1>11. \A e \in Kinds : last'[e] <= at'
    BY <1>1, Sizes
  <1>12. LowAtTurns(buf'[tcd'], stepPin', at')
    BY <1>3, <1>l
  <1>13. LowAtTurns(Coming', StepAtSwap', 0)
    BY <1>3, EmptyAt DEF LowAtTurns
  <1> QED
    BY <1>9, <1>10, <1>11, <1>12, <1>13 DEF Spaced

(* What a service does, in the terms of the lemmas.                        *)
LEMMA ServeFacts ==
  ASSUME CountInv, OneSession, NEW f \in Frequencies, NEW b \in FillSlots,
         Serve(f, b)
  PROVE  /\ TypeOK /\ JointTypeOK /\ Roomy /\ Unfinished
         /\ done = TRUE /\ at = 0 /\ Coming = {} /\ b \in 0..Slots /\ b < Slots
         /\ PlayTo(b) /\ tcd' = tcd /\ at' = b /\ done' = FALSE
         /\ buf'[tcd] = buf[tcd]
         /\ Coming' = Fill(f, DirPinAt(b)) /\ Enabled(f, DirPinAt(b))
         /\ StepAtSwap = isStepping /\ StepAtSwap' = isStepping
  <1>1. /\ TypeOK /\ JointTypeOK /\ Roomy /\ Unfinished
        /\ Tracked /\ done = TRUE /\ at = 0
    <2>1. playing /\ done
      BY DEF Serve
    <2> QED
      BY <2>1 DEF CountInv, OneSession, TypeOK, DmaTypeOK, Tracked
  <1>2. Coming = {}
    BY <1>1 DEF Coming
  <1>3. /\ tcd' = tcd /\ at' = b /\ PlayTo(b) /\ done' = FALSE
        /\ b \in 0..Slots /\ at <= b
    BY <1>1, SlotTypes, Sizes DEF Serve
  <1>b. b < Slots
    BY <1>1, <1>3, Sizes DEF Roomy
  <1>4. buf'[tcd] = buf[tcd] /\ Coming' = Fill(f, DirPinAt(b))
    BY <1>1, <1>3 DEF Serve, Coming, TypeOK, DmaTypeOK, Buffers, Other
  <1>5. StepAtSwap' = StepAtSwap
    BY <1>1, <1>3, <1>4, PlayOn
  <1>6. StepAtSwap = isStepping
    <2>1. StepAtSwap \in BOOLEAN
      BY <1>1, QueuedTypes
    <2> QED
      BY <1>1, <1>2, <2>1, EmptyAt, AfterOne DEF QueuedStep, Tracked
  <1> QED
    BY <1>1, <1>2, <1>3, <1>b, <1>4, <1>5, <1>6 DEF Serve

(* A fill keeps the times with all that is queued before it.               *)
LEMMA ServeTimes ==
  ASSUME CountInv, OneSession, TypeOK', NEW f \in Frequencies, NEW b \in FillSlots,
         Serve(f, b), Spaced, Unbroken(broken)
  PROVE  Spaced' /\ Unbroken(broken')
  <1> DEFINE X == Fill(f, DirPinAt(b))
             N == Later(Rises(X, isStepping, 0, Slots))
             M == Later(Falls(X, isStepping, 0, Slots))
             K == Later(At(X, "dir", 0, Slots))
             T == buf[tcd]
  <1>1. /\ TypeOK /\ JointTypeOK /\ Roomy /\ Unfinished
        /\ done = TRUE /\ at = 0 /\ Coming = {} /\ b \in 0..Slots /\ b < Slots
        /\ PlayTo(b) /\ tcd' = tcd /\ at' = b /\ done' = FALSE
        /\ buf'[tcd'] = T
        /\ Coming' = X /\ Enabled(f, DirPinAt(b))
        /\ StepAtSwap = isStepping /\ StepAtSwap' = isStepping
    BY ServeFacts
  <1>2. /\ T \in SUBSET Toggle /\ stepPin \in BOOLEAN /\ isStepping \in BOOLEAN
        /\ at \in Int /\ b \in Int /\ Slots \in Int /\ at <= b /\ b <= Slots /\ 0 \in Int
    BY <1>1, Loaded, Sizes
  <1>3. stepPin' = After(stepPin, At(T, "step", at, b))
    BY <1>1 DEF PlayTo
  <1>4. X \in SUBSET Toggle
    BY <1>1, FillType DEF Roomy
  <1>5. /\ Rises(X, isStepping, 0, Slots) \in SUBSET (0..Slots - 1)
        /\ Falls(X, isStepping, 0, Slots) \in SUBSET (0..Slots - 1)
        /\ At(X, "dir", 0, Slots) \in SUBSET (0..Slots - 1)
    <2> HIDE DEF X
    <2> QED
      BY <1>2, <1>4, EdgesAre, AtIs
  <1>6. /\ N \in SUBSET Int /\ M \in SUBSET Int /\ K \in SUBSET Int
        /\ \A x \in N : x - Slots \in Rises(X, isStepping, 0, Slots)
        /\ \A x \in M : x - Slots \in Falls(X, isStepping, 0, Slots)
        /\ \A x \in K : x - Slots \in At(X, "dir", 0, Slots)
    <2>1. ASSUME NEW S \in SUBSET (0..Slots - 1)
          PROVE  Later(S) \in SUBSET Int /\ \A x \in Later(S) : x - Slots \in S
      BY LaterBack
    <2> HIDE DEF X
    <2> QED
      BY <1>5, <2>1
  <1>7. /\ last'["rise"] \in AllRises /\ last'["fall"] \in AllFalls
        /\ last'["dir"] \in AllDirs
        /\ \A e \in Kinds : last'[e] <= at'
    BY <1>1, <1>2, Remembered DEF Spaced
  <1>8. /\ RisesAhead' = Rises(T, stepPin', b, Slots) \cup N
        /\ FallsAhead' = Falls(T, stepPin', b, Slots) \cup M
        /\ DirsAhead' = At(T, "dir", b, Slots) \cup K
    BY <1>1 DEF RisesAhead, FallsAhead, DirsAhead
  <1>l. LowAtTurns(T, stepPin, at)
    BY DEF Spaced
  <1>r. /\ Rises(T, stepPin, at, Slots) \subseteq RisesAhead
        /\ Falls(T, stepPin, at, Slots) \subseteq FallsAhead
        /\ At(T, "dir", at, Slots) \subseteq DirsAhead
    BY DEF RisesAhead, FallsAhead, DirsAhead
  <1> HIDE DEF T
  <1>9. /\ Rises(T, stepPin', b, Slots) \subseteq RisesAhead
        /\ Falls(T, stepPin', b, Slots) \subseteq FallsAhead
        /\ At(T, "dir", b, Slots) \subseteq DirsAhead
    BY <1>2, <1>3, <1>r, Parts
  <1>10. LowAtTurns(T, stepPin', b)
    BY <1>2, <1>3, <1>l, TurnsLater
  <1>11. LowAtTurns(X, isStepping, 0)
    BY <1>1, LowFill
  <1>12. QueueEnd = Slots /\ QueueEnd' = Slots + Slots
    BY <1>1, Sizes DEF QueueEnd
  <1> HIDE DEF N, M, K
  <1>13. /\ Before(AllRises \cup N, AllFalls \cup M, AllDirs \cup K, Slots + Slots,
                   prevRemainder', isStepping', stepLow')
         /\ Apart(AllRises \cup N, AllFalls \cup M, AllDirs \cup K,
                  RisesAhead \cup N, FallsAhead \cup M)
         /\ Hold = 1 => Held(AllFalls \cup M, DirsAhead \cup K)
    <2>1. /\ Before(AllRises, AllFalls, AllDirs, Slots,
                    prevRemainder, isStepping, stepLow)
          /\ Apart(AllRises, AllFalls, AllDirs, RisesAhead, FallsAhead)
          /\ Hold = 1 => Held(AllFalls, DirsAhead)
      BY <1>12 DEF Spaced
    <2>2. /\ AllRises \in SUBSET Int /\ AllFalls \in SUBSET Int /\ AllDirs \in SUBSET Int
          /\ RisesAhead \in SUBSET AllRises /\ FallsAhead \in SUBSET AllFalls
          /\ DirsAhead \in SUBSET AllDirs
      BY <1>1, AheadTypes
    <2> HIDE DEF X
    <2> QED
      BY <1>1, <1>2, <1>6, <2>1, <2>2, Filled DEF X
  <1>14. /\ AllRises' \subseteq AllRises \cup N /\ AllFalls' \subseteq AllFalls \cup M
         /\ AllDirs' \subseteq AllDirs \cup K
         /\ RisesAhead' \subseteq RisesAhead \cup N
         /\ FallsAhead' \subseteq FallsAhead \cup M
         /\ DirsAhead' \subseteq DirsAhead \cup K
    <2>1. /\ RisesAhead' \subseteq RisesAhead \cup N
          /\ FallsAhead' \subseteq FallsAhead \cup M
          /\ DirsAhead' \subseteq DirsAhead \cup K
      BY <1>8, <1>9
    <2>2. /\ AllRises' = {last'["rise"]} \cup RisesAhead'
          /\ AllFalls' = {last'["fall"]} \cup FallsAhead'
          /\ AllDirs' = {last'["dir"]} \cup DirsAhead'
      BY DEF AllRises, AllFalls, AllDirs
    <2>3. RisesAhead \subseteq AllRises /\ FallsAhead \subseteq AllFalls
          /\ DirsAhead \subseteq AllDirs
      BY DEF AllRises, AllFalls, AllDirs
    <2> QED
      BY <1>7, <2>1, <2>2, <2>3
  <1>15. /\ Before(AllRises', AllFalls', AllDirs', Slots + Slots,
                   prevRemainder', isStepping', stepLow')
         /\ Apart(AllRises', AllFalls', AllDirs', RisesAhead', FallsAhead')
         /\ Hold = 1 => Held(AllFalls', DirsAhead')
    <2>1. Before(AllRises', AllFalls', AllDirs', Slots + Slots,
                 prevRemainder', isStepping', stepLow')
      BY <1>13, <1>14, Zenon DEF Before
    <2>2. Apart(AllRises', AllFalls', AllDirs', RisesAhead', FallsAhead')
      BY <1>13, <1>14, Zenon DEF Apart
    <2>3. Hold = 1 => Held(AllFalls', DirsAhead')
      BY <1>13, <1>14, Zenon DEF Held
    <2> QED
      BY <2>1, <2>2, <2>3
  <1>16. Unbroken(broken')
    BY <1>1, <1>2, StillUnbroken
  <1>17. LowAtTurns(buf'[tcd'], stepPin', at') /\ LowAtTurns(Coming', StepAtSwap', 0)
    BY <1>1, <1>10, <1>11
  <1> QED
    BY <1>7, <1>12, <1>15, <1>16, <1>17 DEF Spaced

(* Lowering pins that are at rest breaks no time.                          *)
LEMMA DisableTimes ==
  ASSUME CountInv, OneSession, NEW b \in FillSlots, ServeDisabled(b),
         Spaced, Unbroken(broken)
  PROVE  Spaced' /\ Unbroken(broken')
  <1> DEFINE T == buf[tcd]
  <1>1. /\ TypeOK /\ done = TRUE /\ at = 0
    <2>1. playing /\ done
      BY DEF ServeDisabled
    <2> QED
      BY <2>1 DEF CountInv, Tracked, TypeOK, DmaTypeOK
  <1>2. At(T, "step", 0, Slots) = {} /\ At(T, "dir", 0, Slots) = {}
    BY <1>1, OutputAssumption DEF ServeDisabled, OneSession
  <1>3. /\ tcd' = tcd /\ at' = b /\ stepPin' = FALSE
        /\ isStepping' = FALSE /\ prevRemainder' = 0 /\ done' = FALSE
        /\ b \in 0..Slots /\ broken' = broken
        /\ last' = [last EXCEPT !["dir"] = b, !["fall"] = b]
    BY <1>1, SlotTypes DEF ServeDisabled, Lower, Disable
  <1>4. buf'[tcd'] = T /\ Coming' = {}
    BY <1>1, <1>3 DEF ServeDisabled, Coming, TypeOK, DmaTypeOK, Buffers, Other
  <1>5. /\ T \in SUBSET Toggle /\ 0 \in Int /\ b \in Int /\ Slots \in Int
        /\ 0 <= b /\ b <= Slots
    BY <1>1, <1>3, Loaded, Sizes
  <1> HIDE DEF T
  <1>6. At(T, "step", b, Slots) = {} /\ At(T, "dir", b, Slots) = {}
    <2>1. /\ At(T, "step", 0, Slots) = At(T, "step", 0, b) \cup At(T, "step", b, Slots)
          /\ At(T, "dir", 0, Slots) = At(T, "dir", 0, b) \cup At(T, "dir", b, Slots)
      BY <1>5, AtSplit
    <2> QED
      BY <1>2, <2>1
  <1>7. /\ Rises(T, stepPin', b, Slots) = {} /\ Falls(T, stepPin', b, Slots) = {}
    BY <1>6 DEF Rises, Falls
  <1>8. RisesAhead' = {} /\ FallsAhead' = {} /\ DirsAhead' = {}
    BY <1>3, <1>4, <1>6, <1>7, NoEdges, EmptyAt, LaterEmpty
       DEF RisesAhead, FallsAhead, DirsAhead
  <1>9. last'["rise"] = last["rise"] /\ last'["fall"] = b /\ last'["dir"] = b
    BY <1>1, <1>3 DEF TypeOK
  <1>10. AllRises' = {last["rise"]} /\ AllFalls' = {b} /\ AllDirs' = {b}
    BY <1>8, <1>9 DEF AllRises, AllFalls, AllDirs
  <1>11. last["rise"] \in Int /\ last["rise"] <= 0
    BY <1>1, LastTypes DEF Spaced, Kinds
  <1>12. QueueEnd' = 2 * Slots
    BY <1>3 DEF QueueEnd
  <1>13. Before(AllRises', AllFalls', AllDirs', QueueEnd',
                prevRemainder', isStepping', stepLow')
    <2>1. last["rise"] < 2 * Slots /\ b < 2 * Slots
      BY <1>5, <1>11, Sizes
    <2>2. b + SetupTime <= 2 * Slots
      BY <1>5, Sizes DEF OneSession, Roomy, Fits
    <2>3. Past(b - 2 * Slots, 0)
      <3>1. Past(Length, 0)
        <4>1. Length - Length = 0 /\ 0 * Half = 0 /\ 0 + 0 <= 0
          BY Sizes
        <4> QED
          BY <4>1 DEF Past
      <3>2. b - 2 * Slots \in Int /\ Length \in Int /\ b - 2 * Slots <= Length
        BY <1>5, Sizes
      <3> QED
        BY <3>1, <3>2, PastLater
    <2> QED
      BY <1>3, <1>10, <1>12, <2>1, <2>2, <2>3 DEF Before
  <1>14. /\ Apart(AllRises', AllFalls', AllDirs', RisesAhead', FallsAhead')
         /\ Held(AllFalls', DirsAhead')
    BY <1>8 DEF Apart, Held
  <1>15. \A e \in Kinds : last'[e] <= at'
    BY <1>3, <1>5, <1>9, <1>11 DEF Kinds
  <1>16. LowAtTurns(buf'[tcd'], stepPin', at') /\ LowAtTurns(Coming', StepAtSwap', 0)
    BY <1>3, <1>4, <1>6, EmptyAt DEF LowAtTurns
  <1> QED
    BY <1>3, <1>13, <1>14, <1>15, <1>16 DEF Spaced

(* The same edges, counted from the next buffer.                           *)
LEMMA EndTimes ==
  ASSUME CountInv, OneSession, EndBuffer, TypeOK', Spaced, Unbroken(broken)
  PROVE  Spaced' /\ Unbroken(broken')
  <1> DEFINE N == Rises(Coming, StepAtSwap, 0, Slots)
             M == Falls(Coming, StepAtSwap, 0, Slots)
             K == At(Coming, "dir", 0, Slots)
  <1>1. TypeOK /\ done = FALSE
    <2>1. playing /\ (Prompt => ~done)
      BY DEF EndBuffer, MajorComplete
    <2> QED
      BY <2>1 DEF CountInv, OneSession, TypeOK, DmaTypeOK
  <1>2. /\ tcd' = Other(tcd) /\ buf' = buf /\ done' = TRUE /\ at' = 0
        /\ PlayTo(Slots) /\ UNCHANGED <<prevRemainder, isStepping, stepLow>>
    BY DEF EndBuffer, MajorComplete, jointVars
  <1>3. buf'[tcd'] = Coming /\ Coming' = {}
    BY <1>1, <1>2 DEF Coming
  <1>4. stepPin' = StepAtSwap
    BY <1>2 DEF PlayTo, StepAtSwap
  <1>5. /\ RisesAhead' = N /\ FallsAhead' = M /\ DirsAhead' = K
    BY <1>2, <1>3, <1>4, NoEdges, EmptyAt, LaterEmpty
       DEF RisesAhead, FallsAhead, DirsAhead
  <1>6. /\ N \in SUBSET (0..Slots - 1) /\ M \in SUBSET (0..Slots - 1)
        /\ K \in SUBSET (0..Slots - 1)
    <2>1. 0 \in Int /\ Slots \in Int /\ StepAtSwap \in BOOLEAN
          /\ Coming \in SUBSET Toggle
      BY <1>1, QueuedTypes, Loaded, Sizes
    <2> QED
      BY <2>1, EdgesAre, AtIs
  <1>7. /\ Later(N) \subseteq RisesAhead /\ Later(M) \subseteq FallsAhead
        /\ Later(K) \subseteq DirsAhead
    BY DEF RisesAhead, FallsAhead, DirsAhead
  <1> HIDE DEF N, M, K
  <1>8. /\ \A x \in N : x \in Nat /\ x + Slots \in RisesAhead
        /\ \A x \in M : x \in Nat /\ x + Slots \in FallsAhead
        /\ \A x \in K : x \in Nat /\ x + Slots \in DirsAhead
    <2>1. \A x \in 0..Slots - 1 : x \in Nat
      BY Sizes
    <2> QED
      BY <1>6, <1>7, <2>1 DEF Later
  <1>9. /\ last'["rise"] = LongAgo \/ last'["rise"] + Slots \in AllRises
        /\ last'["fall"] = LongAgo \/ last'["fall"] + Slots \in AllFalls
        /\ last'["dir"] = LongAgo \/ last'["dir"] + Slots \in AllDirs
        /\ \A e \in Kinds : last'[e] \in Int /\ last'[e] <= 0
    <2>1. Slots \in 0..Slots /\ at <= Slots
      BY <1>1, SlotTypes, Loaded
    <2>2. \A e \in Kinds : \/ last'[e] = LongAgo
                           \/ last'[e] = last[e] - Slots
                           \/ /\ last'[e] + Slots \in Stretch(Slots)[e]
                              /\ last'[e] + Slots < Slots
      BY <1>1, <1>2, <2>1, LastIs
    <2>3. /\ Stretch(Slots)["rise"] \subseteq AllRises
          /\ Stretch(Slots)["fall"] \subseteq AllFalls
          /\ Stretch(Slots)["dir"] \subseteq AllDirs
      BY <1>1, <2>1, StretchAhead DEF AllRises, AllFalls, AllDirs
    <2>4. last["rise"] \in AllRises /\ last["fall"] \in AllFalls
          /\ last["dir"] \in AllDirs
      BY DEF AllRises, AllFalls, AllDirs
    <2>5. \A e \in Kinds : /\ last[e] \in Int /\ last[e] <= Slots
                           /\ last[e] - Slots + Slots = last[e]
                           /\ last'[e] \in Int
      <3>1. \A e \in Kinds : last[e] \in LongAgo..Slots /\ last'[e] \in LongAgo..Slots
        BY <1>1 DEF TypeOK, Kinds
      <3> QED
        BY <3>1, Sizes
    <2>6. \A e \in Kinds : last'[e] <= 0
      BY <2>2, <2>5, Sizes
    <2> QED
      BY <2>2, <2>3, <2>4, <2>5, <2>6 DEF Kinds
  <1>10. /\ AllRises' = {last'["rise"]} \cup N
         /\ AllFalls' = {last'["fall"]} \cup M
         /\ AllDirs' = {last'["dir"]} \cup K
    BY <1>5 DEF AllRises, AllFalls, AllDirs
  <1> DEFINE r == last'["rise"]
             l == last'["fall"]
             d == last'["dir"]
  <1>t. r \in Int /\ l \in Int /\ d \in Int
    BY <1>9 DEF Kinds
  <1>s. /\ Apart(AllRises, AllFalls, AllDirs, RisesAhead, FallsAhead)
        /\ Hold = 1 => Held(AllFalls, DirsAhead)
        /\ Before(AllRises, AllFalls, AllDirs, 2 * Slots,
                  prevRemainder, isStepping, stepLow)
    BY <1>1 DEF Spaced, QueueEnd
  <1>a. /\ AllRises \in SUBSET Int /\ AllFalls \in SUBSET Int
        /\ AllDirs \in SUBSET Int
        /\ RisesAhead \in SUBSET Int /\ FallsAhead \in SUBSET Int
        /\ DirsAhead \in SUBSET Int
        /\ RisesAhead \subseteq AllRises /\ FallsAhead \subseteq AllFalls
        /\ DirsAhead \subseteq AllDirs
    BY <1>1, AheadTypes
  <1>11. /\ Apart({r} \cup N, {l} \cup M, {d} \cup K, N, M)
         /\ Hold = 1 => Held({l} \cup M, K)
         /\ Before({r} \cup N, {l} \cup M, {d} \cup K, Slots,
                   prevRemainder, isStepping, stepLow)
    <2>1. /\ {r} \cup N \in SUBSET Int /\ {l} \cup M \in SUBSET Int
          /\ {d} \cup K \in SUBSET Int
          /\ N \in SUBSET Nat /\ M \in SUBSET Nat /\ K \in SUBSET Nat
      BY <1>8, <1>t
    <2>2. /\ \A x \in {r} \cup N : x = LongAgo \/ x + Slots \in AllRises
          /\ \A x \in {l} \cup M : x = LongAgo \/ x + Slots \in AllFalls
          /\ \A x \in {d} \cup K : x = LongAgo \/ x + Slots \in AllDirs
      BY <1>8, <1>9, <1>a
    <2>3. /\ \A x \in N : x + Slots \in RisesAhead
          /\ \A x \in M : x + Slots \in FallsAhead
          /\ \A x \in K : x + Slots \in DirsAhead
      BY <1>8
    <2>4. prevRemainder \in Nat /\ isStepping \in BOOLEAN /\ stepLow \in Nat
      BY <1>1, Sizes DEF TypeOK, JointTypeOK
    <2> HIDE DEF r, l, d
    <2> DEFINE R1 == {r} \cup N
               F1 == {l} \cup M
               D1 == {d} \cup K
    <2>5. /\ R1 \in SUBSET Int /\ F1 \in SUBSET Int /\ D1 \in SUBSET Int
          /\ \A x \in R1 : x = LongAgo \/ x + Slots \in AllRises
          /\ \A x \in F1 : x = LongAgo \/ x + Slots \in AllFalls
          /\ \A x \in D1 : x = LongAgo \/ x + Slots \in AllDirs
      BY <2>1, <2>2
    <2> HIDE DEF R1, F1, D1
    <2>m. Moved(AllRises, AllFalls, AllDirs, RisesAhead, FallsAhead, DirsAhead,
                R1, F1, D1, N, M, K)
      BY <1>a, <2>1, <2>3, <2>5, Zenon DEF Moved
    <2>6. Apart(AllRises, AllFalls, AllDirs, RisesAhead, FallsAhead)
            => Apart(R1, F1, D1, N, M)
      BY <2>m, Shifted, Zenon
    <2>7. Held(AllFalls, DirsAhead) => Held(F1, K)
      BY <2>m, Shifted, Zenon
    <2>8. \A p \in Nat, high \in BOOLEAN, low \in Nat :
            Before(AllRises, AllFalls, AllDirs, 2 * Slots, p, high, low)
              => Before(R1, F1, D1, Slots, p, high, low)
      <3> HIDE DEF N, M, K
      <3> QED
        BY <2>m, Shifted, SMTT(60)
    <2>9. Before(R1, F1, D1, Slots, prevRemainder, isStepping, stepLow)
      BY <1>s, <2>4, <2>8
    <2> QED
      BY <1>s, <2>6, <2>7, <2>9 DEF R1, F1, D1
  <1>12. /\ Apart(AllRises', AllFalls', AllDirs', RisesAhead', FallsAhead')
         /\ Hold = 1 => Held(AllFalls', DirsAhead')
         /\ Before(AllRises', AllFalls', AllDirs', QueueEnd',
                   prevRemainder', isStepping', stepLow')
    BY <1>2, <1>5, <1>10, <1>11 DEF QueueEnd
  <1>13. \A e \in Kinds : last'[e] <= at'
    BY <1>2, <1>9
  <1>14. LowAtTurns(buf'[tcd'], stepPin', at')
    BY <1>2, <1>3, <1>4 DEF Spaced
  <1>15. LowAtTurns(Coming', StepAtSwap', 0)
    BY <1>3, EmptyAt DEF LowAtTurns
  <1>16. Unbroken(broken')
    BY <1>1, <1>2, SlotTypes, Loaded, StillUnbroken
  <1> QED
    BY <1>12, <1>13, <1>14, <1>15, <1>16 DEF Spaced

(* The invariant holds at first, is kept by every step, and so always      *)
(* holds.                                                                  *)
LEMMA TimeInit == Init /\ OneSession => TimeInv
  <1> SUFFICES ASSUME Init, OneSession PROVE TimeInv
    OBVIOUS
  <1>1. CountInv
    BY CountInit
  <1>2. Unbroken(broken)
    BY DEF Init, Unbroken
  <1>3. playing = FALSE
    BY DEF Init, DmaInit
  <1> QED
    BY <1>1, <1>2, <1>3 DEF TimeInv

LEMMA TimeStep ==
  TimeInv /\ OneSession /\ TypeOK' /\ CountInv' /\ [Next]_vars => TimeInv'
  <1> SUFFICES ASSUME TimeInv, OneSession, TypeOK', CountInv', [Next]_vars
               PROVE  TimeInv'
    OBVIOUS
  <1>i. CountInv /\ TypeOK /\ Unbroken(broken) /\ Roomy /\ Unfinished
    BY DEF TimeInv, CountInv, OneSession
  <1>f. ASSUME ~playing, sessions < MaxSessions PROVE Fresh
    BY <1>f, <1>i, OutputAssumption DEF OneSession, CountInv, TypeOK
  <1>1. ASSUME NEW f \in Frequencies, StartRunning(f) PROVE TimeInv'
    <2>1. Fresh
      BY <1>1, <1>f DEF StartRunning, RunAndStart
    <2>2. /\ Enabled(f, dirPin) /\ RunAndStart(Fill(f, dirPin))
          /\ at' = 0 /\ stepPin' = FALSE /\ last' = last /\ broken' = broken
      BY <1>1, <2>1 DEF StartRunning, Fresh
    <2>3. Spaced'
      BY <1>i, <2>1, <2>2, FirstTimes
    <2> QED
      BY <1>i, <2>2, <2>3 DEF TimeInv
  <1>2. ASSUME NEW f \in Frequencies, NEW b \in FillSlots, Serve(f, b)
        PROVE  TimeInv'
    <2>1. Spaced
      BY <1>2 DEF Serve, TimeInv
    <2>2. Spaced' /\ Unbroken(broken')
      BY <1>2, <1>i, <2>1, ServeTimes
    <2> QED
      BY <2>2 DEF TimeInv
  <1>3. ASSUME NEW b \in FillSlots, ServeDisabled(b) PROVE TimeInv'
    <2>1. Spaced
      BY <1>3 DEF ServeDisabled, TimeInv
    <2>2. Spaced' /\ Unbroken(broken')
      BY <1>3, <1>i, <2>1, DisableTimes
    <2> QED
      BY <2>2 DEF TimeInv
  <1>4. ASSUME StartDisabled PROVE TimeInv'
    <2>1. Fresh
      BY <1>4, <1>f DEF StartDisabled, RunAndStart
    <2>2. 0 \in Frequencies /\ Fill(0, dirPin) = {}
      BY OutputAssumption DEF Fill
    <2>3. Enabled(0, dirPin)
      BY <1>4, <2>1 DEF StartDisabled, Disable, Fresh, Enabled, jointVars
    <2>4. /\ RunAndStart(Fill(0, dirPin)) /\ at' = 0 /\ stepPin' = FALSE
          /\ last' = last /\ broken' = broken
      BY <1>4, <2>2 DEF StartDisabled
    <2>5. Spaced'
      BY <1>i, <2>1, <2>2, <2>3, <2>4, FirstTimes
    <2> QED
      BY <1>i, <2>4, <2>5 DEF TimeInv
  <1>5. ASSUME EndBuffer PROVE TimeInv'
    <2>1. Spaced
      BY <1>5 DEF EndBuffer, MajorComplete, TimeInv
    <2>2. Spaced' /\ Unbroken(broken')
      BY <1>5, <1>i, <2>1, EndTimes
    <2> QED
      BY <2>2 DEF TimeInv
  <1>6. ASSUME NEW b \in FillSlots, Abort(b) PROVE TimeInv'
    <2>1. playing /\ ~playing' /\ PlayTo(b) /\ b >= at
      BY <1>6 DEF Abort, StopThread
    <2>2. b \in 0..Slots /\ at <= b
      BY <1>i, <2>1, SlotTypes, Loaded, Sizes
    <2>3. Unbroken(broken')
      BY <1>i, <2>1, <2>2, StillUnbroken DEF TimeInv
    <2> QED
      BY <2>1, <2>3 DEF TimeInv
  <1>7. ASSUME UNCHANGED vars PROVE TimeInv'
    <2>1. playing' = playing /\ broken' = broken
      BY <1>7 DEF vars, dmaVars, driveVars
    <2>2. Spaced => Spaced'
      BY <1>7 DEF vars, dmaVars, driveVars, jointVars, Spaced, AllRises, AllFalls,
                  AllDirs, RisesAhead, FallsAhead, DirsAhead, QueueEnd, StepAtSwap,
                  Coming
    <2> QED
      BY <1>i, <2>1, <2>2 DEF TimeInv
  <1> QED
    BY <1>1, <1>2, <1>3, <1>4, <1>5, <1>6, <1>7 DEF Next, Idle

LEMMA TimesAlways == ASSUME OneSession PROVE Spec => []TimeInv
  <1>1. Fits
    BY DEF OneSession, Roomy
  <1>2. Spec => []TypeOK
    BY <1>1, TypeCorrect
  <1>3. Spec => []CountInv
    BY CountAlways
  <1>4. Init => TimeInv
    BY TimeInit
  <1>5. TimeInv /\ TypeOK' /\ CountInv' /\ [Next]_vars => TimeInv'
    BY TimeStep
  <1> QED
    BY <1>2, <1>3, <1>4, <1>5, PTL DEF Spec

(* The part of DriveTimes that does not depend on the hold time.           *)
StepTimesKept == broken \cap {"length", "space - 1", "setup"} = {}

(* The drive gets its step length, its step space but for one slot, and    *)
(* its setup time, also across two buffers (the diagram at                 *)
(* DMAstepgen.cpp:110-123).                                                *)
THEOREM StepTimesCorrect == ASSUME OneSession PROVE Spec => []StepTimesKept
  <1>1. TimeInv => StepTimesKept
    BY DEF TimeInv, Unbroken, StepTimesKept
  <1> QED
    BY <1>1, TimesAlways, PTL

(* And with a hold of one slot also the hold time: the direction pin never *)
(* changes while the step pin is high, nor in the slot in which it falls.  *)
THEOREM DriveTimesCorrect ==
  ASSUME OneSession, Hold = 1 PROVE Spec => []DriveTimes
  <1>1. TimeInv => DriveTimes
    BY DEF TimeInv, Unbroken, DriveTimes
  <1> QED
    BY <1>1, TimesAlways, PTL
=============================================================================
