------------------------- MODULE CellPipelineProofs -------------------------
(***************************************************************************)
(* The cells projection behind the adapter and the reducer: what the five  *)
(* safety properties of CellPipeline rest on, for every block tree that    *)
(* consensus allows and every value of the constants.                      *)
(*                                                                         *)
(* In order: sequences, folds and maps; what makes a galaxy sound, and     *)
(* that each operation of CellGalaxy keeps it so, together with the page   *)
(* that applies its deltas; the same for one mutation; chains, anchors and *)
(* the chain entity; the phases of the channel, and that every step of the *)
(* pipeline leads from phase to phase; the properties; the depth of the    *)
(* journal; the theorems.                                                  *)
(***************************************************************************)
EXTENDS CellPipeline, FiniteSetTheorems, NaturalsInduction, WellFoundedInduction, TLAPS

-----------------------------------------------------------------------------
(* Numbers.                                                                *)

(* Every non-empty set of naturals has a least element.                    *)
LEMMA LeastNumber ==
  ASSUME NEW S, S \subseteq Nat, S # {}
  PROVE  \E m \in S : \A k \in S : m <= k
<1>1. IsWellFoundedOn(OpToRel(<, Nat), Nat)
  BY NatLessThanWellFounded
<1>2. PICK m \in S : \A k \in Nat : <<k, m>> \in OpToRel(<, Nat) => k \notin S
  BY <1>1, WFMin
<1>3. \A k \in S : k \in Nat /\ m \in Nat /\ ~ (k < m)
  BY <1>2 DEF OpToRel
<1>4. \A k \in S : m <= k
  BY <1>3
<1> QED BY <1>4

(* A set of naturals with an upper bound has a greatest element: its Max.  *)
LEMMA GreatestNumber ==
  ASSUME NEW S, S \subseteq Nat, S # {}, NEW m \in Nat, \A x \in S : x <= m
  PROVE  Max(S) \in S /\ \A x \in S : x <= Max(S)
<1> DEFINE R == {m - x : x \in S}
<1>1. R \subseteq Nat /\ R # {}
  <2>1. \A x \in S : m - x \in Nat
    OBVIOUS
  <2>2. PICK y \in S : TRUE
    OBVIOUS
  <2>3. m - y \in R
    OBVIOUS
  <2>4. R \subseteq Nat
    BY <2>1, Zenon
  <2> QED BY <2>3, <2>4
<1>2. PICK d \in R : \A k \in R : d <= k
  BY <1>1, LeastNumber
<1>3. PICK y \in S : d = m - y
  BY <1>2
<1>4. \A x \in S : x \in Int /\ x <= y
  <2> TAKE x \in S
  <2>1. m - x \in R
    OBVIOUS
  <2>2. m - y <= m - x
    BY <2>1, <1>2, <1>3
  <2> QED BY <2>2
<1> QED BY <1>4 DEF Max

(* A step that leads from every number below n to the next one leads from  *)
(* 0 to n.                                                                 *)
LEMMA Climb ==
  ASSUME NEW n \in Nat, NEW S, 0 \in S, \A k \in 0 .. n - 1 : k \in S => k + 1 \in S
  PROVE  \A k \in 0 .. n : k \in S
<1> DEFINE T == {k \in 0 .. n : k \notin S}
<1> SUFFICES ASSUME T # {} PROVE FALSE
  OBVIOUS
<1>1. PICK m \in T : \A k \in T : m <= k
  <2>1. T \subseteq Nat /\ T # {}
    OBVIOUS
  <2> HIDE DEF T
  <2> QED BY <2>1, LeastNumber
<1>2. m - 1 \in 0 .. n - 1 /\ m - 1 \notin T
  BY <1>1
<1> QED BY <1>1, <1>2

(* A subset of 1 .. m + 1 without its greatest element is a subset of 1 .. *)
(* m.                                                                      *)
LEMMA SubRange ==
  ASSUME NEW m \in Nat, NEW s \in SUBSET (1 .. m + 1), s # {}
  PROVE  s \ {Max(s)} \in SUBSET (1 .. m)
<1>2. \A x \in s : x \in 1 .. m + 1
  OBVIOUS
<1>1. Max(s) \in s /\ \A x \in s : x <= Max(s)
  <2>1. s \subseteq Nat /\ \A x \in s : x <= m + 1
    BY <1>2
  <2> QED BY <2>1, GreatestNumber, m + 1 \in Nat
<1>3. \A x \in s \ {Max(s)} : x \in 1 .. m
  <2> TAKE x \in s \ {Max(s)}
  <2>1. x \in 1 .. m + 1 /\ Max(s) \in 1 .. m + 1 /\ x <= Max(s) /\ x # Max(s)
    BY <1>1, <1>2
  <2> QED BY <2>1
<1> QED BY <1>3

(* The greatest element of 1 .. m + 1 is m + 1.                            *)
LEMMA FullRange ==
  ASSUME NEW m \in Nat
  PROVE  Max(1 .. m + 1) = m + 1 /\ (1 .. m + 1) \ {m + 1} = 1 .. m
<1>1. 1 .. m + 1 \subseteq Nat /\ 1 .. m + 1 # {} /\ m + 1 \in Nat
  <2>1. m + 1 \in 1 .. m + 1
    OBVIOUS
  <2>2. 1 .. m + 1 \subseteq Nat
    OBVIOUS
  <2> QED BY <2>1, <2>2
<1>2. Max(1 .. m + 1) \in 1 .. m + 1 /\ \A x \in 1 .. m + 1 : x <= Max(1 .. m + 1)
  <2>1. \A x \in 1 .. m + 1 : x <= m + 1
    OBVIOUS
  <2> QED BY <1>1, <2>1, GreatestNumber
<1>3. m + 1 \in 1 .. m + 1
  OBVIOUS
<1>4. Max(1 .. m + 1) = m + 1
  <2>1. m + 1 <= Max(1 .. m + 1)
    BY <1>2, <1>3
  <2> QED BY <1>2, <2>1
<1> QED BY <1>4

(* A prefix of 1 .. n is one of its non-empty subsets.                     *)
LEMMA Prefix ==
  ASSUME NEW n \in Nat, NEW k \in 0 .. n - 1
  PROVE  1 .. k + 1 \in SUBSET (1 .. n) /\ 1 .. k + 1 # {} /\ k \in Nat
<1>1. k + 1 \in 1 .. k + 1 /\ k \in Nat
  OBVIOUS
<1>2. \A x \in 1 .. k + 1 : x \in 1 .. n
  OBVIOUS
<1> QED BY <1>1, <1>2, Zenon

-----------------------------------------------------------------------------
(* Folds.  FoldLeft goes through the steps it should: each lemma gives the *)
(* states that one of the code's loops passes through.                     *)

(* The death pass, input by input.                                         *)
LEMMA SpendRun ==
  ASSUME NEW g, NEW b, NEW ops, NEW n \in Nat, DOMAIN ops = 1 .. n
  PROVE  \E run : /\ run[0] = g
                  /\ \A k \in 0 .. n - 1 : run[k + 1] = Spend(run[k], ops[k + 1], b)
                  /\ run[n] = SpendAll(g, ops, b)
<1> DEFINE Fits(f, m) ==
      f = [s \in SUBSET (1 .. m) |->
             IF s = {} THEN g ELSE Spend(f[s \ {Max(s)}], ops[Max(s)], b)]
           None == {m \in Nat : ~ \E f : Fits(f, m)}
<1>1. \E f : Fits(f, 0)
  <2>1. 1 .. 0 = {}
    OBVIOUS
  <2>2. Fits([s \in SUBSET (1 .. 0) |-> g], 0)
    BY <2>1, Zenon
  <2> QED BY <2>2
<1>2. ASSUME NEW m \in Nat, NEW f, Fits(f, m)
      PROVE  \E h : Fits(h, m + 1)
  <2> DEFINE h == [s \in SUBSET (1 .. m + 1) |->
                     IF s = {} THEN g ELSE Spend(f[s \ {Max(s)}], ops[Max(s)], b)]
  <2>1. \A s \in SUBSET (1 .. m) : h[s] = f[s]
    <3> TAKE s \in SUBSET (1 .. m)
    <3>1. 1 .. m \subseteq 1 .. m + 1
      OBVIOUS
    <3>2. s \in SUBSET (1 .. m + 1)
      BY <3>1
    <3>3. f[s] = IF s = {} THEN g ELSE Spend(f[s \ {Max(s)}], ops[Max(s)], b)
      BY <1>2, Zenon
    <3> QED BY <3>2, <3>3, Zenon
  <2>2. \A s \in SUBSET (1 .. m + 1) : s # {} => h[s \ {Max(s)}] = f[s \ {Max(s)}]
    <3> HIDE DEF h
    <3> QED BY <2>1, SubRange
  <2>3. \A s \in SUBSET (1 .. m + 1) :
          (IF s = {} THEN g ELSE Spend(f[s \ {Max(s)}], ops[Max(s)], b))
            = (IF s = {} THEN g ELSE Spend(h[s \ {Max(s)}], ops[Max(s)], b))
    <3> HIDE DEF h
    <3> QED BY <2>2, Zenon
  <2>4. Fits(h, m + 1)
    BY <2>3, Zenon
  <2> QED BY <2>4
<1>3. None = {}
  <2> SUFFICES ASSUME None # {} PROVE FALSE
    OBVIOUS
  <2> HIDE DEF Fits
  <2>1. PICK m \in None : \A k \in None : m <= k
    BY LeastNumber
  <2>2. m # 0 /\ m \in Nat
    BY <1>1, <2>1
  <2>3. \E f : Fits(f, m - 1)
    BY <2>1, <2>2
  <2> QED BY <1>2, <2>1, <2>2, <2>3
<1>4. PICK f : Fits(f, n)
  <2> HIDE DEF Fits
  <2> QED BY <1>3
<1> DEFINE iter == CHOOSE q : Fits(q, n)
<1>5. Fits(iter, n)
  <2> HIDE DEF Fits
  <2> QED BY <1>4
<1>6. SpendAll(g, ops, b) = iter[1 .. n]
  <2>1. DOMAIN ops = 1 .. n
    OBVIOUS
  <2> QED BY ONLY <2>1, Zenon DEF SpendAll, FoldLeft, MapThenFoldSet
<1> HIDE DEF iter
<1> DEFINE run == [k \in 0 .. n |-> iter[1 .. k]]
<1>7. run[0] = g
  <2>1. 1 .. 0 = {} /\ 0 \in 0 .. n /\ {} \in SUBSET (1 .. n)
    OBVIOUS
  <2>2. iter[{}] = g
    BY <1>5, <2>1, Zenon
  <2> QED BY <2>1, <2>2
<1>8. ASSUME NEW k \in 0 .. n - 1
      PROVE  run[k + 1] = Spend(run[k], ops[k + 1], b)
  <2>1. 1 .. k + 1 \in SUBSET (1 .. n) /\ 1 .. k + 1 # {} /\ k \in Nat
    BY Prefix
  <2>2. iter[1 .. k + 1] = Spend(iter[(1 .. k + 1) \ {Max(1 .. k + 1)}], ops[Max(1 .. k + 1)], b)
    BY <1>5, <2>1, Zenon
  <2>3. iter[1 .. k + 1] = Spend(iter[1 .. k], ops[k + 1], b)
    BY <2>1, <2>2, FullRange
  <2>4. k \in 0 .. n /\ k + 1 \in 0 .. n
    OBVIOUS
  <2> QED BY <2>3, <2>4
<1>9. run[n] = iter[1 .. n]
  OBVIOUS
<1> QED BY <1>6, <1>7, <1>8, <1>9

(* The birth pass, output by output.                                       *)
LEMMA CreateRun ==
  ASSUME NEW g, NEW b, NEW ops, NEW n \in Nat, DOMAIN ops = 1 .. n
  PROVE  \E run : /\ run[0] = g
                  /\ \A k \in 0 .. n - 1 : run[k + 1] = Create(run[k], ops[k + 1], b)
                  /\ run[n] = CreateAll(g, ops, b)
<1> DEFINE Fits(f, m) ==
      f = [s \in SUBSET (1 .. m) |->
             IF s = {} THEN g ELSE Create(f[s \ {Max(s)}], ops[Max(s)], b)]
           None == {m \in Nat : ~ \E f : Fits(f, m)}
<1>1. \E f : Fits(f, 0)
  <2>1. 1 .. 0 = {}
    OBVIOUS
  <2>2. Fits([s \in SUBSET (1 .. 0) |-> g], 0)
    BY <2>1, Zenon
  <2> QED BY <2>2
<1>2. ASSUME NEW m \in Nat, NEW f, Fits(f, m)
      PROVE  \E h : Fits(h, m + 1)
  <2> DEFINE h == [s \in SUBSET (1 .. m + 1) |->
                     IF s = {} THEN g ELSE Create(f[s \ {Max(s)}], ops[Max(s)], b)]
  <2>1. \A s \in SUBSET (1 .. m) : h[s] = f[s]
    <3> TAKE s \in SUBSET (1 .. m)
    <3>1. 1 .. m \subseteq 1 .. m + 1
      OBVIOUS
    <3>2. s \in SUBSET (1 .. m + 1)
      BY <3>1
    <3>3. f[s] = IF s = {} THEN g ELSE Create(f[s \ {Max(s)}], ops[Max(s)], b)
      BY <1>2, Zenon
    <3> QED BY <3>2, <3>3, Zenon
  <2>2. \A s \in SUBSET (1 .. m + 1) : s # {} => h[s \ {Max(s)}] = f[s \ {Max(s)}]
    <3> HIDE DEF h
    <3> QED BY <2>1, SubRange
  <2>3. \A s \in SUBSET (1 .. m + 1) :
          (IF s = {} THEN g ELSE Create(f[s \ {Max(s)}], ops[Max(s)], b))
            = (IF s = {} THEN g ELSE Create(h[s \ {Max(s)}], ops[Max(s)], b))
    <3> HIDE DEF h
    <3> QED BY <2>2, Zenon
  <2>4. Fits(h, m + 1)
    BY <2>3, Zenon
  <2> QED BY <2>4
<1>3. None = {}
  <2> SUFFICES ASSUME None # {} PROVE FALSE
    OBVIOUS
  <2> HIDE DEF Fits
  <2>1. PICK m \in None : \A k \in None : m <= k
    BY LeastNumber
  <2>2. m # 0 /\ m \in Nat
    BY <1>1, <2>1
  <2>3. \E f : Fits(f, m - 1)
    BY <2>1, <2>2
  <2> QED BY <1>2, <2>1, <2>2, <2>3
<1>4. PICK f : Fits(f, n)
  <2> HIDE DEF Fits
  <2> QED BY <1>3
<1> DEFINE iter == CHOOSE q : Fits(q, n)
<1>5. Fits(iter, n)
  <2> HIDE DEF Fits
  <2> QED BY <1>4
<1>6. CreateAll(g, ops, b) = iter[1 .. n]
  <2>1. DOMAIN ops = 1 .. n
    OBVIOUS
  <2> QED BY ONLY <2>1, Zenon DEF CreateAll, FoldLeft, MapThenFoldSet
<1> HIDE DEF iter
<1> DEFINE run == [k \in 0 .. n |-> iter[1 .. k]]
<1>7. run[0] = g
  <2>1. 1 .. 0 = {} /\ 0 \in 0 .. n /\ {} \in SUBSET (1 .. n)
    OBVIOUS
  <2>2. iter[{}] = g
    BY <1>5, <2>1, Zenon
  <2> QED BY <2>1, <2>2
<1>8. ASSUME NEW k \in 0 .. n - 1
      PROVE  run[k + 1] = Create(run[k], ops[k + 1], b)
  <2>1. 1 .. k + 1 \in SUBSET (1 .. n) /\ 1 .. k + 1 # {} /\ k \in Nat
    BY Prefix
  <2>2. iter[1 .. k + 1] = Create(iter[(1 .. k + 1) \ {Max(1 .. k + 1)}], ops[Max(1 .. k + 1)], b)
    BY <1>5, <2>1, Zenon
  <2>3. iter[1 .. k + 1] = Create(iter[1 .. k], ops[k + 1], b)
    BY <2>1, <2>2, FullRange
  <2>4. k \in 0 .. n /\ k + 1 \in 0 .. n
    OBVIOUS
  <2> QED BY <2>3, <2>4
<1>9. run[n] = iter[1 .. n]
  OBVIOUS
<1> QED BY <1>6, <1>7, <1>8, <1>9

(* The deaths of one block undone, row by row.                             *)
LEMMA ResurrectRun ==
  ASSUME NEW g, NEW ops, NEW n \in Nat, DOMAIN ops = 1 .. n
  PROVE  \E run : /\ run[0] = g
                  /\ \A k \in 0 .. n - 1 : run[k + 1] = Resurrect(run[k], ops[k + 1])
                  /\ run[n] = ResurrectAll(g, ops)
<1> DEFINE Fits(f, m) ==
      f = [s \in SUBSET (1 .. m) |->
             IF s = {} THEN g ELSE Resurrect(f[s \ {Max(s)}], ops[Max(s)])]
           None == {m \in Nat : ~ \E f : Fits(f, m)}
<1>1. \E f : Fits(f, 0)
  <2>1. 1 .. 0 = {}
    OBVIOUS
  <2>2. Fits([s \in SUBSET (1 .. 0) |-> g], 0)
    BY <2>1, Zenon
  <2> QED BY <2>2
<1>2. ASSUME NEW m \in Nat, NEW f, Fits(f, m)
      PROVE  \E h : Fits(h, m + 1)
  <2> DEFINE h == [s \in SUBSET (1 .. m + 1) |->
                     IF s = {} THEN g ELSE Resurrect(f[s \ {Max(s)}], ops[Max(s)])]
  <2>1. \A s \in SUBSET (1 .. m) : h[s] = f[s]
    <3> TAKE s \in SUBSET (1 .. m)
    <3>1. 1 .. m \subseteq 1 .. m + 1
      OBVIOUS
    <3>2. s \in SUBSET (1 .. m + 1)
      BY <3>1
    <3>3. f[s] = IF s = {} THEN g ELSE Resurrect(f[s \ {Max(s)}], ops[Max(s)])
      BY <1>2, Zenon
    <3> QED BY <3>2, <3>3, Zenon
  <2>2. \A s \in SUBSET (1 .. m + 1) : s # {} => h[s \ {Max(s)}] = f[s \ {Max(s)}]
    <3> HIDE DEF h
    <3> QED BY <2>1, SubRange
  <2>3. \A s \in SUBSET (1 .. m + 1) :
          (IF s = {} THEN g ELSE Resurrect(f[s \ {Max(s)}], ops[Max(s)]))
            = (IF s = {} THEN g ELSE Resurrect(h[s \ {Max(s)}], ops[Max(s)]))
    <3> HIDE DEF h
    <3> QED BY <2>2, Zenon
  <2>4. Fits(h, m + 1)
    BY <2>3, Zenon
  <2> QED BY <2>4
<1>3. None = {}
  <2> SUFFICES ASSUME None # {} PROVE FALSE
    OBVIOUS
  <2> HIDE DEF Fits
  <2>1. PICK m \in None : \A k \in None : m <= k
    BY LeastNumber
  <2>2. m # 0 /\ m \in Nat
    BY <1>1, <2>1
  <2>3. \E f : Fits(f, m - 1)
    BY <2>1, <2>2
  <2> QED BY <1>2, <2>1, <2>2, <2>3
<1>4. PICK f : Fits(f, n)
  <2> HIDE DEF Fits
  <2> QED BY <1>3
<1> DEFINE iter == CHOOSE q : Fits(q, n)
<1>5. Fits(iter, n)
  <2> HIDE DEF Fits
  <2> QED BY <1>4
<1>6. ResurrectAll(g, ops) = iter[1 .. n]
  <2>1. DOMAIN ops = 1 .. n
    OBVIOUS
  <2> QED BY ONLY <2>1, Zenon DEF ResurrectAll, FoldLeft, MapThenFoldSet
<1> HIDE DEF iter
<1> DEFINE run == [k \in 0 .. n |-> iter[1 .. k]]
<1>7. run[0] = g
  <2>1. 1 .. 0 = {} /\ 0 \in 0 .. n /\ {} \in SUBSET (1 .. n)
    OBVIOUS
  <2>2. iter[{}] = g
    BY <1>5, <2>1, Zenon
  <2> QED BY <2>1, <2>2
<1>8. ASSUME NEW k \in 0 .. n - 1
      PROVE  run[k + 1] = Resurrect(run[k], ops[k + 1])
  <2>1. 1 .. k + 1 \in SUBSET (1 .. n) /\ 1 .. k + 1 # {} /\ k \in Nat
    BY Prefix
  <2>2. iter[1 .. k + 1] = Resurrect(iter[(1 .. k + 1) \ {Max(1 .. k + 1)}], ops[Max(1 .. k + 1)])
    BY <1>5, <2>1, Zenon
  <2>3. iter[1 .. k + 1] = Resurrect(iter[1 .. k], ops[k + 1])
    BY <2>1, <2>2, FullRange
  <2>4. k \in 0 .. n /\ k + 1 \in 0 .. n
    OBVIOUS
  <2> QED BY <2>3, <2>4
<1>9. run[n] = iter[1 .. n]
  OBVIOUS
<1> QED BY <1>6, <1>7, <1>8, <1>9

(* The births of one block undone, outpoint by outpoint.                   *)
LEMMA ParkRun ==
  ASSUME NEW g, NEW ops, NEW n \in Nat, DOMAIN ops = 1 .. n
  PROVE  \E run : /\ run[0] = g
                  /\ \A k \in 0 .. n - 1 : run[k + 1] = Park(run[k], ops[k + 1])
                  /\ run[n] = ParkAll(g, ops)
<1> DEFINE Fits(f, m) ==
      f = [s \in SUBSET (1 .. m) |->
             IF s = {} THEN g ELSE Park(f[s \ {Max(s)}], ops[Max(s)])]
           None == {m \in Nat : ~ \E f : Fits(f, m)}
<1>1. \E f : Fits(f, 0)
  <2>1. 1 .. 0 = {}
    OBVIOUS
  <2>2. Fits([s \in SUBSET (1 .. 0) |-> g], 0)
    BY <2>1, Zenon
  <2> QED BY <2>2
<1>2. ASSUME NEW m \in Nat, NEW f, Fits(f, m)
      PROVE  \E h : Fits(h, m + 1)
  <2> DEFINE h == [s \in SUBSET (1 .. m + 1) |->
                     IF s = {} THEN g ELSE Park(f[s \ {Max(s)}], ops[Max(s)])]
  <2>1. \A s \in SUBSET (1 .. m) : h[s] = f[s]
    <3> TAKE s \in SUBSET (1 .. m)
    <3>1. 1 .. m \subseteq 1 .. m + 1
      OBVIOUS
    <3>2. s \in SUBSET (1 .. m + 1)
      BY <3>1
    <3>3. f[s] = IF s = {} THEN g ELSE Park(f[s \ {Max(s)}], ops[Max(s)])
      BY <1>2, Zenon
    <3> QED BY <3>2, <3>3, Zenon
  <2>2. \A s \in SUBSET (1 .. m + 1) : s # {} => h[s \ {Max(s)}] = f[s \ {Max(s)}]
    <3> HIDE DEF h
    <3> QED BY <2>1, SubRange
  <2>3. \A s \in SUBSET (1 .. m + 1) :
          (IF s = {} THEN g ELSE Park(f[s \ {Max(s)}], ops[Max(s)]))
            = (IF s = {} THEN g ELSE Park(h[s \ {Max(s)}], ops[Max(s)]))
    <3> HIDE DEF h
    <3> QED BY <2>2, Zenon
  <2>4. Fits(h, m + 1)
    BY <2>3, Zenon
  <2> QED BY <2>4
<1>3. None = {}
  <2> SUFFICES ASSUME None # {} PROVE FALSE
    OBVIOUS
  <2> HIDE DEF Fits
  <2>1. PICK m \in None : \A k \in None : m <= k
    BY LeastNumber
  <2>2. m # 0 /\ m \in Nat
    BY <1>1, <2>1
  <2>3. \E f : Fits(f, m - 1)
    BY <2>1, <2>2
  <2> QED BY <1>2, <2>1, <2>2, <2>3
<1>4. PICK f : Fits(f, n)
  <2> HIDE DEF Fits
  <2> QED BY <1>3
<1> DEFINE iter == CHOOSE q : Fits(q, n)
<1>5. Fits(iter, n)
  <2> HIDE DEF Fits
  <2> QED BY <1>4
<1>6. ParkAll(g, ops) = iter[1 .. n]
  <2>1. DOMAIN ops = 1 .. n
    OBVIOUS
  <2> QED BY ONLY <2>1, Zenon DEF ParkAll, FoldLeft, MapThenFoldSet
<1> HIDE DEF iter
<1> DEFINE run == [k \in 0 .. n |-> iter[1 .. k]]
<1>7. run[0] = g
  <2>1. 1 .. 0 = {} /\ 0 \in 0 .. n /\ {} \in SUBSET (1 .. n)
    OBVIOUS
  <2>2. iter[{}] = g
    BY <1>5, <2>1, Zenon
  <2> QED BY <2>1, <2>2
<1>8. ASSUME NEW k \in 0 .. n - 1
      PROVE  run[k + 1] = Park(run[k], ops[k + 1])
  <2>1. 1 .. k + 1 \in SUBSET (1 .. n) /\ 1 .. k + 1 # {} /\ k \in Nat
    BY Prefix
  <2>2. iter[1 .. k + 1] = Park(iter[(1 .. k + 1) \ {Max(1 .. k + 1)}], ops[Max(1 .. k + 1)])
    BY <1>5, <2>1, Zenon
  <2>3. iter[1 .. k + 1] = Park(iter[1 .. k], ops[k + 1])
    BY <2>1, <2>2, FullRange
  <2>4. k \in 0 .. n /\ k + 1 \in 0 .. n
    OBVIOUS
  <2> QED BY <2>3, <2>4
<1>9. run[n] = iter[1 .. n]
  OBVIOUS
<1> QED BY <1>6, <1>7, <1>8, <1>9

(* The blocks undone, height by height.                                    *)
LEMMA UndoRun ==
  ASSUME NEW g, NEW ops, NEW n \in Nat, DOMAIN ops = 1 .. n
  PROVE  \E run : /\ run[0] = g
                  /\ \A k \in 0 .. n - 1 : run[k + 1] = UndoKnown(run[k], ops[k + 1])
                  /\ run[n] = UndoAll(g, ops)
<1> DEFINE Fits(f, m) ==
      f = [s \in SUBSET (1 .. m) |->
             IF s = {} THEN g ELSE UndoKnown(f[s \ {Max(s)}], ops[Max(s)])]
           None == {m \in Nat : ~ \E f : Fits(f, m)}
<1>1. \E f : Fits(f, 0)
  <2>1. 1 .. 0 = {}
    OBVIOUS
  <2>2. Fits([s \in SUBSET (1 .. 0) |-> g], 0)
    BY <2>1, Zenon
  <2> QED BY <2>2
<1>2. ASSUME NEW m \in Nat, NEW f, Fits(f, m)
      PROVE  \E h : Fits(h, m + 1)
  <2> DEFINE h == [s \in SUBSET (1 .. m + 1) |->
                     IF s = {} THEN g ELSE UndoKnown(f[s \ {Max(s)}], ops[Max(s)])]
  <2>1. \A s \in SUBSET (1 .. m) : h[s] = f[s]
    <3> TAKE s \in SUBSET (1 .. m)
    <3>1. 1 .. m \subseteq 1 .. m + 1
      OBVIOUS
    <3>2. s \in SUBSET (1 .. m + 1)
      BY <3>1
    <3>3. f[s] = IF s = {} THEN g ELSE UndoKnown(f[s \ {Max(s)}], ops[Max(s)])
      BY <1>2, Zenon
    <3> QED BY <3>2, <3>3, Zenon
  <2>2. \A s \in SUBSET (1 .. m + 1) : s # {} => h[s \ {Max(s)}] = f[s \ {Max(s)}]
    <3> HIDE DEF h
    <3> QED BY <2>1, SubRange
  <2>3. \A s \in SUBSET (1 .. m + 1) :
          (IF s = {} THEN g ELSE UndoKnown(f[s \ {Max(s)}], ops[Max(s)]))
            = (IF s = {} THEN g ELSE UndoKnown(h[s \ {Max(s)}], ops[Max(s)]))
    <3> HIDE DEF h
    <3> QED BY <2>2, Zenon
  <2>4. Fits(h, m + 1)
    BY <2>3, Zenon
  <2> QED BY <2>4
<1>3. None = {}
  <2> SUFFICES ASSUME None # {} PROVE FALSE
    OBVIOUS
  <2> HIDE DEF Fits
  <2>1. PICK m \in None : \A k \in None : m <= k
    BY LeastNumber
  <2>2. m # 0 /\ m \in Nat
    BY <1>1, <2>1
  <2>3. \E f : Fits(f, m - 1)
    BY <2>1, <2>2
  <2> QED BY <1>2, <2>1, <2>2, <2>3
<1>4. PICK f : Fits(f, n)
  <2> HIDE DEF Fits
  <2> QED BY <1>3
<1> DEFINE iter == CHOOSE q : Fits(q, n)
<1>5. Fits(iter, n)
  <2> HIDE DEF Fits
  <2> QED BY <1>4
<1>6. UndoAll(g, ops) = iter[1 .. n]
  <2>1. DOMAIN ops = 1 .. n
    OBVIOUS
  <2> QED BY ONLY <2>1, Zenon DEF UndoAll, FoldLeft, MapThenFoldSet
<1> HIDE DEF iter
<1> DEFINE run == [k \in 0 .. n |-> iter[1 .. k]]
<1>7. run[0] = g
  <2>1. 1 .. 0 = {} /\ 0 \in 0 .. n /\ {} \in SUBSET (1 .. n)
    OBVIOUS
  <2>2. iter[{}] = g
    BY <1>5, <2>1, Zenon
  <2> QED BY <2>1, <2>2
<1>8. ASSUME NEW k \in 0 .. n - 1
      PROVE  run[k + 1] = UndoKnown(run[k], ops[k + 1])
  <2>1. 1 .. k + 1 \in SUBSET (1 .. n) /\ 1 .. k + 1 # {} /\ k \in Nat
    BY Prefix
  <2>2. iter[1 .. k + 1] = UndoKnown(iter[(1 .. k + 1) \ {Max(1 .. k + 1)}], ops[Max(1 .. k + 1)])
    BY <1>5, <2>1, Zenon
  <2>3. iter[1 .. k + 1] = UndoKnown(iter[1 .. k], ops[k + 1])
    BY <2>1, <2>2, FullRange
  <2>4. k \in 0 .. n /\ k + 1 \in 0 .. n
    OBVIOUS
  <2> QED BY <2>3, <2>4
<1>9. run[n] = iter[1 .. n]
  OBVIOUS
<1> QED BY <1>6, <1>7, <1>8, <1>9

(* The rows that gc_cells keeps, row by row.                               *)
LEMMA KeepRun ==
  ASSUME NEW now, NEW ops, NEW n \in Nat, DOMAIN ops = 1 .. n
  PROVE  \E run : /\ run[0] = <<>>
                  /\ \A k \in 0 .. n - 1 : run[k + 1] = Keep(run[k], ops[k + 1], now)
                  /\ run[n] = Kept(ops, now)
<1> DEFINE Fits(f, m) ==
      f = [s \in SUBSET (1 .. m) |->
             IF s = {} THEN <<>> ELSE Keep(f[s \ {Max(s)}], ops[Max(s)], now)]
           None == {m \in Nat : ~ \E f : Fits(f, m)}
<1>1. \E f : Fits(f, 0)
  <2>1. 1 .. 0 = {}
    OBVIOUS
  <2>2. Fits([s \in SUBSET (1 .. 0) |-> <<>>], 0)
    BY <2>1, Zenon
  <2> QED BY <2>2
<1>2. ASSUME NEW m \in Nat, NEW f, Fits(f, m)
      PROVE  \E h : Fits(h, m + 1)
  <2> DEFINE h == [s \in SUBSET (1 .. m + 1) |->
                     IF s = {} THEN <<>> ELSE Keep(f[s \ {Max(s)}], ops[Max(s)], now)]
  <2>1. \A s \in SUBSET (1 .. m) : h[s] = f[s]
    <3> TAKE s \in SUBSET (1 .. m)
    <3>1. 1 .. m \subseteq 1 .. m + 1
      OBVIOUS
    <3>2. s \in SUBSET (1 .. m + 1)
      BY <3>1
    <3>3. f[s] = IF s = {} THEN <<>> ELSE Keep(f[s \ {Max(s)}], ops[Max(s)], now)
      BY <1>2, Zenon
    <3> QED BY <3>2, <3>3, Zenon
  <2>2. \A s \in SUBSET (1 .. m + 1) : s # {} => h[s \ {Max(s)}] = f[s \ {Max(s)}]
    <3> HIDE DEF h
    <3> QED BY <2>1, SubRange
  <2>3. \A s \in SUBSET (1 .. m + 1) :
          (IF s = {} THEN <<>> ELSE Keep(f[s \ {Max(s)}], ops[Max(s)], now))
            = (IF s = {} THEN <<>> ELSE Keep(h[s \ {Max(s)}], ops[Max(s)], now))
    <3> HIDE DEF h
    <3> QED BY <2>2, Zenon
  <2>4. Fits(h, m + 1)
    BY <2>3, Zenon
  <2> QED BY <2>4
<1>3. None = {}
  <2> SUFFICES ASSUME None # {} PROVE FALSE
    OBVIOUS
  <2> HIDE DEF Fits
  <2>1. PICK m \in None : \A k \in None : m <= k
    BY LeastNumber
  <2>2. m # 0 /\ m \in Nat
    BY <1>1, <2>1
  <2>3. \E f : Fits(f, m - 1)
    BY <2>1, <2>2
  <2> QED BY <1>2, <2>1, <2>2, <2>3
<1>4. PICK f : Fits(f, n)
  <2> HIDE DEF Fits
  <2> QED BY <1>3
<1> DEFINE iter == CHOOSE q : Fits(q, n)
<1>5. Fits(iter, n)
  <2> HIDE DEF Fits
  <2> QED BY <1>4
<1>6. Kept(ops, now) = iter[1 .. n]
  <2>1. DOMAIN ops = 1 .. n
    OBVIOUS
  <2> QED BY ONLY <2>1, Zenon DEF Kept, FoldLeft, MapThenFoldSet
<1> HIDE DEF iter
<1> DEFINE run == [k \in 0 .. n |-> iter[1 .. k]]
<1>7. run[0] = <<>>
  <2>1. 1 .. 0 = {} /\ 0 \in 0 .. n /\ {} \in SUBSET (1 .. n)
    OBVIOUS
  <2>2. iter[{}] = <<>>
    BY <1>5, <2>1, Zenon
  <2> QED BY <2>1, <2>2
<1>8. ASSUME NEW k \in 0 .. n - 1
      PROVE  run[k + 1] = Keep(run[k], ops[k + 1], now)
  <2>1. 1 .. k + 1 \in SUBSET (1 .. n) /\ 1 .. k + 1 # {} /\ k \in Nat
    BY Prefix
  <2>2. iter[1 .. k + 1] = Keep(iter[(1 .. k + 1) \ {Max(1 .. k + 1)}], ops[Max(1 .. k + 1)], now)
    BY <1>5, <2>1, Zenon
  <2>3. iter[1 .. k + 1] = Keep(iter[1 .. k], ops[k + 1], now)
    BY <2>1, <2>2, FullRange
  <2>4. k \in 0 .. n /\ k + 1 \in 0 .. n
    OBVIOUS
  <2> QED BY <2>3, <2>4
<1>9. run[n] = iter[1 .. n]
  OBVIOUS
<1> QED BY <1>6, <1>7, <1>8, <1>9

(* A page that applies deltas, one by one.                                 *)
LEMMA PageRun ==
  ASSUME NEW g, NEW ops, NEW n \in Nat, DOMAIN ops = 1 .. n
  PROVE  \E run : /\ run[0] = g
                  /\ \A k \in 0 .. n - 1 : run[k + 1] = ApplyDelta(run[k], ops[k + 1])
                  /\ run[n] = ApplyDeltas(g, ops)
<1> DEFINE Fits(f, m) ==
      f = [s \in SUBSET (1 .. m) |->
             IF s = {} THEN g ELSE ApplyDelta(f[s \ {Max(s)}], ops[Max(s)])]
           None == {m \in Nat : ~ \E f : Fits(f, m)}
<1>1. \E f : Fits(f, 0)
  <2>1. 1 .. 0 = {}
    OBVIOUS
  <2>2. Fits([s \in SUBSET (1 .. 0) |-> g], 0)
    BY <2>1, Zenon
  <2> QED BY <2>2
<1>2. ASSUME NEW m \in Nat, NEW f, Fits(f, m)
      PROVE  \E h : Fits(h, m + 1)
  <2> DEFINE h == [s \in SUBSET (1 .. m + 1) |->
                     IF s = {} THEN g ELSE ApplyDelta(f[s \ {Max(s)}], ops[Max(s)])]
  <2>1. \A s \in SUBSET (1 .. m) : h[s] = f[s]
    <3> TAKE s \in SUBSET (1 .. m)
    <3>1. 1 .. m \subseteq 1 .. m + 1
      OBVIOUS
    <3>2. s \in SUBSET (1 .. m + 1)
      BY <3>1
    <3>3. f[s] = IF s = {} THEN g ELSE ApplyDelta(f[s \ {Max(s)}], ops[Max(s)])
      BY <1>2, Zenon
    <3> QED BY <3>2, <3>3, Zenon
  <2>2. \A s \in SUBSET (1 .. m + 1) : s # {} => h[s \ {Max(s)}] = f[s \ {Max(s)}]
    <3> HIDE DEF h
    <3> QED BY <2>1, SubRange
  <2>3. \A s \in SUBSET (1 .. m + 1) :
          (IF s = {} THEN g ELSE ApplyDelta(f[s \ {Max(s)}], ops[Max(s)]))
            = (IF s = {} THEN g ELSE ApplyDelta(h[s \ {Max(s)}], ops[Max(s)]))
    <3> HIDE DEF h
    <3> QED BY <2>2, Zenon
  <2>4. Fits(h, m + 1)
    BY <2>3, Zenon
  <2> QED BY <2>4
<1>3. None = {}
  <2> SUFFICES ASSUME None # {} PROVE FALSE
    OBVIOUS
  <2> HIDE DEF Fits
  <2>1. PICK m \in None : \A k \in None : m <= k
    BY LeastNumber
  <2>2. m # 0 /\ m \in Nat
    BY <1>1, <2>1
  <2>3. \E f : Fits(f, m - 1)
    BY <2>1, <2>2
  <2> QED BY <1>2, <2>1, <2>2, <2>3
<1>4. PICK f : Fits(f, n)
  <2> HIDE DEF Fits
  <2> QED BY <1>3
<1> DEFINE iter == CHOOSE q : Fits(q, n)
<1>5. Fits(iter, n)
  <2> HIDE DEF Fits
  <2> QED BY <1>4
<1>6. ApplyDeltas(g, ops) = iter[1 .. n]
  <2>1. DOMAIN ops = 1 .. n
    OBVIOUS
  <2> QED BY ONLY <2>1, Zenon DEF ApplyDeltas, FoldLeft, MapThenFoldSet
<1> HIDE DEF iter
<1> DEFINE run == [k \in 0 .. n |-> iter[1 .. k]]
<1>7. run[0] = g
  <2>1. 1 .. 0 = {} /\ 0 \in 0 .. n /\ {} \in SUBSET (1 .. n)
    OBVIOUS
  <2>2. iter[{}] = g
    BY <1>5, <2>1, Zenon
  <2> QED BY <2>1, <2>2
<1>8. ASSUME NEW k \in 0 .. n - 1
      PROVE  run[k + 1] = ApplyDelta(run[k], ops[k + 1])
  <2>1. 1 .. k + 1 \in SUBSET (1 .. n) /\ 1 .. k + 1 # {} /\ k \in Nat
    BY Prefix
  <2>2. iter[1 .. k + 1] = ApplyDelta(iter[(1 .. k + 1) \ {Max(1 .. k + 1)}], ops[Max(1 .. k + 1)])
    BY <1>5, <2>1, Zenon
  <2>3. iter[1 .. k + 1] = ApplyDelta(iter[1 .. k], ops[k + 1])
    BY <2>1, <2>2, FullRange
  <2>4. k \in 0 .. n /\ k + 1 \in 0 .. n
    OBVIOUS
  <2> QED BY <2>3, <2>4
<1>9. run[n] = iter[1 .. n]
  OBVIOUS
<1> QED BY <1>6, <1>7, <1>8, <1>9

-----------------------------------------------------------------------------
(* Rows in their order.                                                    *)

Outpoints == UNION {Range(Outputs[t]) : t \in DOMAIN Outputs}
Row == [id : Nat, op : Outpoints, born : Nat, died : Nat \cup {Alive}]
Distinct(rows) == \A i, j \in DOMAIN rows : rows[i].id = rows[j].id => i = j

(* The mark of a living row is no time of death.                           *)
LEMMA AliveIsNoTime == Alive \in Int /\ Alive \notin Nat
BY DEF Alive

(* Appending a row with an id of its own keeps the ids of the rows         *)
(* distinct.                                                               *)
LEMMA RowAppended ==
  ASSUME NEW rows \in Seq(Row), NEW row \in Row
  PROVE  /\ Append(rows, row) \in Seq(Row)
         /\ Range(Append(rows, row)) = Range(rows) \cup {row}
         /\ Distinct(rows) /\ (\A x \in Range(rows) : x.id # row.id)
              => Distinct(Append(rows, row))
<1> DEFINE new == Append(rows, row)
<1>1. new \in Seq(Row) /\ DOMAIN new = 1 .. Len(rows) + 1 /\ DOMAIN rows = 1 .. Len(rows)
  OBVIOUS
<1>2. Len(rows) \in Nat /\ new[Len(rows) + 1] = row /\ \A i \in 1 .. Len(rows) : new[i] = rows[i]
  OBVIOUS
<1> HIDE DEF new
<1>3. Range(new) = Range(rows) \cup {row}
  <2>1. \A i \in DOMAIN new : new[i] \in Range(rows) \cup {row}
    BY <1>1, <1>2 DEF Range
  <2>2. \A i \in DOMAIN rows : rows[i] \in Range(new)
    <3> TAKE i \in DOMAIN rows
    <3>1. i \in DOMAIN new /\ new[i] = rows[i]
      BY <1>1, <1>2
    <3> QED BY <3>1 DEF Range
  <2>3. row \in Range(new)
    <3>1. Len(rows) + 1 \in DOMAIN new
      BY <1>1, <1>2
    <3> QED BY <3>1, <1>2 DEF Range
  <2> QED BY <2>1, <2>2, <2>3 DEF Range
<1>4. ASSUME Distinct(rows), \A x \in Range(rows) : x.id # row.id
      PROVE  Distinct(new)
  <2> SUFFICES ASSUME NEW i \in DOMAIN new, NEW j \in DOMAIN new, new[i].id = new[j].id
               PROVE  i = j
    BY DEF Distinct
  <2>1. \A k \in DOMAIN rows : rows[k].id # row.id
    BY <1>4 DEF Range
  <2>2. \A k \in DOMAIN new : k \in DOMAIN rows \/ k = Len(rows) + 1
    BY <1>1, <1>2
  <2> QED BY <1>1, <1>2, <1>4, <2>1, <2>2 DEF Distinct
<1> QED BY <1>1, <1>3, <1>4 DEF new

(* Writing a row over the one with its id replaces just that one.          *)
LEMMA RowReplaced ==
  ASSUME NEW rows \in Seq(Row), Distinct(rows), NEW i \in DOMAIN rows,
         NEW row \in Row, row.id = rows[i].id
  PROVE  /\ [rows EXCEPT ![i] = row] \in Seq(Row)
         /\ Range([rows EXCEPT ![i] = row]) = (Range(rows) \ {rows[i]}) \cup {row}
         /\ Distinct([rows EXCEPT ![i] = row])
<1> DEFINE new == [rows EXCEPT ![i] = row]
<1>1. new \in Seq(Row) /\ DOMAIN new = DOMAIN rows
  OBVIOUS
<1>2. new[i] = row /\ \A j \in DOMAIN rows \ {i} : new[j] = rows[j]
  OBVIOUS
<1> HIDE DEF new
<1>3. \A j \in DOMAIN rows \ {i} : rows[j] # rows[i]
  BY DEF Distinct
<1>4. Range(new) = (Range(rows) \ {rows[i]}) \cup {row}
  BY <1>1, <1>2, <1>3, Zenon DEF Range
<1>5. \A j \in DOMAIN new : new[j].id = rows[j].id
  BY <1>1, <1>2
<1>6. Distinct(new)
  BY <1>1, <1>5 DEF Distinct
<1> QED BY <1>1, <1>4, <1>6 DEF new

(* Removing one slot removes just the row that was there.                  *)
LEMMA RowRemoved ==
  ASSUME NEW rows \in Seq(Row), Distinct(rows), NEW i \in DOMAIN rows
  PROVE  /\ RemoveAt(rows, i) \in Seq(Row)
         /\ Range(RemoveAt(rows, i)) = Range(rows) \ {rows[i]}
         /\ Distinct(RemoveAt(rows, i))
<1> DEFINE new == RemoveAt(rows, i)
           last == Len(rows)
           At(k) == IF k < i THEN k ELSE k + 1
<1>1. last \in Nat /\ i \in 1 .. last /\ DOMAIN rows = 1 .. last
  OBVIOUS
<1>2. new \in Seq(Row) /\ Len(new) = last - 1 /\ \A k \in 1 .. last - 1 : new[k] = rows[At(k)]
  <2> DEFINE low == SubSeq(rows, 1, i - 1)
             high == SubSeq(rows, i + 1, last)
  <2>1. low \in Seq(Row) /\ Len(low) = i - 1 /\ \A k \in 1 .. i - 1 : low[k] = rows[k]
    BY <1>1
  <2>2. high \in Seq(Row) /\ Len(high) = last - i /\ \A k \in 1 .. last - i : high[k] = rows[k + i]
    BY <1>1
  <2>3. new = low \o high
    BY DEF RemoveAt
  <2> HIDE DEF low, high, new
  <2>4. new \in Seq(Row) /\ Len(new) = last - 1
    <3>1. low \in Seq(Row) /\ high \in Seq(Row)
      BY <2>1, <2>2
    <3>2. low \o high \in Seq(Row) /\ Len(low \o high) = Len(low) + Len(high)
      BY ONLY <3>1
    <3>3. new \in Seq(Row) /\ Len(new) = Len(low) + Len(high)
      BY ONLY <3>2, <2>3
    <3>4. (i - 1) + (last - i) = last - 1
      BY <1>1
    <3> QED BY <3>3, <3>4, <2>1, <2>2
  <2>5. ASSUME NEW k \in 1 .. last - 1 PROVE new[k] = rows[At(k)]
    <3>1. CASE k < i
      BY <3>1, <1>1, <2>1, <2>2, <2>3
    <3>2. CASE ~ (k < i)
      <4>1. new[k] = high[k - (i - 1)] /\ k - (i - 1) \in 1 .. last - i
        BY <3>2, <1>1, <2>1, <2>2, <2>3
      <4>2. k - (i - 1) + i = k + 1
        BY <1>1
      <4> QED BY <3>2, <4>1, <4>2, <2>2
    <3> QED BY <3>1, <3>2
  <2> QED BY <2>4, <2>5
<1>3. DOMAIN new = 1 .. last - 1
  BY <1>2
<1> HIDE DEF new
<1>4. \A k \in DOMAIN new : At(k) \in DOMAIN rows /\ At(k) # i /\ new[k] = rows[At(k)]
  BY <1>1, <1>2, <1>3
<1>5. \A j \in DOMAIN rows \ {i} : \E k \in DOMAIN new : At(k) = j
  <2> TAKE j \in DOMAIN rows \ {i}
  <2>1. CASE j < i
    <3>1. j \in DOMAIN new /\ At(j) = j
      BY <2>1, <1>1, <1>3
    <3> QED BY <3>1
  <2>2. CASE j > i
    <3>1. j - 1 \in DOMAIN new /\ At(j - 1) = j
      BY <2>2, <1>1, <1>3
    <3> QED BY <3>1
  <2> QED BY <2>1, <2>2, <1>1
<1>6. \A k, m \in DOMAIN new : At(k) = At(m) => k = m
  BY <1>3, <1>1
<1>7. \A j \in DOMAIN rows \ {i} : rows[j] # rows[i]
  BY DEF Distinct
<1>8. Range(new) = Range(rows) \ {rows[i]}
  <2> HIDE DEF At
  <2>1. \A k \in DOMAIN new : new[k] \in Range(rows) \ {rows[i]}
    BY <1>4, <1>7 DEF Range
  <2>2. \A j \in DOMAIN rows \ {i} : rows[j] \in Range(new)
    BY <1>4, <1>5 DEF Range
  <2> QED BY <2>1, <2>2, Zenon DEF Range
<1>9. Distinct(new)
  <2> HIDE DEF At
  <2> QED BY <1>4, <1>6 DEF Distinct
<1> QED BY <1>2, <1>8, <1>9 DEF new

(* Every row for itself: what happens to each changes neither its id nor   *)
(* its place.                                                              *)
LEMMA RowsMapped ==
  ASSUME NEW rows \in Seq(Row), Distinct(rows), NEW new, DOMAIN new = DOMAIN rows,
         \A i \in DOMAIN rows : new[i] \in Row /\ new[i].id = rows[i].id,
         new = [i \in DOMAIN rows |-> new[i]]
  PROVE  new \in Seq(Row) /\ Distinct(new)
<1>1. new \in [1 .. Len(rows) -> Row]
  <2>1. DOMAIN rows = 1 .. Len(rows)
    OBVIOUS
  <2> QED BY <2>1
<1>2. new \in Seq(Row)
  BY <1>1
<1>3. Distinct(new)
  BY DEF Distinct
<1> QED BY <1>2, <1>3

(* slot_of: the only row with that id, or 0.                               *)
LEMMA SlotOfId ==
  ASSUME NEW g, g.rows \in Seq(Row), NEW id
  PROVE  \/ SlotOf(g, id) = 0 /\ \A x \in Range(g.rows) : x.id # id
         \/ /\ SlotOf(g, id) # 0 /\ SlotOf(g, id) \in DOMAIN g.rows
            /\ g.rows[SlotOf(g, id)].id = id
            /\ g.rows[SlotOf(g, id)] \in Range(g.rows)
<1> DEFINE S == {i \in 1 .. Len(g.rows) : g.rows[i].id = id}
<1>1. DOMAIN g.rows = 1 .. Len(g.rows)
  OBVIOUS
<1>2. SlotOf(g, id) = IF S # {} THEN Min(S) ELSE 0
  BY DEF SlotOf, SelectInSeq
<1>3. CASE S = {}
  BY <1>1, <1>2, <1>3 DEF Range
<1>4. CASE S # {}
  <2>1. S \subseteq Nat
    OBVIOUS
  <2>2. PICK m \in S : \A k \in S : m <= k
    <3> HIDE DEF S
    <3> QED BY <1>4, <2>1, LeastNumber
  <2>3. Min(S) \in S
    <3> HIDE DEF S
    <3> QED BY <2>2 DEF Min
  <2>4. SlotOf(g, id) = Min(S)
    BY <1>2, <1>4
  <2>5. SlotOf(g, id) \in DOMAIN g.rows /\ SlotOf(g, id) # 0 /\ g.rows[SlotOf(g, id)].id = id
    BY <1>1, <2>3, <2>4
  <2> QED BY <2>5 DEF Range
<1> QED BY <1>3, <1>4

(* SlotWith finds the row of an outpoint, or 0 if there is none.           *)
LEMMA SlotOfOutpoint ==
  ASSUME NEW g, g.rows \in Seq(Row), NEW op
  PROVE  \/ SlotWith(g, op) = 0 /\ \A x \in Range(g.rows) : x.op # op
         \/ /\ SlotWith(g, op) # 0 /\ SlotWith(g, op) \in DOMAIN g.rows
            /\ g.rows[SlotWith(g, op)].op = op
            /\ g.rows[SlotWith(g, op)] \in Range(g.rows)
<1> DEFINE S == {i \in 1 .. Len(g.rows) : g.rows[i].op = op}
<1>1. DOMAIN g.rows = 1 .. Len(g.rows)
  OBVIOUS
<1>2. SlotWith(g, op) = IF S # {} THEN Min(S) ELSE 0
  BY DEF SlotWith, SelectInSeq
<1>3. CASE S = {}
  BY <1>1, <1>2, <1>3 DEF Range
<1>4. CASE S # {}
  <2>1. S \subseteq Nat
    OBVIOUS
  <2>2. PICK m \in S : \A k \in S : m <= k
    <3> HIDE DEF S
    <3> QED BY <1>4, <2>1, LeastNumber
  <2>3. Min(S) \in S
    <3> HIDE DEF S
    <3> QED BY <2>2 DEF Min
  <2>4. SlotWith(g, op) = Min(S)
    BY <1>2, <1>4
  <2>5. SlotWith(g, op) \in DOMAIN g.rows /\ SlotWith(g, op) # 0 /\ g.rows[SlotWith(g, op)].op = op
    BY <1>1, <2>3, <2>4
  <2> QED BY <2>5 DEF Range
<1> QED BY <1>3, <1>4

(* gc_cells keeps the rows whose hold runs, in their order.                *)
LEMMA RowsKept ==
  ASSUME NEW all \in Seq(Row), Distinct(all), NEW now
  PROVE  /\ Kept(all, now) \in Seq(Row) /\ Distinct(Kept(all, now))
         /\ Range(Kept(all, now)) = {x \in Range(all) : ~ Expired(x, now)}
<1> DEFINE n == Len(all)
           Held(k) == {all[i] : i \in {j \in 1 .. k : ~ Expired(all[j], now)}}
<1>1. n \in Nat /\ DOMAIN all = 1 .. n
  OBVIOUS
<1>2. PICK run : /\ run[0] = <<>>
                 /\ \A k \in 0 .. n - 1 : run[k + 1] = Keep(run[k], all[k + 1], now)
                 /\ run[n] = Kept(all, now)
  <2> HIDE DEF n
  <2> QED BY <1>1, KeepRun
<1> DEFINE Good(s, k) == s \in Seq(Row) /\ Distinct(s) /\ Range(s) = Held(k)
           S == {k \in 0 .. n : Good(run[k], k)}
<1>3. 0 \in S
  <2>1. run[0] = <<>> /\ <<>> \in Seq(Row) /\ DOMAIN <<>> = {}
    BY <1>2
  <2>2. Range(run[0]) = {} /\ Distinct(run[0])
    BY <2>1 DEF Range, Distinct
  <2>3. Held(0) = {}
    OBVIOUS
  <2>4. Good(run[0], 0) /\ 0 \in 0 .. n
    BY <1>1, <2>1, <2>2, <2>3
  <2> QED BY <2>4
<1>4. \A k \in 0 .. n - 1 : k \in S => k + 1 \in S
  <2> SUFFICES ASSUME NEW k \in 0 .. n - 1, Good(run[k], k) PROVE Good(run[k + 1], k + 1)
    <3> HIDE DEF Good
    <3>1. \A k \in 0 .. n - 1 : k + 1 \in 0 .. n
      BY <1>1
    <3> QED BY <3>1
  <2> DEFINE row == all[k + 1]
  <2>1. k + 1 \in 1 .. n /\ row \in Row
    BY <1>1
  <2>2. \A j : j \in 1 .. k + 1 <=> j \in 1 .. k \/ j = k + 1
    BY <1>1
  <2>3. run[k + 1] = Keep(run[k], row, now)
    BY <1>2
  <2>4. CASE Expired(row, now)
    <3>1. Held(k + 1) = Held(k)
      BY <2>2, <2>4, Zenon
    <3> QED BY <2>3, <2>4, <3>1 DEF Keep
  <2>5. CASE ~ Expired(row, now)
    <3>1. Held(k + 1) = Held(k) \cup {row}
      <4>1. \A x \in Held(k + 1) : x \in Held(k) \cup {row}
        BY <2>2, Zenon
      <4>2. \A x \in Held(k) : x \in Held(k + 1)
        BY <2>2, Zenon
      <4>3. row \in Held(k + 1)
        BY <2>2, <2>5, Zenon
      <4> HIDE DEF Held
      <4> QED BY <4>1, <4>2, <4>3
    <3>2. \A x \in Held(k) : x.id # row.id
      <4>1. \A j \in 1 .. k : all[j].id # row.id
        BY <1>1, <2>1 DEF Distinct
      <4> QED BY <4>1
    <3> HIDE DEF Held
    <3>3. run[k + 1] = Append(run[k], row)
      BY <2>3, <2>5 DEF Keep
    <3>4. \A x \in Range(run[k]) : x.id # row.id
      BY <3>2
    <3> HIDE DEF row
    <3>5. Good(Append(run[k], row), k + 1)
      BY <2>1, <3>1, <3>4, RowAppended
    <3> QED BY <3>3, <3>5
  <2> QED BY <2>4, <2>5
<1>5. n \in S
  <2> HIDE DEF S, n
  <2>1. \A k \in 0 .. n : k \in S
    BY <1>1, <1>3, <1>4, Climb
  <2> QED BY <1>1, <2>1
<1>6. Held(n) = {x \in Range(all) : ~ Expired(x, now)}
  <2> HIDE DEF n
  <2> QED BY <1>1, Zenon DEF Range
<1> QED BY <1>2, <1>5, <1>6

(* Numbers listed in a sequence have a bound.                              *)
LEMMA Bounded ==
  ASSUME NEW n \in Nat, NEW f, \A i \in 1 .. n : f[i] \in Nat
  PROVE  \E m \in Nat : \A i \in 1 .. n : f[i] <= m
<1> DEFINE S == {k \in 0 .. n : \E m \in Nat : \A i \in 1 .. k : f[i] <= m}
<1>1. 0 \in S
  OBVIOUS
<1>2. \A k \in 0 .. n - 1 : k \in S => k + 1 \in S
  <2> SUFFICES ASSUME NEW k \in 0 .. n - 1, NEW m \in Nat, \A i \in 1 .. k : f[i] <= m
               PROVE  \E q \in Nat : \A i \in 1 .. k + 1 : f[i] <= q
    <3>1. \A k \in 0 .. n - 1 : k + 1 \in 0 .. n
      OBVIOUS
    <3> QED BY <3>1
  <2>1. f[k + 1] \in Nat /\ \A i \in 1 .. k : f[i] \in Nat
    OBVIOUS
  <2>2. CASE f[k + 1] <= m
    <3>1. \A i \in 1 .. k + 1 : f[i] <= m
      BY <2>2
    <3> QED BY <3>1
  <2>3. CASE m <= f[k + 1]
    <3>1. \A i \in 1 .. k + 1 : f[i] <= f[k + 1]
      BY <2>1, <2>3
    <3> QED BY <2>1, <3>1
  <2> QED BY <2>1, <2>2, <2>3
<1>3. n \in S
  <2> HIDE DEF S
  <2>1. \A k \in 0 .. n : k \in S
    BY <1>1, <1>2, Climb
  <2> QED BY <2>1
<1> QED BY <1>3

-----------------------------------------------------------------------------
(* The inductive invariant of the galaxy.  P is the set of heights         *)
(* followed; B gives every outpoint the followed chain created the height  *)
(* of its birth, D every one it spent while the galaxy held it the height  *)
(* of its death; E are the outpoints the cap took, Q the promised ids.     *)

(* The fields of a galaxy.                                                 *)
Fields == {"rows", "next", "index", "hashes", "births", "deaths", "nBirths",
           "nDeaths", "limbo", "backstop", "replay", "hydrated", "out"}

(* Every row the galaxy holds: retained, parked, or waiting in the journal *)
(* for its death to be undone.                                             *)
Carriers(g) ==
  Range(g.rows) \cup Range(g.limbo) \cup UNION {Range(g.deaths[n]) : n \in DOMAIN g.deaths}

(* A sequence, of whatever.                                                *)
Listed(s) == \E S : s \in Seq(S)

(* A galaxy has its fields, and each has its type.                         *)
Shape(g) ==
  /\ DOMAIN g = Fields
  /\ g.rows \in Seq(Row) /\ Distinct(g.rows)
  /\ g.next \in Nat
  /\ \A op \in DOMAIN g.limbo : g.limbo[op] \in Row
  /\ \A n \in DOMAIN g.births : g.births[n] \in Seq(Outpoints)
  /\ \A n \in DOMAIN g.deaths : g.deaths[n] \in Seq(Row)
  /\ g.nBirths \in Int /\ g.nDeaths \in Int
  /\ Listed(g.out)

(* One id for one outpoint.                                                *)
NamesInv(g) ==
  /\ \A x \in Carriers(g) : x.id < g.next
  /\ \A x, y \in Carriers(g) : x.id = y.id <=> x.op = y.op

(* The index names the living rows.                                        *)
IndexInv(g) ==
  /\ \A x \in Range(g.rows) : IsAlive(x) => x.op \in DOMAIN g.index /\ g.index[x.op] = x.id
  /\ \A op \in DOMAIN g.index : \E x \in Range(g.rows) : IsAlive(x) /\ x.op = op

(* What is parked is not born.                                             *)
ParkedInv(g, B) ==
  \A op \in DOMAIN g.limbo : g.limbo[op].op = op /\ op \notin DOMAIN B

(* The index is what was born and neither spent nor taken by the cap.      *)
LedgerInv(g, P, B, D, E) ==
  /\ DOMAIN D \subseteq DOMAIN B
  /\ \A op \in DOMAIN B : B[op] \in P
  /\ \A op \in DOMAIN D : D[op] \in P /\ B[op] <= D[op]
  /\ DOMAIN D \cap E = {}
  /\ DOMAIN g.index = DOMAIN B \ (DOMAIN D \cup E)
  /\ \A x \in Range(g.rows) : x.op \in DOMAIN B

(* The counters count the ledger.                                          *)
CountInv(g, B, D) ==
  /\ IsFiniteSet(DOMAIN B) /\ IsFiniteSet(DOMAIN D)
  /\ g.nBirths = Cardinality(DOMAIN B)
  /\ g.nDeaths = Cardinality(DOMAIN D)

BirthsAt(g, n) == IF n \in DOMAIN g.births THEN g.births[n] ELSE <<>>
DeathsAt(g, n) == IF n \in DOMAIN g.deaths THEN g.deaths[n] ELSE <<>>

(* s lists the births of height n, each once.                              *)
BirthsListed(s, B, n) ==
  /\ \A i, j \in DOMAIN s : s[i] = s[j] => i = j
  /\ \A i \in DOMAIN s : s[i] \in DOMAIN B /\ B[s[i]] = n
  /\ \A op \in DOMAIN B : B[op] = n => \E i \in DOMAIN s : s[i] = op

(* s lists the deaths of height n, each once, as rows still alive.         *)
DeathsListed(s, D, n) ==
  /\ \A i, j \in DOMAIN s : s[i].op = s[j].op => i = j
  /\ \A i \in DOMAIN s : s[i].op \in DOMAIN D /\ D[s[i].op] = n /\ IsAlive(s[i])
  /\ \A op \in DOMAIN D : D[op] = n => \E i \in DOMAIN s : s[i].op = op

(* The journal reaches from some height to the top of the path, and lists  *)
(* what each of its blocks created and spent.                              *)
JournalInv(g, P, B, D, X) ==
  /\ DOMAIN g.hashes \subseteq P
  /\ \A n \in DOMAIN g.hashes, m \in P : m >= n => m \in DOMAIN g.hashes
  /\ DOMAIN g.births \subseteq DOMAIN g.hashes
  /\ DOMAIN g.deaths \subseteq DOMAIN g.hashes
  /\ \A n \in DOMAIN g.hashes \ X :
       BirthsListed(BirthsAt(g, n), B, n) /\ DeathsListed(DeathsAt(g, n), D, n)

(* A promised id belongs to nobody else, and is still kept for its         *)
(* outpoint.                                                               *)
PromInv(g, B, E, Q) ==
  \A op \in DOMAIN Q :
    /\ op \notin E
    /\ op \in DOMAIN B \cup DOMAIN g.limbo
    /\ \A x \in Carriers(g) : x.op = op => x.id = Q[op]

(* A galaxy g that followed the heights P. B maps what was born to its     *)
(* height, D what was spent; the cap took E, the ids Q are promised, and   *)
(* the heights X are being undone.                                         *)
Sound(g, P, B, D, E, Q, X) ==
  /\ Shape(g) /\ NamesInv(g) /\ IndexInv(g) /\ ParkedInv(g, B)
  /\ LedgerInv(g, P, B, D, E) /\ CountInv(g, B, D)
  /\ JournalInv(g, P, B, D, X) /\ PromInv(g, B, E, Q)

(* Every identity in h was in g.                                           *)
NoNewNames(g, h) ==
  \A x \in Carriers(h) : \E y \in Carriers(g) : y.id = x.id /\ y.op = x.op

(* Ids stay one to one with outpoints where a handler brings no new names. *)
LEMMA NamesKept ==
  ASSUME NEW g, NEW h, NamesInv(g), NoNewNames(g, h), h.next = g.next
  PROVE  NamesInv(h)
BY DEF NamesInv, NoNewNames

(* The ids promised to survivors stay theirs where a handler brings no new *)
(* names.                                                                  *)
LEMMA PromiseKept ==
  ASSUME NEW g, NEW h, NEW B, NEW E, NEW Q, NEW C, PromInv(g, B, E, Q), NoNewNames(g, h),
         DOMAIN B \cup DOMAIN g.limbo \subseteq DOMAIN C \cup DOMAIN h.limbo
  PROVE  PromInv(h, C, E, Q)
BY DEF PromInv, NoNewNames

-----------------------------------------------------------------------------
(* Maps.                                                                   *)

(* What a map insertion returns.                                           *)
LEMMA SetFacts ==
  ASSUME NEW f, NEW k, NEW v
  PROVE  /\ DOMAIN Set(f, k, v) = DOMAIN f \cup {k}
         /\ Set(f, k, v)[k] = v
         /\ \A x \in DOMAIN f : x # k => Set(f, k, v)[x] = f[x]
BY DEF Set

(* What removing keys from a map leaves.                                   *)
LEMMA WithoutFacts ==
  ASSUME NEW f, NEW S
  PROVE  /\ DOMAIN Without(f, S) = DOMAIN f \ S
         /\ \A x \in DOMAIN f \ S : Without(f, S)[x] = f[x]
BY DEF Without, Restrict

(* A new key makes a map larger by one.                                    *)
LEMMA CountedIn ==
  ASSUME NEW f, NEW k, NEW v, IsFiniteSet(DOMAIN f), k \notin DOMAIN f
  PROVE  IsFiniteSet(DOMAIN Set(f, k, v)) /\ Cardinality(DOMAIN Set(f, k, v)) = Cardinality(DOMAIN f) + 1
<1>1. DOMAIN Set(f, k, v) = DOMAIN f \cup {k}
  BY SetFacts
<1> QED BY <1>1, FS_AddElement

(* Removing a key makes a map smaller by one.                              *)
LEMMA CountedOut ==
  ASSUME NEW f, NEW k, IsFiniteSet(DOMAIN f), k \in DOMAIN f
  PROVE  /\ IsFiniteSet(DOMAIN Without(f, {k}))
         /\ Cardinality(DOMAIN Without(f, {k})) = Cardinality(DOMAIN f) - 1
BY WithoutFacts, FS_RemoveElement

(* A list of deltas with one more is a list of deltas, and not empty.      *)
LEMMA OneMore ==
  ASSUME NEW s, Listed(s), NEW d
  PROVE  Listed(Append(s, d)) /\ Append(s, d) # <<>>
<1>1. PICK S : s \in Seq(S)
  BY DEF Listed
<1>2. s \in Seq(S \cup {d})
  BY <1>1
<1>3. Append(s, d) \in Seq(S \cup {d}) /\ Len(Append(s, d)) = Len(s) + 1 /\ Len(s) \in Nat
  BY <1>2
<1>4. Append(s, d) # <<>>
  BY <1>3
<1> QED BY <1>3, <1>4 DEF Listed

-----------------------------------------------------------------------------
(* The death pass.                                                         *)

(* A death in block b leads from g to h: r is the row that dies.           *)
DeathStep(g, h, op, b, r) ==
  /\ IsAlive(r) /\ r.op = op /\ r \in Row
  /\ Shape(h)
  /\ Range(h.rows) = (Range(g.rows) \ {r}) \cup {[r EXCEPT !.died = BlockTime[b]]}
  /\ h.index = Without(g.index, {op})
  /\ h.deaths = Recorded(g.deaths, Height[b], r)
  /\ h.nDeaths = g.nDeaths + 1
  /\ h.out = Append(g.out, Deaths({r.id}, BlockTime[b]))
  /\ h.next = g.next /\ h.hashes = g.hashes /\ h.births = g.births
  /\ h.nBirths = g.nBirths /\ h.limbo = g.limbo /\ h.backstop = g.backstop
  /\ h.replay = g.replay /\ h.hydrated = g.hydrated

(* What spending a living cell does to the galaxy (the death pass of       *)
(* handle_tx_landed): its row becomes a corpse, its index entry goes, and  *)
(* the row as it was is recorded in the journal.                           *)
LEMMA SpendEffect ==
  ASSUME NEW g, Shape(g), IndexInv(g), NEW op \in DOMAIN g.index, NEW b \in Blocks
  PROVE  \E r \in Range(g.rows) : DeathStep(g, Spend(g, op, b), op, b, r)
<1> DEFINE h == Spend(g, op, b)
           n == Height[b]
           slot == SlotOf(g, g.index[op])
           r == g.rows[slot]
           dead == [r EXCEPT !.died = BlockTime[b]]
<1>1. slot # 0 /\ slot \in DOMAIN g.rows /\ r.id = g.index[op] /\ r \in Range(g.rows)
  <2>1. PICK x \in Range(g.rows) : IsAlive(x) /\ x.op = op
    BY DEF IndexInv
  <2>2. x.id = g.index[op]
    BY <2>1 DEF IndexInv
  <2> QED BY <2>1, <2>2, SlotOfId DEF Shape
<1>2. IsAlive(r) /\ r.op = op /\ r \in Row
  <2>1. PICK x \in Range(g.rows) : IsAlive(x) /\ x.op = op
    BY DEF IndexInv
  <2>2. x.id = r.id
    BY <1>1, <2>1 DEF IndexInv
  <2>3. PICK j \in DOMAIN g.rows : x = g.rows[j]
    BY <2>1 DEF Range
  <2>4. x = r
    BY <1>1, <2>2, <2>3 DEF Shape, Distinct
  <2> QED BY <1>1, <2>1, <2>4 DEF Shape
<1>3. BlockTime[b] \in Nat /\ dead \in Row /\ dead.id = r.id
  <2>1. BlockTime[b] \in Nat
    BY GalaxyAssumption
  <2> QED BY <2>1, <1>2 DEF Row
<1>4. h = [g EXCEPT !.index = Without(@, {op}), !.rows[slot].died = BlockTime[b],
                    !.deaths = Recorded(@, n, r), !.nDeaths = @ + 1,
                    !.out = Append(@, Deaths({r.id}, BlockTime[b]))]
  BY <1>1, <1>2 DEF Spend, Shape, Fields
<1>5. DOMAIN h = Fields /\ h.rows = [g.rows EXCEPT ![slot] = dead]
  BY <1>4 DEF Shape, Fields
<1>6. /\ h.index = Without(g.index, {op}) /\ h.deaths = Recorded(g.deaths, n, r)
      /\ h.nDeaths = g.nDeaths + 1 /\ h.out = Append(g.out, Deaths({r.id}, BlockTime[b]))
      /\ h.next = g.next /\ h.hashes = g.hashes /\ h.births = g.births
      /\ h.nBirths = g.nBirths /\ h.limbo = g.limbo /\ h.backstop = g.backstop
      /\ h.replay = g.replay /\ h.hydrated = g.hydrated
  BY <1>4 DEF Shape, Fields
<1> HIDE DEF h, r, slot
<1>7. h.rows \in Seq(Row) /\ Distinct(h.rows) /\ Range(h.rows) = (Range(g.rows) \ {r}) \cup {dead}
  <2>1. g.rows \in Seq(Row) /\ Distinct(g.rows)
    BY DEF Shape
  <2>2. g.rows[slot] = r /\ dead.id = g.rows[slot].id
    BY <1>3 DEF r
  <2> HIDE DEF dead
  <2> QED BY <1>1, <1>3, <1>5, <2>1, <2>2, RowReplaced
<1>8. \A m \in DOMAIN h.deaths : h.deaths[m] \in Seq(Row)
  BY <1>2, <1>6 DEF Shape, Recorded, Set
<1>9. Listed(h.out)
  BY <1>6, OneMore DEF Shape
<1>10. Shape(h)
  BY <1>5, <1>6, <1>7, <1>8, <1>9 DEF Shape
<1> QED BY <1>1, <1>2, <1>6, <1>7, <1>10 DEF h, DeathStep

(* A death keeps the galaxy sound: the ledger records one more spent       *)
(* outpoint.                                                               *)
LEMMA SpendSound ==
  ASSUME NEW g, NEW P, P \subseteq Nat, NEW B, NEW D, NEW E, NEW Q,
         Sound(g, P, B, D, E, Q, {}), NEW op \in DOMAIN g.index, NEW b \in Blocks,
         Height[b] \in DOMAIN g.hashes, \A m \in P : m <= Height[b]
  PROVE  Sound(Spend(g, op, b), P, B, Set(D, op, Height[b]), E, Q, {})
<1> DEFINE h == Spend(g, op, b)
           n == Height[b]
           F == Set(D, op, n)
<1>0. PICK r \in Range(g.rows) : DeathStep(g, h, op, b, r)
  BY SpendEffect DEF Sound
<1>1. /\ IsAlive(r) /\ r.op = op /\ r \in Row
      /\ Shape(h)
      /\ Range(h.rows) = (Range(g.rows) \ {r}) \cup {[r EXCEPT !.died = BlockTime[b]]}
      /\ h.index = Without(g.index, {op})
      /\ h.deaths = Recorded(g.deaths, n, r)
      /\ h.nDeaths = g.nDeaths + 1
      /\ h.next = g.next /\ h.hashes = g.hashes /\ h.births = g.births
      /\ h.nBirths = g.nBirths /\ h.limbo = g.limbo
  BY <1>0 DEF DeathStep
<1> DEFINE dead == [r EXCEPT !.died = BlockTime[b]]
<1>2. dead.id = r.id /\ dead.op = op /\ ~ IsAlive(dead) /\ dead \in Row
  <2>1. BlockTime[b] \in Nat
    BY GalaxyAssumption
  <2> QED BY <1>1, <2>1, AliveIsNoTime DEF Row, IsAlive
<1> HIDE DEF h
<1>3. op \in DOMAIN B /\ op \notin DOMAIN D /\ op \notin E /\ B[op] <= n /\ n \in P
  BY DEF Sound, LedgerInv, JournalInv
<1>4. /\ DOMAIN F = DOMAIN D \cup {op} /\ F[op] = n
      /\ \A x \in DOMAIN D : F[x] = D[x]
  <2>1. \A x \in DOMAIN D : x # op
    BY <1>3
  <2> QED BY <2>1 DEF Set
<1>5. /\ DOMAIN h.index = DOMAIN g.index \ {op}
      /\ \A x \in DOMAIN h.index : h.index[x] = g.index[x]
  <2>1. h.index = Without(g.index, {op})
    BY <1>1
  <2> QED BY <2>1 DEF Without, Restrict
<1>6. /\ DOMAIN h.deaths = DOMAIN g.deaths \cup {n}
      /\ \A m \in DOMAIN g.deaths \ {n} : h.deaths[m] = g.deaths[m]
      /\ h.deaths[n] = Append(DeathsAt(g, n), r)
  <2>1. h.deaths = Set(g.deaths, n, IF n \in DOMAIN g.deaths THEN Append(g.deaths[n], r) ELSE <<r>>)
    BY <1>1 DEF Recorded
  <2>2. <<r>> = Append(<<>>, r)
    OBVIOUS
  <2>3. h.deaths = Set(g.deaths, n, Append(DeathsAt(g, n), r))
    BY <2>1, <2>2 DEF DeathsAt
  <2> QED BY <2>3 DEF Set
<1>7. DeathsAt(g, n) \in Seq(Row)
  BY DEF Sound, Shape, DeathsAt
<1> HIDE DEF dead, F
<1>8. \A x \in Range(h.rows) \ {dead} : x \in Range(g.rows) /\ x # r
  BY <1>1 DEF dead
<1>9. \A x \in Range(g.rows) : x.op = op => x = r
  <2> SUFFICES ASSUME NEW x \in Range(g.rows), x.op = op PROVE x = r
    OBVIOUS
  <2>1. x.id = r.id
    BY <1>1 DEF Sound, NamesInv, Carriers
  <2> QED BY <2>1, <1>1 DEF Sound, Shape, Distinct, Range
<1>10. NoNewNames(g, h)
  <2>1. \A x \in Range(h.rows) : \E y \in Carriers(g) : y.id = x.id /\ y.op = x.op
    BY <1>1, <1>2, <1>8 DEF Carriers
  <2>2. \A x \in Range(h.limbo) : x \in Carriers(g)
    BY <1>1 DEF Carriers
  <2>3. \A m \in DOMAIN h.deaths : Range(h.deaths[m]) \subseteq Carriers(g)
    <3> TAKE m \in DOMAIN h.deaths
    <3>1. CASE m # n
      BY <3>1, <1>6 DEF Carriers
    <3>2. CASE m = n
      <4>1. Range(h.deaths[n]) = Range(DeathsAt(g, n)) \cup {r}
        BY <1>1, <1>6, <1>7, RowAppended
      <4>2. Range(DeathsAt(g, n)) \subseteq Carriers(g)
        BY DEF DeathsAt, Carriers, Range
      <4>3. r \in Carriers(g)
        BY <1>1 DEF Carriers
      <4> QED BY <3>2, <4>1, <4>2, <4>3
    <3> QED BY <3>1, <3>2
  <2> QED BY <2>1, <2>2, <2>3 DEF NoNewNames, Carriers
<1>11. NamesInv(h)
  BY <1>1, <1>10, NamesKept DEF Sound
<1>12. IndexInv(h)
  <2>1. \A x \in Range(h.rows) : IsAlive(x) => x.op \in DOMAIN h.index /\ h.index[x.op] = x.id
    BY <1>2, <1>5, <1>8, <1>9 DEF Sound, IndexInv
  <2>2. \A o \in DOMAIN h.index : \E x \in Range(h.rows) : IsAlive(x) /\ x.op = o
    <3> TAKE o \in DOMAIN h.index
    <3>1. PICK x \in Range(g.rows) : IsAlive(x) /\ x.op = o
      BY <1>5 DEF Sound, IndexInv
    <3>2. x \in Range(h.rows)
      BY <1>1, <1>5, <3>1
    <3> QED BY <3>1, <3>2
  <2> QED BY <2>1, <2>2 DEF IndexInv
<1>13. ParkedInv(h, B)
  BY <1>1 DEF Sound, ParkedInv
<1>14. LedgerInv(h, P, B, F, E)
  <2>1. \A x \in Range(h.rows) : x.op \in DOMAIN B
    BY <1>2, <1>3, <1>8 DEF Sound, LedgerInv
  <2> QED BY <1>3, <1>4, <1>5, <2>1 DEF Sound, LedgerInv
<1>15. CountInv(h, B, F)
  BY <1>1, <1>3, CountedIn DEF Sound, CountInv, F
<1>16. JournalInv(h, P, B, F, {})
  <2>1. \A m \in DOMAIN h.hashes : BirthsListed(BirthsAt(h, m), B, m)
    BY <1>1 DEF Sound, JournalInv, BirthsAt
  <2>2. ASSUME NEW m \in DOMAIN h.hashes
        PROVE  DeathsListed(DeathsAt(h, m), F, m)
    <3>1. DeathsListed(DeathsAt(g, m), D, m)
      BY <1>1, <2>2 DEF Sound, JournalInv
    <3>2. CASE m # n
      <4>1. DeathsAt(h, m) = DeathsAt(g, m)
        BY <3>2, <1>6 DEF DeathsAt
      <4> QED BY <3>1, <3>2, <4>1, <1>4 DEF DeathsListed
    <3>3. CASE m = n
      <4> DEFINE s == DeathsAt(g, n)
                 t == Append(s, r)
      <4>1. DeathsAt(h, n) = t
        BY <1>6 DEF DeathsAt
      <4>2. /\ Len(s) \in Nat /\ DOMAIN s = 1 .. Len(s) /\ DOMAIN t = 1 .. Len(s) + 1
            /\ t[Len(s) + 1] = r /\ \A i \in 1 .. Len(s) : t[i] = s[i]
        BY <1>1, <1>7
      <4> HIDE DEF s, t
      <4>3. \A i \in DOMAIN t : i \in DOMAIN s \/ i = Len(s) + 1
        BY <4>2
      <4>4. DeathsListed(s, D, n)
        BY <3>1, <3>3 DEF s
      <4>5. \A i \in DOMAIN s : s[i].op # op
        BY <4>4, <1>3 DEF DeathsListed
      <4>6. \A i, j \in DOMAIN t : t[i].op = t[j].op => i = j
        BY <4>2, <4>3, <4>4, <4>5, <1>1 DEF DeathsListed
      <4>7. \A i \in DOMAIN t : t[i].op \in DOMAIN F /\ F[t[i].op] = n /\ IsAlive(t[i])
        BY <4>2, <4>3, <4>4, <1>1, <1>4 DEF DeathsListed
      <4>8. \A o \in DOMAIN F : F[o] = n => \E i \in DOMAIN t : t[i].op = o
        <5> SUFFICES ASSUME NEW o \in DOMAIN F, F[o] = n PROVE \E i \in DOMAIN t : t[i].op = o
          OBVIOUS
        <5>1. CASE o = op
          <6>1. Len(s) + 1 \in DOMAIN t
            BY <4>2
          <6> QED BY <5>1, <6>1, <4>2, <1>1
        <5>2. CASE o # op
          <6>1. PICK i \in DOMAIN s : s[i].op = o
            BY <5>2, <4>4, <1>4 DEF DeathsListed
          <6>2. i \in DOMAIN t
            BY <4>2
          <6> QED BY <6>1, <6>2, <4>2
        <5> QED BY <5>1, <5>2
      <4> QED BY <3>3, <4>1, <4>6, <4>7, <4>8 DEF DeathsListed
    <3> QED BY <3>2, <3>3
  <2> QED BY <1>1, <1>6, <2>1, <2>2 DEF Sound, JournalInv
<1>17. PromInv(h, B, E, Q)
  BY <1>1, <1>10, PromiseKept DEF Sound
<1> QED BY <1>1, <1>11, <1>12, <1>13, <1>14, <1>15, <1>16, <1>17 DEF Sound, h, F

-----------------------------------------------------------------------------
(* Whatever carries an identity (a row, a parked row, a journalled row) is *)
(* a row.                                                                  *)
LEMMA CarriersAreRows ==
  ASSUME NEW g, Shape(g)
  PROVE  Carriers(g) \subseteq Row /\ Range(g.rows) \subseteq Row
<1>1. Range(g.rows) \subseteq Row
  BY DEF Shape, Range
<1>2. Range(g.limbo) \subseteq Row
  BY DEF Shape, Range
<1>3. \A n \in DOMAIN g.deaths : Range(g.deaths[n]) \subseteq Row
  <2> TAKE n \in DOMAIN g.deaths
  <2>1. g.deaths[n] \in Seq(Row)
    BY DEF Shape
  <2> QED BY <2>1 DEF Range
<1> QED BY <1>1, <1>2, <1>3 DEF Carriers

(* The birth pass.                                                         *)

(* A birth leads from g to h, in a block at height n: r is the new row.    *)
BirthStep(g, h, op, n, r) ==
  /\ IsAlive(r) /\ r.op = op /\ \A x \in Range(g.rows) : x.id # r.id
  /\ op \in DOMAIN g.limbo => r.id = g.limbo[op].id /\ h.next = g.next
  /\ op \notin DOMAIN g.limbo => r.id = g.next /\ h.next = g.next + 1
  /\ Shape(h)
  /\ Range(h.rows) = Range(g.rows) \cup {r}
  /\ h.index = Set(g.index, op, r.id)
  /\ h.births = Recorded(g.births, n, op)
  /\ h.nBirths = g.nBirths + 1
  /\ h.limbo = Without(g.limbo, {op})
  /\ h.out = Append(g.out, Birth(r))
  /\ h.hashes = g.hashes /\ h.deaths = g.deaths /\ h.nDeaths = g.nDeaths
  /\ h.backstop = g.backstop /\ h.replay = g.replay /\ h.hydrated = g.hydrated

(* What creating a cell does (the birth pass of handle_tx_landed): a row   *)
(* with the id of the parked row for this outpoint, or with the next id if *)
(* none is parked.                                                         *)
LEMMA CreateEffect ==
  ASSUME NEW g, NEW P, NEW B, NEW D, NEW E, NEW Q, Sound(g, P, B, D, E, Q, {}),
         NEW op \in Outpoints \ DOMAIN B, NEW b \in Blocks
  PROVE  \E r \in Row : BirthStep(g, Create(g, op, b), op, Height[b], r)
<1> DEFINE h == Create(g, op, b)
           n == Height[b]
           parked == op \in DOMAIN g.limbo
           r == [id   |-> IF parked THEN g.limbo[op].id ELSE g.next,
                 op   |-> op,
                 born |-> IF parked THEN g.limbo[op].born ELSE BlockTime[b],
                 died |-> Alive]
<1>0. Shape(g)
  BY DEF Sound
<1>1. r \in Row /\ IsAlive(r) /\ r.op = op /\ r.id = IF parked THEN g.limbo[op].id ELSE g.next
  <2>1. BlockTime[b] \in Nat
    BY GalaxyAssumption
  <2>2. parked => g.limbo[op].id \in Nat /\ g.limbo[op].born \in Nat
    BY <1>0 DEF Shape, Row
  <2>3. g.next \in Nat
    BY <1>0 DEF Shape
  <2> QED BY <2>1, <2>2, <2>3 DEF Row, IsAlive
<1>2. \A x \in Range(g.rows) : x.id # r.id
  <2> SUFFICES ASSUME NEW x \in Range(g.rows) PROVE x.id # r.id
    OBVIOUS
  <2>1. x \in Carriers(g) /\ x.op # op
    BY DEF Sound, LedgerInv, Carriers
  <2>2. CASE parked
    <3>1. g.limbo[op] \in Carriers(g) /\ g.limbo[op].op = op
      BY <2>2 DEF Sound, ParkedInv, Carriers, Range
    <3> QED BY <1>1, <2>1, <2>2, <3>1 DEF Sound, NamesInv
  <2>3. CASE ~ parked
    <3>1. x.id < g.next /\ g.next \in Nat
      BY <1>0, <2>1 DEF Sound, NamesInv, Shape
    <3> QED BY <1>1, <2>3, <3>1
  <2> QED BY <2>2, <2>3
<1>3. h = [g EXCEPT !.limbo = Without(@, {op}), !.next = IF parked THEN @ ELSE @ + 1,
                    !.rows = Append(@, r), !.index = Set(@, op, r.id),
                    !.births = Recorded(@, n, op), !.nBirths = @ + 1,
                    !.out = Append(@, Birth(r))]
  BY DEF Create
<1> HIDE DEF h, r
<1>4. DOMAIN h = Fields /\ h.rows = Append(g.rows, r)
  BY <1>0, <1>3 DEF Shape, Fields
<1>5. /\ h.index = Set(g.index, op, r.id) /\ h.births = Recorded(g.births, n, op)
      /\ h.nBirths = g.nBirths + 1 /\ h.out = Append(g.out, Birth(r))
      /\ h.next = (IF parked THEN g.next ELSE g.next + 1)
      /\ h.hashes = g.hashes /\ h.deaths = g.deaths
      /\ h.nDeaths = g.nDeaths /\ h.limbo = Without(g.limbo, {op}) /\ h.backstop = g.backstop
      /\ h.replay = g.replay /\ h.hydrated = g.hydrated
  BY <1>0, <1>3 DEF Shape, Fields
<1>6. h.rows \in Seq(Row) /\ Distinct(h.rows) /\ Range(h.rows) = Range(g.rows) \cup {r}
  <2>1. g.rows \in Seq(Row) /\ Distinct(g.rows)
    BY <1>0 DEF Shape
  <2> QED BY <1>1, <1>2, <1>4, <2>1, RowAppended
<1>7. \A m \in DOMAIN h.births : h.births[m] \in Seq(Outpoints)
  BY <1>0, <1>5 DEF Shape, Recorded, Set
<1>8. \A o \in DOMAIN h.limbo : h.limbo[o] \in Row
  BY <1>0, <1>5 DEF Shape, Without, Restrict
<1>9. Listed(h.out)
  BY <1>0, <1>5, OneMore DEF Shape
<1>11. h.next \in Nat /\ h.nBirths \in Int
  BY <1>0, <1>5 DEF Shape
<1>10. Shape(h)
  BY <1>0, <1>11, <1>4, <1>5, <1>6, <1>7, <1>8, <1>9 DEF Shape
<1> QED BY <1>1, <1>2, <1>5, <1>6, <1>10 DEF h, BirthStep

(* A birth keeps the galaxy sound, the names and the promised ids          *)
(* included.                                                               *)
LEMMA CreateSound ==
  ASSUME NEW g, NEW P, NEW B, NEW D, NEW E, NEW Q, Sound(g, P, B, D, E, Q, {}),
         NEW op \in Outpoints \ DOMAIN B, NEW b \in Blocks, Height[b] \in DOMAIN g.hashes
  PROVE  Sound(Create(g, op, b), P, Set(B, op, Height[b]), D, E \ {op}, Q, {})
<1> DEFINE h == Create(g, op, b)
           n == Height[b]
           C == Set(B, op, n)
<1>0. PICK r \in Row : BirthStep(g, h, op, n, r)
  BY CreateEffect
<1>1. /\ IsAlive(r) /\ r.op = op /\ \A x \in Range(g.rows) : x.id # r.id
      /\ op \in DOMAIN g.limbo => r.id = g.limbo[op].id /\ h.next = g.next
      /\ op \notin DOMAIN g.limbo => r.id = g.next /\ h.next = g.next + 1
      /\ Shape(h)
      /\ Range(h.rows) = Range(g.rows) \cup {r}
      /\ h.index = Set(g.index, op, r.id)
      /\ h.births = Recorded(g.births, n, op)
      /\ h.nBirths = g.nBirths + 1
      /\ h.limbo = Without(g.limbo, {op})
      /\ h.hashes = g.hashes /\ h.deaths = g.deaths /\ h.nDeaths = g.nDeaths
  BY <1>0 DEF BirthStep
<1> HIDE DEF h
<1>2. op \notin DOMAIN B /\ op \notin DOMAIN D /\ n \in P
  BY DEF Sound, LedgerInv, JournalInv
<1>3. /\ DOMAIN C = DOMAIN B \cup {op} /\ C[op] = n
      /\ \A x \in DOMAIN B : C[x] = B[x]
  <2>1. \A x \in DOMAIN B : x # op
    BY <1>2
  <2> QED BY <2>1 DEF Set
<1>4. /\ DOMAIN h.index = DOMAIN g.index \cup {op} /\ h.index[op] = r.id
      /\ \A x \in DOMAIN g.index : x # op => h.index[x] = g.index[x]
  <2>1. h.index = Set(g.index, op, r.id)
    BY <1>1
  <2> QED BY <2>1 DEF Set
<1>5. /\ DOMAIN h.births = DOMAIN g.births \cup {n}
      /\ \A m \in DOMAIN g.births \ {n} : h.births[m] = g.births[m]
      /\ h.births[n] = Append(BirthsAt(g, n), op)
  <2>1. h.births = Set(g.births, n, IF n \in DOMAIN g.births THEN Append(g.births[n], op) ELSE <<op>>)
    BY <1>1 DEF Recorded
  <2>2. <<op>> = Append(<<>>, op)
    OBVIOUS
  <2>3. h.births = Set(g.births, n, Append(BirthsAt(g, n), op))
    BY <2>1, <2>2 DEF BirthsAt
  <2> QED BY <2>3 DEF Set
<1>6. BirthsAt(g, n) \in Seq(Outpoints)
  BY DEF Sound, Shape, BirthsAt
<1>7. /\ DOMAIN h.limbo = DOMAIN g.limbo \ {op}
      /\ \A x \in DOMAIN h.limbo : h.limbo[x] = g.limbo[x]
  <2>1. h.limbo = Without(g.limbo, {op})
    BY <1>1
  <2> QED BY <2>1 DEF Without, Restrict
<1> HIDE DEF C
<1>8. \A x \in Carriers(h) : x \in Carriers(g) \/ x = r
  <2>1. \A x \in Range(h.limbo) : x \in Range(g.limbo)
    BY <1>7 DEF Range
  <2> QED BY <1>1, <2>1 DEF Carriers
<1>9. \A x \in Carriers(g) : x.op = op => op \in DOMAIN g.limbo /\ x.id = r.id
  <2> SUFFICES ASSUME NEW x \in Carriers(g), x.op = op
               PROVE  op \in DOMAIN g.limbo /\ x.id = r.id
    OBVIOUS
  <2>1. x \notin Range(g.rows)
    BY <1>2 DEF Sound, LedgerInv
  <2>2. \A m \in DOMAIN g.deaths : x \notin Range(g.deaths[m])
    <3> SUFFICES ASSUME NEW m \in DOMAIN g.deaths, x \in Range(g.deaths[m]) PROVE FALSE
      OBVIOUS
    <3>1. DeathsListed(g.deaths[m], D, m)
      BY DEF Sound, JournalInv, DeathsAt
    <3> QED BY <3>1, <1>2 DEF DeathsListed, Range
  <2>3. PICK o \in DOMAIN g.limbo : x = g.limbo[o]
    BY <2>1, <2>2 DEF Carriers, Range
  <2>4. o = op
    BY <2>3 DEF Sound, ParkedInv
  <2> QED BY <1>1, <2>3, <2>4
<1>10. \A x \in Carriers(g) : x.id = r.id => x.op = op
  <2> SUFFICES ASSUME NEW x \in Carriers(g), x.id = r.id PROVE x.op = op
    OBVIOUS
  <2>1. CASE op \in DOMAIN g.limbo
    <3>1. g.limbo[op] \in Carriers(g) /\ g.limbo[op].op = op
      BY <2>1 DEF Sound, ParkedInv, Carriers, Range
    <3> QED BY <1>1, <2>1, <3>1 DEF Sound, NamesInv
  <2>2. CASE op \notin DOMAIN g.limbo
    <3>1. x.id < g.next /\ x.id = g.next /\ g.next \in Nat
      BY <1>1, <2>2 DEF Sound, NamesInv, Shape
    <3> QED BY <3>1
  <2> QED BY <2>1, <2>2
<1>11. NamesInv(h)
  <2>1. r.id < h.next /\ g.next <= h.next /\ g.next \in Nat
    <3>1. g.next \in Nat
      BY DEF Sound, Shape
    <3>2. CASE op \in DOMAIN g.limbo
      <4>1. g.limbo[op] \in Carriers(g)
        BY <3>2 DEF Carriers, Range
      <4>2. r.id < g.next
        BY <1>1, <3>2, <4>1 DEF Sound, NamesInv
      <4> QED BY <1>1, <3>1, <3>2, <4>2
    <3>3. CASE op \notin DOMAIN g.limbo
      BY <1>1, <3>1, <3>3
    <3> QED BY <3>2, <3>3
  <2>2. \A x \in Carriers(g) : x.id < g.next /\ x.id \in Nat
    BY CarriersAreRows DEF Sound, NamesInv, Row
  <2>3. h.next \in Nat
    BY <1>1 DEF Shape
  <2>4. \A x \in Carriers(h) : x.id < h.next
    BY <1>8, <2>1, <2>2, <2>3
  <2>5. \A x, y \in Carriers(h) : x.id = y.id <=> x.op = y.op
    BY <1>1, <1>8, <1>9, <1>10 DEF Sound, NamesInv
  <2> QED BY <2>4, <2>5 DEF NamesInv
<1>12. IndexInv(h)
  <2>1. \A x \in Range(g.rows) : x.op # op
    BY <1>2 DEF Sound, LedgerInv
  <2>2. \A x \in Range(h.rows) : IsAlive(x) => x.op \in DOMAIN h.index /\ h.index[x.op] = x.id
    BY <1>1, <1>4, <2>1 DEF Sound, IndexInv
  <2>3. \A o \in DOMAIN h.index : \E x \in Range(h.rows) : IsAlive(x) /\ x.op = o
    BY <1>1, <1>4 DEF Sound, IndexInv
  <2> QED BY <2>2, <2>3 DEF IndexInv
<1>13. ParkedInv(h, C)
  BY <1>3, <1>7 DEF Sound, ParkedInv
<1>14. LedgerInv(h, P, C, D, E \ {op})
  <2>1. \A x \in Range(h.rows) : x.op \in DOMAIN C
    BY <1>1, <1>3 DEF Sound, LedgerInv
  <2> QED BY <1>2, <1>3, <1>4, <2>1 DEF Sound, LedgerInv
<1>15. CountInv(h, C, D)
  BY <1>1, <1>2, CountedIn DEF Sound, CountInv, C
<1>16. JournalInv(h, P, C, D, {})
  <2>1. \A m \in DOMAIN h.hashes : DeathsListed(DeathsAt(h, m), D, m)
    BY <1>1 DEF Sound, JournalInv, DeathsAt
  <2>2. ASSUME NEW m \in DOMAIN h.hashes
        PROVE  BirthsListed(BirthsAt(h, m), C, m)
    <3>1. BirthsListed(BirthsAt(g, m), B, m)
      BY <1>1, <2>2 DEF Sound, JournalInv
    <3>2. CASE m # n
      <4>1. BirthsAt(h, m) = BirthsAt(g, m)
        BY <3>2, <1>5 DEF BirthsAt
      <4> QED BY <3>1, <3>2, <4>1, <1>3 DEF BirthsListed
    <3>3. CASE m = n
      <4> DEFINE s == BirthsAt(g, n)
                 t == Append(s, op)
      <4>1. BirthsAt(h, n) = t
        BY <1>5 DEF BirthsAt
      <4>2. /\ Len(s) \in Nat /\ DOMAIN s = 1 .. Len(s) /\ DOMAIN t = 1 .. Len(s) + 1
            /\ t[Len(s) + 1] = op /\ \A i \in 1 .. Len(s) : t[i] = s[i]
        BY <1>6
      <4> HIDE DEF s, t
      <4>3. \A i \in DOMAIN t : i \in DOMAIN s \/ i = Len(s) + 1
        BY <4>2
      <4>4. BirthsListed(s, B, n)
        BY <3>1, <3>3 DEF s
      <4>5. \A i \in DOMAIN s : s[i] # op
        BY <4>4, <1>2 DEF BirthsListed
      <4>6. \A i, j \in DOMAIN t : t[i] = t[j] => i = j
        BY <4>2, <4>3, <4>4, <4>5 DEF BirthsListed
      <4>7. \A i \in DOMAIN t : t[i] \in DOMAIN C /\ C[t[i]] = n
        BY <4>2, <4>3, <4>4, <1>3 DEF BirthsListed
      <4>8. \A o \in DOMAIN C : C[o] = n => \E i \in DOMAIN t : t[i] = o
        <5> SUFFICES ASSUME NEW o \in DOMAIN C, C[o] = n PROVE \E i \in DOMAIN t : t[i] = o
          OBVIOUS
        <5>1. CASE o = op
          <6>1. Len(s) + 1 \in DOMAIN t
            BY <4>2
          <6> QED BY <5>1, <6>1, <4>2
        <5>2. CASE o # op
          <6>1. PICK i \in DOMAIN s : s[i] = o
            BY <5>2, <4>4, <1>3 DEF BirthsListed
          <6>2. i \in DOMAIN t
            BY <4>2
          <6> QED BY <6>1, <6>2, <4>2
        <5> QED BY <5>1, <5>2
      <4> QED BY <3>3, <4>1, <4>6, <4>7, <4>8 DEF BirthsListed
    <3> QED BY <3>2, <3>3
  <2> QED BY <1>1, <1>5, <2>1, <2>2 DEF Sound, JournalInv
<1>17. PromInv(h, C, E \ {op}, Q)
  <2> SUFFICES ASSUME NEW o \in DOMAIN Q
               PROVE  /\ o \notin E \ {op}
                      /\ o \in DOMAIN C \cup DOMAIN h.limbo
                      /\ \A x \in Carriers(h) : x.op = o => x.id = Q[o]
    BY DEF PromInv
  <2>1. /\ o \notin E /\ o \in DOMAIN B \cup DOMAIN g.limbo
        /\ \A x \in Carriers(g) : x.op = o => x.id = Q[o]
    BY DEF Sound, PromInv
  <2>2. r.op = o => r.id = Q[o]
    <3> SUFFICES ASSUME o = op PROVE r.id = Q[o]
      BY <1>1
    <3>1. o \in DOMAIN g.limbo
      BY <2>1, <1>2
    <3>2. g.limbo[o] \in Carriers(g) /\ g.limbo[o].op = o
      BY <3>1 DEF Sound, ParkedInv, Carriers, Range
    <3> QED BY <1>1, <2>1, <3>1, <3>2
  <2> QED BY <1>3, <1>7, <1>8, <2>1, <2>2
<1> QED BY <1>1, <1>11, <1>12, <1>13, <1>14, <1>15, <1>16, <1>17 DEF Sound, h, C

(* No two rows share an outpoint or an id.                                 *)
LEMMA OneRowEach ==
  ASSUME NEW g, Shape(g), NamesInv(g), NEW x \in Range(g.rows), NEW y \in Range(g.rows),
         x.op = y.op \/ x.id = y.id
  PROVE  x = y
<1>1. x.id = y.id
  BY DEF NamesInv, Carriers
<1> QED BY <1>1 DEF Shape, Distinct, Range

-----------------------------------------------------------------------------
(* A death undone.                                                         *)

(* The death of r is undone on the way from g to h.                        *)
RevivalStep(g, h, r) ==
  /\ Shape(h)
  /\ Range(h.rows) = {x \in Range(g.rows) : x.id # r.id} \cup {r}
  /\ h.index = Set(g.index, r.op, r.id)
  /\ h.nDeaths = g.nDeaths - 1
  /\ h.out = Append(g.out, Birth(r))
  /\ h.next = g.next /\ h.hashes = g.hashes /\ h.births = g.births /\ h.deaths = g.deaths
  /\ h.nBirths = g.nBirths /\ h.limbo = g.limbo /\ h.backstop = g.backstop
  /\ h.replay = g.replay /\ h.hydrated = g.hydrated

(* What undoing a death does (resurrect in undo_block): the recorded row   *)
(* is back, alive and indexed.                                             *)
LEMMA ResurrectEffect ==
  ASSUME NEW g, Shape(g), NEW r \in Row
  PROVE  RevivalStep(g, Resurrect(g, r), r)
<1> DEFINE h == Resurrect(g, r)
           slot == SlotOf(g, r.id)
<1>1. h = [g EXCEPT !.rows  = IF slot = 0 THEN Append(@, r) ELSE [@ EXCEPT ![slot] = r],
                    !.index = Set(@, r.op, r.id), !.nDeaths = @ - 1,
                    !.out = Append(@, Birth(r))]
  BY DEF Resurrect
<1> HIDE DEF h
<1>2. DOMAIN h = Fields /\ h.rows = IF slot = 0 THEN Append(g.rows, r) ELSE [g.rows EXCEPT ![slot] = r]
  BY <1>1 DEF Shape, Fields
<1>3. /\ h.index = Set(g.index, r.op, r.id) /\ h.nDeaths = g.nDeaths - 1
      /\ h.out = Append(g.out, Birth(r))
      /\ h.next = g.next /\ h.hashes = g.hashes /\ h.births = g.births /\ h.deaths = g.deaths
      /\ h.nBirths = g.nBirths /\ h.limbo = g.limbo /\ h.backstop = g.backstop
      /\ h.replay = g.replay /\ h.hydrated = g.hydrated
  BY <1>1 DEF Shape, Fields
<1>4. /\ h.rows \in Seq(Row) /\ Distinct(h.rows)
      /\ Range(h.rows) = {x \in Range(g.rows) : x.id # r.id} \cup {r}
  <2>1. g.rows \in Seq(Row) /\ Distinct(g.rows)
    BY DEF Shape
  <2>2. CASE slot = 0
    <3>1. \A x \in Range(g.rows) : x.id # r.id
      BY <2>1, <2>2, SlotOfId
    <3>2. {x \in Range(g.rows) : x.id # r.id} = Range(g.rows)
      BY <3>1
    <3> QED BY <1>2, <2>1, <2>2, <3>1, <3>2, RowAppended
  <2>3. CASE slot # 0
    <3>1. slot \in DOMAIN g.rows /\ g.rows[slot].id = r.id
      BY <2>1, <2>3, SlotOfId
    <3>2. \A x \in Range(g.rows) : x.id # r.id <=> x # g.rows[slot]
      BY <2>1, <3>1 DEF Distinct, Range
    <3>3. {x \in Range(g.rows) : x.id # r.id} = Range(g.rows) \ {g.rows[slot]}
      BY <3>2
    <3> HIDE DEF slot
    <3> QED BY <1>2, <2>1, <2>3, <3>1, <3>3, RowReplaced
  <2> QED BY <2>2, <2>3
<1>5. Listed(h.out)
  BY <1>3, OneMore DEF Shape
<1>6. Shape(h)
  BY <1>2, <1>3, <1>4, <1>5 DEF Shape
<1> QED BY <1>3, <1>4, <1>6 DEF h, RevivalStep

(* Undoing a death keeps the galaxy sound: the ledger forgets that the     *)
(* outpoint was spent.                                                     *)
LEMMA ResurrectSound ==
  ASSUME NEW g, NEW P, NEW B, NEW D, NEW E, NEW Q, NEW X, Sound(g, P, B, D, E, Q, X),
         NEW r \in Carriers(g), IsAlive(r), r.op \in DOMAIN D, D[r.op] \in X
  PROVE  Sound(Resurrect(g, r), P, B, Without(D, {r.op}), E, Q, X)
<1> DEFINE h == Resurrect(g, r)
           F == Without(D, {r.op})
<1>0. r \in Row /\ Shape(g)
  BY CarriersAreRows DEF Sound
<1>1. /\ Shape(h)
      /\ Range(h.rows) = {x \in Range(g.rows) : x.id # r.id} \cup {r}
      /\ h.index = Set(g.index, r.op, r.id)
      /\ h.nDeaths = g.nDeaths - 1
      /\ h.next = g.next /\ h.hashes = g.hashes /\ h.births = g.births /\ h.deaths = g.deaths
      /\ h.nBirths = g.nBirths /\ h.limbo = g.limbo
  BY <1>0, ResurrectEffect DEF RevivalStep
<1> HIDE DEF h
<1>2. r.op \in DOMAIN B /\ r.op \notin E
  BY DEF Sound, LedgerInv
<1>3. DOMAIN F = DOMAIN D \ {r.op} /\ \A x \in DOMAIN F : F[x] = D[x]
  BY DEF Without, Restrict
<1>4. /\ DOMAIN h.index = DOMAIN g.index \cup {r.op} /\ h.index[r.op] = r.id
      /\ \A x \in DOMAIN g.index : x # r.op => h.index[x] = g.index[x]
  <2>1. h.index = Set(g.index, r.op, r.id)
    BY <1>1
  <2> QED BY <2>1 DEF Set
<1> HIDE DEF F
<1>5. \A x \in Carriers(h) : x \in Carriers(g)
  BY <1>1 DEF Carriers
<1>6. NoNewNames(g, h)
  BY <1>5 DEF NoNewNames
<1>7. NamesInv(h)
  BY <1>1, <1>6, NamesKept DEF Sound
<1>8. IndexInv(h)
  <2>1. \A x \in Range(g.rows) : x.id # r.id => x.op # r.op
    BY DEF Sound, NamesInv, Carriers
  <2>2. \A x \in Range(h.rows) : IsAlive(x) => x.op \in DOMAIN h.index /\ h.index[x.op] = x.id
    BY <1>1, <1>4, <2>1 DEF Sound, IndexInv
  <2>3. ASSUME NEW o \in DOMAIN h.index PROVE \E x \in Range(h.rows) : IsAlive(x) /\ x.op = o
    <3>1. CASE o = r.op
      BY <3>1, <1>1
    <3>2. CASE o # r.op
      <4>1. PICK x \in Range(g.rows) : IsAlive(x) /\ x.op = o
        BY <3>2, <1>4 DEF Sound, IndexInv
      <4>2. x.id # r.id
        BY <3>2, <4>1 DEF Sound, NamesInv, Carriers
      <4> QED BY <4>1, <4>2, <1>1
    <3> QED BY <3>1, <3>2
  <2> QED BY <2>2, <2>3 DEF IndexInv
<1>9. ParkedInv(h, B)
  BY <1>1 DEF Sound, ParkedInv
<1>10. LedgerInv(h, P, B, F, E)
  <2>1. \A x \in Range(h.rows) : x.op \in DOMAIN B
    BY <1>1, <1>2 DEF Sound, LedgerInv
  <2> QED BY <1>2, <1>3, <1>4, <2>1 DEF Sound, LedgerInv
<1>11. CountInv(h, B, F)
  BY <1>1, CountedOut DEF Sound, CountInv, F
<1>12. JournalInv(h, P, B, F, X)
  <2>1. \A m \in DOMAIN h.hashes \ X : BirthsListed(BirthsAt(h, m), B, m)
    BY <1>1 DEF Sound, JournalInv, BirthsAt
  <2>2. ASSUME NEW m \in DOMAIN h.hashes \ X
        PROVE  DeathsListed(DeathsAt(h, m), F, m)
    <3>1. DeathsListed(DeathsAt(g, m), D, m)
      BY <1>1, <2>2 DEF Sound, JournalInv
    <3>2. DeathsAt(h, m) = DeathsAt(g, m)
      BY <1>1 DEF DeathsAt
    <3>3. D[r.op] # m
      BY <2>2
    <3> QED BY <3>1, <3>2, <3>3, <1>3 DEF DeathsListed
  <2> QED BY <1>1, <2>1, <2>2 DEF Sound, JournalInv
<1>13. PromInv(h, B, E, Q)
  BY <1>1, <1>6, PromiseKept DEF Sound
<1> QED BY <1>1, <1>7, <1>8, <1>9, <1>10, <1>11, <1>12, <1>13 DEF Sound, h, F

-----------------------------------------------------------------------------
(* A birth undone.                                                         *)

(* The birth of op is undone on the way from g to h.                       *)
ParkingStep(g, h, op) ==
  /\ Shape(h)
  /\ \/ (\A x \in Range(g.rows) : x.op # op) /\ h.rows = g.rows /\ h.limbo = g.limbo
     \/ \E r \in Range(g.rows) : /\ r.op = op
                                 /\ Range(h.rows) = Range(g.rows) \ {r}
                                 /\ h.limbo = Set(g.limbo, op, r)
  /\ h.index = Without(g.index, {op})
  /\ h.nBirths = g.nBirths - 1
  /\ h.next = g.next /\ h.hashes = g.hashes /\ h.births = g.births /\ h.deaths = g.deaths
  /\ h.nDeaths = g.nDeaths /\ h.backstop = g.backstop
  /\ h.replay = g.replay /\ h.hydrated = g.hydrated /\ h.out = g.out

(* What undoing a birth does (the birth loop of undo_block): the row goes  *)
(* to the limbo, where there is one.                                       *)
LEMMA ParkEffect ==
  ASSUME NEW g, Shape(g), NEW op
  PROVE  ParkingStep(g, Park(g, op), op)
<1> DEFINE h == Park(g, op)
           indexed == IF op \in DOMAIN g.index THEN SlotOf(g, g.index[op]) ELSE 0
           trusted == indexed # 0 /\ g.rows[indexed].op = op
           slot == IF trusted THEN indexed ELSE SlotWith(g, op)
           unindexed == [g EXCEPT !.index = Without(@, {op}), !.nBirths = @ - 1]
<1>1. h = IF slot = 0 THEN unindexed
          ELSE [unindexed EXCEPT !.rows = RemoveAt(@, slot), !.limbo = Set(@, op, g.rows[slot])]
  BY DEF Park
<1>2. g.rows \in Seq(Row) /\ Distinct(g.rows)
  BY DEF Shape
<1>3. \/ slot = 0 /\ \A x \in Range(g.rows) : x.op # op
      \/ slot # 0 /\ slot \in DOMAIN g.rows /\ g.rows[slot].op = op /\ g.rows[slot] \in Range(g.rows)
  <2>1. CASE trusted
    <3>1. op \in DOMAIN g.index /\ indexed = SlotOf(g, g.index[op]) /\ indexed # 0
      BY <2>1
    <3>2. indexed \in DOMAIN g.rows /\ g.rows[indexed] \in Range(g.rows)
      BY <1>2, <3>1, SlotOfId
    <3> QED BY <2>1, <3>1, <3>2
  <2>2. CASE ~ trusted
    <3>1. slot = SlotWith(g, op)
      BY <2>2
    <3> HIDE DEF slot
    <3> QED BY <1>2, <3>1, SlotOfOutpoint
  <2> QED BY <2>1, <2>2
<1> HIDE DEF h, slot
<1>4. /\ DOMAIN h = Fields
      /\ h.rows = IF slot = 0 THEN g.rows ELSE RemoveAt(g.rows, slot)
      /\ h.limbo = IF slot = 0 THEN g.limbo ELSE Set(g.limbo, op, g.rows[slot])
  BY <1>1 DEF Shape, Fields
<1>5. /\ h.index = Without(g.index, {op}) /\ h.nBirths = g.nBirths - 1
      /\ h.next = g.next /\ h.hashes = g.hashes /\ h.births = g.births /\ h.deaths = g.deaths
      /\ h.nDeaths = g.nDeaths /\ h.backstop = g.backstop
      /\ h.replay = g.replay /\ h.hydrated = g.hydrated /\ h.out = g.out
  BY <1>1 DEF Shape, Fields
<1>6. CASE slot = 0
  <2>1. Shape(h)
    BY <1>4, <1>5, <1>6 DEF Shape
  <2> QED BY <1>3, <1>4, <1>5, <1>6, <2>1 DEF ParkingStep, h
<1>7. CASE slot # 0
  <2>1. /\ h.rows \in Seq(Row) /\ Distinct(h.rows)
        /\ Range(h.rows) = Range(g.rows) \ {g.rows[slot]}
    BY <1>2, <1>3, <1>4, <1>7, RowRemoved
  <2>2. h.limbo = Set(g.limbo, op, g.rows[slot])
    BY <1>4, <1>7
  <2>3. \A o \in DOMAIN h.limbo : h.limbo[o] \in Row
    BY <1>2, <1>3, <1>7, <2>2 DEF Shape, Set
  <2>4. Shape(h)
    BY <1>4, <1>5, <2>1, <2>3 DEF Shape
  <2> QED BY <1>3, <1>5, <1>7, <2>1, <2>2, <2>4 DEF ParkingStep, h
<1> QED BY <1>6, <1>7

(* Undoing a birth keeps the galaxy sound: the ledger forgets the          *)
(* outpoint, whose identity waits in the limbo.                            *)
LEMMA ParkSound ==
  ASSUME NEW g, NEW P, NEW B, NEW D, NEW E, NEW Q, NEW X, Sound(g, P, B, D, E, Q, X),
         NEW op \in DOMAIN B, op \notin DOMAIN D, B[op] \in X
  PROVE  Sound(Park(g, op), P, Without(B, {op}), D, E, Q, X)
<1> DEFINE h == Park(g, op)
           C == Without(B, {op})
<1>0. Shape(g) /\ NamesInv(g)
  BY DEF Sound
<1>1. ParkingStep(g, h, op)
  BY <1>0, ParkEffect
<1> HIDE DEF h
<1>2. /\ Shape(h)
      /\ h.index = Without(g.index, {op})
      /\ h.nBirths = g.nBirths - 1
      /\ h.next = g.next /\ h.hashes = g.hashes /\ h.births = g.births /\ h.deaths = g.deaths
      /\ h.nDeaths = g.nDeaths
  BY <1>1 DEF ParkingStep
<1>3. DOMAIN C = DOMAIN B \ {op} /\ \A x \in DOMAIN C : C[x] = B[x]
  BY DEF Without, Restrict
<1>4. DOMAIN h.index = DOMAIN g.index \ {op} /\ \A x \in DOMAIN h.index : h.index[x] = g.index[x]
  BY <1>2 DEF Without, Restrict
<1> HIDE DEF C
<1>5. Range(h.rows) = {x \in Range(g.rows) : x.op # op}
  <2>1. CASE (\A x \in Range(g.rows) : x.op # op) /\ h.rows = g.rows
    BY <2>1
  <2>2. CASE \E r \in Range(g.rows) : r.op = op /\ Range(h.rows) = Range(g.rows) \ {r}
    <3>1. PICK r \in Range(g.rows) : r.op = op /\ Range(h.rows) = Range(g.rows) \ {r}
      BY <2>2
    <3>2. \A x \in Range(g.rows) : x.op # op <=> x # r
      BY <1>0, <3>1, OneRowEach
    <3> QED BY <3>1, <3>2
  <2> QED BY <1>1, <2>1, <2>2 DEF ParkingStep
<1>6. /\ DOMAIN g.limbo \subseteq DOMAIN h.limbo /\ DOMAIN h.limbo \subseteq DOMAIN g.limbo \cup {op}
      /\ \A o \in DOMAIN g.limbo : o # op => h.limbo[o] = g.limbo[o]
      /\ op \in DOMAIN h.limbo => h.limbo[op] \in Carriers(g) /\ h.limbo[op].op = op
      /\ (\E x \in Range(g.rows) : x.op = op) => op \in DOMAIN h.limbo
  <2>1. CASE (\A x \in Range(g.rows) : x.op # op) /\ h.limbo = g.limbo
    BY <2>1 DEF Sound, ParkedInv, Carriers, Range
  <2>2. CASE \E r \in Range(g.rows) : r.op = op /\ h.limbo = Set(g.limbo, op, r)
    <3>1. PICK r \in Range(g.rows) : r.op = op /\ h.limbo = Set(g.limbo, op, r)
      BY <2>2
    <3>2. /\ DOMAIN h.limbo = DOMAIN g.limbo \cup {op} /\ h.limbo[op] = r
          /\ \A o \in DOMAIN g.limbo : o # op => h.limbo[o] = g.limbo[o]
      BY <3>1 DEF Set
    <3> QED BY <3>1, <3>2 DEF Carriers
  <2> QED BY <1>1, <2>1, <2>2 DEF ParkingStep
<1>7. \A x \in Carriers(h) : x \in Carriers(g)
  <2>1. \A o \in DOMAIN h.limbo : h.limbo[o] \in Carriers(g)
    BY <1>6 DEF Carriers, Range
  <2>2. \A x \in Range(h.limbo) : x \in Carriers(g)
    BY <2>1 DEF Range
  <2> QED BY <1>2, <1>5, <2>2 DEF Carriers
<1>8. NoNewNames(g, h)
  BY <1>7 DEF NoNewNames
<1>9. NamesInv(h)
  BY <1>0, <1>2, <1>8, NamesKept
<1>10. IndexInv(h)
  BY <1>4, <1>5 DEF Sound, IndexInv
<1>11. ParkedInv(h, C)
  BY <1>3, <1>6 DEF Sound, ParkedInv
<1>12. LedgerInv(h, P, C, D, E)
  <2>1. \A x \in Range(h.rows) : x.op \in DOMAIN C
    BY <1>3, <1>5 DEF Sound, LedgerInv
  <2> QED BY <1>3, <1>4, <2>1 DEF Sound, LedgerInv
<1>13. CountInv(h, C, D)
  BY <1>2, CountedOut DEF Sound, CountInv, C
<1>14. JournalInv(h, P, C, D, X)
  <2>1. \A m \in DOMAIN h.hashes \ X : DeathsListed(DeathsAt(h, m), D, m)
    BY <1>2 DEF Sound, JournalInv, DeathsAt
  <2>2. ASSUME NEW m \in DOMAIN h.hashes \ X
        PROVE  BirthsListed(BirthsAt(h, m), C, m)
    <3>1. BirthsListed(BirthsAt(g, m), B, m)
      BY <1>2, <2>2 DEF Sound, JournalInv
    <3>2. BirthsAt(h, m) = BirthsAt(g, m)
      BY <1>2 DEF BirthsAt
    <3>3. B[op] # m
      BY <2>2
    <3> QED BY <3>1, <3>2, <3>3, <1>3 DEF BirthsListed
  <2> QED BY <1>2, <2>1, <2>2 DEF Sound, JournalInv
<1>15. PromInv(h, C, E, Q)
  <2> SUFFICES ASSUME NEW o \in DOMAIN Q
               PROVE  o \in DOMAIN C \cup DOMAIN h.limbo /\ \A x \in Carriers(h) : x.op = o => x.id = Q[o]
    BY DEF PromInv, Sound
  <2>1. \A x \in Carriers(h) : x.op = o => x.id = Q[o]
    BY <1>7 DEF Sound, PromInv
  <2>2. o \in DOMAIN C \cup DOMAIN h.limbo
    <3>1. o \notin E /\ o \in DOMAIN B \cup DOMAIN g.limbo
      BY DEF Sound, PromInv
    <3>2. CASE o = op
      <4>1. o \in DOMAIN g.index
        BY <3>1, <3>2 DEF Sound, LedgerInv
      <4>2. \E x \in Range(g.rows) : x.op = op
        BY <3>2, <4>1 DEF Sound, IndexInv
      <4> QED BY <3>2, <4>2, <1>6
    <3>3. CASE o # op
      BY <3>1, <3>3, <1>3, <1>6
    <3> QED BY <3>2, <3>3
  <2> QED BY <2>1, <2>2
<1> QED BY <1>2, <1>9, <1>10, <1>11, <1>12, <1>13, <1>14, <1>15 DEF Sound, h, C

-----------------------------------------------------------------------------
(* The cap and the corpses.                                                *)

(* What the cap makes of a row.                                            *)
Corpse(x, K, t) == IF IsAlive(x) /\ x.op \in K THEN [x EXCEPT !.died = t] ELSE x

(* The cap takes the outpoints K.                                          *)
CapStep(g, h, t, K) ==
  /\ K \subseteq DOMAIN g.index
  /\ Shape(h)
  /\ Range(h.rows) = {Corpse(x, K, t) : x \in Range(g.rows)}
  /\ DOMAIN h.index = DOMAIN g.index \ K
  /\ \A op \in DOMAIN h.index : h.index[op] = g.index[op]
  /\ \/ K = {} /\ h.out = g.out
     \/ h.out = Append(g.out, Deaths({x.id : x \in {y \in Range(g.rows) : IsAlive(y) /\ y.op \in K}}, t))
  /\ h.next = g.next /\ h.hashes = g.hashes /\ h.births = g.births /\ h.deaths = g.deaths
  /\ h.nBirths = g.nBirths /\ h.nDeaths = g.nDeaths /\ h.limbo = g.limbo
  /\ h.backstop = g.backstop /\ h.replay = g.replay /\ h.hydrated = g.hydrated

(* The cap turns a living row of a taken outpoint into a corpse, and       *)
(* leaves any other row as it is.                                          *)
LEMMA CorpseFacts ==
  ASSUME NEW x \in Row, NEW K, NEW t \in Nat
  PROVE  /\ Corpse(x, K, t) \in Row
         /\ Corpse(x, K, t).id = x.id /\ Corpse(x, K, t).op = x.op
         /\ IsAlive(Corpse(x, K, t)) <=> IsAlive(x) /\ x.op \notin K
         /\ IsAlive(Corpse(x, K, t)) => Corpse(x, K, t) = x
         /\ IsAlive(x) /\ x.op \in K => Corpse(x, K, t).died = t
BY AliveIsNoTime DEF Corpse, Row, IsAlive

(* What enforce_cap does: it takes some indexed outpoints, whose rows      *)
(* become corpses.                                                         *)
LEMMA CapEffect ==
  ASSUME NEW g, Shape(g), IndexInv(g), NamesInv(g), NEW t \in Nat
  PROVE  \E K : CapStep(g, EnforceCap(g, t), t, K)
<1> DEFINE h == EnforceCap(g, t)
           over == Cardinality(Living(g)) - CellCap
           killed == {i \in Living(g) : Cardinality({j \in Living(g) : j <= i}) <= over}
           K == {g.rows[i].op : i \in killed}
<1>1. CASE over <= 0
  <2>1. h = g
    BY <1>1 DEF EnforceCap
  <2>2. \A x : Corpse(x, {}, t) = x
    BY DEF Corpse
  <2>3. Range(g.rows) = {Corpse(x, {}, t) : x \in Range(g.rows)}
    BY <2>2
  <2>4. CapStep(g, g, t, {})
    BY <2>3 DEF CapStep
  <2> QED BY <2>1, <2>4
<1>2. CASE ~ (over <= 0)
  <2>1. h = [g EXCEPT !.rows = [i \in DOMAIN @ |-> IF i \in killed THEN [@[i] EXCEPT !.died = t]
                                                               ELSE @[i]],
                      !.index = Without(@, K),
                      !.out = Append(@, Deaths({g.rows[i].id : i \in killed}, t))]
    BY <1>2 DEF EnforceCap
  <2>2. killed \subseteq Living(g)
    OBVIOUS
  <2> HIDE DEF h, killed
  <2>3. /\ DOMAIN h = Fields
        /\ h.rows = [i \in DOMAIN g.rows |-> IF i \in killed THEN [g.rows[i] EXCEPT !.died = t]
                                                             ELSE g.rows[i]]
    BY <2>1 DEF Shape, Fields
  <2>4. /\ h.index = Without(g.index, K) /\ h.out = Append(g.out, Deaths({g.rows[i].id : i \in killed}, t))
        /\ h.next = g.next /\ h.hashes = g.hashes /\ h.births = g.births /\ h.deaths = g.deaths
        /\ h.nBirths = g.nBirths /\ h.nDeaths = g.nDeaths /\ h.limbo = g.limbo
        /\ h.backstop = g.backstop /\ h.replay = g.replay /\ h.hydrated = g.hydrated
    BY <2>1 DEF Shape, Fields
  <2>5. \A i \in DOMAIN g.rows : g.rows[i] \in Row /\ g.rows[i] \in Range(g.rows)
    BY DEF Shape, Range
  <2>6. \A i \in DOMAIN g.rows : IsAlive(g.rows[i]) /\ g.rows[i].op \in K <=> i \in killed
    <3> TAKE i \in DOMAIN g.rows
    <3>1. i \in killed => IsAlive(g.rows[i]) /\ g.rows[i].op \in K
      BY <2>2 DEF Living
    <3>2. ASSUME IsAlive(g.rows[i]), g.rows[i].op \in K PROVE i \in killed
      <4>1. PICK j \in killed : g.rows[j].op = g.rows[i].op
        BY <3>2
      <4>2. j \in DOMAIN g.rows
        BY <2>2 DEF Living
      <4>3. g.rows[i] = g.rows[j]
        BY <4>1, <4>2, <2>5, OneRowEach
      <4>4. i = j
        BY <4>2, <4>3 DEF Shape, Distinct
      <4> QED BY <4>4
    <3> QED BY <3>1, <3>2
  <2>7. \A i \in DOMAIN g.rows : h.rows[i] = Corpse(g.rows[i], K, t)
    BY <2>3, <2>6 DEF Corpse
  <2>8. DOMAIN h.rows = DOMAIN g.rows
    BY <2>3
  <2>9. K \subseteq DOMAIN g.index
    <3>1. \A i \in killed : g.rows[i].op \in DOMAIN g.index
      BY <2>2, <2>5 DEF IndexInv, Living
    <3> QED BY <3>1
  <2>10. {g.rows[i].id : i \in killed} = {x.id : x \in {y \in Range(g.rows) : IsAlive(y) /\ y.op \in K}}
    <3>1. \A i \in killed : i \in DOMAIN g.rows
      BY <2>2 DEF Living
    <3>2. \A i \in killed : g.rows[i] \in {y \in Range(g.rows) : IsAlive(y) /\ y.op \in K}
      BY <2>5, <2>6, <3>1
    <3>3. \A x \in {y \in Range(g.rows) : IsAlive(y) /\ y.op \in K} : \E i \in killed : x = g.rows[i]
      BY <2>6 DEF Range
    <3> HIDE DEF K
    <3> QED BY <3>2, <3>3
  <2> HIDE DEF K
  <2>11. h.rows \in Seq(Row) /\ Distinct(h.rows)
    <3>1. \A i \in DOMAIN g.rows : h.rows[i] \in Row /\ h.rows[i].id = g.rows[i].id
      BY <2>5, <2>7, CorpseFacts
    <3>2. h.rows = [i \in DOMAIN g.rows |-> h.rows[i]]
      BY <2>3, <2>8, Zenon
    <3>3. g.rows \in Seq(Row) /\ Distinct(g.rows)
      BY DEF Shape
    <3> QED BY <2>8, <3>1, <3>2, <3>3, RowsMapped
  <2>12. Range(h.rows) = {Corpse(x, K, t) : x \in Range(g.rows)}
    BY <2>7, <2>8 DEF Range
  <2>13. Listed(h.out)
    BY <2>4, OneMore DEF Shape
  <2>14. Shape(h)
    BY <2>3, <2>4, <2>11, <2>13 DEF Shape
  <2>15. DOMAIN h.index = DOMAIN g.index \ K /\ \A op \in DOMAIN h.index : h.index[op] = g.index[op]
    BY <2>4 DEF Without, Restrict
  <2>16. CapStep(g, h, t, K)
    BY <2>4, <2>9, <2>10, <2>12, <2>14, <2>15 DEF CapStep
  <2> QED BY <2>16 DEF h
<1> QED BY <1>1, <1>2

(* The cap keeps the galaxy sound: what it takes is neither unspent in the *)
(* index nor promised any more.                                            *)
LEMMA CapSound ==
  ASSUME NEW g, NEW h, NEW P, NEW B, NEW D, NEW E, NEW Q, NEW X, Sound(g, P, B, D, E, Q, X),
         NEW t \in Nat, NEW K, CapStep(g, h, t, K)
  PROVE  Sound(h, P, B, D, E \cup K, Without(Q, K), X)
<1>1. /\ K \subseteq DOMAIN g.index
      /\ Shape(h)
      /\ Range(h.rows) = {Corpse(x, K, t) : x \in Range(g.rows)}
      /\ DOMAIN h.index = DOMAIN g.index \ K
      /\ \A op \in DOMAIN h.index : h.index[op] = g.index[op]
      /\ h.next = g.next /\ h.hashes = g.hashes /\ h.births = g.births /\ h.deaths = g.deaths
      /\ h.nBirths = g.nBirths /\ h.nDeaths = g.nDeaths /\ h.limbo = g.limbo
  BY DEF CapStep
<1>2. \A x \in Range(g.rows) :
        /\ Corpse(x, K, t).id = x.id /\ Corpse(x, K, t).op = x.op
        /\ IsAlive(Corpse(x, K, t)) <=> IsAlive(x) /\ x.op \notin K
        /\ Corpse(x, K, t) \in Range(h.rows)
  <2>1. Range(g.rows) \subseteq Row
    BY CarriersAreRows DEF Sound
  <2> QED BY <1>1, <2>1, CorpseFacts
<1>3. \A x \in Range(h.rows) : \E y \in Range(g.rows) :
        /\ x.id = y.id /\ x.op = y.op
        /\ IsAlive(x) <=> IsAlive(y) /\ y.op \notin K
  BY <1>1, <1>2
<1>4. NoNewNames(g, h)
  BY <1>1, <1>3 DEF NoNewNames, Carriers
<1>5. NamesInv(h)
  BY <1>1, <1>4, NamesKept DEF Sound
<1>6. IndexInv(h)
  <2>1. \A x \in Range(h.rows) : IsAlive(x) => x.op \in DOMAIN h.index /\ h.index[x.op] = x.id
    BY <1>1, <1>3 DEF Sound, IndexInv
  <2>2. ASSUME NEW o \in DOMAIN h.index PROVE \E x \in Range(h.rows) : IsAlive(x) /\ x.op = o
    <3>1. PICK y \in Range(g.rows) : IsAlive(y) /\ y.op = o
      BY <1>1 DEF Sound, IndexInv
    <3>2. o \notin K
      BY <1>1
    <3> QED BY <1>2, <3>1, <3>2
  <2> QED BY <2>1, <2>2 DEF IndexInv
<1>7. ParkedInv(h, B)
  BY <1>1 DEF Sound, ParkedInv
<1>8. LedgerInv(h, P, B, D, E \cup K)
  <2>1. \A x \in Range(h.rows) : x.op \in DOMAIN B
    BY <1>3 DEF Sound, LedgerInv
  <2> QED BY <1>1, <2>1 DEF Sound, LedgerInv
<1>9. CountInv(h, B, D)
  BY <1>1 DEF Sound, CountInv
<1>10. JournalInv(h, P, B, D, X)
  BY <1>1 DEF Sound, JournalInv, BirthsAt, DeathsAt
<1>11. PromInv(h, B, E \cup K, Without(Q, K))
  <2>1. PromInv(h, B, E, Q)
    <3>1. DOMAIN B \cup DOMAIN g.limbo \subseteq DOMAIN B \cup DOMAIN h.limbo
      BY <1>1
    <3> QED BY <1>4, <3>1, PromiseKept DEF Sound
  <2>2. DOMAIN Without(Q, K) = DOMAIN Q \ K /\ \A o \in DOMAIN Q \ K : Without(Q, K)[o] = Q[o]
    BY DEF Without, Restrict
  <2> QED BY <2>1, <2>2 DEF PromInv
<1> QED BY <1>1, <1>5, <1>6, <1>7, <1>8, <1>9, <1>10, <1>11 DEF Sound

(* The corpses that expired are swept on the way from g to h.              *)
GcStep(g, h, now) ==
  /\ Shape(h)
  /\ Range(h.rows) = {x \in Range(g.rows) : ~ Expired(x, now)}
  /\ DOMAIN h.index = DOMAIN g.index
  /\ \A op \in DOMAIN h.index : h.index[op] = g.index[op]
  /\ \/ h.out = g.out /\ Range(h.rows) = Range(g.rows)
     \/ h.out = Append(g.out, Gc({x.id : x \in {y \in Range(g.rows) : Expired(y, now)}}))
  /\ h.next = g.next /\ h.hashes = g.hashes /\ h.births = g.births /\ h.deaths = g.deaths
  /\ h.nBirths = g.nBirths /\ h.nDeaths = g.nDeaths /\ h.limbo = g.limbo
  /\ h.backstop = g.backstop /\ h.replay = g.replay /\ h.hydrated = g.hydrated

(* What gc_cells does: corpses held long enough leave the rows, the index  *)
(* stays as it is.                                                         *)
LEMMA GcEffect ==
  ASSUME NEW g, Shape(g), IndexInv(g), NamesInv(g), NEW now
  PROVE  GcStep(g, GcCells(g, now), now)
<1> DEFINE h == GcCells(g, now)
           expired == {g.rows[i] : i \in {j \in DOMAIN g.rows : Expired(g.rows[j], now)}}
           ids     == {row.id : row \in expired}
           stale   == {row.op : row \in expired}
           left == {op \in stale \cap DOMAIN g.index : g.index[op] \in ids}
           f == [g EXCEPT !.rows = Kept(@, now), !.index = Without(@, left)]
<1>1. h = IF ids = {} THEN f ELSE [f EXCEPT !.out = Append(@, Gc(ids))]
  BY DEF GcCells, Gone, Sends
<1>2. expired = {y \in Range(g.rows) : Expired(y, now)}
  BY DEF Range
<1> HIDE DEF expired
<1>3. left = {}
  <2> SUFFICES ASSUME NEW op \in left PROVE FALSE
    OBVIOUS
  <2>1. op \in DOMAIN g.index
    OBVIOUS
  <2>2. PICK x \in expired : g.index[op] = x.id
    OBVIOUS
  <2>3. PICK y \in Range(g.rows) : IsAlive(y) /\ y.op = op
    BY <2>1 DEF IndexInv
  <2>4. y.id = x.id /\ x \in Range(g.rows) /\ ~ IsAlive(x)
    BY <1>2, <2>2, <2>3 DEF IndexInv, Expired
  <2> QED BY <2>3, <2>4, OneRowEach
<1> HIDE DEF h, left, ids
<1>4. /\ DOMAIN h = Fields /\ h.rows = Kept(g.rows, now)
      /\ h.index = Without(g.index, left)
      /\ h.out = IF ids = {} THEN g.out ELSE Append(g.out, Gc(ids))
  BY <1>1 DEF Shape, Fields
<1>5. /\ h.next = g.next /\ h.hashes = g.hashes /\ h.births = g.births /\ h.deaths = g.deaths
      /\ h.nBirths = g.nBirths /\ h.nDeaths = g.nDeaths /\ h.limbo = g.limbo
      /\ h.backstop = g.backstop /\ h.replay = g.replay /\ h.hydrated = g.hydrated
  BY <1>1 DEF Shape, Fields
<1>6. /\ h.rows \in Seq(Row) /\ Distinct(h.rows)
      /\ Range(h.rows) = {x \in Range(g.rows) : ~ Expired(x, now)}
  BY <1>4, RowsKept DEF Shape
<1>7. DOMAIN h.index = DOMAIN g.index /\ \A op \in DOMAIN h.index : h.index[op] = g.index[op]
  BY <1>3, <1>4 DEF Without, Restrict
<1>8. Listed(h.out)
  BY <1>4, OneMore DEF Shape
<1>9. Shape(h)
  BY <1>4, <1>5, <1>6, <1>8 DEF Shape
<1>10. \/ h.out = g.out /\ Range(h.rows) = Range(g.rows)
       \/ h.out = Append(g.out, Gc({x.id : x \in {y \in Range(g.rows) : Expired(y, now)}}))
  <2>1. CASE ids = {}
    <3>1. expired = {}
      BY <2>1 DEF ids
    <3>2. Range(h.rows) = Range(g.rows)
      BY <1>2, <1>6, <3>1
    <3> QED BY <1>4, <2>1, <3>2
  <2>2. CASE ids # {}
    BY <1>2, <1>4, <2>2 DEF ids
  <2> QED BY <2>1, <2>2
<1> QED BY <1>5, <1>6, <1>7, <1>9, <1>10 DEF GcStep, h

(* Sweeping corpses keeps the galaxy sound.                                *)
LEMMA GcSound ==
  ASSUME NEW g, NEW h, NEW P, NEW B, NEW D, NEW E, NEW Q, NEW X, Sound(g, P, B, D, E, Q, X),
         NEW now, GcStep(g, h, now)
  PROVE  Sound(h, P, B, D, E, Q, X)
<1>1. /\ Shape(h)
      /\ Range(h.rows) = {x \in Range(g.rows) : ~ Expired(x, now)}
      /\ DOMAIN h.index = DOMAIN g.index
      /\ \A op \in DOMAIN h.index : h.index[op] = g.index[op]
      /\ h.next = g.next /\ h.hashes = g.hashes /\ h.births = g.births /\ h.deaths = g.deaths
      /\ h.nBirths = g.nBirths /\ h.nDeaths = g.nDeaths /\ h.limbo = g.limbo
  BY DEF GcStep
<1>2. NoNewNames(g, h)
  BY <1>1 DEF NoNewNames, Carriers
<1>3. NamesInv(h)
  BY <1>1, <1>2, NamesKept DEF Sound
<1>4. IndexInv(h)
  BY <1>1 DEF Sound, IndexInv, Expired
<1>5. ParkedInv(h, B)
  BY <1>1 DEF Sound, ParkedInv
<1>6. LedgerInv(h, P, B, D, E)
  BY <1>1 DEF Sound, LedgerInv
<1>7. CountInv(h, B, D)
  BY <1>1 DEF Sound, CountInv
<1>8. JournalInv(h, P, B, D, X)
  BY <1>1 DEF Sound, JournalInv, BirthsAt, DeathsAt
<1>9. PromInv(h, B, E, Q)
  <2>1. DOMAIN B \cup DOMAIN g.limbo \subseteq DOMAIN B \cup DOMAIN h.limbo
    BY <1>1
  <2> QED BY <1>2, <2>1, PromiseKept DEF Sound
<1> QED BY <1>1, <1>3, <1>4, <1>5, <1>6, <1>7, <1>8, <1>9 DEF Sound

-----------------------------------------------------------------------------
(* What a page shows.                                                      *)

(* The ids of the rows.                                                    *)
RowIds(g)   == {x.id : x \in Range(g.rows)}
(* The ids of the parked rows.                                             *)
LimboIds(g) == {g.limbo[op].id : op \in DOMAIN g.limbo}

(* A page with cells p.cells shows every row, and beyond them only parked  *)
(* identities.                                                             *)
Shows(p, g) ==
  /\ DOMAIN p = {"cells", "births", "deaths"}
  /\ \A x \in Range(g.rows) : x.id \in DOMAIN p.cells /\ p.cells[x.id] = x
  /\ DOMAIN p.cells \subseteq RowIds(g) \cup LimboIds(g)

(* The page p, and what the deltas sent so far in this mutation make of it *)
Shown(p, g) ==
  /\ Shows(ApplyDeltas(p, g.out), g)
  /\ ApplyDeltas(p, g.out).births = p.births
  /\ ApplyDeltas(p, g.out).deaths = p.deaths

(* A mutation that sends nothing leaves a page as it is.                   *)
LEMMA NoDeltas ==
  ASSUME NEW p
  PROVE  ApplyDeltas(p, <<>>) = p
<1>1. DOMAIN <<>> = 1 .. 0
  OBVIOUS
<1>2. \E run : run[0] = p /\ run[0] = ApplyDeltas(p, <<>>)
  BY <1>1, PageRun
<1> QED BY <1>2

(* A page applies a list of deltas one after the other.                    *)
LEMMA OneMoreDelta ==
  ASSUME NEW p, NEW out, Listed(out), NEW d
  PROVE  ApplyDeltas(p, Append(out, d)) = ApplyDelta(ApplyDeltas(p, out), d)
<1> DEFINE all == Append(out, d)
           n == Len(out)
<1>1. /\ n \in Nat /\ DOMAIN out = 1 .. n /\ DOMAIN all = 1 .. n + 1
      /\ all[n + 1] = d /\ \A k \in 1 .. n : all[k] = out[k]
  <2>1. PICK S : out \in Seq(S)
    BY DEF Listed
  <2>2. out \in Seq(S \cup {d})
    BY <2>1
  <2> QED BY <2>2
<1> HIDE DEF all, n
<1>2. PICK f : /\ f[0] = p
               /\ \A k \in 0 .. n - 1 : f[k + 1] = ApplyDelta(f[k], out[k + 1])
               /\ f[n] = ApplyDeltas(p, out)
  BY <1>1, PageRun
<1>3. PICK h : /\ h[0] = p
               /\ \A k \in 0 .. n + 1 - 1 : h[k + 1] = ApplyDelta(h[k], all[k + 1])
               /\ h[n + 1] = ApplyDeltas(p, all)
  <2>1. n + 1 \in Nat
    BY <1>1
  <2> QED BY <1>1, <2>1, PageRun
<1> DEFINE S == {k \in 0 .. n : f[k] = h[k]}
<1>4. \A k \in 0 .. n : k \in S
  <2>1. 0 \in S
    BY <1>1, <1>2, <1>3
  <2>2. \A k \in 0 .. n - 1 : k \in S => k + 1 \in S
    <3> SUFFICES ASSUME NEW k \in 0 .. n - 1, f[k] = h[k] PROVE f[k + 1] = h[k + 1] /\ k + 1 \in 0 .. n
      BY DEF S
    <3>1. k + 1 \in 1 .. n /\ k \in 0 .. n + 1 - 1 /\ k + 1 \in 0 .. n
      BY <1>1
    <3>2. all[k + 1] = out[k + 1]
      BY <1>1, <3>1
    <3> QED BY <1>2, <1>3, <3>1, <3>2
  <2> HIDE DEF S
  <2> QED BY <1>1, <2>1, <2>2, Climb
<1>5. f[n] = h[n]
  <2>1. n \in 0 .. n
    BY <1>1
  <2> QED BY <1>4, <2>1
<1>6. h[n + 1] = ApplyDelta(h[n], d)
  <2>1. n \in 0 .. n + 1 - 1
    BY <1>1
  <2> QED BY <1>1, <1>3, <2>1
<1> QED BY <1>2, <1>3, <1>5, <1>6 DEF all

(* The birth delta shows a page the new row.                               *)
LEMMA BirthShown ==
  ASSUME NEW p, NEW g, NEW h, Shown(p, g), Listed(g.out), NEW r,
         h.out = Append(g.out, Birth(r)),
         Range(h.rows) = {x \in Range(g.rows) : x.id # r.id} \cup {r},
         LimboIds(g) \subseteq LimboIds(h) \cup {r.id}
  PROVE  Shown(p, h)
<1> DEFINE q == ApplyDeltas(p, g.out)
           s == ApplyDeltas(p, h.out)
<1>1. s = ApplyDelta(q, Birth(r))
  BY OneMoreDelta
<1>2. /\ DOMAIN q = {"cells", "births", "deaths"}
      /\ \A x \in Range(g.rows) : x.id \in DOMAIN q.cells /\ q.cells[x.id] = x
      /\ DOMAIN q.cells \subseteq RowIds(g) \cup LimboIds(g)
      /\ q.births = p.births /\ q.deaths = p.deaths
  BY DEF Shown, Shows
<1> HIDE DEF q, s
<1>3. s = [q EXCEPT !.cells = Set(@, r.id, r)]
  BY <1>1 DEF ApplyDelta, Birth
<1>4. /\ DOMAIN s = DOMAIN q /\ s.births = q.births /\ s.deaths = q.deaths
      /\ s.cells = Set(q.cells, r.id, r)
  BY <1>2, <1>3
<1>5. /\ DOMAIN s.cells = DOMAIN q.cells \cup {r.id} /\ s.cells[r.id] = r
      /\ \A i \in DOMAIN q.cells : i # r.id => s.cells[i] = q.cells[i]
  BY <1>4 DEF Set
<1>6. RowIds(g) \subseteq RowIds(h) /\ r.id \in RowIds(h)
  BY DEF RowIds
<1>7. \A x \in Range(h.rows) : x.id \in DOMAIN s.cells /\ s.cells[x.id] = x
  BY <1>2, <1>5
<1>8. DOMAIN s.cells \subseteq RowIds(h) \cup LimboIds(h)
  BY <1>2, <1>5, <1>6
<1> QED BY <1>2, <1>4, <1>7, <1>8 DEF Shown, Shows, s

(* The death delta shows a page the corpses of the named rows.             *)
LEMMA DeathShown ==
  ASSUME NEW p, NEW g, NEW h, Shown(p, g), Listed(g.out), NEW ids, NEW t,
         h.out = Append(g.out, Deaths(ids, t)),
         \A x \in Range(h.rows) : \E y \in Range(g.rows) :
           x.id = y.id /\ x = IF y.id \in ids THEN [y EXCEPT !.died = t] ELSE y,
         RowIds(g) \subseteq RowIds(h), LimboIds(g) = LimboIds(h)
  PROVE  Shown(p, h)
<1> DEFINE q == ApplyDeltas(p, g.out)
           s == ApplyDeltas(p, h.out)
<1>1. s = ApplyDelta(q, Deaths(ids, t))
  BY OneMoreDelta
<1>2. /\ DOMAIN q = {"cells", "births", "deaths"}
      /\ \A x \in Range(g.rows) : x.id \in DOMAIN q.cells /\ q.cells[x.id] = x
      /\ DOMAIN q.cells \subseteq RowIds(g) \cup LimboIds(g)
      /\ q.births = p.births /\ q.deaths = p.deaths
  BY DEF Shown, Shows
<1> HIDE DEF q, s
<1>3. s = [q EXCEPT !.cells = [i \in DOMAIN @ |-> IF i \in ids
                                 THEN [@[i] EXCEPT !.died = t] ELSE @[i]]]
  BY <1>1 DEF ApplyDelta, Deaths
<1>4. /\ DOMAIN s = DOMAIN q /\ s.births = q.births /\ s.deaths = q.deaths
      /\ s.cells = [i \in DOMAIN q.cells |-> IF i \in ids
                      THEN [q.cells[i] EXCEPT !.died = t] ELSE q.cells[i]]
  BY <1>2, <1>3
<1>5. \A x \in Range(h.rows) : x.id \in DOMAIN s.cells /\ s.cells[x.id] = x
  <2> SUFFICES ASSUME NEW x \in Range(h.rows) PROVE x.id \in DOMAIN s.cells /\ s.cells[x.id] = x
    OBVIOUS
  <2>1. PICK y \in Range(g.rows) : x.id = y.id /\ x = IF y.id \in ids THEN [y EXCEPT !.died = t] ELSE y
    OBVIOUS
  <2>2. y.id \in DOMAIN q.cells /\ q.cells[y.id] = y
    BY <1>2
  <2>3. s.cells[y.id] = IF y.id \in ids THEN [y EXCEPT !.died = t] ELSE y
    BY <1>4, <2>2
  <2> QED BY <1>4, <2>1, <2>2, <2>3
<1>6. DOMAIN s.cells \subseteq RowIds(h) \cup LimboIds(h)
  BY <1>2, <1>4
<1> QED BY <1>2, <1>4, <1>5, <1>6 DEF Shown, Shows, s

(* The gc delta removes from a page the rows that were swept.              *)
LEMMA GcShown ==
  ASSUME NEW p, NEW g, NEW h, Shown(p, g), Listed(g.out), NEW ids,
         h.out = Append(g.out, Gc(ids)),
         \A x \in Range(h.rows) : x \in Range(g.rows) /\ x.id \notin ids,
         RowIds(g) \subseteq RowIds(h) \cup ids, LimboIds(g) \subseteq LimboIds(h) \cup ids
  PROVE  Shown(p, h)
<1> DEFINE q == ApplyDeltas(p, g.out)
           s == ApplyDeltas(p, h.out)
<1>1. s = ApplyDelta(q, Gc(ids))
  BY OneMoreDelta
<1>2. /\ DOMAIN q = {"cells", "births", "deaths"}
      /\ \A x \in Range(g.rows) : x.id \in DOMAIN q.cells /\ q.cells[x.id] = x
      /\ DOMAIN q.cells \subseteq RowIds(g) \cup LimboIds(g)
      /\ q.births = p.births /\ q.deaths = p.deaths
  BY DEF Shown, Shows
<1> HIDE DEF q, s
<1>3. s = [q EXCEPT !.cells = Without(@, ids)]
  BY <1>1 DEF ApplyDelta, Gc
<1>4. /\ DOMAIN s = DOMAIN q /\ s.births = q.births /\ s.deaths = q.deaths
      /\ s.cells = Without(q.cells, ids)
  BY <1>2, <1>3
<1>5. /\ DOMAIN s.cells = DOMAIN q.cells \ ids
      /\ \A i \in DOMAIN q.cells \ ids : s.cells[i] = q.cells[i]
  BY <1>4 DEF Without, Restrict
<1>6. \A x \in Range(h.rows) : x.id \in DOMAIN s.cells /\ s.cells[x.id] = x
  BY <1>2, <1>5
<1>7. DOMAIN s.cells \subseteq RowIds(h) \cup LimboIds(h)
  BY <1>2, <1>5
<1> QED BY <1>2, <1>4, <1>6, <1>7 DEF Shown, Shows, s

(* Nothing is sent: no identity leaves the rows but into the limbo.        *)
LEMMA SilentShown ==
  ASSUME NEW p, NEW g, NEW h, Shown(p, g), h.out = g.out,
         Range(h.rows) \subseteq Range(g.rows),
         RowIds(g) \cup LimboIds(g) \subseteq RowIds(h) \cup LimboIds(h)
  PROVE  Shown(p, h)
BY DEF Shown, Shows

(* The counters go last.                                                   *)
LEMMA StatsShown ==
  ASSUME NEW p, NEW g, NEW h, NEW c, Shown(p, g), Listed(g.out),
         h.out = Append(g.out, Stats(c)), h.rows = g.rows, h.limbo = g.limbo
  PROVE  /\ Shows(ApplyDeltas(p, h.out), h)
         /\ ApplyDeltas(p, h.out).births = c.nBirths
         /\ ApplyDeltas(p, h.out).deaths = c.nDeaths
<1> DEFINE q == ApplyDeltas(p, g.out)
           s == ApplyDeltas(p, h.out)
<1>1. s = ApplyDelta(q, Stats(c))
  BY OneMoreDelta
<1>2. Shows(q, g)
  BY DEF Shown
<1> HIDE DEF q, s
<1>3. s = [q EXCEPT !.births = c.nBirths, !.deaths = c.nDeaths]
  BY <1>1 DEF ApplyDelta, Stats
<1>4. /\ DOMAIN s = DOMAIN q /\ s.births = c.nBirths /\ s.deaths = c.nDeaths
      /\ s.cells = q.cells
  BY <1>2, <1>3 DEF Shows
<1>5. Shows(s, h)
  BY <1>2, <1>4 DEF Shows, RowIds, LimboIds
<1> QED BY <1>4, <1>5 DEF s

-----------------------------------------------------------------------------
(* The galaxy and a page, step by step.                                    *)

(* A sound galaxy, and a page that keeps up with what it sends.            *)
Fit(p, g, P, B, D, E, Q, X) == Sound(g, P, B, D, E, Q, X) /\ Shown(p, g)

(* A death keeps galaxy and page in step.                                  *)
LEMMA SpendFits ==
  ASSUME NEW p, NEW g, NEW P, P \subseteq Nat, NEW B, NEW D, NEW E, NEW Q,
         Fit(p, g, P, B, D, E, Q, {}), NEW op \in DOMAIN g.index, NEW b \in Blocks,
         Height[b] \in DOMAIN g.hashes, \A m \in P : m <= Height[b]
  PROVE  LET h == Spend(g, op, b)
         IN  /\ Fit(p, h, P, B, Set(D, op, Height[b]), E, Q, {})
             /\ h.out # <<>>
             /\ h.hashes = g.hashes /\ h.limbo = g.limbo /\ h.replay = g.replay
             /\ h.births = g.births
<1> DEFINE h == Spend(g, op, b)
<1>1. Sound(h, P, B, Set(D, op, Height[b]), E, Q, {})
  BY SpendSound DEF Fit
<1>2. Shape(g) /\ IndexInv(g) /\ NamesInv(g) /\ Shown(p, g)
  BY DEF Fit, Sound
<1>3. PICK r \in Range(g.rows) : DeathStep(g, h, op, b, r)
  BY <1>2, SpendEffect
<1> HIDE DEF h
<1>4. /\ r \in Row
      /\ Range(h.rows) = (Range(g.rows) \ {r}) \cup {[r EXCEPT !.died = BlockTime[b]]}
      /\ h.out = Append(g.out, Deaths({r.id}, BlockTime[b]))
      /\ h.hashes = g.hashes /\ h.limbo = g.limbo /\ h.replay = g.replay /\ h.births = g.births
  BY <1>3 DEF DeathStep
<1>5. Listed(g.out) /\ h.out # <<>>
  BY <1>2, <1>4, OneMore DEF Shape
<1>6. Shown(p, h)
  <2>1. \A y \in Range(g.rows) : y.id = r.id <=> y = r
    BY <1>2, OneRowEach
  <2>2. [r EXCEPT !.died = BlockTime[b]].id = r.id
    BY <1>4 DEF Row
  <2>3. \A x \in Range(h.rows) : \E y \in Range(g.rows) :
          x.id = y.id /\ x = IF y.id \in {r.id} THEN [y EXCEPT !.died = BlockTime[b]] ELSE y
    <3> TAKE x \in Range(h.rows)
    <3>1. CASE x \in Range(g.rows) \ {r}
      BY <3>1, <2>1
    <3>2. CASE x = [r EXCEPT !.died = BlockTime[b]]
      BY <3>2, <2>2
    <3> QED BY <1>4, <3>1, <3>2
  <2>4. RowIds(g) \subseteq RowIds(h)
    BY <1>4, <2>2 DEF RowIds
  <2>5. LimboIds(g) = LimboIds(h)
    BY <1>4 DEF LimboIds
  <2> QED BY <1>2, <1>4, <1>5, <2>3, <2>4, <2>5, DeathShown
<1> QED BY <1>1, <1>4, <1>5, <1>6 DEF Fit, h

(* A birth keeps galaxy and page in step.                                  *)
LEMMA CreateFits ==
  ASSUME NEW p, NEW g, NEW P, NEW B, NEW D, NEW E, NEW Q, Fit(p, g, P, B, D, E, Q, {}),
         NEW op \in Outpoints \ DOMAIN B, NEW b \in Blocks, Height[b] \in DOMAIN g.hashes
  PROVE  LET h == Create(g, op, b)
         IN  /\ Fit(p, h, P, Set(B, op, Height[b]), D, E \ {op}, Q, {})
             /\ h.out # <<>>
             /\ h.hashes = g.hashes /\ h.replay = g.replay
             /\ DOMAIN h.limbo \subseteq DOMAIN g.limbo
<1> DEFINE h == Create(g, op, b)
<1>1. Sound(h, P, Set(B, op, Height[b]), D, E \ {op}, Q, {})
  BY CreateSound DEF Fit
<1>2. Sound(g, P, B, D, E, Q, {}) /\ Shape(g) /\ Shown(p, g)
  BY DEF Fit, Sound
<1>3. PICK r \in Row : BirthStep(g, h, op, Height[b], r)
  BY <1>2, CreateEffect
<1> HIDE DEF h
<1>4. /\ \A x \in Range(g.rows) : x.id # r.id
      /\ op \in DOMAIN g.limbo => r.id = g.limbo[op].id
      /\ Range(h.rows) = Range(g.rows) \cup {r}
      /\ h.limbo = Without(g.limbo, {op})
      /\ h.out = Append(g.out, Birth(r))
      /\ h.hashes = g.hashes /\ h.replay = g.replay
  BY <1>3 DEF BirthStep
<1>5. Listed(g.out) /\ h.out # <<>>
  BY <1>2, <1>4, OneMore DEF Shape
<1>6. DOMAIN h.limbo = DOMAIN g.limbo \ {op} /\ \A o \in DOMAIN h.limbo : h.limbo[o] = g.limbo[o]
  BY <1>4 DEF Without, Restrict
<1>7. Shown(p, h)
  <2>1. Range(h.rows) = {x \in Range(g.rows) : x.id # r.id} \cup {r}
    BY <1>4
  <2>2. LimboIds(g) \subseteq LimboIds(h) \cup {r.id}
    BY <1>4, <1>6 DEF LimboIds
  <2> QED BY <1>2, <1>4, <1>5, <2>1, <2>2, BirthShown
<1> QED BY <1>1, <1>4, <1>5, <1>6, <1>7 DEF Fit, h

(* Undoing a death keeps galaxy and page in step.                          *)
LEMMA ResurrectFits ==
  ASSUME NEW p, NEW g, NEW P, NEW B, NEW D, NEW E, NEW Q, NEW X, Fit(p, g, P, B, D, E, Q, X),
         NEW r \in Carriers(g), IsAlive(r), r.op \in DOMAIN D, D[r.op] \in X
  PROVE  LET h == Resurrect(g, r)
         IN  /\ Fit(p, h, P, B, Without(D, {r.op}), E, Q, X)
             /\ h.hashes = g.hashes /\ h.births = g.births /\ h.deaths = g.deaths
             /\ h.replay = g.replay /\ h.limbo = g.limbo
<1> DEFINE h == Resurrect(g, r)
<1>1. Sound(h, P, B, Without(D, {r.op}), E, Q, X)
  BY ResurrectSound DEF Fit
<1>2. Shape(g) /\ Shown(p, g) /\ r \in Row
  BY CarriersAreRows DEF Fit, Sound
<1>3. RevivalStep(g, h, r)
  BY <1>2, ResurrectEffect
<1> HIDE DEF h
<1>4. /\ Range(h.rows) = {x \in Range(g.rows) : x.id # r.id} \cup {r}
      /\ h.out = Append(g.out, Birth(r))
      /\ h.hashes = g.hashes /\ h.births = g.births /\ h.deaths = g.deaths
      /\ h.replay = g.replay /\ h.limbo = g.limbo
  BY <1>3 DEF RevivalStep
<1>5. Listed(g.out)
  BY <1>2 DEF Shape
<1>6. LimboIds(g) \subseteq LimboIds(h) \cup {r.id}
  BY <1>4 DEF LimboIds
<1>7. Shown(p, h)
  BY <1>2, <1>4, <1>5, <1>6, BirthShown
<1> QED BY <1>1, <1>4, <1>7 DEF Fit, h

(* Undoing a birth keeps galaxy and page in step: the page may go on       *)
(* showing the row while it is parked.                                     *)
LEMMA ParkFits ==
  ASSUME NEW p, NEW g, NEW P, NEW B, NEW D, NEW E, NEW Q, NEW X, Fit(p, g, P, B, D, E, Q, X),
         NEW op \in DOMAIN B, op \notin DOMAIN D, B[op] \in X
  PROVE  LET h == Park(g, op)
         IN  /\ Fit(p, h, P, Without(B, {op}), D, E, Q, X)
             /\ h.hashes = g.hashes /\ h.births = g.births /\ h.deaths = g.deaths
             /\ h.replay = g.replay
<1> DEFINE h == Park(g, op)
<1>1. Sound(h, P, Without(B, {op}), D, E, Q, X)
  BY ParkSound DEF Fit
<1>2. Sound(g, P, B, D, E, Q, X) /\ Shape(g) /\ Shown(p, g)
  BY DEF Fit, Sound
<1>3. ParkingStep(g, h, op)
  BY <1>2, ParkEffect
<1> HIDE DEF h
<1>4. /\ h.out = g.out /\ h.hashes = g.hashes /\ h.births = g.births /\ h.deaths = g.deaths
      /\ h.replay = g.replay
  BY <1>3 DEF ParkingStep
<1>5. op \notin DOMAIN g.limbo
  BY <1>2 DEF Sound, ParkedInv
<1>6. Range(h.rows) \subseteq Range(g.rows) /\ RowIds(g) \cup LimboIds(g) \subseteq RowIds(h) \cup LimboIds(h)
  <2>1. CASE h.rows = g.rows /\ h.limbo = g.limbo
    BY <2>1 DEF RowIds, LimboIds
  <2>2. CASE \E r \in Range(g.rows) : /\ Range(h.rows) = Range(g.rows) \ {r}
                                      /\ h.limbo = Set(g.limbo, op, r)
    <3>1. PICK r \in Range(g.rows) : Range(h.rows) = Range(g.rows) \ {r} /\ h.limbo = Set(g.limbo, op, r)
      BY <2>2
    <3>2. /\ DOMAIN h.limbo = DOMAIN g.limbo \cup {op} /\ h.limbo[op] = r
          /\ \A o \in DOMAIN g.limbo : h.limbo[o] = g.limbo[o]
      BY <3>1, <1>5 DEF Set
    <3>3. LimboIds(g) \subseteq LimboIds(h) /\ r.id \in LimboIds(h)
      BY <3>2 DEF LimboIds
    <3>4. RowIds(g) \subseteq RowIds(h) \cup {r.id}
      BY <3>1 DEF RowIds
    <3> QED BY <3>1, <3>3, <3>4
  <2> QED BY <1>3, <2>1, <2>2 DEF ParkingStep
<1>7. Shown(p, h)
  BY <1>2, <1>4, <1>6, SilentShown
<1> QED BY <1>1, <1>4, <1>7 DEF Fit, h

(* The cap: the outpoints K are taken.                                     *)
LEMMA CapFits ==
  ASSUME NEW p, NEW g, NEW P, NEW B, NEW D, NEW E, NEW Q, NEW X, Fit(p, g, P, B, D, E, Q, X),
         NEW t \in Nat
  PROVE  \E K : /\ CapStep(g, EnforceCap(g, t), t, K)
                /\ Fit(p, EnforceCap(g, t), P, B, D, E \cup K, Without(Q, K), X)
<1>1. Shape(g) /\ IndexInv(g) /\ NamesInv(g) /\ Shown(p, g) /\ Sound(g, P, B, D, E, Q, X)
  BY DEF Fit, Sound
<1> DEFINE h == EnforceCap(g, t)
<1>2. PICK K : CapStep(g, h, t, K)
  BY <1>1, CapEffect
<1> HIDE DEF h
<1>3. Sound(h, P, B, D, E \cup K, Without(Q, K), X)
  BY <1>1, <1>2, CapSound
<1> DEFINE ids == {x.id : x \in {y \in Range(g.rows) : IsAlive(y) /\ y.op \in K}}
<1>4. /\ Range(h.rows) = {Corpse(x, K, t) : x \in Range(g.rows)}
      /\ (K = {} /\ h.out = g.out) \/ h.out = Append(g.out, Deaths(ids, t))
      /\ h.limbo = g.limbo
  BY <1>2 DEF CapStep
<1>5. \A x \in Range(g.rows) : Corpse(x, K, t).id = x.id
  <2>1. Range(g.rows) \subseteq Row
    BY <1>1, CarriersAreRows
  <2> QED BY <2>1, CorpseFacts
<1>6. RowIds(h) = RowIds(g) /\ LimboIds(h) = LimboIds(g)
  BY <1>4, <1>5 DEF RowIds, LimboIds
<1>7. CASE K = {} /\ h.out = g.out
  <2>1. \A x \in Range(g.rows) : Corpse(x, K, t) = x
    BY <1>7 DEF Corpse
  <2>2. Range(h.rows) \subseteq Range(g.rows)
    BY <1>4, <2>1
  <2>3. Shown(p, h)
    BY <1>1, <1>6, <1>7, <2>2, SilentShown
  <2> QED BY <1>2, <1>3, <2>3 DEF Fit, h
<1>8. CASE h.out = Append(g.out, Deaths(ids, t))
  <2>1. \A y \in Range(g.rows) : y.id \in ids <=> IsAlive(y) /\ y.op \in K
    <3> TAKE y \in Range(g.rows)
    <3>1. IsAlive(y) /\ y.op \in K => y.id \in ids
      OBVIOUS
    <3>2. ASSUME y.id \in ids PROVE IsAlive(y) /\ y.op \in K
      <4>1. PICK x \in Range(g.rows) : IsAlive(x) /\ x.op \in K /\ y.id = x.id
        BY <3>2
      <4>2. x = y
        BY <1>1, <4>1, OneRowEach
      <4> QED BY <4>1, <4>2
    <3> QED BY <3>1, <3>2
  <2> HIDE DEF ids
  <2>2. \A x \in Range(h.rows) : \E y \in Range(g.rows) :
          x.id = y.id /\ x = IF y.id \in ids THEN [y EXCEPT !.died = t] ELSE y
    BY <1>4, <1>5, <2>1 DEF Corpse
  <2>3. Listed(g.out)
    BY <1>1 DEF Shape
  <2>4. Shown(p, h)
    BY <1>1, <1>6, <1>8, <2>2, <2>3, DeathShown
  <2> QED BY <1>2, <1>3, <2>4 DEF Fit, h
<1> QED BY <1>4, <1>7, <1>8

(* Sweeping corpses keeps galaxy and page in step.                         *)
LEMMA GcFits ==
  ASSUME NEW p, NEW g, NEW P, NEW B, NEW D, NEW E, NEW Q, NEW X, Fit(p, g, P, B, D, E, Q, X),
         NEW now
  PROVE  Fit(p, GcCells(g, now), P, B, D, E, Q, X) /\ GcStep(g, GcCells(g, now), now)
<1>1. Shape(g) /\ IndexInv(g) /\ NamesInv(g) /\ Shown(p, g) /\ Sound(g, P, B, D, E, Q, X)
  BY DEF Fit, Sound
<1> DEFINE h == GcCells(g, now)
<1>2. GcStep(g, h, now)
  BY <1>1, GcEffect
<1> HIDE DEF h
<1>3. Sound(h, P, B, D, E, Q, X)
  BY <1>1, <1>2, GcSound
<1> DEFINE ids == {x.id : x \in {y \in Range(g.rows) : Expired(y, now)}}
<1>4. /\ Range(h.rows) = {x \in Range(g.rows) : ~ Expired(x, now)}
      /\ (h.out = g.out /\ Range(h.rows) = Range(g.rows)) \/ h.out = Append(g.out, Gc(ids))
      /\ h.limbo = g.limbo
  BY <1>2 DEF GcStep
<1>5. CASE h.out = g.out /\ Range(h.rows) = Range(g.rows)
  <2>1. RowIds(h) = RowIds(g) /\ LimboIds(h) = LimboIds(g)
    BY <1>4, <1>5 DEF RowIds, LimboIds
  <2>2. Shown(p, h)
    BY <1>1, <1>5, <2>1, SilentShown
  <2> QED BY <1>2, <1>3, <2>2 DEF Fit, h
<1>6. CASE h.out = Append(g.out, Gc(ids))
  <2>1. \A x \in Range(h.rows) : x \in Range(g.rows) /\ x.id \notin ids
    <3> TAKE x \in Range(h.rows)
    <3>1. x \in Range(g.rows) /\ ~ Expired(x, now)
      BY <1>4
    <3>2. ASSUME x.id \in ids PROVE FALSE
      <4>1. PICK y \in Range(g.rows) : Expired(y, now) /\ x.id = y.id
        BY <3>2
      <4>2. x = y
        BY <1>1, <3>1, <4>1, OneRowEach
      <4> QED BY <3>1, <4>1, <4>2
    <3> QED BY <3>1, <3>2
  <2>2. RowIds(g) \subseteq RowIds(h) \cup ids
    BY <1>4 DEF RowIds
  <2>3. LimboIds(g) = LimboIds(h) /\ Listed(g.out)
    BY <1>1, <1>4 DEF LimboIds, Shape
  <2> HIDE DEF ids
  <2>4. Shown(p, h)
    BY <1>1, <1>6, <2>1, <2>2, <2>3, GcShown
  <2> QED BY <1>2, <1>3, <2>4 DEF Fit, h
<1> QED BY <1>4, <1>5, <1>6

-----------------------------------------------------------------------------
(* The passes over one block.                                              *)

(* C records, besides what B does, that the outpoints S came at height n.  *)
Extended(B, C, S, n) ==
  /\ DOMAIN C = DOMAIN B \cup S
  /\ \A op \in DOMAIN B : C[op] = B[op]
  /\ \A op \in S \ DOMAIN B : C[op] = n

(* C is B without the outpoints S.                                         *)
Reduced(B, C, S) ==
  /\ DOMAIN C = DOMAIN B \ S
  /\ \A op \in DOMAIN C : C[op] = B[op]

(* The first k outpoints of a list.                                        *)
FirstOf(ops, k) == {ops[i] : i \in 1 .. k}

(* The first k outpoints of a list, one by one.                            *)
LEMMA FirstFacts ==
  ASSUME NEW ops, NEW n \in Nat
  PROVE  /\ FirstOf(ops, 0) = {}
         /\ \A k \in 0 .. n - 1 : FirstOf(ops, k + 1) = FirstOf(ops, k) \cup {ops[k + 1]}
         /\ DOMAIN ops = 1 .. n => FirstOf(ops, n) = Range(ops)
<1>1. FirstOf(ops, 0) = {}
  BY DEF FirstOf
<1>2. ASSUME NEW k \in 0 .. n - 1
      PROVE  FirstOf(ops, k + 1) = FirstOf(ops, k) \cup {ops[k + 1]}
  <2>1. \A i : i \in 1 .. k + 1 <=> i \in 1 .. k \/ i = k + 1
    OBVIOUS
  <2>2. \A x \in FirstOf(ops, k + 1) : x \in FirstOf(ops, k) \/ x = ops[k + 1]
    BY <2>1 DEF FirstOf
  <2>3. \A x \in FirstOf(ops, k) : x \in FirstOf(ops, k + 1)
    BY <2>1 DEF FirstOf
  <2>4. ops[k + 1] \in FirstOf(ops, k + 1)
    BY <2>1 DEF FirstOf
  <2> QED BY <2>2, <2>3, <2>4
<1>3. DOMAIN ops = 1 .. n => FirstOf(ops, n) = Range(ops)
  BY DEF FirstOf, Range
<1> QED BY <1>1, <1>2, <1>3

(* The inputs S, and the outputs S, of a transaction at height n.          *)
AllSpent(p, g, h, P, B, D, E, Q, S, n) ==
  \E F : /\ Extended(D, F, S \cap DOMAIN g.index, n)
         /\ Fit(p, h, P, B, F, E, Q, {})
         /\ h = g \/ h.out # <<>>
         /\ h.hashes = g.hashes /\ h.limbo = g.limbo /\ h.replay = g.replay

AllCreated(p, g, h, P, B, D, E, Q, S, n) ==
  \E C : /\ Extended(B, C, S, n)
         /\ Fit(p, h, P, C, D, E \ S, Q, {})
         /\ h = g \/ h.out # <<>>
         /\ h.hashes = g.hashes /\ h.replay = g.replay
         /\ DOMAIN h.limbo \subseteq DOMAIN g.limbo

(* The whole death pass over the inputs of a transaction: just those that  *)
(* the index held are spent.                                               *)
LEMMA SpendAllFits ==
  ASSUME NEW p, NEW g, NEW P, NEW B, NEW D, NEW E, NEW Q, NEW b \in Blocks, NEW ops, NEW n \in Nat,
         P \subseteq Nat, Fit(p, g, P, B, D, E, Q, {}),
         Height[b] \in DOMAIN g.hashes, \A m \in P : m <= Height[b],
         DOMAIN ops = 1 .. n
  PROVE  AllSpent(p, g, SpendAll(g, ops, b), P, B, D, E, Q, Range(ops), Height[b])
<1> DEFINE top == Height[b]
           Good(h, k) ==
             \E F : /\ Extended(D, F, FirstOf(ops, k) \cap DOMAIN g.index, top)
                    /\ Fit(p, h, P, B, F, E, Q, {})
                    /\ h = g \/ h.out # <<>>
                    /\ h.hashes = g.hashes /\ h.limbo = g.limbo /\ h.replay = g.replay
<1>1. PICK run : /\ run[0] = g
                 /\ \A k \in 0 .. n - 1 : run[k + 1] = Spend(run[k], ops[k + 1], b)
                 /\ run[n] = SpendAll(g, ops, b)
  BY SpendRun
<1> DEFINE S == {k \in 0 .. n : Good(run[k], k)}
<1>2. 0 \in S
  <2>1. Extended(D, D, FirstOf(ops, 0) \cap DOMAIN g.index, top)
    BY FirstFacts DEF Extended
  <2> QED BY <1>1, <2>1
<1>3. ASSUME NEW k \in 0 .. n - 1, Good(run[k], k)
      PROVE  Good(run[k + 1], k + 1)
  <2> DEFINE op == ops[k + 1]
             f == run[k]
             h == run[k + 1]
  <2>1. PICK F : /\ Extended(D, F, FirstOf(ops, k) \cap DOMAIN g.index, top)
                 /\ Fit(p, f, P, B, F, E, Q, {})
                 /\ f = g \/ f.out # <<>>
                 /\ f.hashes = g.hashes /\ f.limbo = g.limbo /\ f.replay = g.replay
    BY <1>3
  <2>2. h = Spend(f, op, b) /\ FirstOf(ops, k + 1) = FirstOf(ops, k) \cup {op}
    BY <1>1, FirstFacts
  <2>3. DOMAIN f.index = DOMAIN g.index \ DOMAIN F
    BY <2>1 DEF Fit, Sound, LedgerInv, Extended
  <2> HIDE DEF f, h, op
  <2>4. CASE op \in DOMAIN f.index
    <3> DEFINE G == Set(F, op, top)
    <3>0. /\ Height[b] \in DOMAIN f.hashes /\ Fit(p, f, P, B, F, E, Q, {})
          /\ P \subseteq Nat /\ \A m \in P : m <= Height[b]
          /\ op \in DOMAIN f.index
      BY <2>1, <2>4
    <3> HIDE DEF top, G
    <3>5. LET k1 == Spend(f, op, b)
          IN  /\ Fit(p, k1, P, B, Set(F, op, Height[b]), E, Q, {})
              /\ k1.out # <<>>
              /\ k1.hashes = f.hashes /\ k1.limbo = f.limbo /\ k1.replay = f.replay
      BY ONLY <3>0, b \in Blocks, SpendFits, ZenonT(60)
    <3>1. /\ Fit(p, h, P, B, G, E, Q, {})
          /\ h.out # <<>>
          /\ h.hashes = g.hashes /\ h.limbo = g.limbo /\ h.replay = g.replay
      BY <2>1, <2>2, <3>5 DEF top, G
    <3>2. /\ DOMAIN G = DOMAIN F \cup {op} /\ G[op] = top
          /\ \A o \in DOMAIN F : G[o] = F[o]
      BY <2>3, <2>4 DEF Set, G
    <3> HIDE DEF G
    <3>3. Extended(D, G, FirstOf(ops, k + 1) \cap DOMAIN g.index, top)
      BY <2>1, <2>2, <2>3, <2>4, <3>2 DEF Extended
    <3> QED BY <3>1, <3>3 DEF h
  <2>5. CASE op \notin DOMAIN f.index
    <3>1. h = f
      BY <2>2, <2>5 DEF Spend
    <3>2. Extended(D, F, FirstOf(ops, k + 1) \cap DOMAIN g.index, top)
      BY <2>1, <2>2, <2>3, <2>5 DEF Extended
    <3> QED BY <2>1, <3>1, <3>2 DEF h
  <2> QED BY <2>4, <2>5
<1>4. n \in S
  <2> HIDE DEF Good
  <2>1. \A k \in 0 .. n - 1 : k \in S => k + 1 \in S
    <3>1. \A k \in 0 .. n - 1 : k + 1 \in 0 .. n
      OBVIOUS
    <3> QED BY <1>3, <3>1
  <2> HIDE DEF S
  <2>2. \A k \in 0 .. n : k \in S
    BY <1>2, <2>1, Climb
  <2> QED BY <2>2
<1>5. FirstOf(ops, n) = Range(ops)
  BY FirstFacts
<1> QED BY <1>1, <1>4, <1>5 DEF AllSpent

(* The whole birth pass over the outputs of a transaction: all of them are *)
(* born.                                                                   *)
LEMMA CreateAllFits ==
  ASSUME NEW p, NEW g, NEW P, NEW B, NEW D, NEW E, NEW Q, NEW b \in Blocks, NEW ops, NEW n \in Nat,
         P \subseteq Nat, Fit(p, g, P, B, D, E, Q, {}), Height[b] \in DOMAIN g.hashes,
         DOMAIN ops = 1 .. n,
         \A i \in 1 .. n : ops[i] \in Outpoints \ DOMAIN B,
         \A i, j \in 1 .. n : ops[i] = ops[j] => i = j
  PROVE  AllCreated(p, g, CreateAll(g, ops, b), P, B, D, E, Q, Range(ops), Height[b])
<1> DEFINE top == Height[b]
           Good(h, k) ==
             \E C : /\ Extended(B, C, FirstOf(ops, k), top)
                    /\ Fit(p, h, P, C, D, E \ FirstOf(ops, k), Q, {})
                    /\ h = g \/ h.out # <<>>
                    /\ h.hashes = g.hashes /\ h.replay = g.replay
                    /\ DOMAIN h.limbo \subseteq DOMAIN g.limbo
<1>1. PICK run : /\ run[0] = g
                 /\ \A k \in 0 .. n - 1 : run[k + 1] = Create(run[k], ops[k + 1], b)
                 /\ run[n] = CreateAll(g, ops, b)
  BY CreateRun
<1> DEFINE S == {k \in 0 .. n : Good(run[k], k)}
<1>2. 0 \in S
  <2>1. FirstOf(ops, 0) = {}
    BY FirstFacts
  <2>2. Extended(B, B, FirstOf(ops, 0), top) /\ E \ FirstOf(ops, 0) = E
    BY <2>1 DEF Extended
  <2>3. Good(run[0], 0)
    BY <1>1, <2>2
  <2> QED BY <2>3
<1>3. ASSUME NEW k \in 0 .. n - 1, Good(run[k], k)
      PROVE  Good(run[k + 1], k + 1)
  <2> DEFINE op == ops[k + 1]
             f == run[k]
             h == run[k + 1]
  <2>1. PICK C : /\ Extended(B, C, FirstOf(ops, k), top)
                 /\ Fit(p, f, P, C, D, E \ FirstOf(ops, k), Q, {})
                 /\ f = g \/ f.out # <<>>
                 /\ f.hashes = g.hashes /\ f.replay = g.replay
                 /\ DOMAIN f.limbo \subseteq DOMAIN g.limbo
    BY <1>3
  <2>2. h = Create(f, op, b) /\ FirstOf(ops, k + 1) = FirstOf(ops, k) \cup {op}
    BY <1>1, FirstFacts
  <2>3. op \in Outpoints /\ op \notin DOMAIN C
    <3>1. op \in Outpoints \ DOMAIN B /\ op \notin FirstOf(ops, k)
      BY DEF FirstOf
    <3> QED BY <2>1, <3>1 DEF Extended
  <2> HIDE DEF f, h, op
  <2> DEFINE G == Set(C, op, top)
  <2>4. /\ Fit(p, h, P, G, D, (E \ FirstOf(ops, k)) \ {op}, Q, {})
        /\ h.out # <<>>
        /\ h.hashes = g.hashes /\ h.replay = g.replay
        /\ DOMAIN h.limbo \subseteq DOMAIN g.limbo
    <3>1. /\ Height[b] \in DOMAIN f.hashes /\ op \in Outpoints \ DOMAIN C
          /\ Fit(p, f, P, C, D, E \ FirstOf(ops, k), Q, {})
      BY <2>1, <2>3
    <3> HIDE DEF top
    <3>2. LET k1 == Create(f, op, b)
          IN  /\ Fit(p, k1, P, Set(C, op, Height[b]), D, (E \ FirstOf(ops, k)) \ {op}, Q, {})
              /\ k1.out # <<>>
              /\ k1.hashes = f.hashes /\ k1.replay = f.replay
              /\ DOMAIN k1.limbo \subseteq DOMAIN f.limbo
      BY <3>1, CreateFits
    <3> QED BY <2>1, <2>2, <3>2 DEF top
  <2>5. /\ DOMAIN G = DOMAIN C \cup {op} /\ G[op] = top
        /\ \A o \in DOMAIN C : G[o] = C[o]
    BY <2>3 DEF Set
  <2> HIDE DEF G
  <2>6. Extended(B, G, FirstOf(ops, k + 1), top)
    BY <2>1, <2>2, <2>3, <2>5 DEF Extended
  <2>7. (E \ FirstOf(ops, k)) \ {op} = E \ FirstOf(ops, k + 1)
    BY <2>2
  <2> QED BY <2>4, <2>6, <2>7 DEF h
<1>4. n \in S
  <2> HIDE DEF Good
  <2>1. \A k \in 0 .. n - 1 : k \in S => k + 1 \in S
    <3>1. \A k \in 0 .. n - 1 : k + 1 \in 0 .. n
      OBVIOUS
    <3> QED BY <1>3, <3>1
  <2> HIDE DEF S
  <2>2. \A k \in 0 .. n : k \in S
    BY <1>2, <2>1, Climb
  <2> QED BY <2>2
<1>5. FirstOf(ops, n) = Range(ops)
  BY FirstFacts
<1> QED BY <1>1, <1>4, <1>5 DEF AllCreated

(* The outpoints of the first k rows of a list.                            *)
NamesOf(rows, k) == {rows[i].op : i \in 1 .. k}

(* rows wait in the journal at height m, their deaths at a height of X.    *)
Waiting(g, D, X, m, rows, n) ==
  /\ DOMAIN rows = 1 .. n
  /\ \A i \in 1 .. n : /\ rows[i] \in Range(g.deaths[m]) /\ IsAlive(rows[i])
                       /\ rows[i].op \in DOMAIN D /\ D[rows[i].op] \in X
  /\ \A i, j \in 1 .. n : rows[i].op = rows[j].op => i = j

(* The deaths of the outpoints S are undone on the way from g to h.        *)
Revived(p, g, h, P, B, D, E, Q, X, S) ==
  \E F : /\ Reduced(D, F, S)
         /\ Fit(p, h, P, B, F, E, Q, X)
         /\ h.hashes = g.hashes /\ h.births = g.births /\ h.deaths = g.deaths
         /\ h.replay = g.replay /\ h.limbo = g.limbo

(* All the deaths recorded for one block are undone, whatever their order. *)
LEMMA ResurrectAllFits ==
  ASSUME NEW p, NEW g, NEW P, NEW B, NEW D, NEW E, NEW Q, NEW X, NEW ops,
         NEW n \in Nat, NEW m \in DOMAIN g.deaths, Fit(p, g, P, B, D, E, Q, X), Waiting(g, D, X, m, ops, n)
  PROVE  Revived(p, g, ResurrectAll(g, ops), P, B, D, E, Q, X, NamesOf(ops, n))
<1> DEFINE Names(k) == NamesOf(ops, k)
           Good(h, k) ==
             \E F : /\ Reduced(D, F, Names(k))
                    /\ Fit(p, h, P, B, F, E, Q, X)
                    /\ h.hashes = g.hashes /\ h.births = g.births /\ h.deaths = g.deaths
                    /\ h.replay = g.replay /\ h.limbo = g.limbo
<1>1. PICK run : /\ run[0] = g
                 /\ \A k \in 0 .. n - 1 : run[k + 1] = Resurrect(run[k], ops[k + 1])
                 /\ run[n] = ResurrectAll(g, ops)
  BY ResurrectRun DEF Waiting
<1> DEFINE S == {k \in 0 .. n : Good(run[k], k)}
<1>2. 0 \in S
  <2>0. Names(0) = {}
    BY DEF NamesOf
  <2>1. Reduced(D, D, Names(0))
    BY <2>0 DEF Reduced
  <2> HIDE DEF Names
  <2> QED BY <1>1, <2>1
<1>3. ASSUME NEW k \in 0 .. n - 1, Good(run[k], k)
      PROVE  Good(run[k + 1], k + 1)
  <2> DEFINE r == ops[k + 1]
             f == run[k]
             h == run[k + 1]
  <2>1. PICK F : /\ Reduced(D, F, Names(k))
                 /\ Fit(p, f, P, B, F, E, Q, X)
                 /\ f.hashes = g.hashes /\ f.births = g.births /\ f.deaths = g.deaths
                 /\ f.replay = g.replay /\ f.limbo = g.limbo
    BY <1>3
  <2>2. h = Resurrect(f, r)
    BY <1>1
  <2>3. Names(k + 1) = Names(k) \cup {r.op} /\ r.op \notin Names(k)
    <3>1. \A i : i \in 1 .. k + 1 <=> i \in 1 .. k \/ i = k + 1
      OBVIOUS
    <3>2. \A x \in Names(k + 1) : x \in Names(k) \/ x = r.op
      BY <3>1 DEF NamesOf
    <3>3. \A x \in Names(k) : x \in Names(k + 1)
      BY <3>1 DEF NamesOf
    <3>4. r.op \in Names(k + 1)
      BY <3>1 DEF NamesOf
    <3>5. \A i \in 1 .. k : ops[i].op # r.op
      BY DEF Waiting
    <3>6. r.op \notin Names(k)
      BY <3>5 DEF NamesOf
    <3> HIDE DEF Names
    <3> QED BY <3>2, <3>3, <3>4, <3>6
  <2>4. /\ k + 1 \in 1 .. n
        /\ r \in Range(g.deaths[m]) /\ IsAlive(r) /\ r.op \in DOMAIN D /\ D[r.op] \in X
    BY DEF Waiting
  <2> HIDE DEF f, h, r, Names
  <2>5. r.op \in DOMAIN F /\ F[r.op] \in X
    BY <2>1, <2>3, <2>4 DEF Reduced
  <2>6. r \in Carriers(f)
    BY <2>1, <2>4 DEF Carriers
  <2> DEFINE G == Without(F, {r.op})
  <2>7. /\ Fit(p, h, P, B, G, E, Q, X)
        /\ h.hashes = g.hashes /\ h.births = g.births /\ h.deaths = g.deaths
        /\ h.replay = g.replay /\ h.limbo = g.limbo
    BY <2>1, <2>2, <2>4, <2>5, <2>6, ResurrectFits
  <2>8. Reduced(D, G, Names(k + 1))
    BY <2>1, <2>3 DEF Reduced, Without, Restrict
  <2> QED BY <2>7, <2>8 DEF h
<1>4. n \in S
  <2> HIDE DEF Good
  <2>1. \A k \in 0 .. n - 1 : k \in S => k + 1 \in S
    <3>1. \A k \in 0 .. n - 1 : k + 1 \in 0 .. n
      OBVIOUS
    <3> QED BY <1>3, <3>1
  <2> HIDE DEF S
  <2>2. \A k \in 0 .. n : k \in S
    BY <1>2, <2>1, Climb
  <2> QED BY <2>2
<1> QED BY <1>1, <1>4 DEF Revived

(* All the births recorded for one block are undone, whatever their order. *)
LEMMA ParkAllFits ==
  ASSUME NEW p, NEW g, NEW P, NEW B, NEW D, NEW E, NEW Q, NEW X, NEW ops,
         NEW n \in Nat, Fit(p, g, P, B, D, E, Q, X), DOMAIN ops = 1 .. n,
         \A i \in 1 .. n : ops[i] \in DOMAIN B /\ ops[i] \notin DOMAIN D /\ B[ops[i]] \in X,
         \A i, j \in 1 .. n : ops[i] = ops[j] => i = j
  PROVE  LET h == ParkAll(g, ops)
         IN \E C : /\ Reduced(B, C, Range(ops))
                   /\ Fit(p, h, P, C, D, E, Q, X)
                   /\ h.hashes = g.hashes /\ h.births = g.births /\ h.deaths = g.deaths
                   /\ h.replay = g.replay
<1> DEFINE Good(h, k) ==
             \E C : /\ Reduced(B, C, FirstOf(ops, k))
                    /\ Fit(p, h, P, C, D, E, Q, X)
                    /\ h.hashes = g.hashes /\ h.births = g.births /\ h.deaths = g.deaths
                    /\ h.replay = g.replay
<1>1. PICK run : /\ run[0] = g
                 /\ \A k \in 0 .. n - 1 : run[k + 1] = Park(run[k], ops[k + 1])
                 /\ run[n] = ParkAll(g, ops)
  BY ParkRun
<1> DEFINE S == {k \in 0 .. n : Good(run[k], k)}
<1>2. 0 \in S
  <2>1. Reduced(B, B, FirstOf(ops, 0))
    BY FirstFacts DEF Reduced
  <2> QED BY <1>1, <2>1
<1>3. ASSUME NEW k \in 0 .. n - 1, Good(run[k], k)
      PROVE  Good(run[k + 1], k + 1)
  <2> DEFINE op == ops[k + 1]
             f == run[k]
             h == run[k + 1]
  <2>1. PICK C : /\ Reduced(B, C, FirstOf(ops, k))
                 /\ Fit(p, f, P, C, D, E, Q, X)
                 /\ f.hashes = g.hashes /\ f.births = g.births /\ f.deaths = g.deaths
                 /\ f.replay = g.replay
    BY <1>3
  <2>2. h = Park(f, op) /\ FirstOf(ops, k + 1) = FirstOf(ops, k) \cup {op}
    BY <1>1, FirstFacts
  <2>3. op \in DOMAIN C /\ op \notin DOMAIN D /\ C[op] \in X
    <3>1. op \in DOMAIN B /\ op \notin DOMAIN D /\ B[op] \in X /\ op \notin FirstOf(ops, k)
      BY DEF FirstOf
    <3> QED BY <2>1, <3>1 DEF Reduced
  <2> HIDE DEF f, h, op
  <2> DEFINE G == Without(C, {op})
  <2>4. /\ Fit(p, h, P, G, D, E, Q, X)
        /\ h.hashes = g.hashes /\ h.births = g.births /\ h.deaths = g.deaths
        /\ h.replay = g.replay
    BY <2>1, <2>2, <2>3, ParkFits
  <2>5. Reduced(B, G, FirstOf(ops, k + 1))
    BY <2>1, <2>2 DEF Reduced, Without, Restrict
  <2> QED BY <2>4, <2>5 DEF h
<1>4. n \in S
  <2> HIDE DEF Good
  <2>1. \A k \in 0 .. n - 1 : k \in S => k + 1 \in S
    <3>1. \A k \in 0 .. n - 1 : k + 1 \in 0 .. n
      OBVIOUS
    <3> QED BY <1>3, <3>1
  <2> HIDE DEF S
  <2>2. \A k \in 0 .. n : k \in S
    BY <1>2, <2>1, Climb
  <2> QED BY <2>2
<1> QED BY <1>1, <1>4, FirstFacts

-----------------------------------------------------------------------------
(* The journal, and a block connected.                                     *)

(* h is g but for the journal, the marks and what was sent.                *)
SameCells(g, h) ==
  /\ h.rows = g.rows /\ h.index = g.index /\ h.next = g.next
  /\ h.nBirths = g.nBirths /\ h.nDeaths = g.nDeaths
  /\ DOMAIN h.limbo = DOMAIN g.limbo
  /\ \A op \in DOMAIN g.limbo : h.limbo[op] = g.limbo[op]

(* A handler that touches no cell and sends nothing leaves a page in step. *)
LEMMA SameShown ==
  ASSUME NEW p, NEW g, NEW h, Shown(p, g), SameCells(g, h), h.out = g.out
  PROVE  Shown(p, h)
<1>1. Range(h.rows) \subseteq Range(g.rows) /\ RowIds(h) = RowIds(g)
  BY DEF SameCells, RowIds
<1>2. LimboIds(h) = LimboIds(g)
  BY DEF SameCells, LimboIds
<1> QED BY <1>1, <1>2, SilentShown

(* The same limbo parks the same rows.                                     *)
LEMMA SameLimbo ==
  ASSUME NEW g, NEW h, SameCells(g, h)
  PROVE  Range(h.limbo) = Range(g.limbo)
BY DEF SameCells, Range

(* A galaxy with the same cells and the same journal is as sound.          *)
LEMMA SameSound ==
  ASSUME NEW g, NEW h, NEW P, NEW B, NEW D, NEW E, NEW Q, NEW X, Sound(g, P, B, D, E, Q, X),
         Shape(h), SameCells(g, h),
         h.hashes = g.hashes, h.births = g.births, h.deaths = g.deaths
  PROVE  Sound(h, P, B, D, E, Q, X)
<1>1. /\ h.rows = g.rows /\ h.index = g.index /\ h.next = g.next
      /\ h.nBirths = g.nBirths /\ h.nDeaths = g.nDeaths
      /\ DOMAIN h.limbo = DOMAIN g.limbo
      /\ \A op \in DOMAIN g.limbo : h.limbo[op] = g.limbo[op]
  BY DEF SameCells
<1>2. Carriers(h) = Carriers(g)
  BY <1>1, SameLimbo DEF Carriers
<1>3. NamesInv(h) /\ IndexInv(h) /\ ParkedInv(h, B)
  BY <1>1, <1>2 DEF Sound, NamesInv, IndexInv, ParkedInv
<1>4. LedgerInv(h, P, B, D, E) /\ CountInv(h, B, D)
  BY <1>1 DEF Sound, LedgerInv, CountInv
<1>5. JournalInv(h, P, B, D, X)
  BY DEF Sound, JournalInv, BirthsAt, DeathsAt
<1>6. PromInv(h, B, E, Q)
  BY <1>1, <1>2 DEF Sound, PromInv
<1> QED BY <1>3, <1>4, <1>5, <1>6 DEF Sound

(* The journal of h reaches as deep below height n as Window allows.       *)
Reaches(g, h, n) == \A m \in DOMAIN g.hashes : m + Window > n => m \in DOMAIN h.hashes

(* prune_reorg_journal keeps the galaxy sound and drops no height within   *)
(* the window below the top.                                               *)
LEMMA PruneSound ==
  ASSUME NEW g, NEW P, NEW top \in Nat, NEW B, NEW D, NEW E, NEW Q,
         P \subseteq Nat, \A m \in P : m <= top, Sound(g, P, B, D, E, Q, {})
  PROVE  LET h == PruneReorgJournal(g)
         IN  /\ Sound(h, P, B, D, E, Q, {}) /\ SameCells(g, h)
             /\ h.out = g.out /\ h.replay = g.replay /\ h.hydrated = g.hydrated
             /\ DOMAIN h.hashes \subseteq DOMAIN g.hashes
             /\ top \in DOMAIN g.hashes => top \in DOMAIN h.hashes
             /\ Reaches(g, h, top)
<1> DEFINE floor == GreatestOr(JournalHeights(g), 0) - (Window - 1)
           Recent(f) == Restrict(f, {n \in DOMAIN f : n >= floor})
           h == PruneReorgJournal(g)
<1>1. /\ DOMAIN h = Fields /\ SameCells(g, h)
      /\ h.hashes = Recent(g.hashes) /\ h.births = Recent(g.births)
      /\ h.deaths = Recent(g.deaths)
      /\ h.limbo = g.limbo /\ h.rows = g.rows
      /\ h.out = g.out /\ h.replay = g.replay /\ h.hydrated = g.hydrated
  BY DEF PruneReorgJournal, Sound, Shape, Fields, SameCells
<1>2. JournalHeights(g) = DOMAIN g.hashes
  BY DEF Sound, JournalInv, JournalHeights
<1>3. DOMAIN g.hashes \subseteq P
  BY DEF Sound, JournalInv
<1>4. floor \in Int /\ \A n \in DOMAIN g.hashes : floor <= Max(DOMAIN g.hashes)
  <2>1. Window \in Nat \ {0}
    BY GalaxyAssumption
  <2>2. CASE DOMAIN g.hashes = {}
    BY <2>1, <2>2, <1>2 DEF GreatestOr
  <2>3. CASE DOMAIN g.hashes # {}
    <3>1. Max(DOMAIN g.hashes) \in DOMAIN g.hashes
      BY <2>3, <1>3, GreatestNumber
    <3>2. Max(DOMAIN g.hashes) \in Nat
      BY <1>3, <3>1
    <3>3. floor = Max(DOMAIN g.hashes) - (Window - 1)
      BY <2>3, <1>2 DEF GreatestOr
    <3> QED BY <2>1, <3>2, <3>3
  <2> QED BY <2>2, <2>3
<1> HIDE DEF floor, h
<1>5. /\ DOMAIN h.hashes = {n \in DOMAIN g.hashes : n >= floor}
      /\ DOMAIN h.births = {n \in DOMAIN g.births : n >= floor}
      /\ DOMAIN h.deaths = {n \in DOMAIN g.deaths : n >= floor}
      /\ \A n \in DOMAIN h.births : h.births[n] = g.births[n]
      /\ \A n \in DOMAIN h.deaths : h.deaths[n] = g.deaths[n]
  BY <1>1 DEF Restrict
<1>6. Shape(h)
  BY <1>1, <1>5 DEF Sound, Shape, SameCells
<1>7. Carriers(h) \subseteq Carriers(g)
  BY <1>1, <1>5 DEF Carriers
<1>8. NamesInv(h) /\ PromInv(h, B, E, Q)
  <2>1. h.next = g.next
    BY <1>1 DEF SameCells
  <2>2. NoNewNames(g, h)
    BY <1>7 DEF NoNewNames
  <2>3. NamesInv(h)
    BY <2>1, <2>2, NamesKept DEF Sound
  <2> QED BY <1>1, <2>2, <2>3, PromiseKept DEF Sound
<1>9. IndexInv(h) /\ ParkedInv(h, B)
  BY <1>1 DEF SameCells, Sound, IndexInv, ParkedInv
<1>10. LedgerInv(h, P, B, D, E) /\ CountInv(h, B, D)
  BY <1>1 DEF SameCells, Sound, LedgerInv, CountInv
<1>11. JournalInv(h, P, B, D, {})
  <2>1. \A n \in DOMAIN h.hashes, m \in P : m >= n => m \in DOMAIN h.hashes
    <3> TAKE n \in DOMAIN h.hashes, m \in P
    <3> HAVE m >= n
    <3>1. n \in DOMAIN g.hashes /\ n >= floor /\ n \in Nat /\ m \in Nat
      BY <1>3, <1>5
    <3>2. m \in DOMAIN g.hashes
      BY <3>1 DEF Sound, JournalInv
    <3>3. m >= floor
      BY <1>4, <3>1
    <3> QED BY <1>5, <3>2, <3>3
  <2>2. \A n \in DOMAIN h.hashes : BirthsAt(h, n) = BirthsAt(g, n) /\ DeathsAt(h, n) = DeathsAt(g, n)
    BY <1>5 DEF BirthsAt, DeathsAt
  <2> QED BY <1>3, <1>5, <2>1, <2>2 DEF Sound, JournalInv
<1>12. top \in DOMAIN g.hashes => top \in DOMAIN h.hashes
  <2> SUFFICES ASSUME top \in DOMAIN g.hashes PROVE top >= floor
    BY <1>5
  <2>1. Max(DOMAIN g.hashes) \in DOMAIN g.hashes
    BY <1>3, GreatestNumber
  <2>2. Max(DOMAIN g.hashes) \in Nat /\ Max(DOMAIN g.hashes) <= top
    BY <1>3, <2>1
  <2> QED BY <1>4, <2>2
<1>13. Reaches(g, h, top)
  <2> SUFFICES ASSUME NEW m \in DOMAIN g.hashes, m + Window > top PROVE m >= floor
    BY <1>5 DEF Reaches
  <2>1. Max(DOMAIN g.hashes) \in DOMAIN g.hashes
    BY <1>3, GreatestNumber
  <2>2. Max(DOMAIN g.hashes) \in Nat /\ Max(DOMAIN g.hashes) <= top /\ m \in Nat
    BY <1>3, <2>1
  <2>3. floor = Max(DOMAIN g.hashes) - (Window - 1)
    <3>1. JournalHeights(g) # {}
      BY <1>2
    <3> QED BY <1>2, <3>1 DEF GreatestOr, floor
  <2>4. Window \in Nat \ {0}
    BY GalaxyAssumption
  <2> QED BY <2>2, <2>3, <2>4
<1> QED BY <1>1, <1>5, <1>6, <1>8, <1>9, <1>10, <1>11, <1>12, <1>13 DEF Sound, h

(* A block above all those followed.                                       *)
Hashed(g, h, P, B, D, E, Q, n) ==
  /\ Sound(h, P \cup {n}, B, D, E, Q, {}) /\ SameCells(g, h)
  /\ h.out = g.out /\ h.replay = g.replay /\ h.hydrated = g.hydrated
  /\ n \in DOMAIN h.hashes

(* Recording the hash of a block above all others opens an empty journal   *)
(* entry for it.                                                           *)
LEMMA HashSound ==
  ASSUME NEW g, NEW P, NEW n \in Nat, NEW b, NEW B, NEW D, NEW E, NEW Q,
         P \subseteq Nat, \A m \in P : m < n, Sound(g, P, B, D, E, Q, {})
  PROVE  Hashed(g, [g EXCEPT !.hashes = Put(@, n, b)], P, B, D, E, Q, n)
<1> DEFINE h == [g EXCEPT !.hashes = Put(@, n, b)]
<1>1. /\ DOMAIN h = Fields /\ SameCells(g, h)
      /\ h.hashes = Put(g.hashes, n, b) /\ h.births = g.births /\ h.deaths = g.deaths
      /\ h.limbo = g.limbo /\ h.rows = g.rows
      /\ h.out = g.out /\ h.replay = g.replay /\ h.hydrated = g.hydrated
  BY DEF Sound, Shape, Fields, SameCells
<1> HIDE DEF h
<1>2. DOMAIN h.hashes = DOMAIN g.hashes \cup {n}
  BY <1>1 DEF Put
<1>3. Shape(h)
  BY <1>1 DEF Sound, Shape, SameCells
<1>4. Carriers(h) = Carriers(g)
  BY <1>1 DEF Carriers
<1>5. NamesInv(h) /\ IndexInv(h) /\ ParkedInv(h, B)
  BY <1>1, <1>4 DEF Sound, NamesInv, IndexInv, ParkedInv, SameCells
<1>6. LedgerInv(h, P \cup {n}, B, D, E) /\ CountInv(h, B, D)
  BY <1>1 DEF Sound, LedgerInv, CountInv, SameCells
<1>7. n \notin P /\ n \notin DOMAIN g.hashes
  BY DEF Sound, JournalInv
<1>8. JournalInv(h, P \cup {n}, B, D, {})
  <2>1. \A i \in DOMAIN h.hashes, m \in P \cup {n} : m >= i => m \in DOMAIN h.hashes
    <3> TAKE i \in DOMAIN h.hashes, m \in P \cup {n}
    <3>1. CASE m = n
      BY <3>1, <1>2
    <3>2. CASE i \in DOMAIN g.hashes /\ m \in P
      BY <3>2, <1>2 DEF Sound, JournalInv
    <3>3. CASE i = n /\ m \in P
      BY <3>3
    <3> QED BY <1>2, <3>1, <3>2, <3>3
  <2>2. \A i \in DOMAIN g.hashes : BirthsListed(BirthsAt(h, i), B, i) /\ DeathsListed(DeathsAt(h, i), D, i)
    BY <1>1 DEF Sound, JournalInv, BirthsAt, DeathsAt
  <2>3. BirthsAt(h, n) = <<>> /\ DeathsAt(h, n) = <<>>
    BY <1>1, <1>7 DEF Sound, JournalInv, BirthsAt, DeathsAt
  <2>4. \A i \in DOMAIN <<>> : FALSE
    OBVIOUS
  <2>5. (\A op \in DOMAIN B : B[op] # n) /\ (\A op \in DOMAIN D : D[op] # n)
    BY <1>7 DEF Sound, LedgerInv
  <2>6. BirthsListed(<<>>, B, n) /\ DeathsListed(<<>>, D, n)
    BY <2>4, <2>5 DEF BirthsListed, DeathsListed
  <2>7. DOMAIN h.hashes \subseteq P \cup {n} /\ DOMAIN h.births \subseteq DOMAIN h.hashes
        /\ DOMAIN h.deaths \subseteq DOMAIN h.hashes
    BY <1>1, <1>2 DEF Sound, JournalInv
  <2> QED BY <1>2, <2>1, <2>2, <2>3, <2>6, <2>7 DEF JournalInv
<1>9. PromInv(h, B, E, Q)
  BY <1>1, <1>4 DEF Sound, PromInv
<1> QED BY <1>1, <1>2, <1>3, <1>5, <1>6, <1>8, <1>9 DEF Sound, h, Hashed

(* What the cap took on the way from g to h.                               *)
Took(g, h, K) ==
  /\ DOMAIN h.index = DOMAIN g.index \ K
  /\ K \subseteq DOMAIN g.index
  /\ \A op \in K : \E x \in Range(h.rows) : x.id = g.index[op]

(* The block of height n is connected on the way from g to h.              *)
MinedStep(p, g, h, P, B, D, E, Q, n) ==
  \E K : /\ Fit(p, h, P \cup {n}, B, D, E \cup K, Without(Q, K), {})
         /\ Took(g, h, K)
         /\ n \in DOMAIN h.hashes /\ Reaches(g, h, n)
         /\ h.nBirths = g.nBirths /\ h.nDeaths = g.nDeaths
         /\ h.replay = g.replay /\ DOMAIN h.limbo = DOMAIN g.limbo
         /\ h.hydrated = g.hydrated

(* handle_block_mined keeps galaxy and page in step; only the cap may take *)
(* cells.                                                                  *)
LEMMA MinedFits ==
  ASSUME NEW p, NEW g, NEW P, NEW B, NEW D, NEW E, NEW Q, NEW b \in Blocks,
         P \subseteq Nat, Fit(p, g, P, B, D, E, Q, {}), \A m \in P : m < Height[b], g.replay \/ DOMAIN g.limbo = {}
  PROVE  MinedStep(p, g, HandleBlockMined(g, b), P, B, D, E, Q, Height[b])
<1> DEFINE n == Height[b]
           R == P \cup {n}
           g1 == [g EXCEPT !.hashes = Put(@, n, b)]
           g2 == PruneReorgJournal(g1)
           g3 == PastBackstop(g2, n)
           t  == BlockTime[b]
           g4 == IF g3.replay THEN g3 ELSE EnforceCap(g3, t)
           h  == GcCells(g4, t)
<1>1. n \in Nat /\ t \in Nat /\ CorpseHold \in Nat
  BY TreeAssumption, GalaxyAssumption
<1>2. R \subseteq Nat /\ (\A m \in R : m <= n) /\ n \in R
  <2>1. n <= n /\ \A m \in P : m <= n
    BY <1>1
  <2>2. R \subseteq Nat /\ n \in R
    BY <1>1
  <2>3. \A m \in R : m \in P \/ m = n
    OBVIOUS
  <2> QED BY <2>1, <2>2, <2>3
<1>3. Replaced(g, n, b) = g
  <2>1. n \notin DOMAIN g.hashes
    BY <1>1 DEF Fit, Sound, JournalInv
  <2> QED BY <2>1 DEF Replaced
<1>4. HandleBlockMined(g, b) = h
  BY <1>3 DEF HandleBlockMined, Journalled, Aged
<1>5. /\ Fit(p, g1, R, B, D, E, Q, {}) /\ SameCells(g, g1) /\ n \in DOMAIN g1.hashes
      /\ g1.replay = g.replay /\ g1.hydrated = g.hydrated
      /\ g1.hashes = Put(g.hashes, n, b)
  <2>1. Sound(g, P, B, D, E, Q, {}) /\ Shown(p, g)
    BY DEF Fit
  <2>2. /\ Sound(g1, R, B, D, E, Q, {}) /\ SameCells(g, g1) /\ n \in DOMAIN g1.hashes
        /\ g1.out = g.out /\ g1.replay = g.replay /\ g1.hydrated = g.hydrated
    <3>1. Hashed(g, g1, P, B, D, E, Q, n)
      BY <1>1, <2>1, HashSound
    <3> QED BY <3>1 DEF Hashed, R
  <2>3. g1.hashes = Put(g.hashes, n, b)
    BY <2>1 DEF Sound, Shape, Fields
  <2> HIDE DEF g1, R
  <2> QED BY <2>1, <2>2, <2>3, SameShown DEF Fit
<1> HIDE DEF g1, R
<1>6. /\ Fit(p, g2, R, B, D, E, Q, {}) /\ SameCells(g1, g2) /\ n \in DOMAIN g2.hashes
      /\ g2.replay = g1.replay /\ g2.hydrated = g1.hydrated /\ Reaches(g1, g2, n)
  <2>1. /\ Sound(g2, R, B, D, E, Q, {}) /\ SameCells(g1, g2) /\ n \in DOMAIN g2.hashes
        /\ g2.out = g1.out /\ g2.replay = g1.replay /\ g2.hydrated = g1.hydrated
        /\ Reaches(g1, g2, n)
    BY <1>1, <1>2, <1>5, PruneSound DEF Fit
  <2> HIDE DEF g2
  <2> QED BY <1>5, <2>1, SameShown DEF Fit
<1> HIDE DEF g2
<1>7. /\ Fit(p, g3, R, B, D, E, Q, {}) /\ SameCells(g2, g3) /\ n \in DOMAIN g3.hashes
      /\ g3.replay = g2.replay /\ g3.hydrated = g2.hydrated /\ g3.hashes = g2.hashes
  <2>1. CASE g3 = g2
    BY <1>6, <2>1 DEF SameCells
  <2>2. CASE g3 # g2
    <3>1. ~ g2.replay /\ g3 = SettleReorgLimbo(g2)
      BY <2>2 DEF PastBackstop
    <3>2. DOMAIN g2.limbo = {}
      BY <1>5, <1>6, <3>1 DEF SameCells
    <3>3. g3 = [g2 EXCEPT !.limbo = Empty, !.backstop = NoMark]
      BY <3>1, <3>2 DEF SettleReorgLimbo, Gone
    <3>4. Shape(g2)
      BY <1>6 DEF Fit, Sound
    <3>5. /\ DOMAIN g3 = Fields /\ g3.limbo = Empty /\ g3.rows = g2.rows
          /\ g3.hashes = g2.hashes /\ g3.births = g2.births /\ g3.deaths = g2.deaths
          /\ g3.index = g2.index /\ g3.next = g2.next
          /\ g3.nBirths = g2.nBirths /\ g3.nDeaths = g2.nDeaths
          /\ g3.replay = g2.replay /\ g3.hydrated = g2.hydrated /\ g3.out = g2.out
      BY <3>3, <3>4 DEF Shape, Fields
    <3>6. DOMAIN Empty = {}
      BY DEF Empty
    <3>7. SameCells(g2, g3)
      BY <3>2, <3>5, <3>6 DEF SameCells
    <3> HIDE DEF g3
    <3>8. Shape(g3)
      BY <3>4, <3>5, <3>6 DEF Shape
    <3>9. Sound(g2, R, B, D, E, Q, {}) /\ Shown(p, g2)
      BY <1>6 DEF Fit
    <3>10. Sound(g3, R, B, D, E, Q, {}) /\ Shown(p, g3)
      BY <3>5, <3>7, <3>8, <3>9, SameSound, SameShown
    <3> QED BY <1>6, <3>5, <3>7, <3>10 DEF Fit
  <2> QED BY <2>1, <2>2
<1> HIDE DEF g3
<1>8. PICK K : /\ Fit(p, g4, R, B, D, E \cup K, Without(Q, K), {})
               /\ K \subseteq DOMAIN g3.index
               /\ DOMAIN g4.index = DOMAIN g3.index \ K
               /\ \A x \in Range(g3.rows) : IsAlive(x) /\ x.op \in K =>
                    \E y \in Range(g4.rows) : y.id = x.id /\ ~ Expired(y, t)
               /\ DOMAIN g4.limbo = DOMAIN g3.limbo
               /\ g4.hashes = g3.hashes /\ g4.replay = g3.replay /\ g4.hydrated = g3.hydrated
               /\ g4.nBirths = g3.nBirths /\ g4.nDeaths = g3.nDeaths
  <2>1. CASE g3.replay
    <3>1. g4 = g3
      BY <2>1
    <3>2. PromInv(g3, B, E, Without(Q, {}))
      BY <1>7 DEF Fit, Sound, PromInv, Without, Restrict
    <3>3. E \cup {} = E
      OBVIOUS
    <3>4. Fit(p, g3, R, B, D, E \cup {}, Without(Q, {}), {})
      BY <1>7, <3>2, <3>3 DEF Fit, Sound
    <3> HIDE DEF g4
    <3>5. /\ Fit(p, g4, R, B, D, E \cup {}, Without(Q, {}), {})
          /\ {} \subseteq DOMAIN g3.index /\ DOMAIN g4.index = DOMAIN g3.index \ {}
      BY <3>1, <3>4
    <3> QED BY <3>1, <3>5
  <2>2. CASE ~ g3.replay
    <3>1. g4 = EnforceCap(g3, t)
      BY <2>2
    <3> HIDE DEF g4
    <3>2. PICK K : CapStep(g3, g4, t, K) /\ Fit(p, g4, R, B, D, E \cup K, Without(Q, K), {})
      BY <1>1, <1>7, <3>1, CapFits
    <3>3. \A x \in Range(g3.rows) : IsAlive(x) /\ x.op \in K =>
            \E y \in Range(g4.rows) : y.id = x.id /\ ~ Expired(y, t)
      <4> SUFFICES ASSUME NEW x \in Range(g3.rows), IsAlive(x), x.op \in K
                   PROVE  \E y \in Range(g4.rows) : y.id = x.id /\ ~ Expired(y, t)
        OBVIOUS
      <4>1. x \in Row
        BY <1>7, CarriersAreRows DEF Fit, Sound
      <4>2. Corpse(x, K, t).id = x.id /\ Corpse(x, K, t).died = t
        BY <1>1, <4>1, CorpseFacts
      <4>3. Corpse(x, K, t) \in Range(g4.rows)
        BY <3>2 DEF CapStep
      <4>4. ~ Expired(Corpse(x, K, t), t)
        BY <1>1, <4>2 DEF Expired
      <4> QED BY <4>2, <4>3, <4>4
    <3> QED BY <3>2, <3>3 DEF CapStep
  <2> QED BY <2>1, <2>2
<1> HIDE DEF g4
<1>9. Fit(p, h, R, B, D, E \cup K, Without(Q, K), {}) /\ GcStep(g4, h, t)
  BY <1>8, GcFits
<1> HIDE DEF h
<1>10. g3.index = g.index /\ g3.rows = g.rows /\ DOMAIN g3.limbo = DOMAIN g.limbo
       /\ g3.nBirths = g.nBirths /\ g3.nDeaths = g.nDeaths
  BY <1>5, <1>6, <1>7 DEF SameCells
<1>11. Took(g, h, K)
  <2>1. ASSUME NEW op \in K PROVE \E x \in Range(h.rows) : x.id = g.index[op]
    <3>1. PICK x \in Range(g.rows) : IsAlive(x) /\ x.op = op
      BY <1>8, <1>10 DEF Fit, Sound, IndexInv
    <3>2. g.index[op] = x.id
      BY <3>1 DEF Fit, Sound, IndexInv
    <3>3. PICK y \in Range(g4.rows) : y.id = x.id /\ ~ Expired(y, t)
      BY <1>8, <1>10, <3>1
    <3>4. y \in Range(h.rows)
      BY <1>9, <3>3 DEF GcStep
    <3> QED BY <3>2, <3>3, <3>4
  <2>2. DOMAIN h.index = DOMAIN g.index \ K
    BY <1>8, <1>9, <1>10 DEF GcStep
  <2> QED BY <1>8, <1>10, <2>1, <2>2 DEF Took
<1>12. /\ h.nBirths = g.nBirths /\ h.nDeaths = g.nDeaths /\ n \in DOMAIN h.hashes
       /\ h.replay = g.replay /\ DOMAIN h.limbo = DOMAIN g.limbo /\ h.hydrated = g.hydrated
  BY <1>5, <1>6, <1>7, <1>8, <1>9, <1>10 DEF GcStep
<1>13. Reaches(g, h, n)
  <2>1. /\ g1.hashes = Put(g.hashes, n, b) /\ Reaches(g1, g2, n)
        /\ h.hashes = g2.hashes
    BY <1>5, <1>6, <1>7, <1>8, <1>9 DEF GcStep
  <2>2. DOMAIN g1.hashes = DOMAIN g.hashes \cup {n}
    BY <2>1 DEF Put
  <2> QED BY <2>1, <2>2 DEF Reaches
<1> QED BY <1>4, <1>9, <1>11, <1>12, <1>13 DEF R, MinedStep

-----------------------------------------------------------------------------
(* The envelope, and a rebuild.                                            *)

(* The page has been told of g.                                            *)
Mirrors(p, g) == Shows(p, g) /\ p.births = g.nBirths /\ p.deaths = g.nDeaths

(* A galaxy with an empty limbo.                                           *)
Emptied(g) == [g EXCEPT !.limbo = Empty, !.backstop = NoMark]

(* settle_reorg_limbo ends the wait of all parked rows, and with it every  *)
(* promise: the page is told which identities are gone.                    *)
LEMMA SettleFits ==
  ASSUME NEW p, NEW g, NEW P, NEW B, NEW D, NEW E, NEW Q, Fit(p, g, P, B, D, E, Q, {})
  PROVE  LET h == SettleReorgLimbo(g)
         IN  /\ Fit(p, h, P, B, D, E, Empty, {})
             /\ h.rows = g.rows /\ h.index = g.index /\ h.nBirths = g.nBirths
             /\ h.nDeaths = g.nDeaths /\ h.replay = g.replay /\ h.hydrated = g.hydrated
             /\ h.hashes = g.hashes /\ DOMAIN h.limbo = {}
<1> DEFINE ids == LimboIds(g)
           f == Emptied(g)
           h == SettleReorgLimbo(g)
<1>1. h = IF ids = {} THEN f ELSE [f EXCEPT !.out = Append(@, Gc(ids))]
  BY DEF SettleReorgLimbo, Gone, Sends, Emptied, LimboIds
<1>2. Shape(g) /\ Shown(p, g) /\ Sound(g, P, B, D, E, Q, {})
  BY DEF Fit, Sound
<1>3. /\ DOMAIN f = Fields /\ f.limbo = Empty /\ f.rows = g.rows /\ f.index = g.index
      /\ f.hashes = g.hashes /\ f.births = g.births /\ f.deaths = g.deaths /\ f.next = g.next
      /\ f.nBirths = g.nBirths /\ f.nDeaths = g.nDeaths
      /\ f.replay = g.replay /\ f.hydrated = g.hydrated /\ f.out = g.out
  BY <1>2 DEF Emptied, Shape, Fields
<1> HIDE DEF f
<1>4. /\ DOMAIN h = Fields /\ h.limbo = Empty /\ h.rows = g.rows /\ h.index = g.index
      /\ h.hashes = g.hashes /\ h.births = g.births /\ h.deaths = g.deaths /\ h.next = g.next
      /\ h.nBirths = g.nBirths /\ h.nDeaths = g.nDeaths
      /\ h.replay = g.replay /\ h.hydrated = g.hydrated
      /\ h.out = IF ids = {} THEN g.out ELSE Append(g.out, Gc(ids))
  BY <1>1, <1>3 DEF Fields
<1> HIDE DEF h
<1>5. DOMAIN Empty = {}
  BY DEF Empty
<1>6. Listed(g.out) /\ Listed(h.out)
  BY <1>2, <1>4, OneMore DEF Shape
<1>7. Shape(h)
  BY <1>2, <1>4, <1>5, <1>6 DEF Shape
<1>8. Carriers(h) \subseteq Carriers(g)
  <2>1. Range(Empty) = {}
    BY <1>5 DEF Range
  <2> QED BY <1>4, <2>1 DEF Carriers
<1>9. NamesInv(h)
  <2>1. NoNewNames(g, h)
    BY <1>8 DEF NoNewNames
  <2> QED BY <1>2, <1>4, <2>1, NamesKept DEF Sound
<1>10. IndexInv(h) /\ ParkedInv(h, B) /\ PromInv(h, B, E, Empty)
  BY <1>2, <1>4, <1>5 DEF Sound, IndexInv, ParkedInv, PromInv
<1>11. LedgerInv(h, P, B, D, E) /\ CountInv(h, B, D)
  BY <1>2, <1>4 DEF Sound, LedgerInv, CountInv
<1>12. JournalInv(h, P, B, D, {})
  BY <1>2, <1>4 DEF Sound, JournalInv, BirthsAt, DeathsAt
<1>13. Sound(h, P, B, D, E, Empty, {})
  BY <1>7, <1>9, <1>10, <1>11, <1>12 DEF Sound
<1>14. RowIds(h) = RowIds(g) /\ LimboIds(h) = {}
  BY <1>4, <1>5 DEF RowIds, LimboIds
<1>15. Shown(p, h)
  <2>1. CASE ids = {}
    BY <1>2, <1>4, <1>14, <2>1, SilentShown
  <2>2. CASE ids # {}
    <3>1. \A x \in Range(h.rows) : x \in Range(g.rows) /\ x.id \notin ids
      <4> SUFFICES ASSUME NEW x \in Range(g.rows), NEW op \in DOMAIN g.limbo, x.id = g.limbo[op].id
                   PROVE  FALSE
        BY <1>4 DEF LimboIds
      <4>1. x.op = g.limbo[op].op
        BY <1>2 DEF Sound, NamesInv, Carriers, Range
      <4>2. x.op = op /\ op \notin DOMAIN B /\ x.op \in DOMAIN B
        BY <1>2, <4>1 DEF Sound, ParkedInv, LedgerInv
      <4> QED BY <4>2
    <3>2. RowIds(g) \subseteq RowIds(h) \cup ids /\ LimboIds(g) \subseteq LimboIds(h) \cup ids
      BY <1>14
    <3>3. h.out = Append(g.out, Gc(ids))
      BY <1>4, <2>2
    <3> HIDE DEF ids
    <3> QED BY <1>2, <1>6, <3>1, <3>2, <3>3, GcShown
  <2> QED BY <2>1, <2>2
<1> QED BY <1>4, <1>5, <1>13, <1>15 DEF Fit, h

(* The time at which a closed envelope enforces the cap.                   *)
LEMMA LastTime ==
  ASSUME NEW g, Shape(g)
  PROVE  GreatestOr({IF IsAlive(g.rows[i]) THEN g.rows[i].born ELSE g.rows[i].died
                       : i \in DOMAIN g.rows}, 0) \in Nat
<1> DEFINE At(i) == IF IsAlive(g.rows[i]) THEN g.rows[i].born ELSE g.rows[i].died
           times == {At(i) : i \in DOMAIN g.rows}
           n == Len(g.rows)
<1>1. n \in Nat /\ DOMAIN g.rows = 1 .. n /\ \A i \in 1 .. n : g.rows[i] \in Row
  BY DEF Shape
<1>2. \A i \in 1 .. n : At(i) \in Nat
  <2> TAKE i \in 1 .. n
  <2>1. g.rows[i] \in Row
    BY <1>1
  <2> QED BY <2>1 DEF Row, IsAlive
<1>3. CASE times = {}
  BY <1>3 DEF GreatestOr
<1>4. CASE times # {}
  <2> DEFINE f == [i \in 1 .. n |-> At(i)]
  <2>1. \A i \in 1 .. n : f[i] \in Nat /\ f[i] = At(i)
    BY <1>2
  <2> HIDE DEF f, n
  <2>2. PICK m \in Nat : \A i \in 1 .. n : f[i] <= m
    BY <1>1, <2>1, Bounded
  <2>3. times \subseteq Nat /\ \A x \in times : x <= m
    BY <1>1, <2>1, <2>2
  <2> HIDE DEF times
  <2>4. Max(times) \in times
    BY <1>4, <2>3, GreatestNumber
  <2> QED BY <1>4, <2>3, <2>4 DEF GreatestOr, times
<1> QED BY <1>3, <1>4

(* The envelope changes on the way from g to h.                            *)
ProgressStep(p, g, h, P, B, D, E, Q, active, complete) ==
  \E K : /\ Fit(p, h, P, B, D, E \cup K, IF complete THEN Empty ELSE Without(Q, K), {})
         /\ Took(g, h, K)
         /\ h.nBirths = g.nBirths /\ h.nDeaths = g.nDeaths /\ h.hashes = g.hashes
         /\ h.replay = active /\ h.hydrated = g.hydrated
         /\ DOMAIN h.limbo \subseteq DOMAIN g.limbo
         /\ complete /\ ~ active /\ g.replay => DOMAIN h.limbo = {}

(* Opening and closing the backfill envelope keeps galaxy and page in      *)
(* step; closing a complete one empties the limbo.                         *)
LEMMA ProgressFits ==
  ASSUME NEW p, NEW g, NEW P, NEW B, NEW D, NEW E, NEW Q, NEW active \in BOOLEAN,
         NEW complete \in BOOLEAN, Fit(p, g, P, B, D, E, Q, {})
  PROVE  ProgressStep(p, g, HandleBackfillProgress(g, active, complete), P, B, D, E, Q, active, complete)
<1> DEFINE h == HandleBackfillProgress(g, active, complete)
           shown == [g EXCEPT !.replay = active]
           settled == IF complete THEN SettleReorgLimbo(shown) ELSE shown
           t == GreatestOr({IF IsAlive(g.rows[i]) THEN g.rows[i].born ELSE g.rows[i].died
                              : i \in DOMAIN g.rows}, 0)
           Q2 == IF complete THEN Empty ELSE Q
<1>1. h = IF active \/ ~ g.replay THEN shown ELSE EnforceCap(settled, t)
  BY DEF HandleBackfillProgress
<1>2. t \in Nat
  BY LastTime DEF Fit, Sound
<1> HIDE DEF t, h
<1>3. /\ Fit(p, shown, P, B, D, E, Q, {}) /\ SameCells(g, shown) /\ shown.replay = active
      /\ shown.hashes = g.hashes /\ shown.hydrated = g.hydrated
  <2>1. Sound(g, P, B, D, E, Q, {}) /\ Shown(p, g) /\ Shape(g)
    BY DEF Fit, Sound
  <2>2. /\ DOMAIN shown = Fields /\ SameCells(g, shown) /\ shown.replay = active
        /\ shown.hashes = g.hashes /\ shown.births = g.births /\ shown.deaths = g.deaths
        /\ shown.rows = g.rows /\ shown.limbo = g.limbo /\ shown.next = g.next
        /\ shown.nBirths = g.nBirths /\ shown.nDeaths = g.nDeaths
        /\ shown.out = g.out /\ shown.hydrated = g.hydrated
    BY <2>1 DEF Shape, Fields, SameCells
  <2> HIDE DEF shown
  <2>3. Shape(shown)
    BY <2>1, <2>2 DEF Shape
  <2> QED BY <2>1, <2>2, <2>3, SameSound, SameShown DEF Fit
<1> HIDE DEF shown
<1>4. \A f, S : DOMAIN Without(f, S) = DOMAIN f \ S /\ \A x \in DOMAIN f \ S : Without(f, S)[x] = f[x]
  BY DEF Without, Restrict
<1>5. DOMAIN Empty = {}
  BY DEF Empty
<1>6. CASE active \/ ~ g.replay
  <2>1. h = shown
    BY <1>1, <1>6
  <2>2. PromInv(shown, B, E, IF complete THEN Empty ELSE Without(Q, {}))
    <3>1. PromInv(shown, B, E, Empty)
      BY <1>5 DEF PromInv
    <3>2. DOMAIN Without(Q, {}) = DOMAIN Q /\ \A x \in DOMAIN Q : Without(Q, {})[x] = Q[x]
      BY <1>4
    <3>3. PromInv(shown, B, E, Without(Q, {}))
      BY <1>3, <3>2 DEF Fit, Sound, PromInv
    <3> QED BY <3>1, <3>3
  <2>3. E \cup {} = E
    OBVIOUS
  <2>4. Fit(p, h, P, B, D, E \cup {}, IF complete THEN Empty ELSE Without(Q, {}), {})
    BY <1>3, <2>1, <2>2, <2>3 DEF Fit, Sound
  <2>5. Took(g, h, {})
    BY <1>3, <2>1 DEF SameCells, Took
  <2> QED BY <1>3, <1>6, <2>1, <2>4, <2>5 DEF SameCells, h, ProgressStep
<1>7. CASE ~ active /\ g.replay
  <2>1. h = EnforceCap(settled, t)
    BY <1>1, <1>7
  <2>2. /\ Fit(p, settled, P, B, D, E, Q2, {})
        /\ settled.rows = g.rows /\ settled.index = g.index /\ settled.nBirths = g.nBirths
        /\ settled.nDeaths = g.nDeaths /\ settled.replay = active
        /\ settled.hydrated = g.hydrated /\ settled.hashes = g.hashes
        /\ DOMAIN settled.limbo \subseteq DOMAIN g.limbo
        /\ complete => DOMAIN settled.limbo = {}
    <3>1. CASE complete
      BY <1>3, <3>1, SettleFits DEF SameCells
    <3>2. CASE ~ complete
      BY <1>3, <3>2 DEF SameCells
    <3> QED BY <3>1, <3>2
  <2> HIDE DEF settled
  <2>3. PICK K : CapStep(settled, h, t, K) /\ Fit(p, h, P, B, D, E \cup K, Without(Q2, K), {})
    BY <1>2, <2>1, <2>2, CapFits
  <2>4. Fit(p, h, P, B, D, E \cup K, IF complete THEN Empty ELSE Without(Q, K), {})
    <3>1. PromInv(h, B, E \cup K, IF complete THEN Empty ELSE Without(Q, K))
      BY <2>3, <1>5 DEF Fit, Sound, PromInv
    <3> QED BY <2>3, <3>1 DEF Fit, Sound
  <2>5. Took(g, h, K)
    <3>1. ASSUME NEW op \in K PROVE \E x \in Range(h.rows) : x.id = g.index[op]
      <4>0. K \subseteq DOMAIN g.index
        BY <2>2, <2>3 DEF CapStep
      <4>1. PICK x \in Range(g.rows) : IsAlive(x) /\ x.op = op
        BY <4>0 DEF Fit, Sound, IndexInv
      <4>2. g.index[op] = x.id /\ x \in Row
        BY <4>1, CarriersAreRows DEF Fit, Sound, IndexInv
      <4>3. Corpse(x, K, t) \in Range(h.rows) /\ Corpse(x, K, t).id = x.id
        BY <1>2, <2>2, <2>3, <4>2, CorpseFacts DEF CapStep
      <4> QED BY <4>2, <4>3
    <3> QED BY <2>2, <2>3, <3>1 DEF Took, CapStep
  <2>6. /\ h.nBirths = g.nBirths /\ h.nDeaths = g.nDeaths /\ h.hashes = g.hashes
        /\ h.replay = active /\ h.hydrated = g.hydrated
        /\ DOMAIN h.limbo \subseteq DOMAIN g.limbo
        /\ complete => DOMAIN h.limbo = {}
    BY <2>2, <2>3 DEF CapStep
  <2> QED BY <1>7, <2>4, <2>5, <2>6 DEF h, ProgressStep
<1> QED BY <1>6, <1>7 DEF ProgressStep

(* A galaxy that holds nothing.                                            *)
Blank(h) ==
  /\ DOMAIN h = Fields /\ h.rows = <<>> /\ h.next \in Nat
  /\ h.index = Empty /\ h.hashes = NoBlocks /\ h.births = Empty
  /\ h.deaths = Empty /\ h.nBirths = 0 /\ h.nDeaths = 0
  /\ h.limbo = Empty /\ h.replay = FALSE

(* A galaxy without rows is sound, for an empty history.                   *)
LEMMA BlankSound ==
  ASSUME NEW h, Blank(h), Listed(h.out)
  PROVE  Sound(h, {}, Empty, Empty, {}, Empty, {}) /\ RowIds(h) = {} /\ LimboIds(h) = {}
<1>1. DOMAIN Empty = {} /\ Range(Empty) = {} /\ DOMAIN NoBlocks = {}
  BY DEF Empty, Range, NoBlocks
<1>2. DOMAIN <<>> = {} /\ <<>> \in Seq(Row) /\ Range(<<>>) = {}
  <2>1. DOMAIN <<>> = {} /\ <<>> \in Seq(Row)
    OBVIOUS
  <2> QED BY <2>1 DEF Range
<1>3. Shape(h)
  BY <1>1, <1>2 DEF Shape, Distinct, Blank
<1>4. Carriers(h) = {}
  BY <1>1, <1>2 DEF Carriers, Blank
<1>5. NamesInv(h) /\ IndexInv(h) /\ ParkedInv(h, Empty) /\ PromInv(h, Empty, {}, Empty)
  BY <1>1, <1>2, <1>4 DEF NamesInv, IndexInv, ParkedInv, PromInv, Blank
<1>6. LedgerInv(h, {}, Empty, Empty, {})
  BY <1>1, <1>2 DEF LedgerInv, Blank
<1>7. CountInv(h, Empty, Empty)
  BY <1>1, FS_EmptySet DEF CountInv, Blank
<1>8. JournalInv(h, {}, Empty, Empty, {})
  BY <1>1 DEF JournalInv, Blank
<1>9. RowIds(h) = {} /\ LimboIds(h) = {}
  BY <1>1, <1>2 DEF RowIds, LimboIds, Blank
<1> QED BY <1>3, <1>5, <1>6, <1>7, <1>8, <1>9 DEF Sound

(* reset_for_rebuild leaves an empty galaxy, and tells the page so.        *)
LEMMA RebuildFits ==
  ASSUME NEW p, NEW g, NEW P, NEW B, NEW D, NEW E, NEW Q, Fit(p, g, P, B, D, E, Q, {})
  PROVE  LET h == ResetForRebuild(g)
         IN  /\ Sound(h, {}, Empty, Empty, {}, Empty, {})
             /\ Mirrors(ApplyDeltas(p, h.out), h)
             /\ h.replay = FALSE /\ DOMAIN h.limbo = {} /\ DOMAIN h.index = {}
<1> DEFINE ids == Ids(g.rows) \cup {g.limbo[op].id : op \in DOMAIN g.limbo}
           clean == [EmptyGalaxy EXCEPT !.next = g.next, !.out = g.out]
           f == Gone(clean, ids)
           h == ResetForRebuild(g)
<1>1. h = [f EXCEPT !.out = Append(@, Stats(clean))]
  BY DEF ResetForRebuild, Sends
<1>2. Shape(g) /\ Shown(p, g) /\ Sound(g, P, B, D, E, Q, {})
  BY DEF Fit, Sound
<1>3. ids = RowIds(g) \cup LimboIds(g)
  BY DEF Ids, RowIds, LimboIds, Range
<1>4. /\ DOMAIN clean = Fields /\ clean.rows = <<>> /\ clean.next = g.next
      /\ clean.index = Empty /\ clean.hashes = NoBlocks /\ clean.births = Empty
      /\ clean.deaths = Empty /\ clean.nBirths = 0 /\ clean.nDeaths = 0
      /\ clean.limbo = Empty /\ clean.replay = FALSE /\ clean.out = g.out
  BY DEF EmptyGalaxy, Fields
<1> HIDE DEF clean, ids
<1>5. f = IF ids = {} THEN clean ELSE [clean EXCEPT !.out = Append(@, Gc(ids))]
  BY DEF Gone, Sends
<1>6. /\ DOMAIN f = Fields /\ f.rows = <<>> /\ f.next = g.next
      /\ f.index = Empty /\ f.hashes = NoBlocks /\ f.births = Empty
      /\ f.deaths = Empty /\ f.nBirths = 0 /\ f.nDeaths = 0
      /\ f.limbo = Empty /\ f.replay = FALSE
      /\ f.out = IF ids = {} THEN g.out ELSE Append(g.out, Gc(ids))
  BY <1>4, <1>5 DEF Fields
<1> HIDE DEF f
<1>7. /\ DOMAIN h = Fields /\ h.rows = <<>> /\ h.next = g.next
      /\ h.index = Empty /\ h.hashes = NoBlocks /\ h.births = Empty
      /\ h.deaths = Empty /\ h.nBirths = 0 /\ h.nDeaths = 0
      /\ h.limbo = Empty /\ h.replay = FALSE
      /\ h.out = Append(f.out, Stats(clean))
  BY <1>1, <1>6 DEF Fields
<1> HIDE DEF h
<1>8. DOMAIN Empty = {} /\ Range(Empty) = {} /\ DOMAIN NoBlocks = {}
  BY DEF Empty, Range, NoBlocks
<1>9. DOMAIN <<>> = {} /\ <<>> \in Seq(Row) /\ Range(<<>>) = {}
  <2>1. DOMAIN <<>> = {} /\ <<>> \in Seq(Row)
    OBVIOUS
  <2> QED BY <2>1 DEF Range
<1>10. Listed(g.out) /\ Listed(f.out) /\ Listed(h.out)
  BY <1>2, <1>6, <1>7, OneMore DEF Shape
<1>13. Sound(h, {}, Empty, Empty, {}, Empty, {})
  <2>1. Blank(h)
    BY <1>2, <1>7 DEF Blank, Shape
  <2> QED BY <1>10, <2>1, BlankSound
<1>14. RowIds(f) = {} /\ LimboIds(f) = {}
  BY <1>6, <1>8, <1>9 DEF RowIds, LimboIds
<1>15. Shown(p, f)
  <2>1. \A x \in Range(f.rows) : x \in Range(g.rows) /\ x.id \notin ids
    BY <1>6, <1>9
  <2>2. CASE ids = {}
    <3>1. RowIds(g) \cup LimboIds(g) \subseteq RowIds(f) \cup LimboIds(f)
      BY <1>3, <2>2
    <3>2. Range(f.rows) \subseteq Range(g.rows) /\ f.out = g.out
      BY <1>6, <2>1, <2>2
    <3> QED BY <1>2, <3>1, <3>2, SilentShown
  <2>3. CASE ids # {}
    <3>1. f.out = Append(g.out, Gc(ids))
      BY <1>6, <2>3
    <3>2. RowIds(g) \subseteq RowIds(f) \cup ids /\ LimboIds(g) \subseteq LimboIds(f) \cup ids
      BY <1>3
    <3> QED BY <1>2, <1>10, <2>1, <3>1, <3>2, GcShown
  <2> QED BY <2>2, <2>3
<1>16. Mirrors(ApplyDeltas(p, h.out), h)
  <2>1. h.rows = f.rows /\ h.limbo = f.limbo
    BY <1>6, <1>7
  <2>2. /\ Shows(ApplyDeltas(p, h.out), h)
        /\ ApplyDeltas(p, h.out).births = clean.nBirths
        /\ ApplyDeltas(p, h.out).deaths = clean.nDeaths
    <3>1. Shown(p, f) /\ Listed(f.out) /\ h.out = Append(f.out, Stats(clean))
      BY <1>7, <1>10, <1>15
    <3> QED BY <2>1, <3>1, StatsShown
  <2> QED BY <1>4, <1>7, <2>2 DEF Mirrors
<1> QED BY <1>7, <1>8, <1>13, <1>16 DEF h

-----------------------------------------------------------------------------
(* A rollback.                                                             *)

(* C is B below height n.                                                  *)
Cut(B, C, n) ==
  /\ DOMAIN C = {op \in DOMAIN B : B[op] < n}
  /\ \A op \in DOMAIN C : C[op] = B[op]

(* undo_block, first half: no outpoint is spent at height n any more.      *)
LEMMA DeathsUndone ==
  ASSUME NEW p, NEW g, NEW P, NEW B, NEW D, NEW E, NEW Q, NEW n \in DOMAIN g.hashes,
         Fit(p, g, P, B, D, E, Q, {})
  PROVE  LET deaths == IF n \in DOMAIN g.deaths THEN Reverse(g.deaths[n]) ELSE <<>>
             h == ResurrectAll(g, deaths)
         IN \E F : /\ Reduced(D, F, {op \in DOMAIN D : D[op] = n})
                   /\ Fit(p, h, P, B, F, E, Q, {n})
                   /\ h.hashes = g.hashes /\ h.births = g.births /\ h.deaths = g.deaths
                   /\ h.replay = g.replay
<1> DEFINE deaths == IF n \in DOMAIN g.deaths THEN Reverse(g.deaths[n]) ELSE <<>>
           h == ResurrectAll(g, deaths)
<1>1. Fit(p, g, P, B, D, E, Q, {n})
  BY DEF Fit, Sound, JournalInv
<1>2. DeathsListed(DeathsAt(g, n), D, n)
  BY DEF Fit, Sound, JournalInv
<1>3. CASE n \notin DOMAIN g.deaths
  <2>1. deaths = <<>> /\ DOMAIN <<>> = 1 .. 0
    BY <1>3
  <2>2. h = g
    <3>1. \E run : run[0] = g /\ run[0] = ResurrectAll(g, <<>>)
      BY <2>1, ResurrectRun
    <3> QED BY <2>1, <3>1
  <2>3. Reduced(D, D, {op \in DOMAIN D : D[op] = n})
    <3>1. DeathsAt(g, n) = <<>> /\ DOMAIN <<>> = {}
      BY <1>3 DEF DeathsAt
    <3>2. \A op \in DOMAIN D : D[op] # n
      BY <1>2, <3>1 DEF DeathsListed
    <3> QED BY <3>2 DEF Reduced
  <2> QED BY <1>1, <2>2, <2>3
<1>4. CASE n \in DOMAIN g.deaths
  <2> DEFINE s == g.deaths[n]
             l == Len(s)
             Dead == {op \in DOMAIN D : D[op] = n}
             Names == NamesOf(deaths, l)
  <2>1. s \in Seq(Row) /\ DeathsListed(s, D, n)
    BY <1>2, <1>4 DEF Fit, Sound, Shape, DeathsAt
  <2>2. l \in Nat /\ DOMAIN s = 1 .. l
    BY <2>1
  <2>3. DOMAIN deaths = 1 .. l /\ \A i \in 1 .. l : deaths[i] = s[l - i + 1] /\ l - i + 1 \in 1 .. l
    BY <1>4, <2>2 DEF Reverse
  <2> HIDE DEF s, l, deaths
  <2>4. \A i \in 1 .. l : /\ deaths[i] \in Range(s) /\ IsAlive(deaths[i])
                          /\ deaths[i].op \in DOMAIN D /\ D[deaths[i].op] = n
    BY <2>1, <2>2, <2>3 DEF DeathsListed, Range
  <2>5. \A i, j \in 1 .. l : deaths[i].op = deaths[j].op => i = j
    <3> TAKE i, j \in 1 .. l
    <3> HAVE deaths[i].op = deaths[j].op
    <3>1. l - i + 1 = l - j + 1
      BY <2>1, <2>2, <2>3 DEF DeathsListed
    <3> QED BY <2>2, <3>1
  <2>6. PICK F : /\ Reduced(D, F, Names)
                 /\ Fit(p, h, P, B, F, E, Q, {n})
                 /\ h.hashes = g.hashes /\ h.births = g.births /\ h.deaths = g.deaths
                 /\ h.replay = g.replay /\ h.limbo = g.limbo
    <3>1. Waiting(g, D, {n}, n, deaths, l)
      BY <2>3, <2>4, <2>5 DEF Waiting, s
    <3>2. Revived(p, g, h, P, B, D, E, Q, {n}, Names)
      BY <1>1, <1>4, <2>2, <3>1, ResurrectAllFits
    <3> QED BY <3>2 DEF Revived
  <2>7. Names = Dead
    <3>1. Names \subseteq Dead
      BY <2>4 DEF NamesOf
    <3>2. ASSUME NEW op \in Dead PROVE op \in Names
      <4>1. PICK j \in 1 .. l : s[j].op = op
        BY <2>1, <2>2 DEF DeathsListed
      <4>2. l - j + 1 \in 1 .. l /\ l - (l - j + 1) + 1 = j
        BY <2>2
      <4>3. deaths[l - j + 1].op = op
        BY <2>3, <4>1, <4>2
      <4> QED BY <4>2, <4>3 DEF NamesOf
    <3> QED BY <3>1, <3>2
  <2> HIDE DEF Names
  <2> QED BY <2>6, <2>7 DEF deaths
<1> QED BY <1>3, <1>4

Rest(P, n) == {m \in P : m < n}

(* The block at n, the top of P, is undone on the way from g to h.         *)
TopUndone(p, g, h, P, B, D, E, Q, n) ==
  \E C, F : /\ Cut(B, C, n) /\ Cut(D, F, n)
            /\ Fit(p, h, Rest(P, n), C, F, E, Q, {})
            /\ DOMAIN h.hashes = DOMAIN g.hashes \ {n} /\ h.replay = g.replay

(* undo_block of the topmost height undoes just what that block created    *)
(* and spent.                                                              *)
LEMMA UndoBlockFits ==
  ASSUME NEW p, NEW g, NEW P, NEW B, NEW D, NEW E, NEW Q, NEW n \in DOMAIN g.hashes,
         P \subseteq Nat, \A m \in P : m <= n, Fit(p, g, P, B, D, E, Q, {})
  PROVE  TopUndone(p, g, UndoBlock(g, n), P, B, D, E, Q, n)
<1> DEFINE deaths == IF n \in DOMAIN g.deaths THEN Reverse(g.deaths[n]) ELSE <<>>
           births == BirthsAt(g, n)
           g1 == ResurrectAll(g, deaths)
           g2 == ParkAll(g1, births)
           h  == UndoBlock(g, n)
           R  == {m \in P : m < n}
<1>1. h = [g2 EXCEPT !.deaths = Without(@, {n}), !.births = Without(@, {n}),
                     !.hashes = Without(@, {n})]
  BY DEF UndoBlock, BirthsAt
<1>2. n \in P /\ n \in Nat /\ R = P \ {n}
  <2>1. n \in P
    BY DEF Fit, Sound, JournalInv
  <2>2. n \in Nat
    BY <2>1
  <2>3. ASSUME NEW m \in P PROVE m < n <=> m # n
    <3>1. m \in Nat /\ m <= n
      BY <2>3
    <3> QED BY <2>2, <3>1
  <2> QED BY <2>1, <2>2, <2>3
<1>3. PICK F : /\ Reduced(D, F, {op \in DOMAIN D : D[op] = n})
               /\ Fit(p, g1, P, B, F, E, Q, {n})
               /\ g1.hashes = g.hashes /\ g1.births = g.births /\ g1.deaths = g.deaths
               /\ g1.replay = g.replay
  BY DeathsUndone
<1> HIDE DEF g1, h
<1>4. PICK C : /\ Reduced(B, C, Range(births))
               /\ Fit(p, g2, P, C, F, E, Q, {n})
               /\ g2.hashes = g.hashes /\ g2.births = g.births /\ g2.deaths = g.deaths
               /\ g2.replay = g.replay
  <2> DEFINE l == Len(births)
  <2>1. births \in Seq(Outpoints) /\ BirthsListed(births, B, n)
    BY DEF Fit, Sound, Shape, JournalInv, BirthsAt
  <2>2. l \in Nat /\ DOMAIN births = 1 .. l
    BY <2>1
  <2> HIDE DEF l, births
  <2>3. \A i \in 1 .. l : births[i] \in DOMAIN B /\ births[i] \notin DOMAIN F /\ B[births[i]] \in {n}
    <3> TAKE i \in 1 .. l
    <3>1. births[i] \in DOMAIN B /\ B[births[i]] = n
      BY <2>1, <2>2 DEF BirthsListed
    <3>2. births[i] \in DOMAIN D => D[births[i]] = n
      <4> HAVE births[i] \in DOMAIN D
      <4>0. LedgerInv(g, P, B, D, E)
        BY DEF Fit, Sound
      <4>1. D[births[i]] \in P /\ n <= D[births[i]]
        BY <3>1, <4>0 DEF LedgerInv
      <4>2. D[births[i]] <= n /\ D[births[i]] \in Nat
        BY <4>1
      <4> QED BY <1>2, <4>1, <4>2
    <3> QED BY <1>3, <3>1, <3>2 DEF Reduced
  <2>4. \A i, j \in 1 .. l : births[i] = births[j] => i = j
    BY <2>1, <2>2 DEF BirthsListed
  <2> HIDE DEF g2
  <2>5. g2 = ParkAll(g1, births)
    BY DEF g2
  <2> QED BY <1>3, <2>2, <2>3, <2>4, <2>5, ParkAllFits
<1>5. Cut(D, F, n)
  <2>1. \A op \in DOMAIN D : D[op] \in P
    BY DEF Fit, Sound, LedgerInv
  <2>2. \A op \in DOMAIN D : D[op] # n <=> D[op] < n
    BY <1>2, <2>1
  <2> QED BY <1>3, <2>2 DEF Reduced, Cut
<1>6. Cut(B, C, n)
  <2>1. \A op \in DOMAIN B : B[op] \in P
    BY DEF Fit, Sound, LedgerInv
  <2>2. \A op \in DOMAIN B : B[op] # n <=> B[op] < n
    BY <1>2, <2>1
  <2>3. BirthsListed(births, B, n)
    BY DEF Fit, Sound, JournalInv
  <2> HIDE DEF births
  <2>4. \A op \in DOMAIN B : op \in Range(births) <=> B[op] = n
    BY <2>3 DEF BirthsListed, Range
  <2> QED BY <1>4, <2>2, <2>4 DEF Reduced, Cut
<1>7. Shape(g2) /\ Sound(g2, P, C, F, E, Q, {n}) /\ Shown(p, g2)
  BY <1>4 DEF Fit, Sound
<1> HIDE DEF g2
<1>8. /\ DOMAIN h = Fields /\ SameCells(g2, h) /\ h.rows = g2.rows /\ h.limbo = g2.limbo
      /\ h.deaths = Without(g2.deaths, {n}) /\ h.births = Without(g2.births, {n})
      /\ h.hashes = Without(g2.hashes, {n}) /\ h.out = g2.out /\ h.replay = g2.replay
      /\ h.next = g2.next /\ h.index = g2.index
  BY <1>1, <1>7 DEF Shape, Fields, SameCells
<1>9. /\ DOMAIN h.deaths = DOMAIN g2.deaths \ {n} /\ DOMAIN h.births = DOMAIN g2.births \ {n}
      /\ DOMAIN h.hashes = DOMAIN g2.hashes \ {n}
      /\ \A m \in DOMAIN h.deaths : h.deaths[m] = g2.deaths[m]
      /\ \A m \in DOMAIN h.births : h.births[m] = g2.births[m]
  BY <1>8 DEF Without, Restrict
<1>10. Shape(h)
  BY <1>7, <1>8, <1>9 DEF Shape, SameCells
<1>11. NamesInv(h) /\ PromInv(h, C, E, Q)
  <2>1. Carriers(h) \subseteq Carriers(g2)
    <3>1. Range(h.rows) = Range(g2.rows) /\ Range(h.limbo) = Range(g2.limbo)
      BY <1>8
    <3>2. \A m \in DOMAIN h.deaths : m \in DOMAIN g2.deaths /\ Range(h.deaths[m]) = Range(g2.deaths[m])
      BY <1>9
    <3> QED BY <3>1, <3>2 DEF Carriers
  <2>2. NoNewNames(g2, h)
    BY <2>1 DEF NoNewNames
  <2> QED BY <1>7, <1>8, <2>2, NamesKept, PromiseKept DEF Sound
<1>12. IndexInv(h) /\ ParkedInv(h, C) /\ CountInv(h, C, F)
  BY <1>7, <1>8 DEF Sound, IndexInv, ParkedInv, CountInv, SameCells
<1>13. LedgerInv(h, R, C, F, E)
  <2>1. LedgerInv(g2, P, C, F, E)
    BY <1>7 DEF Sound
  <2>2. (\A op \in DOMAIN C : C[op] \in R) /\ (\A op \in DOMAIN F : F[op] \in R)
    BY <1>5, <1>6, <2>1 DEF Cut, LedgerInv
  <2> QED BY <1>8, <2>1, <2>2 DEF LedgerInv
<1>14. JournalInv(h, R, C, F, {})
  <2>1. JournalInv(g2, P, C, F, {n})
    BY <1>7 DEF Sound
  <2>2. DOMAIN h.hashes \subseteq R
    BY <1>2, <1>9, <2>1 DEF JournalInv
  <2>3. \A i \in DOMAIN h.hashes, m \in R : m >= i => m \in DOMAIN h.hashes
    BY <1>2, <1>9, <2>1 DEF JournalInv
  <2>4. DOMAIN h.births \subseteq DOMAIN h.hashes /\ DOMAIN h.deaths \subseteq DOMAIN h.hashes
    BY <1>9, <2>1 DEF JournalInv
  <2>5. \A i \in DOMAIN h.hashes : BirthsAt(h, i) = BirthsAt(g2, i) /\ DeathsAt(h, i) = DeathsAt(g2, i)
    BY <1>9 DEF BirthsAt, DeathsAt
  <2>6. \A i \in DOMAIN h.hashes : BirthsListed(BirthsAt(h, i), C, i) /\ DeathsListed(DeathsAt(h, i), F, i)
    BY <1>9, <2>1, <2>5 DEF JournalInv
  <2> QED BY <2>2, <2>3, <2>4, <2>6 DEF JournalInv
<1>15. Sound(h, R, C, F, E, Q, {})
  BY <1>10, <1>11, <1>12, <1>13, <1>14 DEF Sound
<1>16. Shown(p, h)
  BY <1>7, <1>8, SameShown
<1> QED BY <1>4, <1>5, <1>6, <1>8, <1>9, <1>15, <1>16 DEF Fit, h, Rest, TopUndone

(* Cutting a record at two heights cuts it at the lower one.               *)
LEMMA CutTwice ==
  ASSUME NEW B, NEW C, NEW F, NEW m \in Int, NEW n \in Int, \A op \in DOMAIN B : B[op] \in Int,
         n <= m, Cut(B, C, m), Cut(C, F, n)
  PROVE  Cut(B, F, n)
<1>1. \A op \in DOMAIN F : op \in DOMAIN B /\ F[op] = B[op] /\ B[op] < n
  BY DEF Cut
<1>2. \A op \in DOMAIN B : B[op] < n => op \in DOMAIN F
  <2> TAKE op \in DOMAIN B
  <2> HAVE B[op] < n
  <2>1. B[op] < m
    OBVIOUS
  <2>2. op \in DOMAIN C /\ C[op] = B[op]
    BY <2>1 DEF Cut
  <2> QED BY <2>2 DEF Cut
<1> QED BY <1>1, <1>2 DEF Cut

(* The journal keeps what lies below height n.                             *)
Spared(g, h, n) == \A m \in DOMAIN g.hashes : m < n => m \in DOMAIN h.hashes

(* All the heights from top down to lo are undone: P, B and D are cut.     *)
Undone(p, g, h, P, B, D, E, Q, n) ==
  \E C, F : /\ Cut(B, C, n) /\ Cut(D, F, n)
            /\ Fit(p, h, {m \in P : m < n}, C, F, E, Q, {})
            /\ h.replay = g.replay /\ Spared(g, h, n)

(* Undoing the heights from the top down to lo cuts history below lo, if   *)
(* the journal holds them all.                                             *)
LEMMA UndoAllFits ==
  ASSUME NEW p, NEW g, NEW P, NEW B, NEW D, NEW E, NEW Q, NEW top \in Nat, NEW lo \in Nat,
         lo <= top, P \subseteq Nat, \A m \in P : m <= top,
         \A m \in P : m >= lo => m \in DOMAIN g.hashes, Fit(p, g, P, B, D, E, Q, {})
  PROVE  Undone(p, g, UndoAll(g, DownFrom(top, lo)), P, B, D, E, Q, lo)
<1> DEFINE n == top - lo + 1
           heights == DownFrom(top, lo)
           Good(f, k) ==
             /\ Undone(p, g, f, P, B, D, E, Q, top - k + 1)
             /\ \A m \in P : m >= lo /\ m < top - k + 1 => m \in DOMAIN f.hashes
<1>1. n \in Nat /\ DOMAIN heights = 1 .. n /\ \A k \in 0 .. n - 1 : heights[k + 1] = top - k
  BY DEF DownFrom
<1>2. (\A op \in DOMAIN B : B[op] \in P) /\ (\A op \in DOMAIN D : D[op] \in P)
  BY DEF Fit, Sound, LedgerInv
<1>8. DOMAIN g.hashes \subseteq P
  BY DEF Fit, Sound, JournalInv
<1> HIDE DEF n, heights
<1>3. PICK run : /\ run[0] = g
                 /\ \A k \in 0 .. n - 1 : run[k + 1] = UndoKnown(run[k], heights[k + 1])
                 /\ run[n] = UndoAll(g, heights)
  BY <1>1, UndoRun
<1> DEFINE S == {k \in 0 .. n : Good(run[k], k)}
<1>4. 0 \in S
  <2>1. \A m \in P : m < top + 1
    <3> TAKE m \in P
    <3>1. m \in Nat /\ m <= top
      OBVIOUS
    <3> QED BY <3>1
  <2>2. {m \in P : m < top + 1} = P
    BY <2>1
  <2>3. Cut(B, B, top + 1) /\ Cut(D, D, top + 1)
    BY <1>2, <2>1 DEF Cut
  <2>4. Undone(p, g, g, P, B, D, E, Q, top + 1)
    BY <2>2, <2>3 DEF Undone, Spared
  <2>5. top - 0 + 1 = top + 1
    OBVIOUS
  <2>6. Good(run[0], 0)
    BY <1>3, <2>4, <2>5
  <2> QED BY <1>1, <2>6
<1>5. ASSUME NEW k \in 0 .. n - 1, Good(run[k], k)
      PROVE  Good(run[k + 1], k + 1)
  <2> DEFINE x == top - k
             f == run[k]
             h == run[k + 1]
             R == {m \in P : m < x + 1}
             T == {m \in P : m < x}
  <2>1. x \in Nat /\ x >= lo /\ top - (k + 1) + 1 = x /\ top - k + 1 = x + 1
    BY DEF n
  <2>2. h = UndoKnown(f, x)
    BY <1>1, <1>3
  <2> HIDE DEF f, h, x
  <2>3. PICK C, F : /\ Cut(B, C, x + 1) /\ Cut(D, F, x + 1)
                    /\ Fit(p, f, R, C, F, E, Q, {})
                    /\ f.replay = g.replay /\ Spared(g, f, x + 1)
    BY <1>5, <2>1 DEF f, Undone
  <2>4. \A m \in P : m >= lo /\ m < x + 1 => m \in DOMAIN f.hashes
    BY <1>5, <2>1 DEF f
  <2>5. \A m \in P : m < x + 1 <=> m < x \/ m = x
    <3> TAKE m \in P
    <3>1. m \in Nat
      OBVIOUS
    <3> QED BY <2>1, <3>1
  <2>6. \A m \in P : m < x => m < x + 1 /\ m # x
    <3> TAKE m \in P
    <3>1. m \in Nat
      OBVIOUS
    <3> QED BY <2>1, <3>1
  <2>7. CASE x \in DOMAIN f.hashes
    <3>1. h = UndoBlock(f, x)
      BY <2>2, <2>7 DEF UndoKnown
    <3>2. R \subseteq Nat /\ \A m \in R : m <= x
      <4>1. R \subseteq P
        OBVIOUS
      <4>2. ASSUME NEW m \in R PROVE m <= x
        <5>1. m \in P /\ m \in Nat /\ (m < x \/ m = x)
          BY <2>5, <4>1, <4>2
        <5> QED BY <2>1, <5>1
      <4> QED BY <4>1, <4>2
    <3> HIDE DEF R
    <3>3. PICK C2, F2 : /\ Cut(C, C2, x) /\ Cut(F, F2, x)
                        /\ Fit(p, h, Rest(R, x), C2, F2, E, Q, {})
                        /\ DOMAIN h.hashes = DOMAIN f.hashes \ {x} /\ h.replay = f.replay
      <4>1. TopUndone(p, f, h, R, C, F, E, Q, x)
        BY <2>3, <2>7, <3>1, <3>2, UndoBlockFits
      <4> QED BY <4>1 DEF TopUndone
    <3>4. Rest(R, x) = T
      BY <2>6 DEF R, Rest
    <3>5. Cut(B, C2, x) /\ Cut(D, F2, x)
      <4>1. x \in Int /\ x + 1 \in Int /\ x <= x + 1
        BY <2>1
      <4>0. \A m \in P : m \in Int
        OBVIOUS
      <4>2. (\A op \in DOMAIN B : B[op] \in Int) /\ (\A op \in DOMAIN D : D[op] \in Int)
        BY <1>2, <4>0
      <4> QED BY <2>3, <3>3, <4>1, <4>2, CutTwice
    <3>8. Spared(g, h, x)
      <4>1. \A m \in DOMAIN g.hashes : m < x => m < x + 1 /\ m # x
        BY <1>8, <2>6
      <4> QED BY <2>3, <3>3, <4>1 DEF Spared
    <3>6. Undone(p, g, h, P, B, D, E, Q, x)
      BY <2>3, <3>3, <3>4, <3>5, <3>8 DEF Undone
    <3>7. \A m \in P : m >= lo /\ m < x => m \in DOMAIN h.hashes
      BY <2>4, <2>6, <3>3
    <3> QED BY <2>1, <3>6, <3>7 DEF h
  <2>8. CASE x \notin DOMAIN f.hashes
    <3>1. h = f
      BY <2>2, <2>8 DEF UndoKnown
    <3>2. x \notin P
      <4>1. x < x + 1
        BY <2>1
      <4> QED BY <2>1, <2>4, <2>8, <4>1
    <3>3. R = T
      BY <2>5, <3>2
    <3>4. Cut(B, C, x) /\ Cut(D, F, x)
      <4>1. (\A op \in DOMAIN B : B[op] < x + 1 <=> B[op] < x)
            /\ (\A op \in DOMAIN D : D[op] < x + 1 <=> D[op] < x)
        BY <1>2, <2>5, <3>2
      <4> QED BY <2>3, <4>1 DEF Cut
    <3>7. Spared(g, h, x)
      <4>1. \A m \in DOMAIN g.hashes : m < x => m < x + 1
        BY <1>8, <2>6
      <4> QED BY <2>3, <3>1, <4>1 DEF Spared
    <3>5. Undone(p, g, h, P, B, D, E, Q, x)
      BY <2>3, <3>1, <3>3, <3>4, <3>7 DEF Undone
    <3>6. \A m \in P : m >= lo /\ m < x => m \in DOMAIN h.hashes
      BY <2>4, <2>6, <3>1
    <3> QED BY <2>1, <3>5, <3>6 DEF h
  <2> QED BY <2>7, <2>8
<1>6. n \in S
  <2> HIDE DEF Good
  <2>1. \A k \in 0 .. n - 1 : k \in S => k + 1 \in S
    <3>1. \A k \in 0 .. n - 1 : k + 1 \in 0 .. n
      BY <1>1
    <3> QED BY <1>5, <3>1
  <2> HIDE DEF S
  <2>2. \A k \in 0 .. n : k \in S
    BY <1>1, <1>4, <2>1, Climb
  <2> QED BY <1>1, <2>2
<1>7. top - n + 1 = lo
  BY DEF n
<1> QED BY <1>3, <1>6, <1>7 DEF heights

(* A page that shows a galaxy shows any other with the same cells.         *)
LEMMA SameShows ==
  ASSUME NEW q, NEW g, NEW h, Shows(q, g), SameCells(g, h)
  PROVE  Shows(q, h)
<1>1. RowIds(h) = RowIds(g) /\ LimboIds(h) = LimboIds(g) /\ Range(h.rows) = Range(g.rows)
  BY DEF SameCells, RowIds, LimboIds
<1> QED BY <1>1 DEF Shows

(* The counters are sent once, at the end, if they changed.                *)
LEMMA SinceShown ==
  ASSUME NEW p, NEW g, NEW f, Shown(p, f), Shape(f),
         p.births = g.nBirths, p.deaths = g.nDeaths
  PROVE  LET h == StatsSince(g, f)
         IN  /\ Shape(h) /\ SameCells(f, h) /\ Mirrors(ApplyDeltas(p, h.out), h)
             /\ h.hashes = f.hashes /\ h.births = f.births /\ h.deaths = f.deaths
             /\ h.replay = f.replay
<1> DEFINE h == StatsSince(g, f)
<1>1. CASE f.nBirths = g.nBirths /\ f.nDeaths = g.nDeaths
  <2>1. h = f
    BY <1>1 DEF StatsSince
  <2> QED BY <1>1, <2>1 DEF SameCells, Shown, Mirrors
<1>2. CASE ~ (f.nBirths = g.nBirths /\ f.nDeaths = g.nDeaths)
  <2>1. h = [f EXCEPT !.out = Append(@, Stats(f))]
    BY <1>2 DEF StatsSince, Sends
  <2>2. /\ DOMAIN h = Fields /\ SameCells(f, h) /\ h.rows = f.rows /\ h.limbo = f.limbo
        /\ h.next = f.next /\ h.out = Append(f.out, Stats(f))
        /\ h.nBirths = f.nBirths /\ h.nDeaths = f.nDeaths
        /\ h.hashes = f.hashes /\ h.births = f.births /\ h.deaths = f.deaths
        /\ h.replay = f.replay
    BY <2>1 DEF Shape, Fields, SameCells
  <2> HIDE DEF h
  <2>3. Listed(f.out) /\ Listed(h.out)
    BY <2>2, OneMore DEF Shape
  <2>4. Shape(h)
    BY <2>2, <2>3 DEF Shape
  <2>5. /\ Shows(ApplyDeltas(p, h.out), h)
        /\ ApplyDeltas(p, h.out).births = f.nBirths
        /\ ApplyDeltas(p, h.out).deaths = f.nDeaths
    BY <2>2, <2>3, StatsShown
  <2> QED BY <2>2, <2>4, <2>5 DEF Mirrors, h
<1> QED BY <1>1, <1>2

(* The blocks from height n on are undone on the way from g to h.          *)
RollbackStep(p, g, h, P, B, D, E, Q, n) ==
  \E C, F : /\ Cut(B, C, n) /\ Cut(D, F, n)
            /\ Sound(h, {m \in P : m < n}, C, F, E, Q, {})
            /\ Mirrors(ApplyDeltas(p, h.out), h)
            /\ h.replay = g.replay /\ Spared(g, h, n)

(* rollback_from cuts history below the fork and leaves galaxy and page in *)
(* step, the counters included, if the journal reaches the fork.           *)
LEMMA RollbackFits ==
  ASSUME NEW p, NEW g, NEW P, NEW B, NEW D, NEW E, NEW Q, NEW n \in Nat, NEW last \in Nat,
         P \subseteq Nat, \A m \in P : m <= last, Fit(p, g, P, B, D, E, Q, {}),
         n \in DOMAIN g.hashes \/ \A m \in P : m < n,
         p.births = g.nBirths, p.deaths = g.nDeaths
  PROVE  RollbackStep(p, g, RollbackFrom(g, n), P, B, D, E, Q, n)
<1> DEFINE h == RollbackFrom(g, n)
           R == {m \in P : m < n}
<1>1. Shape(g) /\ Sound(g, P, B, D, E, Q, {}) /\ Shown(p, g) /\ JournalInv(g, P, B, D, {})
  BY DEF Fit, Sound
<1>2. (\A op \in DOMAIN B : B[op] \in P) /\ (\A op \in DOMAIN D : D[op] \in P)
  BY <1>1 DEF Sound, LedgerInv
<1>3. JournalHeights(g) = DOMAIN g.hashes /\ DOMAIN g.hashes \subseteq P
  BY <1>1 DEF JournalInv, JournalHeights
<1>4. ~ (JournalHeights(g) # {} /\ \A m \in JournalHeights(g) : n < m)
  <2>1. ASSUME NEW m \in DOMAIN g.hashes, \A i \in DOMAIN g.hashes : n < i PROVE FALSE
    <3>1. n < m /\ m \in P /\ m \in Nat
      BY <1>3, <2>1
    <3>2. n \notin DOMAIN g.hashes
      <4>1. ~ (n < n)
        OBVIOUS
      <4> QED BY <2>1, <4>1
    <3>3. m < n
      BY <3>1, <3>2
    <3> QED BY <3>1, <3>3
  <2> QED BY <1>3, <2>1
<1>5. CASE \A m \in P : m < n
  <2>1. h = g
    BY <1>3, <1>4, <1>5 DEF RollbackFrom
  <2>2. R = P /\ Cut(B, B, n) /\ Cut(D, D, n)
    BY <1>2, <1>5 DEF Cut
  <2>3. Mirrors(ApplyDeltas(p, h.out), h)
    BY <1>1, <2>1 DEF Shown, Mirrors
  <2>4. Spared(g, h, n)
    BY <2>1 DEF Spared
  <2> HIDE DEF R, h
  <2> QED BY <1>1, <2>1, <2>2, <2>3, <2>4 DEF R, h, RollbackStep
<1>6. CASE n \in DOMAIN g.hashes
  <2> DEFINE orphans == {m \in DOMAIN g.hashes : m >= n}
             top == GreatestOr(orphans, n - 1)
             g1 == UndoAll(g, DownFrom(top, n))
             g2 == Marked(g1, orphans)
  <2>1. n \in orphans /\ orphans \subseteq Nat
    <3>1. n >= n
      OBVIOUS
    <3> QED BY <1>3, <1>6, <3>1
  <2>2. h = StatsSince(g, g2)
    <3>1. ~ (\A m \in DOMAIN g.hashes : m < n)
      <4>1. ~ (n < n)
        OBVIOUS
      <4> QED BY <1>6, <4>1
    <3> QED BY <1>4, <3>1 DEF RollbackFrom, Undo
  <2>3. top \in orphans /\ \A m \in orphans : m <= top
    <3>1. \A m \in orphans : m <= last
      BY <1>3
    <3>2. top = Max(orphans)
      BY <2>1 DEF GreatestOr
    <3> HIDE DEF orphans
    <3> QED BY <2>1, <3>1, <3>2, GreatestNumber
  <2>4. top \in Nat /\ n <= top
    BY <2>1, <2>3
  <2>5. \A m \in P : m >= n => m \in DOMAIN g.hashes
    BY <1>1, <1>6 DEF JournalInv
  <2>6. \A m \in P : m <= top
    <3> TAKE m \in P
    <3>1. m \in Nat
      OBVIOUS
    <3>2. CASE m >= n
      BY <2>3, <2>5, <3>2
    <3>3. CASE m < n
      BY <2>4, <3>1, <3>3
    <3> QED BY <3>1, <3>2, <3>3
  <2> HIDE DEF top, orphans, h
  <2>7. Undone(p, g, g1, P, B, D, E, Q, n)
    BY <2>4, <2>5, <2>6, UndoAllFits
  <2>8. PICK C, F : /\ Cut(B, C, n) /\ Cut(D, F, n)
                    /\ Fit(p, g1, R, C, F, E, Q, {})
                    /\ g1.replay = g.replay /\ Spared(g, g1, n)
    BY <2>7 DEF Undone
  <2> HIDE DEF g1, R
  <2>9. Shape(g1) /\ Sound(g1, R, C, F, E, Q, {}) /\ Shown(p, g1)
    BY <2>8 DEF Fit, Sound
  <2>10. /\ DOMAIN g2 = Fields /\ SameCells(g1, g2) /\ g2.rows = g1.rows /\ g2.limbo = g1.limbo
         /\ g2.hashes = g1.hashes /\ g2.births = g1.births /\ g2.deaths = g1.deaths
         /\ g2.next = g1.next /\ g2.nBirths = g1.nBirths /\ g2.nDeaths = g1.nDeaths
         /\ g2.out = g1.out /\ g2.replay = g1.replay
    <3>1. g2 = g1 \/ g2 = [g1 EXCEPT !.backstop = Max({@} \cup orphans)]
      BY DEF Marked
    <3> HIDE DEF g2
    <3>2. CASE g2 = g1
      BY <2>9, <3>2 DEF Shape, SameCells
    <3>3. CASE g2 = [g1 EXCEPT !.backstop = Max({@} \cup orphans)]
      BY <2>9, <3>3 DEF Shape, Fields, SameCells
    <3> QED BY <3>1, <3>2, <3>3
  <2> HIDE DEF g2
  <2>11. Shape(g2)
    BY <2>9, <2>10 DEF Shape
  <2>12. Sound(g2, R, C, F, E, Q, {}) /\ Shown(p, g2)
    BY <2>9, <2>10, <2>11, SameSound, SameShown
  <2>13. /\ Shape(h) /\ SameCells(g2, h) /\ Mirrors(ApplyDeltas(p, h.out), h)
         /\ h.hashes = g2.hashes /\ h.births = g2.births /\ h.deaths = g2.deaths
         /\ h.replay = g2.replay
    BY <2>2, <2>11, <2>12, SinceShown
  <2>14. Sound(h, R, C, F, E, Q, {})
    BY <2>12, <2>13, SameSound
  <2>15. Spared(g, h, n)
    BY <2>8, <2>10, <2>13 DEF Spared
  <2> QED BY <2>8, <2>10, <2>13, <2>14, <2>15 DEF h, R, RollbackStep
<1> QED BY <1>5, <1>6

-----------------------------------------------------------------------------
(* A transaction.                                                          *)

(* Transaction tx of the block of height n lands on the way from g to h.   *)
TxStep(p, g, h, P, B, D, E, Q, tx, n) ==
  \E C, F : /\ Extended(D, F, Range(Inputs[tx]) \cap DOMAIN g.index, n)
            /\ Extended(B, C, Range(Outputs[tx]), n)
            /\ Sound(h, P, C, F, E \ Range(Outputs[tx]), Q, {})
            /\ Mirrors(ApplyDeltas(p, h.out), h)
            /\ h.replay = g.replay
            /\ DOMAIN h.limbo \subseteq DOMAIN g.limbo
            /\ n \in DOMAIN h.hashes /\ Reaches(g, h, n)

(* The counters are sent if anything was.                                  *)
LEMMA StatsFits ==
  ASSUME NEW p, NEW g, NEW P, NEW B, NEW D, NEW E, NEW Q,
         Fit(p, g, P, B, D, E, Q, {}),
         g.out # <<>> \/ (p.births = g.nBirths /\ p.deaths = g.nDeaths)
  PROVE  LET h == StatsIfAny(g)
         IN  /\ Sound(h, P, B, D, E, Q, {}) /\ Mirrors(ApplyDeltas(p, h.out), h)
             /\ h.replay = g.replay /\ h.hashes = g.hashes /\ h.limbo = g.limbo
<1> DEFINE h == StatsIfAny(g)
<1>1. Sound(g, P, B, D, E, Q, {}) /\ Shape(g) /\ Shown(p, g)
  BY DEF Fit, Sound
<1>2. CASE g.out = <<>>
  <2>1. h = g
    BY <1>2 DEF StatsIfAny
  <2>2. ApplyDeltas(p, h.out) = p
    BY <1>2, <2>1, NoDeltas
  <2>3. Shows(ApplyDeltas(p, h.out), h)
    BY <1>1, <2>1 DEF Shown
  <2> QED BY <1>1, <1>2, <2>1, <2>2, <2>3 DEF Mirrors
<1>3. CASE g.out # <<>>
  <2>1. h = [g EXCEPT !.out = Append(@, Stats(g))]
    BY <1>3 DEF StatsIfAny, Sends
  <2>2. /\ DOMAIN h = Fields /\ SameCells(g, h) /\ h.rows = g.rows /\ h.limbo = g.limbo
        /\ h.next = g.next /\ h.out = Append(g.out, Stats(g))
        /\ h.nBirths = g.nBirths /\ h.nDeaths = g.nDeaths
        /\ h.hashes = g.hashes /\ h.births = g.births /\ h.deaths = g.deaths
        /\ h.replay = g.replay
    BY <1>1, <2>1 DEF Shape, Fields, SameCells
  <2> HIDE DEF h
  <2>3. Listed(g.out) /\ Listed(h.out)
    BY <1>1, <2>2, OneMore DEF Shape
  <2>4. Shape(h)
    BY <1>1, <2>2, <2>3 DEF Shape
  <2>5. /\ Shows(ApplyDeltas(p, h.out), h)
        /\ ApplyDeltas(p, h.out).births = g.nBirths
        /\ ApplyDeltas(p, h.out).deaths = g.nDeaths
    BY <1>1, <2>2, <2>3, StatsShown
  <2>6. Sound(h, P, B, D, E, Q, {})
    BY <1>1, <2>2, <2>4, SameSound
  <2> QED BY <2>2, <2>5, <2>6 DEF Mirrors, h
<1> QED BY <1>2, <1>3

(* handle_tx_landed keeps galaxy and page in step, the counters included.  *)
LEMMA TxFits ==
  ASSUME NEW p, NEW g, NEW P, NEW B, NEW D, NEW E, NEW Q, NEW b \in Blocks,
         NEW tx \in DOMAIN Inputs,
         P \subseteq Nat, Fit(p, g, P, B, D, E, Q, {}), g.out = <<>>,
         Height[b] \in DOMAIN g.hashes, \A m \in P : m <= Height[b],
         Range(Outputs[tx]) \cap DOMAIN B = {}, IsInjective(Outputs[tx]),
         p.births = g.nBirths, p.deaths = g.nDeaths
  PROVE  TxStep(p, g, HandleTxLanded(g, tx, b), P, B, D, E, Q, tx, Height[b])
<1> DEFINE n == Height[b]
           ins == Inputs[tx]
           outs == Outputs[tx]
           g1 == SpendAll(g, ins, b)
           g2 == CreateAll(g1, outs, b)
           g3 == StatsIfAny(g2)
           h  == PruneReorgJournal(g3)
<1>1. n \in Nat /\ Len(ins) \in Nat /\ DOMAIN ins = 1 .. Len(ins)
      /\ Len(outs) \in Nat /\ DOMAIN outs = 1 .. Len(outs)
  <2>1. n \in Nat
    BY TreeAssumption
  <2>2. ins \in Seq(Range(ins)) /\ outs \in Seq(Range(outs))
    BY GalaxyAssumption
  <2> HIDE DEF ins, outs
  <2> QED BY <2>1, <2>2
<1>2. h = HandleTxLanded(g, tx, b)
  BY DEF HandleTxLanded
<1>3. AllSpent(p, g, g1, P, B, D, E, Q, Range(ins), n)
  <2> HIDE DEF ins
  <2> QED BY <1>1, SpendAllFits
<1>4. PICK F : /\ Extended(D, F, Range(ins) \cap DOMAIN g.index, n)
               /\ Fit(p, g1, P, B, F, E, Q, {})
               /\ g1 = g \/ g1.out # <<>>
               /\ g1.hashes = g.hashes /\ g1.limbo = g.limbo /\ g1.replay = g.replay
  BY <1>3 DEF AllSpent
<1> HIDE DEF g1
<1>5. /\ \A i \in 1 .. Len(outs) : outs[i] \in Outpoints \ DOMAIN B
      /\ \A i, j \in 1 .. Len(outs) : outs[i] = outs[j] => i = j
  <2>1. tx \in DOMAIN Outputs
    BY GalaxyAssumption
  <2>2. \A i \in DOMAIN outs : outs[i] \in Outpoints /\ outs[i] \notin DOMAIN B
    BY <2>1 DEF Outpoints, Range
  <2>3. \A i, j \in DOMAIN outs : outs[i] = outs[j] => i = j
    BY DEF IsInjective
  <2> QED BY <1>1, <2>2, <2>3
<1>6. AllCreated(p, g1, g2, P, B, F, E, Q, Range(outs), n)
  <2>1. Height[b] \in DOMAIN g1.hashes
    BY <1>4
  <2> HIDE DEF outs
  <2> QED BY <1>1, <1>4, <1>5, <2>1, CreateAllFits
<1>7. PICK C : /\ Extended(B, C, Range(outs), n)
               /\ Fit(p, g2, P, C, F, E \ Range(outs), Q, {})
               /\ g2 = g1 \/ g2.out # <<>>
               /\ g2.hashes = g1.hashes /\ g2.replay = g1.replay
               /\ DOMAIN g2.limbo \subseteq DOMAIN g1.limbo
  BY <1>6 DEF AllCreated
<1> HIDE DEF g2
<1> DEFINE R == E \ Range(outs)
<1>8. /\ Sound(g3, P, C, F, R, Q, {}) /\ Mirrors(ApplyDeltas(p, g3.out), g3)
      /\ g3.replay = g2.replay /\ g3.hashes = g2.hashes /\ g3.limbo = g2.limbo
  <2>1. g2.out # <<>> \/ (p.births = g2.nBirths /\ p.deaths = g2.nDeaths)
    BY <1>4, <1>7
  <2>2. Fit(p, g2, P, C, F, R, Q, {})
    BY <1>7
  <2> HIDE DEF R
  <2> QED BY <2>1, <2>2, StatsFits
<1> HIDE DEF g3, R, n
<1>9. /\ Sound(h, P, C, F, R, Q, {}) /\ SameCells(g3, h)
      /\ h.out = g3.out /\ h.replay = g3.replay
      /\ n \in DOMAIN h.hashes /\ Reaches(g, h, n)
  <2>1. n \in DOMAIN g3.hashes
    BY <1>4, <1>7, <1>8 DEF n
  <2>2. n \in Nat /\ \A m \in P : m <= n
    BY <1>1 DEF n
  <2>3. Reaches(g3, h, n) /\ n \in DOMAIN h.hashes
        /\ Sound(h, P, C, F, R, Q, {}) /\ SameCells(g3, h)
        /\ h.out = g3.out /\ h.replay = g3.replay
    BY <1>8, <2>1, <2>2, PruneSound
  <2>4. g3.hashes = g.hashes
    BY <1>4, <1>7, <1>8
  <2> QED BY <2>3, <2>4 DEF Reaches
<1>10. Mirrors(ApplyDeltas(p, h.out), h)
  BY <1>8, <1>9, SameShows DEF Mirrors, SameCells
<1>11. DOMAIN h.limbo \subseteq DOMAIN g.limbo
  BY <1>4, <1>7, <1>8, <1>9 DEF SameCells
<1>12. TxStep(p, g, h, P, B, D, E, Q, tx, n)
  BY <1>4, <1>7, <1>8, <1>9, <1>10, <1>11 DEF TxStep, R
<1> QED BY <1>2, <1>12 DEF n

-----------------------------------------------------------------------------
(* What the chain created and spent.                                       *)

(* B and D are the record of the transactions L, pairs of a height and a   *)
(* transaction: what each created, and what each spent of it, but for the  *)
(* outpoints E that the cap had taken.                                     *)
History(L, B, D, E) ==
  /\ \A op \in DOMAIN B : \E x \in L : op \in Range(Outputs[x[2]])
  /\ \A x \in L : \A op \in Range(Outputs[x[2]]) : op \in DOMAIN B /\ B[op] = x[1]
  /\ \A op \in DOMAIN D : \E x \in L : op \in Range(Inputs[x[2]])
  /\ \A x \in L : \A op \in Range(Inputs[x[2]]) :
       /\ op \in DOMAIN B /\ op \notin E => op \in DOMAIN D
       /\ op \in DOMAIN D => D[op] = x[1]

(* Consensus: tx may follow the transactions L.                            *)
Fresh(L, tx) ==
  /\ Range(Outputs[tx]) \cap Range(Inputs[tx]) = {}
  /\ \A x \in L : /\ Range(Outputs[tx]) \cap Range(Outputs[x[2]]) = {}
                  /\ Range(Outputs[tx]) \cap Range(Inputs[x[2]]) = {}
                  /\ Range(Inputs[tx]) \cap Range(Inputs[x[2]]) = {}

(* A transaction that may follow a history creates outpoints nobody has    *)
(* created.                                                                *)
LEMMA FreshOutputs ==
  ASSUME NEW L, NEW B, NEW D, NEW E, NEW tx, History(L, B, D, E), Fresh(L, tx)
  PROVE  Range(Outputs[tx]) \cap DOMAIN B = {}
BY DEF History, Fresh

(* One more transaction: the ledger follows the longer history. An output  *)
(* of a cell the cap had taken counts as retained again.                   *)
LEMMA HistoryGrows ==
  ASSUME NEW L, NEW B, NEW D, NEW E, NEW C, NEW F, NEW I, NEW tx, NEW n,
         History(L, B, D, E), Fresh(L, tx),
         DOMAIN D \subseteq DOMAIN B, DOMAIN D \cap E = {},
         I = DOMAIN B \ (DOMAIN D \cup E),
         Extended(D, F, Range(Inputs[tx]) \cap I, n),
         Extended(B, C, Range(Outputs[tx]), n)
  PROVE  History(L \cup {<<n, tx>>}, C, F, E \ Range(Outputs[tx]))
<1> DEFINE ins == Range(Inputs[tx])
           outs == Range(Outputs[tx])
           new == <<n, tx>>
           M == L \cup {new}
<1>1. new[1] = n /\ new[2] = tx /\ new \in M /\ \A x \in M : x \in L \/ x = new
  OBVIOUS
<1>2. outs \cap DOMAIN B = {}
  BY FreshOutputs
<1>3. /\ DOMAIN C = DOMAIN B \cup outs
      /\ \A op \in DOMAIN B : C[op] = B[op]
      /\ \A op \in outs : C[op] = n
  BY <1>2 DEF Extended
<1>4. /\ DOMAIN F = DOMAIN D \cup (ins \cap I)
      /\ \A op \in DOMAIN D : F[op] = D[op]
      /\ \A op \in ins \cap I : F[op] = n
  <2>1. (ins \cap I) \cap DOMAIN D = {}
    OBVIOUS
  <2> QED BY <2>1 DEF Extended
<1>5. /\ outs \cap ins = {}
      /\ \A x \in L : /\ outs \cap Range(Inputs[x[2]]) = {}
                      /\ ins \cap Range(Inputs[x[2]]) = {}
  BY DEF Fresh
<1> HIDE DEF ins, outs, new, M
<1>6. \A op \in DOMAIN C : \E x \in M : op \in Range(Outputs[x[2]])
  <2> TAKE op \in DOMAIN C
  <2>1. CASE op \in DOMAIN B
    <3>1. PICK x \in L : op \in Range(Outputs[x[2]])
      BY <2>1 DEF History
    <3> QED BY <3>1 DEF M
  <2>2. CASE op \in outs
    BY <1>1, <2>2 DEF outs
  <2> QED BY <1>3, <2>1, <2>2
<1>7. \A x \in M : \A op \in Range(Outputs[x[2]]) : op \in DOMAIN C /\ C[op] = x[1]
  <2> TAKE x \in M
  <2>1. CASE x \in L
    BY <1>3, <2>1 DEF History
  <2>2. CASE x = new
    BY <1>1, <1>3, <2>2 DEF outs
  <2> QED BY <1>1, <2>1, <2>2
<1>8. \A op \in DOMAIN F : \E x \in M : op \in Range(Inputs[x[2]])
  <2> TAKE op \in DOMAIN F
  <2>1. CASE op \in DOMAIN D
    <3>1. PICK x \in L : op \in Range(Inputs[x[2]])
      BY <2>1 DEF History
    <3> QED BY <3>1 DEF M
  <2>2. CASE op \in ins
    BY <1>1, <2>2 DEF ins
  <2> QED BY <1>4, <2>1, <2>2
<1>9. ASSUME NEW x \in M, NEW op \in Range(Inputs[x[2]])
      PROVE  /\ op \in DOMAIN C /\ op \notin E \ outs => op \in DOMAIN F
             /\ op \in DOMAIN F => F[op] = x[1]
  <2>1. CASE x \in L
    <3>1. op \notin outs /\ op \notin ins
      BY <1>5, <1>9, <2>1
    <3> QED BY <1>3, <1>4, <1>9, <2>1, <3>1 DEF History
  <2>2. CASE x = new
    <3>1. op \in ins /\ op \notin outs
      BY <1>1, <1>5, <1>9, <2>2 DEF ins
    <3>2. op \notin DOMAIN D
      BY <1>5, <3>1 DEF History
    <3> QED BY <1>1, <1>3, <1>4, <2>2, <3>1, <3>2
  <2> QED BY <1>1, <1>9, <2>1, <2>2
<1> QED BY <1>6, <1>7, <1>8, <1>9 DEF History, M, new, outs

(* The transactions below height n.                                        *)
Earlier(L, n) == {x \in L : x[1] < n}

(* The ledger cut below a height is the ledger of the history below it.    *)
LEMMA HistoryCut ==
  ASSUME NEW L, NEW B, NEW D, NEW E, NEW C, NEW F, NEW n \in Nat, NEW P, P \subseteq Nat,
         History(L, B, D, E), DOMAIN D \subseteq DOMAIN B,
         \A op \in DOMAIN D : B[op] \in P /\ D[op] \in P /\ B[op] <= D[op],
         Cut(B, C, n), Cut(D, F, n)
  PROVE  History(Earlier(L, n), C, F, E)
<1> DEFINE M == {x \in L : x[1] < n}
<1>1. /\ \A op \in DOMAIN C : op \in DOMAIN B /\ C[op] = B[op] /\ B[op] < n
      /\ \A op \in DOMAIN B : B[op] < n => op \in DOMAIN C
      /\ \A op \in DOMAIN F : op \in DOMAIN D /\ F[op] = D[op] /\ D[op] < n
      /\ \A op \in DOMAIN D : D[op] < n => op \in DOMAIN F
  BY DEF Cut
<1>2. \A op \in DOMAIN C : \E x \in M : op \in Range(Outputs[x[2]])
  <2> TAKE op \in DOMAIN C
  <2>1. PICK x \in L : op \in Range(Outputs[x[2]])
    BY <1>1 DEF History
  <2>2. x[1] < n
    BY <1>1, <2>1 DEF History
  <2> QED BY <2>1, <2>2
<1>3. \A x \in M : \A op \in Range(Outputs[x[2]]) : op \in DOMAIN C /\ C[op] = x[1]
  BY <1>1 DEF History
<1>4. \A op \in DOMAIN F : \E x \in M : op \in Range(Inputs[x[2]])
  <2> TAKE op \in DOMAIN F
  <2>1. PICK x \in L : op \in Range(Inputs[x[2]])
    BY <1>1 DEF History
  <2>2. x[1] < n
    BY <1>1, <2>1 DEF History
  <2> QED BY <2>1, <2>2
<1>5. \A x \in M : \A op \in Range(Inputs[x[2]]) :
        /\ op \in DOMAIN C /\ op \notin E => op \in DOMAIN F
        /\ op \in DOMAIN F => F[op] = x[1]
  BY <1>1 DEF History
<1> QED BY <1>2, <1>3, <1>4, <1>5 DEF History, Earlier

(* More cells taken by the cap: the ledger still follows the history.      *)
LEMMA HistoryCapped ==
  ASSUME NEW L, NEW B, NEW D, NEW E, NEW K, History(L, B, D, E)
  PROVE  History(L, B, D, E \cup K)
BY DEF History

(* The empty ledger is the one of no history.                              *)
LEMMA NoHistory ==
  History({}, Empty, Empty, {})
<1>1. DOMAIN Empty = {}
  BY DEF Empty
<1> QED BY <1>1 DEF History

-----------------------------------------------------------------------------
(* One mutation.                                                           *)

(* Between two mutations: galaxy g and page p after the transactions L of  *)
(* the heights P.                                                          *)
Whole(g, p, P, L, E, Q) ==
  /\ g.out = <<>> /\ Mirrors(p, g)
  /\ \E B, D : Sound(g, P, B, D, E, Q, {}) /\ History(L, B, D, E)

(* What the reducer makes of galaxy, page, evicted and promised.           *)
Handled(g, p, E, Q, m, g1, p1, E1, Q1) ==
  LET h == ApplyMutation(g, m) IN
  /\ g1 = [h EXCEPT !.out = <<>>]
  /\ p1 = ApplyDeltas(p, h.out)
  /\ E1 = IF m.type = "rebuild" THEN {} ELSE (E \cup CapTook(g, h, m)) \ DOMAIN h.index
  /\ Q1 = IF Settles(m) \/ m.type = "rebuild" THEN Empty
          ELSE IF m.type = "reorganized" /\ Q = Empty THEN g.index
          ELSE Without(Q, CapTook(g, h, m))

(* f is g but for what was sent.                                           *)
Resent(g, f) ==
  /\ f.replay = g.replay /\ f.limbo = g.limbo /\ f.index = g.index /\ f.hashes = g.hashes
  /\ f.rows = g.rows /\ f.nBirths = g.nBirths /\ f.nDeaths = g.nDeaths

(* A mutation starts with the deltas of the last one gone.                 *)
LEMMA Silenced ==
  ASSUME NEW p, NEW g, NEW P, NEW B, NEW D, NEW E, NEW Q, Sound(g, P, B, D, E, Q, {}),
         Mirrors(p, g)
  PROVE  LET f == [g EXCEPT !.out = <<>>]
         IN  /\ Sound(f, P, B, D, E, Q, {}) /\ Mirrors(p, f)
             /\ f.out = <<>> /\ Resent(g, f)
<1> DEFINE f == [g EXCEPT !.out = <<>>]
<1>1. Shape(g)
  BY DEF Sound
<1>2. /\ DOMAIN f = Fields /\ SameCells(g, f) /\ f.rows = g.rows /\ f.limbo = g.limbo
      /\ f.hashes = g.hashes /\ f.births = g.births /\ f.deaths = g.deaths
      /\ f.next = g.next /\ f.nBirths = g.nBirths /\ f.nDeaths = g.nDeaths
      /\ f.index = g.index /\ f.replay = g.replay /\ f.out = <<>>
  BY <1>1 DEF Shape, Fields, SameCells
<1> HIDE DEF f
<1>3. Listed(<<>>)
  <2>1. <<>> \in Seq({})
    OBVIOUS
  <2> QED BY <2>1 DEF Listed
<1>4. Shape(f)
  BY <1>1, <1>2, <1>3 DEF Shape
<1>5. Sound(f, P, B, D, E, Q, {})
  BY <1>2, <1>4, SameSound
<1>6. Mirrors(p, f)
  BY <1>2, SameShows DEF Mirrors
<1> QED BY <1>2, <1>5, <1>6 DEF f, Resent

(* A mutation starts with nothing sent.                                    *)
LEMMA Started ==
  ASSUME NEW p, NEW g, NEW P, NEW B, NEW D, NEW E, NEW Q, Sound(g, P, B, D, E, Q, {}),
         Mirrors(p, g)
  PROVE  LET f == [g EXCEPT !.out = <<>>]
         IN  /\ Fit(p, f, P, B, D, E, Q, {}) /\ f.out = <<>> /\ Resent(g, f)
             /\ p.births = f.nBirths /\ p.deaths = f.nDeaths
<1> DEFINE f == [g EXCEPT !.out = <<>>]
<1>1. /\ Sound(f, P, B, D, E, Q, {}) /\ Mirrors(p, f)
      /\ f.out = <<>> /\ Resent(g, f)
  BY Silenced
<1> HIDE DEF f
<1>2. ApplyDeltas(p, f.out) = p
  BY <1>1, NoDeltas
<1>3. Shown(p, f)
  BY <1>1, <1>2 DEF Shown, Mirrors
<1> QED BY <1>1, <1>3 DEF Fit, Mirrors, f

(* A mutation that loses no index entry took nothing by the cap.           *)
LEMMA NothingTaken ==
  ASSUME NEW g, NEW h, NEW m, m.type = "tx" \/ DOMAIN g.index \subseteq DOMAIN h.index
  PROVE  CapTook(g, h, m) = {}
BY DEF CapTook

(* What the model counts as taken by the cap is what the cap took.         *)
LEMMA ExactlyTaken ==
  ASSUME NEW g, NEW f, NEW h, NEW m, NEW K, m.type # "tx", f.index = g.index, Took(f, h, K)
  PROVE  CapTook(g, h, m) = K
<1>1. DOMAIN h.index = DOMAIN g.index \ K /\ K \subseteq DOMAIN g.index
  BY DEF Took
<1>2. \A op \in K : \E i \in DOMAIN h.rows : h.rows[i].id = g.index[op]
  BY DEF Took, Range
<1>3. DOMAIN g.index \ DOMAIN h.index = K
  BY <1>1
<1> QED BY <1>2, <1>3 DEF CapTook

(* Removing no promise changes none.                                       *)
LEMMA PromiseLess ==
  ASSUME NEW g, NEW B, NEW E, NEW Q, PromInv(g, B, E, Q)
  PROVE  PromInv(g, B, E, Without(Q, {}))
BY DEF PromInv, Without, Restrict

(* The outpoints without a place in the index.                             *)
LEMMA TakenStay ==
  ASSUME NEW g, NEW P, NEW B, NEW D, NEW E, NEW Q, NEW X, Sound(g, P, B, D, E, Q, X)
  PROVE  E \ DOMAIN g.index = E
BY DEF Sound, LedgerInv

(* A mutation ends with its deltas sent: galaxy, page and history agree.   *)
LEMMA Finished ==
  ASSUME NEW q, NEW h, NEW P, NEW B, NEW D, NEW E, NEW Q, NEW L,
         Sound(h, P, B, D, E, Q, {}), Mirrors(q, h), History(L, B, D, E)
  PROVE  LET g == [h EXCEPT !.out = <<>>]
         IN  Whole(g, q, P, L, E, Q) /\ Resent(h, g)
BY Silenced DEF Whole

-----------------------------------------------------------------------------
(* A transaction lands.                                                    *)
TxWhole(g, g1, p1, P, L, E1, Q1, n, tx) ==
  /\ Whole(g1, p1, P, L \cup {<<n, tx>>}, E1, Q1)
  /\ g1.replay = g.replay /\ DOMAIN g1.limbo \subseteq DOMAIN g.limbo
  /\ n \in DOMAIN g1.hashes /\ Reaches(g, g1, n)

(* TxLanded, from whole to whole: the history has one more transaction.    *)
LEMMA TxHandled ==
  ASSUME NEW g, NEW p, NEW P, NEW L, NEW E, NEW Q, NEW g1, NEW p1, NEW E1, NEW Q1,
         NEW b \in Blocks, NEW tx \in DOMAIN Inputs, P \subseteq Nat,
         Whole(g, p, P, L, E, Q), Handled(g, p, E, Q, TxLanded(tx, b), g1, p1, E1, Q1),
         Height[b] \in DOMAIN g.hashes, \A m \in P : m <= Height[b],
         Fresh(L, tx), IsInjective(Outputs[tx])
  PROVE  TxWhole(g, g1, p1, P, L, E1, Q1, Height[b], tx)
<1> DEFINE m == TxLanded(tx, b)
           n == Height[b]
           f == [g EXCEPT !.out = <<>>]
           h == HandleTxLanded(f, tx, b)
           outs == Range(Outputs[tx])
           ins == Range(Inputs[tx])
<1>1. m.type = "tx" /\ m.tx = tx /\ m.block = b /\ ~ Settles(m)
  BY DEF TxLanded, Settles
<1>2. ApplyMutation(g, m) = h
  BY <1>1 DEF ApplyMutation
<1>3. CapTook(g, h, m) = {}
  BY <1>1, NothingTaken
<1>4. /\ g1 = [h EXCEPT !.out = <<>>] /\ p1 = ApplyDeltas(p, h.out)
      /\ E1 = E \ DOMAIN h.index /\ Q1 = Without(Q, {})
  BY <1>1, <1>2, <1>3 DEF Handled
<1>5. PICK B, D : Sound(g, P, B, D, E, Q, {}) /\ History(L, B, D, E)
  BY DEF Whole
<1>6. /\ Fit(p, f, P, B, D, E, Q, {}) /\ f.out = <<>> /\ Resent(g, f)
      /\ p.births = f.nBirths /\ p.deaths = f.nDeaths
  BY <1>5, Started DEF Whole
<1> HIDE DEF f, m
<1>7. outs \cap DOMAIN B = {}
  BY <1>5, FreshOutputs
<1>8. TxStep(p, f, h, P, B, D, E, Q, tx, n)
  <2>1. Height[b] \in DOMAIN f.hashes
    BY <1>6 DEF Resent
  <2> QED BY <1>6, <1>7, <2>1, TxFits
<1>9. PICK C, F : /\ Extended(D, F, ins \cap DOMAIN f.index, n)
                  /\ Extended(B, C, outs, n)
                  /\ Sound(h, P, C, F, E \ outs, Q, {})
                  /\ Mirrors(ApplyDeltas(p, h.out), h)
                  /\ h.replay = f.replay
                  /\ DOMAIN h.limbo \subseteq DOMAIN f.limbo
                  /\ n \in DOMAIN h.hashes /\ Reaches(f, h, n)
  BY <1>8 DEF TxStep
<1> HIDE DEF h, n
<1>10. /\ DOMAIN D \subseteq DOMAIN B /\ DOMAIN D \cap E = {}
       /\ DOMAIN f.index = DOMAIN B \ (DOMAIN D \cup E)
  BY <1>6 DEF Fit, Sound, LedgerInv
<1>11. History(L \cup {<<n, tx>>}, C, F, E \ outs)
  BY <1>5, <1>9, <1>10, HistoryGrows
<1>12. E1 = E \ outs
  <2>1. DOMAIN h.index = DOMAIN C \ (DOMAIN F \cup (E \ outs))
    BY <1>9 DEF Sound, LedgerInv
  <2>2. outs \cap ins = {}
    BY DEF Fresh
  <2>3. DOMAIN F = DOMAIN D \cup (ins \cap DOMAIN f.index) /\ DOMAIN C = DOMAIN B \cup outs
    BY <1>9 DEF Extended
  <2> HIDE DEF outs, ins
  <2>4. \A op \in E \cap outs : op \in DOMAIN h.index
    BY <1>10, <2>1, <2>2, <2>3
  <2> QED BY <1>4, <2>1, <2>4
<1>13. Sound(h, P, C, F, E1, Q1, {})
  BY <1>4, <1>9, <1>12, PromiseLess DEF Sound
<1>14. Whole(g1, p1, P, L \cup {<<n, tx>>}, E1, Q1) /\ Resent(h, g1)
  <2>1. History(L \cup {<<n, tx>>}, C, F, E1)
    BY <1>11, <1>12
  <2> QED BY <1>4, <1>9, <1>13, <2>1, Finished
<1> QED BY <1>6, <1>9, <1>14 DEF TxWhole, Resent, Reaches, n

-----------------------------------------------------------------------------
(* A block is announced.                                                   *)
MinedWhole(g, g1, p1, P, L, E1, Q1, n) ==
  /\ Whole(g1, p1, P \cup {n}, L, E1, Q1)
  /\ g1.replay = g.replay /\ DOMAIN g1.limbo = DOMAIN g.limbo
  /\ n \in DOMAIN g1.hashes /\ Reaches(g, g1, n)

(* BlockMined, from whole to whole: one more height is followed.           *)
LEMMA MinedHandled ==
  ASSUME NEW g, NEW p, NEW P, NEW L, NEW E, NEW Q, NEW g1, NEW p1, NEW E1, NEW Q1,
         NEW b \in Blocks, P \subseteq Nat,
         Whole(g, p, P, L, E, Q), Handled(g, p, E, Q, BlockMined(b), g1, p1, E1, Q1),
         \A m \in P : m < Height[b], g.replay \/ DOMAIN g.limbo = {}
  PROVE  MinedWhole(g, g1, p1, P, L, E1, Q1, Height[b])
<1> DEFINE m == BlockMined(b)
           n == Height[b]
           f == [g EXCEPT !.out = <<>>]
           h == HandleBlockMined(f, b)
<1>1. m.type = "mined" /\ m.block = b /\ ~ Settles(m)
  BY DEF BlockMined, Settles
<1>2. ApplyMutation(g, m) = h /\ Handled(g, p, E, Q, m, g1, p1, E1, Q1)
  BY <1>1 DEF ApplyMutation
<1>5. PICK B, D : Sound(g, P, B, D, E, Q, {}) /\ History(L, B, D, E)
  BY DEF Whole
<1>6. /\ Fit(p, f, P, B, D, E, Q, {}) /\ f.out = <<>> /\ Resent(g, f)
      /\ p.births = f.nBirths /\ p.deaths = f.nDeaths
  BY <1>5, Started DEF Whole
<1> HIDE DEF f, m
<1>7. MinedStep(p, f, h, P, B, D, E, Q, n)
  <2>1. f.replay \/ DOMAIN f.limbo = {}
    BY <1>6 DEF Resent
  <2> QED BY <1>6, <2>1, MinedFits
<1>8. PICK K : /\ Fit(p, h, P \cup {n}, B, D, E \cup K, Without(Q, K), {})
               /\ Took(f, h, K)
               /\ n \in DOMAIN h.hashes /\ Reaches(f, h, n)
               /\ h.nBirths = f.nBirths /\ h.nDeaths = f.nDeaths
               /\ h.replay = f.replay /\ DOMAIN h.limbo = DOMAIN f.limbo
  BY <1>7 DEF MinedStep
<1> HIDE DEF h, n
<1>9. CapTook(g, h, m) = K
  BY <1>1, <1>6, <1>8, ExactlyTaken DEF Resent
<1>10. Sound(h, P \cup {n}, B, D, E \cup K, Without(Q, K), {})
  BY <1>8 DEF Fit
<1>11. /\ g1 = [h EXCEPT !.out = <<>>] /\ p1 = ApplyDeltas(p, h.out)
       /\ E1 = E \cup K /\ Q1 = Without(Q, K)
  <2>1. (E \cup K) \ DOMAIN h.index = E \cup K
    BY <1>10, TakenStay
  <2> QED BY <1>1, <1>2, <1>9, <2>1 DEF Handled
<1>12. Mirrors(p1, h)
  BY <1>6, <1>8, <1>11 DEF Fit, Shown, Mirrors
<1>13. History(L, B, D, E \cup K)
  BY <1>5, HistoryCapped
<1>14. Whole(g1, p1, P \cup {n}, L, E1, Q1) /\ Resent(h, g1)
  BY <1>10, <1>11, <1>12, <1>13, Finished
<1> QED BY <1>6, <1>8, <1>14 DEF MinedWhole, Resent, Reaches, n

-----------------------------------------------------------------------------
(* The envelope.                                                           *)
ProgressWhole(g, g1, p1, P, L, E1, Q1, active, complete) ==
  /\ Whole(g1, p1, P, L, E1, Q1)
  /\ g1.replay = active /\ DOMAIN g1.limbo \subseteq DOMAIN g.limbo
  /\ g1.hashes = g.hashes
  /\ complete /\ ~ active /\ g.replay => DOMAIN g1.limbo = {}

(* BackfillProgress, from whole to whole: the history stays as it is.      *)
LEMMA ProgressHandled ==
  ASSUME NEW g, NEW p, NEW P, NEW L, NEW E, NEW Q, NEW g1, NEW p1, NEW E1, NEW Q1,
         NEW m, NEW active \in BOOLEAN, NEW complete \in BOOLEAN,
         m = [type |-> "progress", active |-> active, complete |-> complete],
         Whole(g, p, P, L, E, Q), Handled(g, p, E, Q, m, g1, p1, E1, Q1)
  PROVE  ProgressWhole(g, g1, p1, P, L, E1, Q1, active, complete)
<1> DEFINE f == [g EXCEPT !.out = <<>>]
           h == HandleBackfillProgress(f, active, complete)
<1>1. m.type = "progress" /\ m.active = active /\ m.complete = complete /\ (Settles(m) <=> complete)
  BY DEF Settles
<1>2. ApplyMutation(g, m) = h /\ Handled(g, p, E, Q, m, g1, p1, E1, Q1)
  BY <1>1 DEF ApplyMutation
<1>5. PICK B, D : Sound(g, P, B, D, E, Q, {}) /\ History(L, B, D, E)
  BY DEF Whole
<1>6. /\ Fit(p, f, P, B, D, E, Q, {}) /\ f.out = <<>> /\ Resent(g, f)
      /\ p.births = f.nBirths /\ p.deaths = f.nDeaths
  BY <1>5, Started DEF Whole
<1> HIDE DEF f
<1>7. ProgressStep(p, f, h, P, B, D, E, Q, active, complete)
  BY <1>6, ProgressFits
<1> DEFINE R(K) == IF complete THEN Empty ELSE Without(Q, K)
<1>8. PICK K : /\ Fit(p, h, P, B, D, E \cup K, R(K), {})
               /\ Took(f, h, K)
               /\ h.nBirths = f.nBirths /\ h.nDeaths = f.nDeaths /\ h.hashes = f.hashes
               /\ h.replay = active
               /\ DOMAIN h.limbo \subseteq DOMAIN f.limbo
               /\ complete /\ ~ active /\ f.replay => DOMAIN h.limbo = {}
  BY <1>7 DEF ProgressStep
<1> HIDE DEF h
<1>9. CapTook(g, h, m) = K
  BY <1>1, <1>6, <1>8, ExactlyTaken DEF Resent
<1>10. Sound(h, P, B, D, E \cup K, R(K), {})
  BY <1>8 DEF Fit
<1>11. /\ g1 = [h EXCEPT !.out = <<>>] /\ p1 = ApplyDeltas(p, h.out)
       /\ E1 = E \cup K /\ Q1 = R(K)
  <2>1. (E \cup K) \ DOMAIN h.index = E \cup K
    BY <1>10, TakenStay
  <2> QED BY <1>1, <1>2, <1>9, <2>1 DEF Handled
<1> HIDE DEF R
<1>12. Mirrors(p1, h)
  BY <1>6, <1>8, <1>11 DEF Fit, Shown, Mirrors
<1>13. History(L, B, D, E \cup K)
  BY <1>5, HistoryCapped
<1>14. Whole(g1, p1, P, L, E1, Q1) /\ Resent(h, g1)
  BY <1>10, <1>11, <1>12, <1>13, Finished
<1> QED BY <1>6, <1>8, <1>14 DEF ProgressWhole, Resent

(* hydration_complete.                                                     *)
LEMMA HydratedHandled ==
  ASSUME NEW g, NEW p, NEW P, NEW L, NEW E, NEW Q, NEW g1, NEW p1, NEW E1, NEW Q1,
         Whole(g, p, P, L, E, Q), Handled(g, p, E, Q, HydrationCompleted, g1, p1, E1, Q1)
  PROVE  /\ Whole(g1, p1, P, L, E1, Q1)
         /\ g1.replay = g.replay /\ g1.limbo = g.limbo /\ g1.hashes = g.hashes
<1> DEFINE m == HydrationCompleted
           f == [g EXCEPT !.out = <<>>]
           h == [f EXCEPT !.hydrated = TRUE]
<1>1. m.type = "hydrated" /\ ~ Settles(m)
  BY DEF HydrationCompleted, Settles
<1>2. ApplyMutation(g, m) = h /\ Handled(g, p, E, Q, m, g1, p1, E1, Q1)
  BY <1>1 DEF ApplyMutation
<1>3. PICK B, D : Sound(g, P, B, D, E, Q, {}) /\ History(L, B, D, E)
  BY DEF Whole
<1>4. /\ Fit(p, f, P, B, D, E, Q, {}) /\ f.out = <<>> /\ Resent(g, f)
      /\ p.births = f.nBirths /\ p.deaths = f.nDeaths
  BY <1>3, Started DEF Whole
<1> HIDE DEF f, m
<1>5. Shape(f) /\ Sound(f, P, B, D, E, Q, {}) /\ Shown(p, f)
  BY <1>4 DEF Fit, Sound
<1>6. /\ DOMAIN h = Fields /\ SameCells(f, h) /\ h.rows = f.rows /\ h.limbo = f.limbo
      /\ h.hashes = f.hashes /\ h.births = f.births /\ h.deaths = f.deaths
      /\ h.next = f.next /\ h.nBirths = f.nBirths /\ h.nDeaths = f.nDeaths
      /\ h.index = f.index /\ h.replay = f.replay /\ h.out = f.out
  BY <1>5 DEF Shape, Fields, SameCells
<1> HIDE DEF h
<1>7. Shape(h)
  BY <1>5, <1>6 DEF Shape
<1>8. Sound(h, P, B, D, E, Q, {}) /\ Shown(p, h)
  BY <1>5, <1>6, <1>7, SameSound, SameShown
<1>9. CapTook(g, h, m) = {}
  BY <1>4, <1>6, NothingTaken DEF Resent
<1>10. /\ g1 = [h EXCEPT !.out = <<>>] /\ p1 = ApplyDeltas(p, h.out)
       /\ E1 = E /\ Q1 = Without(Q, {})
  <2>1. E \ DOMAIN h.index = E
    BY <1>8, TakenStay
  <2> QED BY <1>1, <1>2, <1>9, <2>1 DEF Handled
<1>11. Mirrors(p1, h)
  BY <1>4, <1>6, <1>8, <1>10 DEF Shown, Mirrors
<1>12. Sound(h, P, B, D, E, Q1, {})
  BY <1>8, <1>10, PromiseLess DEF Sound
<1>13. Whole(g1, p1, P, L, E1, Q1) /\ Resent(h, g1)
  BY <1>3, <1>10, <1>11, <1>12, Finished
<1> QED BY <1>4, <1>6, <1>13 DEF Resent

-----------------------------------------------------------------------------
(* A rebuild.                                                              *)

(* ChainRebuild, from whole to whole: nothing is followed any more.        *)
LEMMA RebuildHandled ==
  ASSUME NEW g, NEW p, NEW P, NEW L, NEW E, NEW Q, NEW g1, NEW p1, NEW E1, NEW Q1, NEW n,
         Whole(g, p, P, L, E, Q), Handled(g, p, E, Q, ChainRebuild(n), g1, p1, E1, Q1)
  PROVE  Whole(g1, p1, {}, {}, E1, Q1) /\ g1.replay = FALSE /\ DOMAIN g1.limbo = {}
<1> DEFINE m == ChainRebuild(n)
           f == [g EXCEPT !.out = <<>>]
           h == ResetForRebuild(f)
<1>1. m.type = "rebuild"
  BY DEF ChainRebuild
<1>2. ApplyMutation(g, m) = h /\ Handled(g, p, E, Q, m, g1, p1, E1, Q1)
  BY <1>1 DEF ApplyMutation
<1>3. PICK B, D : Sound(g, P, B, D, E, Q, {}) /\ History(L, B, D, E)
  BY DEF Whole
<1>4. Fit(p, f, P, B, D, E, Q, {})
  BY <1>3, Started DEF Whole
<1> HIDE DEF f, m
<1>5. /\ Sound(h, {}, Empty, Empty, {}, Empty, {})
      /\ Mirrors(ApplyDeltas(p, h.out), h)
      /\ h.replay = FALSE /\ DOMAIN h.limbo = {}
  BY <1>4, RebuildFits
<1> HIDE DEF h
<1>6. g1 = [h EXCEPT !.out = <<>>] /\ p1 = ApplyDeltas(p, h.out) /\ E1 = {} /\ Q1 = Empty
  BY <1>1, <1>2 DEF Handled
<1>7. Whole(g1, p1, {}, {}, E1, Q1) /\ Resent(h, g1)
  BY <1>5, <1>6, NoHistory, Finished
<1> QED BY <1>5, <1>7 DEF Resent

-----------------------------------------------------------------------------
(* A reorganisation.                                                       *)
ReorgWhole(g, g1, p1, P, L, E1, Q1, n) ==
  /\ Whole(g1, p1, {m \in P : m < n}, Earlier(L, n), E1, Q1)
  /\ g1.replay = g.replay /\ Spared(g, g1, n)

(* The ids the index names now may be promised.                            *)
LEMMA IndexPromised ==
  ASSUME NEW g, NEW P, NEW B, NEW D, NEW E, NEW Q, NEW X, Sound(g, P, B, D, E, Q, X)
  PROVE  Sound(g, P, B, D, E, g.index, X)
<1>1. PromInv(g, B, E, g.index)
  <2> SUFFICES ASSUME NEW op \in DOMAIN g.index
               PROVE  /\ op \notin E /\ op \in DOMAIN B
                      /\ \A x \in Carriers(g) : x.op = op => x.id = g.index[op]
    BY DEF PromInv
  <2>1. op \notin E /\ op \in DOMAIN B
    BY DEF Sound, LedgerInv
  <2>2. PICK y \in Range(g.rows) : IsAlive(y) /\ y.op = op
    BY DEF Sound, IndexInv
  <2>3. y.id = g.index[op] /\ y \in Carriers(g)
    BY <2>2 DEF Sound, IndexInv, Carriers
  <2>4. \A x \in Carriers(g) : x.op = op => x.id = y.id
    BY <2>2, <2>3 DEF Sound, NamesInv
  <2> QED BY <2>1, <2>3, <2>4
<1> QED BY <1>1 DEF Sound

(* What leaves the index on a rollback leaves the rows as well.            *)
LEMMA NoCorpseOfARollback ==
  ASSUME NEW g, NEW h, NEW P, NEW R, NEW B, NEW C, NEW D, NEW F, NEW E, NEW n, NEW X, NEW Y,
         Sound(g, P, B, D, E, g.index, X), Sound(h, R, C, F, E, g.index, Y), Cut(D, F, n)
  PROVE  \A op \in DOMAIN g.index \ DOMAIN h.index :
           \A i \in DOMAIN h.rows : h.rows[i].id # g.index[op]
<1> SUFFICES ASSUME NEW op \in DOMAIN g.index, op \notin DOMAIN h.index,
                    NEW i \in DOMAIN h.rows, h.rows[i].id = g.index[op]
             PROVE  FALSE
  OBVIOUS
<1> DEFINE x == h.rows[i]
<1>1. x \in Range(h.rows) /\ x \in Carriers(h)
  BY DEF Range, Carriers
<1>2. op \notin E /\ op \notin DOMAIN D
  BY DEF Sound, LedgerInv
<1>3. op \notin DOMAIN F
  BY <1>2 DEF Cut
<1>4. op \notin DOMAIN C
  BY <1>2, <1>3 DEF Sound, LedgerInv
<1>5. op \in DOMAIN h.limbo
  BY <1>4 DEF Sound, PromInv
<1> DEFINE y == h.limbo[op]
<1>6. y.op = op /\ y \in Carriers(h)
  <2>1. y \in Range(h.limbo)
    BY <1>5 DEF Range
  <2> QED BY <1>5, <2>1 DEF Sound, ParkedInv, Carriers
<1>7. y.id = g.index[op]
  BY <1>6 DEF Sound, PromInv
<1> HIDE DEF y
<1>8. x.op = op
  BY <1>1, <1>6, <1>7 DEF Sound, NamesInv
<1>9. x.op \in DOMAIN C
  BY <1>1 DEF Sound, LedgerInv
<1> QED BY <1>4, <1>8, <1>9

(* ChainReorganized, from whole to whole, if the journal reaches the fork: *)
(* only the history below the fork is left.                                *)
LEMMA ReorgHandled ==
  ASSUME NEW g, NEW p, NEW P, NEW L, NEW E, NEW Q, NEW g1, NEW p1, NEW E1, NEW Q1,
         NEW n \in Nat, NEW last \in Nat, P \subseteq Nat, \A m \in P : m <= last,
         Whole(g, p, P, L, E, Q), Handled(g, p, E, Q, ChainReorganized(n), g1, p1, E1, Q1),
         n \in DOMAIN g.hashes \/ \A m \in P : m < n
  PROVE  ReorgWhole(g, g1, p1, P, L, E1, Q1, n)
<1> DEFINE m == ChainReorganized(n)
           f == [g EXCEPT !.out = <<>>]
           h == RollbackFrom(f, n)
           R == {k \in P : k < n}
           M == Earlier(L, n)
<1>1. m.type = "reorganized" /\ m.from = n /\ ~ Settles(m)
  BY DEF ChainReorganized, Settles
<1>2. ApplyMutation(g, m) = h /\ Handled(g, p, E, Q, m, g1, p1, E1, Q1)
  BY <1>1 DEF ApplyMutation
<1>3. PICK B, D : Sound(g, P, B, D, E, Q, {}) /\ History(L, B, D, E)
  BY DEF Whole
<1>4. /\ Fit(p, f, P, B, D, E, Q, {}) /\ f.out = <<>> /\ Resent(g, f)
      /\ p.births = f.nBirths /\ p.deaths = f.nDeaths
  BY <1>3, Started DEF Whole
<1>5. n \in DOMAIN f.hashes \/ \A k \in P : k < n
  BY <1>4 DEF Resent
<1> HIDE DEF f, m
<1>6. Sound(f, P, B, D, E, f.index, {}) /\ Fit(p, f, P, B, D, E, f.index, {})
  BY <1>4, IndexPromised DEF Fit
<1>7. RollbackStep(p, f, h, P, B, D, E, Q, n)
  BY <1>4, <1>5, RollbackFits
<1>8. RollbackStep(p, f, h, P, B, D, E, f.index, n)
  BY <1>4, <1>5, <1>6, RollbackFits
<1> HIDE DEF h
<1>9. ASSUME NEW C, NEW F, NEW S, Cut(B, C, n), Cut(D, F, n), Sound(h, R, C, F, E, S, {}),
             Mirrors(ApplyDeltas(p, h.out), h),
             g1 = [h EXCEPT !.out = <<>>], p1 = ApplyDeltas(p, h.out), E1 = E,
             Q1 = S \/ Q1 = Without(S, {})
      PROVE  Whole(g1, p1, R, M, E1, Q1) /\ Resent(h, g1)
  <2>1. Sound(h, R, C, F, E, Q1, {})
    BY <1>9, PromiseLess DEF Sound
  <2>2. /\ DOMAIN D \subseteq DOMAIN B
        /\ \A op \in DOMAIN D : B[op] \in P /\ D[op] \in P /\ B[op] <= D[op]
    BY <1>3 DEF Sound, LedgerInv
  <2>3. History(M, C, F, E)
    <3>1. History(L, B, D, E) /\ Cut(B, C, n) /\ Cut(D, F, n)
      BY <1>3, <1>9
    <3> QED BY ONLY n \in Nat, P \subseteq Nat, <2>2, <3>1, HistoryCut
  <2> HIDE DEF R, M
  <2> QED BY <1>9, <2>1, <2>3, Finished
<1>10. PICK C, F : /\ Cut(B, C, n) /\ Cut(D, F, n)
                   /\ Sound(h, R, C, F, E, Q, {})
                   /\ Mirrors(ApplyDeltas(p, h.out), h)
                   /\ h.replay = f.replay /\ Spared(f, h, n)
  BY <1>7 DEF RollbackStep
<1>11. PICK C2, F2 : /\ Cut(B, C2, n) /\ Cut(D, F2, n)
                     /\ Sound(h, R, C2, F2, E, f.index, {})
                     /\ Mirrors(ApplyDeltas(p, h.out), h)
                     /\ h.replay = f.replay
  BY <1>8 DEF RollbackStep
<1> HIDE DEF R, M
<1>12. CapTook(g, h, m) = {}
  <2>1. \A op \in DOMAIN f.index \ DOMAIN h.index :
          \A i \in DOMAIN h.rows : h.rows[i].id # f.index[op]
    BY <1>6, <1>11, NoCorpseOfARollback
  <2>2. f.index = g.index
    BY <1>4 DEF Resent
  <2> QED BY <2>1, <2>2 DEF CapTook
<1>13. /\ g1 = [h EXCEPT !.out = <<>>] /\ p1 = ApplyDeltas(p, h.out) /\ E1 = E
       /\ Q1 = f.index \/ Q1 = Without(Q, {})
  <2>1. E \ DOMAIN h.index = E
    BY <1>10, TakenStay
  <2>2. f.index = g.index
    BY <1>4 DEF Resent
  <2> QED BY <1>1, <1>2, <1>12, <2>1, <2>2 DEF Handled
<1>14. Whole(g1, p1, R, M, E1, Q1) /\ Resent(h, g1)
  <2>1. CASE Q1 = f.index
    BY <1>9, <1>11, <1>13, <2>1
  <2>2. CASE Q1 = Without(Q, {})
    BY <1>9, <1>10, <1>13, <2>2
  <2> QED BY <1>13, <2>1, <2>2
<1> QED BY <1>4, <1>10, <1>14 DEF ReorgWhole, Resent, Spared, R, M

-----------------------------------------------------------------------------
(* The state file, and a page that connects.                               *)

(* The snapshot sent to a new page shows the galaxy.                       *)
LEMMA SnapshotMirrors ==
  ASSUME NEW g, NEW P, NEW B, NEW D, NEW E, NEW Q, NEW X, Sound(g, P, B, D, E, Q, X)
  PROVE  Mirrors(SnapshotOf(g), g)
<1> DEFINE s == SnapshotOf(g)
<1>1. g.rows \in Seq(Row) /\ Distinct(g.rows)
  BY DEF Sound, Shape
<1>2. Ids(g.rows) = RowIds(g)
  BY DEF Ids, RowIds, Range
<1>3. /\ DOMAIN s = {"cells", "births", "deaths"}
      /\ s.cells = [id \in RowIds(g) |-> g.rows[SlotOf(g, id)]]
      /\ s.births = g.nBirths /\ s.deaths = g.nDeaths
  BY <1>2 DEF SnapshotOf
<1> HIDE DEF s
<1>4. ASSUME NEW x \in Range(g.rows)
      PROVE  x.id \in DOMAIN s.cells /\ s.cells[x.id] = x
  <2>1. x.id \in RowIds(g)
    BY DEF RowIds
  <2>2. SlotOf(g, x.id) \in DOMAIN g.rows /\ g.rows[SlotOf(g, x.id)].id = x.id
    BY <1>1, SlotOfId
  <2>3. PICK j \in DOMAIN g.rows : x = g.rows[j]
    BY DEF Range
  <2>4. SlotOf(g, x.id) = j
    BY <1>1, <2>2, <2>3 DEF Distinct
  <2> QED BY <1>3, <2>1, <2>3, <2>4
<1> QED BY <1>3, <1>4 DEF Shows, Mirrors, s

(* Cells as they are in the file.                                          *)
Stored(c, P, L, E) ==
  /\ c.out = <<>> /\ c.replay = FALSE /\ DOMAIN c.limbo = {}
  /\ \E B, D : Sound(c, P, B, D, E, Empty, {}) /\ History(L, B, D, E)

(* What to_persisted writes of a whole galaxy is sound: rows, journal and  *)
(* index, without limbo and promises.                                      *)
LEMMA SavedWhole ==
  ASSUME NEW g, NEW p, NEW P, NEW L, NEW E, NEW Q, Whole(g, p, P, L, E, Q)
  PROVE  Stored(ToPersisted(g), P, L, E) /\ ToPersisted(g).hashes = g.hashes
<1> DEFINE c == ToPersisted(g)
<1>1. PICK B, D : Sound(g, P, B, D, E, Q, {}) /\ History(L, B, D, E)
  BY DEF Whole
<1>2. Shape(g)
  BY <1>1 DEF Sound
<1>3. /\ DOMAIN c = Fields /\ c.limbo = Empty /\ c.rows = g.rows /\ c.index = g.index
      /\ c.hashes = g.hashes /\ c.births = g.births /\ c.deaths = g.deaths /\ c.next = g.next
      /\ c.nBirths = g.nBirths /\ c.nDeaths = g.nDeaths
      /\ c.replay = FALSE /\ c.out = <<>>
  BY <1>2 DEF ToPersisted, Shape, Fields
<1> HIDE DEF c
<1>4. DOMAIN Empty = {} /\ Range(Empty) = {}
  BY DEF Empty, Range
<1>5. Shape(c)
  <2>1. <<>> \in Seq({})
    OBVIOUS
  <2>2. Listed(c.out)
    BY <1>3, <2>1 DEF Listed
  <2> QED BY <1>2, <1>3, <1>4, <2>2 DEF Shape
<1>6. Carriers(c) \subseteq Carriers(g)
  BY <1>3, <1>4 DEF Carriers
<1>7. NamesInv(c) /\ IndexInv(c) /\ ParkedInv(c, B) /\ PromInv(c, B, E, Empty)
  BY <1>1, <1>3, <1>4, <1>6 DEF Sound, NamesInv, IndexInv, ParkedInv, PromInv
<1>8. LedgerInv(c, P, B, D, E) /\ CountInv(c, B, D)
  BY <1>1, <1>3 DEF Sound, LedgerInv, CountInv
<1>9. JournalInv(c, P, B, D, {})
  BY <1>1, <1>3 DEF Sound, JournalInv, BirthsAt, DeathsAt
<1>10. Sound(c, P, B, D, E, Empty, {})
  BY <1>5, <1>7, <1>8, <1>9 DEF Sound
<1> QED BY <1>1, <1>3, <1>4, <1>10 DEF Stored, c

(* restore_from a stored galaxy yields a whole one; its journal reaches as *)
(* deep as the window.                                                     *)
LEMMA RestoredWhole ==
  ASSUME NEW c, NEW P, NEW L, NEW E, NEW top \in Nat, P \subseteq Nat,
         \A m \in P : m <= top, Stored(c, P, L, E)
  PROVE  LET g == RestoreFrom(c)
         IN  /\ Whole(g, SnapshotOf(g), P, L, E, Empty)
             /\ g.replay = FALSE /\ DOMAIN g.limbo = {}
             /\ Reaches(c, g, top)
<1> DEFINE f == PruneReorgJournal(c)
           g == RestoreFrom(c)
<1>1. PICK B, D : Sound(c, P, B, D, E, Empty, {}) /\ History(L, B, D, E)
  BY DEF Stored
<1>2. /\ Sound(f, P, B, D, E, Empty, {}) /\ SameCells(c, f)
      /\ f.out = c.out /\ f.replay = c.replay /\ Reaches(c, f, top)
  BY <1>1, PruneSound
<1> HIDE DEF f
<1>3. g = f
  <2>1. ASSUME f.nBirths = 0, f.rows # <<>> PROVE FALSE
    <3>1. f.rows \in Seq(Row)
      BY <1>2 DEF Sound, Shape
    <3>2. 1 \in DOMAIN f.rows
      BY <2>1, <3>1
    <3>3. f.rows[1] \in Range(f.rows)
      BY <3>2 DEF Range
    <3>4. f.rows[1].op \in DOMAIN B
      BY <1>2, <3>3 DEF Sound, LedgerInv
    <3>5. IsFiniteSet(DOMAIN B) /\ Cardinality(DOMAIN B) = 0
      BY <1>2, <2>1 DEF Sound, CountInv
    <3>6. DOMAIN B = {}
      BY <3>5, FS_EmptySet
    <3> QED BY <3>4, <3>6
  <2> QED BY <2>1 DEF RestoreFrom, f
<1>4. Mirrors(SnapshotOf(f), f)
  BY <1>2, SnapshotMirrors
<1> QED BY <1>1, <1>2, <1>3, <1>4 DEF Whole, Stored, SameCells

(* A galaxy that starts empty is whole, with an empty history.             *)
LEMMA EmptyWhole ==
  /\ Whole(EmptyGalaxy, SnapshotOf(EmptyGalaxy), {}, {}, {}, Empty)
  /\ EmptyGalaxy.replay = FALSE /\ DOMAIN EmptyGalaxy.limbo = {}
<1>1. Blank(EmptyGalaxy) /\ EmptyGalaxy.out = <<>> /\ DOMAIN Empty = {}
  BY DEF EmptyGalaxy, Blank, Fields, Empty
<1>2. Listed(EmptyGalaxy.out)
  <2>1. <<>> \in Seq({})
    OBVIOUS
  <2> QED BY <1>1, <2>1 DEF Listed
<1>3. Sound(EmptyGalaxy, {}, Empty, Empty, {}, Empty, {})
  BY <1>1, <1>2, BlankSound
<1>4. Mirrors(SnapshotOf(EmptyGalaxy), EmptyGalaxy)
  BY <1>3, SnapshotMirrors
<1> QED BY <1>1, <1>3, <1>4, NoHistory DEF Whole, Blank

(* A page that connects.                                                   *)
LEMMA ConnectedWhole ==
  ASSUME NEW g, NEW p, NEW P, NEW L, NEW E, NEW Q, Whole(g, p, P, L, E, Q)
  PROVE  Whole(g, SnapshotOf(g), P, L, E, Q)
<1>1. PICK B, D : Sound(g, P, B, D, E, Q, {}) /\ History(L, B, D, E)
  BY DEF Whole
<1>2. Mirrors(SnapshotOf(g), g)
  BY <1>1, SnapshotMirrors
<1> QED BY <1>1, <1>2 DEF Whole

(* The operators on partial chains return partial chains.                  *)
LEMMA BelowPartial ==
  ASSUME NEW f, PartialChain(f), NEW n \in Int
  PROVE  PartialChain(Below(f, n))
  BY DEF PartialChain, Below, Restrict

(* Keeping the newest entries keeps a partial chain.                         *)
LEMMA NewestPartial ==
  ASSUME NEW f, PartialChain(f), NEW k \in Int, NEW n \in Int
  PROVE  PartialChain(Newest(f, k, n))
  BY DEF PartialChain, Newest, Restrict

(* Writing one block keeps a partial chain.                                  *)
LEMMA PutPartial ==
  ASSUME NEW f, PartialChain(f), NEW n \in Nat, NEW b \in Blocks
  PROVE  PartialChain(Put(f, n, b))
  BY DEF PartialChain, Put

(* The empty chain is a partial chain and a segment.                         *)
LEMMA NoBlocksFacts ==
  /\ PartialChain(NoBlocks)
  /\ DOMAIN NoBlocks = {}
  /\ IsSegment(NoBlocks)
  BY DEF PartialChain, NoBlocks, IsSegment, Linked, Unbroken

(* Cutting a segment leaves a segment.                                     *)
LEMMA BelowIsSegment ==
  ASSUME NEW f, PartialChain(f), IsSegment(f), NEW n \in Int
  PROVE  IsSegment(Below(f, n))
<1> DEFINE g == Below(f, n)
<1>1. /\ DOMAIN g = {h \in DOMAIN f : h < n}
      /\ \A h \in DOMAIN g : g[h] = f[h]
  BY DEF Below, Restrict
<1>2. DOMAIN f \subseteq Nat
  BY DEF PartialChain
<1> HIDE DEF g
<1>3. Linked(g)
  BY <1>1, <1>2 DEF IsSegment, Linked
<1>4. Unbroken(g)
  BY <1>1, <1>2 DEF IsSegment, Unbroken
<1> QED BY <1>3, <1>4 DEF IsSegment, g

(* A child of the top extends a segment; any block starts one.             *)
LEMMA PutIsSegment ==
  ASSUME NEW f, PartialChain(f), IsSegment(f),
         NEW n \in Nat, NEW b \in Blocks, Height[b] = n,
         \A h \in DOMAIN f : h < n /\ n - 1 \in DOMAIN f /\ f[n - 1] = Parent[b]
  PROVE  IsSegment(Put(f, n, b))
<1> DEFINE g == Put(f, n, b)
<1>1. /\ DOMAIN g = DOMAIN f \cup {n}
      /\ g[n] = b
      /\ \A h \in DOMAIN f : h # n => g[h] = f[h]
  BY DEF Put
<1>2. DOMAIN f \subseteq Nat
  BY DEF PartialChain
<1> HIDE DEF g
<1>3. \A h \in DOMAIN g : Height[g[h]] = h
  BY <1>1, <1>2 DEF IsSegment, Linked
<1>4. \A h \in DOMAIN g : h - 1 \in DOMAIN g => Parent[g[h]] = g[h - 1]
  <2> SUFFICES ASSUME NEW h \in DOMAIN g, h - 1 \in DOMAIN g
               PROVE  Parent[g[h]] = g[h - 1]
    OBVIOUS
  <2>1. CASE h = n
    BY <2>1, <1>1, <1>2
  <2>2. CASE h # n
    BY <2>2, <1>1, <1>2 DEF IsSegment, Linked
  <2> QED BY <2>1, <2>2
<1>5. Unbroken(g)
  <2> SUFFICES ASSUME NEW lo \in DOMAIN g, NEW hi \in DOMAIN g, NEW h \in lo .. hi
               PROVE  h \in DOMAIN g
    BY DEF Unbroken
  <2>1. CASE h = n
    BY <2>1, <1>1
  <2>2. CASE h # n
    <3>1. /\ lo \in DOMAIN f /\ h <= n - 1
          /\ n - 1 \in DOMAIN f
      BY <2>2, <1>1, <1>2
    <3> QED BY <3>1, <2>2, <1>1, <1>2 DEF IsSegment, Unbroken
  <2> QED BY <2>1, <2>2
<1> QED BY <1>3, <1>4, <1>5 DEF IsSegment, Linked, g

-----------------------------------------------------------------------------
(* The adapter: chains of blocks.                                          *)

(* The greatest height of a chain.                                         *)
Greatest(f, t) == t \in DOMAIN f /\ \A n \in DOMAIN f : n <= t

(* The blocks followed: without a hole, up to a greatest one.              *)
PathInv(p) ==
  /\ PartialChain(p) /\ IsSegment(p)
  /\ DOMAIN p = {} \/ \E t \in DOMAIN p : Greatest(p, t)

(* From an anchor to the next block there is no hole.                      *)
Adjoins(a, f) ==
  \A m \in DOMAIN a : \A k \in DOMAIN a \cup DOMAIN f : m < k => m + 1 \in DOMAIN f

(* The anchors lie on the chain f and end where it ends.                   *)
Led(f, a) ==
  /\ PartialChain(f) /\ IsSegment(f) /\ PartialChain(a)
  /\ \A n \in DOMAIN a : /\ Height[a[n]] = n
                         /\ n \in DOMAIN f => a[n] = f[n]
  /\ Adjoins(a, f)
  /\ \/ DOMAIN a = {} /\ DOMAIN f = {}
     \/ \E t \in DOMAIN a : /\ Greatest(a, t)
                            /\ \A n \in DOMAIN a : n + RecentCap > t
                            /\ DOMAIN f = {} \/ Greatest(f, t)

(* A path p, and a window w above it still to be sent, under anchors a.    *)
Follows(p, w, a) ==
  /\ PartialChain(w) /\ \A n \in DOMAIN p, m \in DOMAIN w : n < m
  /\ Led(Over(w, p), a)

(* The greatest height of a chain is its Max.                              *)
LEMMA MaxIs ==
  ASSUME NEW f, NEW t, PartialChain(f), Greatest(f, t)
  PROVE  Max(DOMAIN f) = t
<1>1. \A x \in DOMAIN f : x \in Nat
  BY DEF PartialChain
<1>2. \E x \in DOMAIN f : \A y \in DOMAIN f : x >= y
  BY <1>1 DEF Greatest
<1>3. Max(DOMAIN f) \in DOMAIN f /\ \A y \in DOMAIN f : Max(DOMAIN f) >= y
  BY <1>2 DEF Max
<1> QED BY <1>1, <1>3 DEF Greatest

(* A chain without heights is the empty chain.                             *)
LEMMA NoBlocksEmpty ==
  ASSUME NEW f, PartialChain(f)
  PROVE  f = NoBlocks <=> DOMAIN f = {}
<1>1. DOMAIN NoBlocks = {}
  BY DEF NoBlocks
<1>2. f = [n \in DOMAIN f |-> f[n]]
  BY DEF PartialChain
<1>3. DOMAIN f = {} => f = NoBlocks
  BY <1>2 DEF NoBlocks
<1> QED BY <1>1, <1>3

(* What overlaying two chains returns.                                     *)
LEMMA OverFacts ==
  ASSUME NEW w, NEW p
  PROVE  /\ DOMAIN Over(w, p) = DOMAIN w \cup DOMAIN p
         /\ \A n \in DOMAIN w : Over(w, p)[n] = w[n]
         /\ \A n \in DOMAIN p : n \notin DOMAIN w => Over(w, p)[n] = p[n]
BY DEF Over

(* Overlaying nothing changes nothing.                                     *)
LEMMA OverNothing ==
  ASSUME NEW p, PartialChain(p)
  PROVE  Over(NoBlocks, p) = p /\ Over(p, NoBlocks) = p
<1>1. DOMAIN NoBlocks = {} /\ p = [n \in DOMAIN p |-> p[n]]
  BY DEF NoBlocks, PartialChain
<1> QED BY <1>1 DEF Over

(* With nothing left to send the anchors end where the path ends.          *)
LEMMA FollowsPath ==
  ASSUME NEW p, NEW w, NEW a, PartialChain(p), DOMAIN w = {}
  PROVE  Follows(p, w, a) <=> PartialChain(w) /\ Led(p, a)
<1>1. PartialChain(w) => Over(w, p) = p
  BY NoBlocksEmpty, OverNothing
<1> QED BY <1>1 DEF Follows

-----------------------------------------------------------------------------
(* What the poll steps make of the anchors.                                *)

(* The next block of the branch.                                           *)
Extends(p, a, b, c) ==
  /\ \A m \in DOMAIN p : m < Height[b]
  /\ PathInv(Put(p, Height[b], b))
  /\ Led(Put(p, Height[b], b), c)
  /\ DOMAIN c \subseteq DOMAIN a \cup {Height[b]}

(* The adapter connects the next block: path and pruned anchors go on      *)
(* together (follow_next with prune_canonical_history).                    *)
LEMMA LedFurther ==
  ASSUME NEW p, NEW a, NEW b \in Blocks, b # Genesis, Led(p, a), DOMAIN a # {},
         Parent[b] = a[Max(DOMAIN a)], RecentCap >= Window + 1
  PROVE  Extends(p, a, b, Newest(Put(a, Height[b], b), Window + 1, Height[b]))
<1> DEFINE n == Height[b]
           q == Put(p, n, b)
           c == Newest(Put(a, n, b), Window + 1, n)
<1>1. PICK t \in DOMAIN a : /\ Greatest(a, t)
                            /\ \A m \in DOMAIN a : m + RecentCap > t
                            /\ DOMAIN p = {} \/ Greatest(p, t)
  BY DEF Led
<1>2. /\ PartialChain(a) /\ DOMAIN a \subseteq Nat /\ t \in Nat
      /\ PartialChain(p) /\ DOMAIN p \subseteq Nat /\ IsSegment(p)
  BY DEF Led, PartialChain
<1>3. Max(DOMAIN a) = t
  BY <1>1, <1>2, MaxIs
<1>4. n \in Nat /\ n = t + 1
  <2>1. Height[a[t]] = t
    BY DEF Led
  <2>2. Height[b] = Height[Parent[b]] + 1 /\ Height[b] \in Nat
    BY TreeAssumption
  <2> QED BY <1>3, <2>1, <2>2
<1>5. \A m \in DOMAIN p : m < n /\ n - 1 \in DOMAIN p /\ p[n - 1] = Parent[b]
  <2> TAKE m \in DOMAIN p
  <2>1. Greatest(p, t)
    BY <1>1
  <2>2. a[t] = p[t]
    BY <2>1 DEF Greatest, Led
  <2> QED BY <1>2, <1>3, <1>4, <2>1, <2>2 DEF Greatest
<1>6. PartialChain(q) /\ IsSegment(q) /\ DOMAIN q = DOMAIN p \cup {n} /\ q[n] = b
      /\ \A m \in DOMAIN p : q[m] = p[m]
  <2>1. PartialChain(q)
    BY <1>2, <1>4, PutPartial
  <2>2. IsSegment(q)
    BY <1>2, <1>4, <1>5, PutIsSegment
  <2>3. DOMAIN q = DOMAIN p \cup {n} /\ q[n] = b
    BY DEF Put
  <2>4. \A m \in DOMAIN p : q[m] = p[m]
    <3> TAKE m \in DOMAIN p
    <3>1. m # n
      BY <1>2, <1>4, <1>5
    <3> QED BY <3>1 DEF Put
  <2> QED BY <2>1, <2>2, <2>3, <2>4
<1>7. Greatest(q, n)
  BY <1>2, <1>4, <1>5, <1>6 DEF Greatest
<1>8. /\ DOMAIN c = {m \in DOMAIN a \cup {n} : m + (Window + 1) > n}
      /\ \A m \in DOMAIN c : c[m] = IF m = n THEN b ELSE a[m]
  BY DEF Newest, Put, Restrict
<1>9. PartialChain(c)
  <2>1. PartialChain(Put(a, n, b))
    BY <1>2, <1>4, PutPartial
  <2>2. n \in Int /\ Window + 1 \in Int
    BY <1>4, GalaxyAssumption
  <2> QED BY <2>1, <2>2, NewestPartial
<1> HIDE DEF q, c
<1>10. Window \in Nat /\ RecentCap \in Nat /\ n \in DOMAIN c
  BY <1>4, <1>8, GalaxyAssumption, PipelineAssumption
<1>11. \A m \in DOMAIN c : /\ Height[c[m]] = m
                           /\ m \in DOMAIN q => c[m] = q[m]
                           /\ m <= n /\ m + RecentCap > n
  <2> TAKE m \in DOMAIN c
  <2>1. m \in Nat /\ m + (Window + 1) > n
    BY <1>2, <1>4, <1>8
  <2>2. CASE m = n
    BY <1>4, <1>6, <1>8, <1>10, <2>1, <2>2
  <2>3. CASE m # n
    <3>1. m \in DOMAIN a /\ c[m] = a[m]
      BY <1>8, <2>3
    <3>2. m <= t /\ Height[a[m]] = m /\ (m \in DOMAIN p => a[m] = p[m])
      BY <1>1, <3>1 DEF Greatest, Led
    <3> QED BY <1>2, <1>4, <1>6, <1>10, <2>1, <2>3, <3>1, <3>2
  <2> QED BY <2>2, <2>3
<1>15. Adjoins(c, q)
  <2> SUFFICES ASSUME NEW m \in DOMAIN c, NEW k \in DOMAIN c \cup DOMAIN q, m < k
               PROVE  m + 1 \in DOMAIN q
    BY DEF Adjoins
  <2>1. k <= n /\ k \in Int
    BY <1>2, <1>4, <1>7, <1>8, <1>11, <1>6 DEF Greatest
  <2>2. m \in DOMAIN a /\ m \in Nat /\ m <= t
    <3>1. m # n
      BY <1>4, <2>1
    <3> QED BY <1>1, <1>2, <1>8, <3>1 DEF Greatest
  <2>3. CASE m = t
    BY <1>4, <1>6, <2>3
  <2>4. CASE m # t
    <3>1. m < t /\ t \in DOMAIN a
      BY <1>2, <2>2, <2>4
    <3>2. m + 1 \in DOMAIN p
      BY <2>2, <3>1 DEF Led, Adjoins
    <3> QED BY <1>6, <3>2
  <2> QED BY <2>3, <2>4
<1>12. Led(q, c)
  BY <1>6, <1>7, <1>9, <1>10, <1>11, <1>15 DEF Led, Greatest
<1>13. PathInv(q)
  BY <1>6, <1>7 DEF PathInv, Greatest
<1>14. \A m \in DOMAIN p : m < n
  BY <1>5
<1> QED BY <1>8, <1>12, <1>13, <1>14 DEF Extends, q, c

(* The oldest block of the window is sent.                                 *)
Advances(p, w, a, n) ==
  /\ n \in DOMAIN w /\ w[n] \in Blocks /\ Height[w[n]] = n
  /\ \A m \in DOMAIN p : m < n
  /\ PathInv(Put(p, n, w[n]))
  /\ Follows(Put(p, n, w[n]), Restrict(w, DOMAIN w \ {n}), a)

(* Min is the least element.                                               *)
LEMMA LeastOf ==
  ASSUME NEW S, S \subseteq Nat, S # {}
  PROVE  Min(S) \in S /\ \A k \in S : Min(S) <= k
<1>1. \E m \in S : \A k \in S : m <= k
  BY LeastNumber
<1> QED BY <1>1 DEF Min

(* Replaying the lowest block of the window appends it to the path.        *)
LEMMA WindowAdvances ==
  ASSUME NEW p, NEW w, NEW a, PartialChain(p), Follows(p, w, a), DOMAIN w # {}
  PROVE  Advances(p, w, a, Min(DOMAIN w))
<1> DEFINE n == Min(DOMAIN w)
           b == w[n]
           f == Over(w, p)
           q == Put(p, n, b)
           v == Restrict(w, DOMAIN w \ {n})
<1>1. /\ PartialChain(w) /\ DOMAIN w \subseteq Nat
      /\ PartialChain(p) /\ DOMAIN p \subseteq Nat
      /\ \A m \in DOMAIN p, k \in DOMAIN w : m < k
      /\ Led(f, a)
  BY DEF Follows, PartialChain
<1>2. n \in DOMAIN w /\ \A k \in DOMAIN w : n <= k
  BY <1>1, LeastOf
<1>3. /\ PartialChain(f) /\ IsSegment(f) /\ DOMAIN f = DOMAIN w \cup DOMAIN p
      /\ \A m \in DOMAIN w : f[m] = w[m]
      /\ \A m \in DOMAIN p : m \notin DOMAIN w => f[m] = p[m]
  <2>1. PartialChain(f) /\ IsSegment(f)
    BY <1>1 DEF Led
  <2> QED BY <2>1, OverFacts
<1> HIDE DEF f, n
<1>4. n \in Nat /\ b \in Blocks /\ Height[b] = n /\ \A m \in DOMAIN p : m < n
  BY <1>1, <1>2, <1>3 DEF IsSegment, Linked, PartialChain
<1>5. /\ DOMAIN q = DOMAIN p \cup {n} /\ q[n] = b
      /\ \A m \in DOMAIN p : q[m] = p[m]
  <2>1. \A m \in DOMAIN p : m # n
    BY <1>1, <1>4
  <2> QED BY <2>1 DEF Put
<1>6. /\ DOMAIN v = DOMAIN w \ {n}
      /\ \A m \in DOMAIN v : v[m] = w[m]
  BY DEF Restrict
<1>7. PartialChain(v)
  BY <1>1 DEF PartialChain, Restrict
<1>8. PartialChain(q)
  BY <1>1, <1>4, PutPartial
<1>9. Over(v, q) = f
  <2> HIDE DEF v, q
  <2> DEFINE e == Over(v, q)
  <2>5. /\ DOMAIN e = DOMAIN v \cup DOMAIN q
        /\ \A m \in DOMAIN v : e[m] = v[m]
        /\ \A m \in DOMAIN q : m \notin DOMAIN v => e[m] = q[m]
    BY OverFacts
  <2> HIDE DEF e
  <2>1. DOMAIN e = DOMAIN f
    BY <1>2, <1>3, <1>5, <1>6, <2>5
  <2>2. \A m \in DOMAIN f : e[m] = f[m]
    <3> TAKE m \in DOMAIN f
    <3>1. CASE m \in DOMAIN v
      BY <1>3, <1>6, <2>5, <3>1
    <3>2. CASE m = n
      BY <1>2, <1>3, <1>5, <1>6, <2>5, <3>2
    <3>3. CASE m \in DOMAIN p /\ m \notin DOMAIN w
      BY <1>3, <1>5, <1>6, <2>5, <3>3
    <3> QED BY <1>3, <1>6, <3>1, <3>2, <3>3
  <2>3. f = [m \in DOMAIN f |-> f[m]]
    BY <1>3 DEF PartialChain
  <2>4. e = [m \in DOMAIN e |-> e[m]]
    BY DEF Over, e
  <2> QED BY <2>1, <2>2, <2>3, <2>4 DEF e
<1>10. \A m \in DOMAIN q, k \in DOMAIN v : m < k
  <2> TAKE m \in DOMAIN q, k \in DOMAIN v
  <2>1. k \in DOMAIN w /\ k # n /\ n <= k /\ k \in Nat
    BY <1>1, <1>2, <1>6
  <2> QED BY <1>1, <1>4, <1>5, <2>1
<1>11. Greatest(q, n)
  <2>1. \A m \in DOMAIN q : m <= n
    BY <1>1, <1>4, <1>5
  <2> QED BY <1>5, <2>1 DEF Greatest
<1>12. IsSegment(q)
  <2>1. \A m \in DOMAIN q : m \in DOMAIN f /\ f[m] = q[m]
    <3> TAKE m \in DOMAIN q
    <3>1. CASE m = n
      BY <1>2, <1>3, <1>5, <3>1
    <3>2. CASE m \in DOMAIN p
      <4>1. m \notin DOMAIN w
        BY <1>1, <3>2
      <4> QED BY <1>3, <1>5, <3>2, <4>1
    <3> QED BY <1>5, <3>1, <3>2
  <2>2. \A m \in DOMAIN f : m <= n => m \in DOMAIN q
    <3> TAKE m \in DOMAIN f
    <3>1. CASE m \in DOMAIN w
      BY <1>1, <1>2, <1>4, <1>5, <3>1
    <3> QED BY <1>3, <1>5, <3>1
  <2>3. DOMAIN q \subseteq Nat
    BY <1>8 DEF PartialChain
  <2>4. \A m \in DOMAIN q : m <= n
    BY <1>11 DEF Greatest
  <2> HIDE DEF q
  <2>5. Linked(q)
    BY <1>3, <2>1 DEF IsSegment, Linked
  <2>6. Unbroken(q)
    <3> SUFFICES ASSUME NEW lo \in DOMAIN q, NEW hi \in DOMAIN q, NEW h \in lo .. hi
                 PROVE  h \in DOMAIN q
      BY DEF Unbroken
    <3>1. h \in DOMAIN f
      BY <1>3, <2>1 DEF IsSegment, Unbroken
    <3>2. h <= n
      BY <1>4, <2>3, <2>4
    <3> QED BY <2>2, <3>1, <3>2
  <2> QED BY <2>5, <2>6 DEF IsSegment
<1>13. PathInv(q)
  BY <1>8, <1>11, <1>12 DEF PathInv, Greatest
<1>14. Follows(q, v, a)
  BY <1>1, <1>7, <1>9, <1>10 DEF Follows
<1> HIDE DEF q, v
<1>15. n = Min(DOMAIN w) /\ q = Put(p, n, b) /\ v = Restrict(w, DOMAIN w \ {n})
  BY DEF n, q, v
<1> QED BY <1>2, <1>4, <1>13, <1>14, <1>15 DEF Advances

(* What cutting a chain returns.                                           *)
LEMMA BelowFacts ==
  ASSUME NEW f, NEW n
  PROVE  /\ DOMAIN Below(f, n) = {m \in DOMAIN f : m < n}
         /\ \A m \in DOMAIN Below(f, n) : Below(f, n)[m] = f[m]
BY DEF Below, Restrict

(* A path cut at a height is a path.                                       *)
LEMMA PathCut ==
  ASSUME NEW p, NEW n \in Nat, PathInv(p)
  PROVE  PathInv(Below(p, n))
<1> DEFINE q == Below(p, n)
<1>1. /\ DOMAIN q = {m \in DOMAIN p : m < n}
      /\ \A m \in DOMAIN q : q[m] = p[m]
  BY BelowFacts
<1>2. PartialChain(q) /\ IsSegment(q) /\ DOMAIN p \subseteq Nat
  BY BelowPartial, BelowIsSegment DEF PathInv, PartialChain
<1> HIDE DEF q
<1>3. ASSUME DOMAIN q # {} PROVE \E t \in DOMAIN q : Greatest(q, t)
  <2>1. DOMAIN q \subseteq Nat /\ \A x \in DOMAIN q : x <= n
    BY <1>1, <1>2
  <2>2. Max(DOMAIN q) \in DOMAIN q /\ \A x \in DOMAIN q : x <= Max(DOMAIN q)
    BY <1>3, <2>1, GreatestNumber
  <2> QED BY <2>2 DEF Greatest
<1> QED BY <1>2, <1>3 DEF PathInv, q

(* Back to anchor n, below the cursor.                                     *)
Returns(p, a, n) ==
  /\ PathInv(Below(p, n + 1)) /\ Led(Below(p, n + 1), Below(a, n + 1))
  /\ n \in DOMAIN Below(a, n + 1) /\ DOMAIN Below(a, n + 1) \subseteq DOMAIN a
  /\ n + 1 \in Nat

(* The adapter goes back to an anchor: the path below it is led by the     *)
(* anchors below it.                                                       *)
LEMMA LedBack ==
  ASSUME NEW p, NEW a, NEW n \in DOMAIN a, PathInv(p), Led(p, a)
  PROVE  Returns(p, a, n)
<1> DEFINE q == Below(p, n + 1)
           c == Below(a, n + 1)
<1>1. PICK t \in DOMAIN a : /\ Greatest(a, t)
                            /\ \A m \in DOMAIN a : m + RecentCap > t
                            /\ DOMAIN p = {} \/ Greatest(p, t)
  BY DEF Led
<1>2. /\ PartialChain(a) /\ DOMAIN a \subseteq Nat /\ n \in Nat /\ n + 1 \in Nat /\ t \in Nat
      /\ PartialChain(p) /\ DOMAIN p \subseteq Nat /\ IsSegment(p)
  BY DEF Led, PartialChain
<1>3. /\ DOMAIN q = {m \in DOMAIN p : m < n + 1} /\ \A m \in DOMAIN q : q[m] = p[m]
      /\ DOMAIN c = {m \in DOMAIN a : m < n + 1} /\ \A m \in DOMAIN c : c[m] = a[m]
  BY BelowFacts
<1>4. PathInv(q) /\ PartialChain(c)
  BY <1>2, PathCut, BelowPartial
<1> HIDE DEF q, c
<1>5. \A m \in DOMAIN c : Height[c[m]] = m /\ (m \in DOMAIN q => c[m] = q[m])
  BY <1>3 DEF Led
<1>6. n \in DOMAIN c /\ Greatest(c, n)
  BY <1>2, <1>3 DEF Greatest
<1>7. RecentCap \in Nat
  BY PipelineAssumption
<1>8. \A m \in DOMAIN c : m + RecentCap > n
  <2> TAKE m \in DOMAIN c
  <2>1. m \in Nat /\ m + RecentCap > t /\ n <= t
    BY <1>1, <1>2, <1>3 DEF Greatest
  <2> QED BY <1>2, <1>7, <2>1
<1>9. ASSUME DOMAIN q # {} PROVE Greatest(q, n)
  <2>1. PICK m \in DOMAIN q : TRUE
    BY <1>9
  <2>2. m \in DOMAIN p /\ m <= n /\ Greatest(p, t) /\ m \in Nat
    BY <1>1, <1>2, <1>3, <2>1
  <2>3. t \in DOMAIN p /\ n <= t
    BY <1>1, <2>2 DEF Greatest
  <2>4. n \in m .. t
    BY <1>2, <2>2, <2>3
  <2>5. n \in DOMAIN p
    BY <1>2, <2>2, <2>3, <2>4 DEF IsSegment, Unbroken
  <2> QED BY <1>2, <1>3, <2>5 DEF Greatest
<1>12. Adjoins(c, q)
  <2> SUFFICES ASSUME NEW m \in DOMAIN c, NEW k \in DOMAIN c \cup DOMAIN q, m < k
               PROVE  m + 1 \in DOMAIN q
    BY DEF Adjoins
  <2>1. k \in Nat /\ k < n + 1 /\ m \in Nat /\ m \in DOMAIN a
    BY <1>2, <1>3
  <2>2. m < n
    BY <1>2, <2>1
  <2>3. m + 1 \in DOMAIN p
    BY <2>1, <2>2 DEF Led, Adjoins
  <2> QED BY <1>2, <1>3, <2>1, <2>2, <2>3
<1>10. Led(q, c)
  BY <1>4, <1>5, <1>6, <1>8, <1>9, <1>12 DEF Led, PathInv
<1>11. DOMAIN c \subseteq DOMAIN a
  BY <1>3
<1> QED BY <1>2, <1>4, <1>6, <1>10, <1>11 DEF Returns, q, c

(* A hydration window from lo to the block b.                              *)
LEMMA LedByWindow ==
  ASSUME NEW b \in Blocks, NEW lo \in 0 .. Height[b], NEW w \in [lo .. Height[b] -> Blocks],
         IsSegment(w), w[Height[b]] = b, RecentCap >= Window + 1
  PROVE  LET a == Newest(IF lo = 0 THEN w ELSE Put(w, lo - 1, Parent[w[lo]]),
                         Window + 1, Height[b])
         IN  Follows(NoBlocks, w, a) /\ DOMAIN w # {} /\ DOMAIN a # {}
<1> DEFINE n == Height[b]
           v == IF lo = 0 THEN w ELSE Put(w, lo - 1, Parent[w[lo]])
           a == Newest(v, Window + 1, n)
<1>1. n \in Nat /\ lo \in Nat /\ lo <= n /\ Window \in Nat \ {0} /\ RecentCap \in Nat
  BY TreeAssumption, GalaxyAssumption, PipelineAssumption
<1>2. DOMAIN w = lo .. n /\ n \in DOMAIN w /\ lo \in DOMAIN w
  BY <1>1
<1>3. PartialChain(w)
  BY <1>1, <1>2 DEF PartialChain
<1>4. \A m \in DOMAIN w : Height[w[m]] = m
  BY DEF IsSegment, Linked
<1>5. Greatest(w, n)
  BY <1>1, <1>2 DEF Greatest
<1> HIDE DEF n
<1>6. /\ PartialChain(v) /\ n \in DOMAIN v
      /\ \A m \in DOMAIN v : /\ m \in Nat /\ m <= n
                             /\ Height[v[m]] = m
                             /\ m \in DOMAIN w => v[m] = w[m]
  <2>1. CASE lo = 0
    BY <1>1, <1>2, <1>3, <1>4, <1>5, <2>1 DEF Greatest, PartialChain
  <2>2. CASE lo # 0
    <3>1. v = Put(w, lo - 1, Parent[w[lo]]) /\ lo - 1 \in Nat /\ lo - 1 <= n
      BY <1>1, <2>2
    <3>2. w[lo] \in Blocks /\ Height[w[lo]] = lo
      BY <1>2, <1>4
    <3>3. Parent[w[lo]] \in Blocks /\ Height[Parent[w[lo]]] = lo - 1
      <4> DEFINE x == w[lo]
                 k == Height[Parent[x]]
      <4>1. x \in Blocks /\ Height[x] = lo /\ x # Genesis
        BY <2>2, <3>2, TreeAssumption
      <4> HIDE DEF x
      <4>2. Parent[x] \in Blocks /\ Height[x] = k + 1
        BY <4>1, TreeAssumption
      <4>3. k \in Nat
        BY <4>2, TreeAssumption
      <4> HIDE DEF k
      <4>4. k = lo - 1
        BY <1>1, <4>1, <4>2, <4>3
      <4> QED BY <4>2, <4>4 DEF x, k
    <3>4. PartialChain(v)
      BY <1>3, <3>1, <3>3, PutPartial
    <3>5. /\ DOMAIN v = DOMAIN w \cup {lo - 1}
          /\ \A m \in DOMAIN v : v[m] = IF m = lo - 1 THEN Parent[w[lo]] ELSE w[m]
      BY <3>1 DEF Put
    <3> HIDE DEF v
    <3>6. \A m \in DOMAIN w : m # lo - 1
      BY <1>1, <1>2
    <3>7. \A m \in DOMAIN v : m \in Nat /\ m <= n
      BY <1>1, <1>2, <3>1, <3>5
    <3> QED BY <1>2, <1>4, <3>3, <3>4, <3>5, <3>6, <3>7
  <2> QED BY <2>1, <2>2
<1>16. \A m \in DOMAIN v : lo <= m + 1
  <2> TAKE m \in DOMAIN v
  <2>1. m \in lo .. n \/ m = lo - 1
    BY <1>2 DEF Put
  <2> QED BY <1>1, <2>1
<1> HIDE DEF v
<1>7. /\ DOMAIN a = {m \in DOMAIN v : m + (Window + 1) > n}
      /\ \A m \in DOMAIN a : a[m] = v[m]
  BY DEF Newest, Restrict
<1>8. PartialChain(a)
  <2>1. n \in Int /\ Window + 1 \in Int
    BY <1>1
  <2> QED BY <1>6, <2>1, NewestPartial
<1> HIDE DEF a
<1>9. n \in DOMAIN a /\ Greatest(a, n)
  BY <1>1, <1>6, <1>7 DEF Greatest
<1>10. \A m \in DOMAIN a : Height[a[m]] = m /\ (m \in DOMAIN w => a[m] = w[m])
  BY <1>6, <1>7
<1>11. \A m \in DOMAIN a : m + RecentCap > n
  BY <1>1, <1>6, <1>7
<1>15. Adjoins(a, w)
  <2> SUFFICES ASSUME NEW m \in DOMAIN a, NEW k \in DOMAIN a \cup DOMAIN w, m < k
               PROVE  m + 1 \in DOMAIN w
    BY DEF Adjoins
  <2>1. k <= n /\ k \in Nat
    BY <1>1, <1>2, <1>6, <1>7
  <2>2. m \in Nat /\ lo <= m + 1
    BY <1>1, <1>6, <1>7, <1>16
  <2> QED BY <1>1, <1>2, <2>1, <2>2
<1>12. Led(w, a)
  BY <1>3, <1>5, <1>8, <1>9, <1>10, <1>11, <1>15 DEF Led
<1>13. Over(w, NoBlocks) = w /\ DOMAIN NoBlocks = {}
  BY <1>3, OverNothing, NoBlocksFacts
<1>14. Follows(NoBlocks, w, a)
  BY <1>3, <1>12, <1>13 DEF Follows
<1> QED BY <1>2, <1>9, <1>14 DEF n, v, a

-----------------------------------------------------------------------------
(* The chain entity.                                                       *)

(* The entity remembers the newest blocks of the path.                     *)
EntityInv(e, p) ==
  /\ PartialChain(e.recent)
  /\ \A n \in DOMAIN e.recent : n \in DOMAIN p /\ e.recent[n] = p[n]
  /\ \A t \in DOMAIN p : Greatest(p, t) =>
       t \in DOMAIN e.recent /\ \A n \in DOMAIN e.recent : n + RecentCap > t

(* The entity remembers whatever the adapter may go back to.               *)
Anchored(a, p, e) == DOMAIN a \cap DOMAIN p \subseteq DOMAIN e.recent

(* A restart hands the entity's ring to the adapter.                       *)
LEMMA LedByEntity ==
  ASSUME NEW e, NEW p, PathInv(p), EntityInv(e, p), DOMAIN e.recent # {}
  PROVE  Led(p, e.recent) /\ Anchored(e.recent, p, e)
<1>1. PICK t \in DOMAIN p : Greatest(p, t)
  <2>1. DOMAIN p # {}
    BY DEF EntityInv
  <2> QED BY <2>1 DEF PathInv
<1>2. /\ t \in DOMAIN e.recent /\ Greatest(e.recent, t)
      /\ \A n \in DOMAIN e.recent : n + RecentCap > t
  BY <1>1 DEF EntityInv, Greatest
<1>3. \A n \in DOMAIN e.recent : Height[e.recent[n]] = n
  BY DEF EntityInv, PathInv, IsSegment, Linked
<1>5. Adjoins(e.recent, p)
  <2> SUFFICES ASSUME NEW m \in DOMAIN e.recent, NEW k \in DOMAIN e.recent \cup DOMAIN p, m < k
               PROVE  m + 1 \in DOMAIN p
    BY DEF Adjoins
  <2>1. m \in DOMAIN p /\ k \in DOMAIN p /\ m \in Nat /\ k \in Nat
    BY DEF EntityInv, PathInv, PartialChain
  <2>2. m + 1 \in m .. k
    BY <2>1
  <2> QED BY <2>1, <2>2 DEF PathInv, IsSegment, Unbroken
<1>4. Led(p, e.recent)
  BY <1>1, <1>2, <1>3, <1>5 DEF Led, EntityInv, PathInv
<1> QED BY <1>4 DEF Anchored

(* An entity that remembers no block has followed none.                    *)
LEMMA RecentOfNothing ==
  ASSUME NEW e, NEW p, PathInv(p), EntityInv(e, p), DOMAIN e.recent = {}
  PROVE  DOMAIN p = {}
BY DEF PathInv, EntityInv

(* A single anchor below the first block.                                  *)
LEMMA LedByOne ==
  ASSUME NEW p, PartialChain(p), DOMAIN p = {}, NEW b \in Blocks, NEW n, n = Height[b]
  PROVE  Led(p, Put(NoBlocks, n, b)) /\ DOMAIN Put(NoBlocks, n, b) = {n}
<1> DEFINE a == Put(NoBlocks, n, b)
<1>1. DOMAIN a = {n} /\ a[n] = b /\ n \in Nat
  BY NoBlocksFacts, TreeAssumption DEF Put
<1>2. PartialChain(a)
  BY <1>1, NoBlocksFacts, PutPartial
<1>3. p = NoBlocks
  BY NoBlocksEmpty
<1>4. RecentCap \in Nat \ {0}
  BY PipelineAssumption
<1> HIDE DEF a
<1>5. Greatest(a, n) /\ \A m \in DOMAIN a : m + RecentCap > n
  BY <1>1, <1>4 DEF Greatest
<1>7. Adjoins(a, p)
  BY <1>1 DEF Adjoins
<1>6. Led(p, a)
  BY <1>1, <1>2, <1>3, <1>5, <1>7, NoBlocksFacts DEF Led
<1> QED BY <1>1, <1>6 DEF a

(* Without anchors nothing is followed.                                    *)
LEMMA LedByNothing == Led(NoBlocks, NoBlocks)
BY NoBlocksFacts DEF Led, Adjoins

(* What the reducer makes of the entity and of the path.                   *)
Entered(e, p, m, e1, p1) == e1 = ApplyEntity(e, m) /\ p1 = Followed(p, m)

(* The block b on top of p.                                                *)
Connects(e, p, a, b, e1, p1) ==
  /\ p1 = Put(p, Height[b], b) /\ EntityInv(e1, p1) /\ Anchored(a, p1, e1)
  /\ DOMAIN e1.recent \subseteq DOMAIN e.recent \cup {Height[b]}

(* The chain entity on BlockMined: it remembers the new block and keeps    *)
(* every block that an anchor names.                                       *)
LEMMA EntityMined ==
  ASSUME NEW e, NEW p, NEW e1, NEW p1, NEW w, NEW a, NEW b \in Blocks,
         Entered(e, p, BlockMined(b), e1, p1), PathInv(p), EntityInv(e, p),
         \A m \in DOMAIN p : m < Height[b],
         Follows(Put(p, Height[b], b), w, a), Anchored(a, p, e)
  PROVE  Connects(e, p, a, b, e1, p1)
<1> DEFINE n == Height[b]
           m == BlockMined(b)
<1>1. m.type = "mined" /\ m.block = b
  BY DEF BlockMined
<1>2. n \in Nat /\ RecentCap \in Nat \ {0}
  BY TreeAssumption, PipelineAssumption
<1>3. /\ PartialChain(p) /\ DOMAIN p \subseteq Nat
      /\ PartialChain(e.recent) /\ DOMAIN e.recent \subseteq Nat
      /\ DOMAIN e.recent \subseteq DOMAIN p
  BY DEF PathInv, EntityInv, PartialChain
<1>4. n \notin DOMAIN p
  BY <1>2, <1>3
<1>5. /\ p1 = Put(p, n, b)
      /\ e1.recent = Newest(Put(Below(e.recent, n), n, b), RecentCap, n)
  BY <1>1, <1>3, <1>4 DEF Entered, ApplyEntity, Followed
<1>6. DOMAIN p1 = DOMAIN p \cup {n} /\ p1[n] = b /\ \A k \in DOMAIN p : p1[k] = p[k]
  BY <1>4, <1>5 DEF Put
<1>7. /\ DOMAIN e1.recent = {k \in DOMAIN e.recent \cup {n} : k + RecentCap > n}
      /\ \A k \in DOMAIN e1.recent : e1.recent[k] = IF k = n THEN b ELSE e.recent[k]
  <2> DEFINE f == Below(e.recent, n)
             h == Put(f, n, b)
  <2>1. DOMAIN f = DOMAIN e.recent /\ \A k \in DOMAIN f : f[k] = e.recent[k]
    <3>1. \A k \in DOMAIN e.recent : k < n
      BY <1>3
    <3>2. DOMAIN f = {k \in DOMAIN e.recent : k < n} /\ \A k \in DOMAIN f : f[k] = e.recent[k]
      BY BelowFacts
    <3> HIDE DEF f
    <3> QED BY <3>1, <3>2
  <2> HIDE DEF f
  <2>2. DOMAIN h = DOMAIN e.recent \cup {n}
        /\ \A k \in DOMAIN h : h[k] = IF k = n THEN b ELSE e.recent[k]
    BY <2>1 DEF Put
  <2>3. e1.recent = Newest(h, RecentCap, n)
    BY <1>5 DEF f
  <2> HIDE DEF h
  <2> QED BY <2>2, <2>3 DEF Newest, Restrict
<1>8. PartialChain(e1.recent)
  <2>1. PartialChain(Below(e.recent, n))
    BY <1>2, <1>3, BelowPartial
  <2>2. PartialChain(Put(Below(e.recent, n), n, b))
    BY <1>2, <2>1, PutPartial
  <2> QED BY <1>2, <1>5, <2>2, NewestPartial
<1>9. \A k \in DOMAIN e1.recent : k \in DOMAIN p1 /\ e1.recent[k] = p1[k]
  <2> TAKE k \in DOMAIN e1.recent
  <2>1. CASE k = n
    BY <1>6, <1>7, <2>1
  <2>2. CASE k # n
    <3>1. k \in DOMAIN e.recent /\ e1.recent[k] = e.recent[k]
      BY <1>7, <2>2
    <3> QED BY <1>3, <1>6, <3>1 DEF EntityInv
  <2> QED BY <2>1, <2>2
<1>10. n \in DOMAIN e1.recent /\ \A k \in DOMAIN e1.recent : k + RecentCap > n
  BY <1>2, <1>7
<1>11. ASSUME NEW t \in DOMAIN p1, Greatest(p1, t) PROVE t = n
  <2>1. n <= t /\ t \in Nat
    BY <1>2, <1>3, <1>6, <1>11 DEF Greatest
  <2>2. t \in DOMAIN p => t < n
    OBVIOUS
  <2> QED BY <1>2, <1>6, <1>11, <2>1, <2>2
<1>12. EntityInv(e1, p1)
  BY <1>8, <1>9, <1>10, <1>11 DEF EntityInv
<1>13. \A k \in DOMAIN a : k + RecentCap > n
  <2> DEFINE f == Over(w, p1)
  <2>1. Led(f, a)
    BY <1>5 DEF Follows
  <2>2. n \in DOMAIN f
    <3>1. DOMAIN f = DOMAIN w \cup DOMAIN p1
      BY OverFacts
    <3> QED BY <1>6, <3>1
  <2> HIDE DEF f
  <2>3. PICK t \in DOMAIN a : (\A k \in DOMAIN a : k + RecentCap > t) /\ Greatest(f, t)
    BY <2>1, <2>2 DEF Led
  <2>4. n <= t
    BY <2>2, <2>3 DEF Greatest
  <2>5. DOMAIN a \subseteq Nat
    BY <2>1 DEF Led, PartialChain
  <2> TAKE k \in DOMAIN a
  <2>6. k \in Nat /\ t \in Nat /\ k + RecentCap > t
    BY <2>3, <2>5
  <2> QED BY <1>2, <2>4, <2>6
<1>14. Anchored(a, p1, e1)
  BY <1>6, <1>7, <1>13 DEF Anchored
<1> QED BY <1>5, <1>7, <1>12, <1>14 DEF Connects

(* The chain entity on ChainReorganized: it forgets the orphaned blocks    *)
(* and keeps those below the fork.                                         *)
LEMMA EntityReorg ==
  ASSUME NEW e, NEW p, NEW e1, NEW p1, NEW a, NEW n \in Nat,
         Entered(e, p, ChainReorganized(n), e1, p1), PathInv(p), EntityInv(e, p),
         Led(Below(p, n), a), Anchored(a, p, e)
  PROVE  /\ p1 = Below(p, n) /\ EntityInv(e1, p1) /\ Anchored(a, p1, e1)
         /\ DOMAIN e1.recent \subseteq DOMAIN e.recent
<1> DEFINE m == ChainReorganized(n)
<1>1. m.type = "reorganized" /\ m.from = n
  BY DEF ChainReorganized
<1>2. p1 = Below(p, n) /\ e1.recent = Below(e.recent, n)
  BY <1>1 DEF Entered, ApplyEntity, Followed
<1>3. /\ DOMAIN p1 = {k \in DOMAIN p : k < n} /\ \A k \in DOMAIN p1 : p1[k] = p[k]
      /\ DOMAIN e1.recent = {k \in DOMAIN e.recent : k < n}
      /\ \A k \in DOMAIN e1.recent : e1.recent[k] = e.recent[k]
  <2>1. DOMAIN p1 = {k \in DOMAIN p : k < n} /\ \A k \in DOMAIN p1 : p1[k] = p[k]
    BY <1>2, BelowFacts
  <2> DEFINE r == e1.recent
  <2>2. DOMAIN r = {k \in DOMAIN e.recent : k < n} /\ \A k \in DOMAIN r : r[k] = e.recent[k]
    <3>1. r = Below(e.recent, n)
      BY <1>2
    <3> HIDE DEF r
    <3> QED BY <3>1, BelowFacts
  <2> QED BY <2>1, <2>2
<1>4. PartialChain(e1.recent) /\ DOMAIN e.recent \subseteq Nat /\ DOMAIN p \subseteq Nat
  BY <1>2, BelowPartial DEF EntityInv, PathInv, PartialChain
<1>5. \A k \in DOMAIN e1.recent : k \in DOMAIN p1 /\ e1.recent[k] = p1[k]
  BY <1>3 DEF EntityInv
<1>6. ASSUME NEW t \in DOMAIN p1, Greatest(p1, t)
      PROVE  t \in DOMAIN e1.recent /\ \A k \in DOMAIN e1.recent : k + RecentCap > t
  <2>1. PICK u \in DOMAIN a : Greatest(p1, u)
    BY <1>2 DEF Led
  <2>2. u = t
    BY <1>3, <1>4, <1>6, <2>1 DEF Greatest
  <2>3. t \in DOMAIN e.recent
    BY <1>3, <2>1, <2>2 DEF Anchored
  <2>4. PICK s \in DOMAIN p : Greatest(p, s)
    BY <1>3 DEF PathInv
  <2>5. t <= s /\ \A k \in DOMAIN e.recent : k + RecentCap > s
    BY <1>3, <2>4 DEF Greatest, EntityInv
  <2>6. RecentCap \in Nat
    BY PipelineAssumption
  <2>7. \A k \in DOMAIN e1.recent : k + RecentCap > t
    <3> TAKE k \in DOMAIN e1.recent
    <3>1. k \in Nat /\ s \in Nat /\ t \in Nat /\ k + RecentCap > s
      BY <1>3, <1>4, <2>4, <2>5
    <3> QED BY <2>5, <2>6, <3>1
  <2> QED BY <1>3, <2>3, <2>7
<1>7. EntityInv(e1, p1)
  BY <1>4, <1>5, <1>6 DEF EntityInv
<1>8. Anchored(a, p1, e1)
  BY <1>3 DEF Anchored
<1> QED BY <1>2, <1>3, <1>7, <1>8

(* The chain entity on ChainRebuild: it has followed nothing.              *)
LEMMA EntityRebuilt ==
  ASSUME NEW e, NEW p, NEW e1, NEW p1, NEW n,
         Entered(e, p, ChainRebuild(n), e1, p1)
  PROVE  p1 = NoBlocks /\ EntityInv(e1, p1) /\ PathInv(p1) /\ \A a : Anchored(a, p1, e1)
<1> DEFINE m == ChainRebuild(n)
<1>1. m.type = "rebuild"
  BY DEF ChainRebuild
<1>2. p1 = NoBlocks /\ e1.recent = NoBlocks
  BY <1>1 DEF Entered, ApplyEntity, Followed
<1> QED BY <1>2, NoBlocksFacts DEF EntityInv, PathInv, Anchored

(* A chain entity that starts empty has followed nothing.                  *)
LEMMA EntityNothing ==
  EntityInv(NoEntity, NoBlocks) /\ PathInv(NoBlocks) /\ \A a : Anchored(a, NoBlocks, NoEntity)
BY NoBlocksFacts DEF EntityInv, PathInv, Anchored, NoEntity

(* A mutation that is not about blocks.                                    *)
LEMMA EntityStays ==
  ASSUME NEW e, NEW p, NEW e1, NEW p1, NEW m, Entered(e, p, m, e1, p1),
         m.type \in {"tx", "hydrated", "progress"}
  PROVE  e1 = e /\ p1 = p
BY DEF Entered, ApplyEntity, Followed

-----------------------------------------------------------------------------
(* The transactions of a path, with the heights they are at.               *)
Txs(p) ==
  {x \in (DOMAIN p) \X (DOMAIN Inputs) :
     \E j \in DOMAIN BlockTxs[p[x[1]]] : x[2] = BlockTxs[p[x[1]]][j]}

(* Of the block at height n only the first k.                              *)
Sent(p, n, k) ==
  {x \in (DOMAIN p) \X (DOMAIN Inputs) :
     \E j \in DOMAIN BlockTxs[p[x[1]]] : x[2] = BlockTxs[p[x[1]]][j] /\ (x[1] = n => j <= k)}

(* The transactions of a block are a list of known transactions.           *)
LEMMA TxsOfBlock ==
  ASSUME NEW b \in Blocks
  PROVE  /\ Len(BlockTxs[b]) \in Nat /\ DOMAIN BlockTxs[b] = 1 .. Len(BlockTxs[b])
         /\ \A j \in DOMAIN BlockTxs[b] : BlockTxs[b][j] \in DOMAIN Inputs
<1>1. BlockTxs[b] \in Seq(DOMAIN Inputs)
  BY GalaxyAssumption
<1> QED BY <1>1

(* A block announced without transactions adds none to the history.        *)
LEMMA SentNone ==
  ASSUME NEW p, NEW b \in Blocks, PartialChain(p), \A m \in DOMAIN p : m < Height[b]
  PROVE  Sent(Put(p, Height[b], b), Height[b], 0) = Txs(p)
<1> DEFINE n == Height[b]
           q == Put(p, n, b)
<1>1. n \in Nat /\ DOMAIN p \subseteq Nat /\ n \notin DOMAIN p
  BY TreeAssumption DEF PartialChain
<1>2. DOMAIN q = DOMAIN p \cup {n} /\ q[n] = b /\ \A m \in DOMAIN p : q[m] = p[m]
  BY <1>1 DEF Put
<1>3. \A j \in DOMAIN BlockTxs[b] : ~ (j <= 0)
  BY TxsOfBlock
<1> HIDE DEF q, n
<1>4. ASSUME NEW x \in Sent(q, n, 0) PROVE x \in Txs(p)
  <2>1. PICK j \in DOMAIN BlockTxs[q[x[1]]] : x[2] = BlockTxs[q[x[1]]][j] /\ (x[1] = n => j <= 0)
    BY <1>4 DEF Sent
  <2>2. x[1] # n
    BY <1>2, <1>3, <2>1
  <2>3. x[1] \in DOMAIN p /\ x \in (DOMAIN p) \X (DOMAIN Inputs)
    BY <1>2, <1>4, <2>2 DEF Sent
  <2> QED BY <1>2, <2>1, <2>3 DEF Txs
<1>5. ASSUME NEW x \in Txs(p) PROVE x \in Sent(q, n, 0)
  <2>1. PICK j \in DOMAIN BlockTxs[p[x[1]]] : x[2] = BlockTxs[p[x[1]]][j]
    BY <1>5 DEF Txs
  <2>2. x[1] \in DOMAIN p /\ x \in (DOMAIN q) \X (DOMAIN Inputs)
    BY <1>2, <1>5 DEF Txs
  <2> QED BY <1>1, <1>2, <2>1, <2>2 DEF Sent
<1> QED BY <1>4, <1>5 DEF q, n

(* The next transaction of a block joins those already sent.               *)
LEMMA SentNext ==
  ASSUME NEW p, NEW n \in DOMAIN p, PartialChain(p), NEW k \in 0 .. Len(BlockTxs[p[n]]) - 1
  PROVE  /\ Sent(p, n, k + 1) = Sent(p, n, k) \cup {<<n, BlockTxs[p[n]][k + 1]>>}
         /\ k + 1 \in DOMAIN BlockTxs[p[n]] /\ BlockTxs[p[n]][k + 1] \in DOMAIN Inputs
<1> DEFINE tx == BlockTxs[p[n]][k + 1]
<1>1. p[n] \in Blocks
  BY DEF PartialChain
<1>2. /\ Len(BlockTxs[p[n]]) \in Nat /\ DOMAIN BlockTxs[p[n]] = 1 .. Len(BlockTxs[p[n]])
      /\ \A j \in DOMAIN BlockTxs[p[n]] : BlockTxs[p[n]][j] \in DOMAIN Inputs
  BY <1>1, TxsOfBlock
<1>3. k \in Nat /\ k + 1 \in DOMAIN BlockTxs[p[n]] /\ tx \in DOMAIN Inputs
  BY <1>2
<1>4. ASSUME NEW x \in Sent(p, n, k + 1) PROVE x \in Sent(p, n, k) \cup {<<n, tx>>}
  <2>1. PICK j \in DOMAIN BlockTxs[p[x[1]]] : x[2] = BlockTxs[p[x[1]]][j] /\ (x[1] = n => j <= k + 1)
    BY <1>4 DEF Sent
  <2>2. x \in (DOMAIN p) \X (DOMAIN Inputs) /\ x = <<x[1], x[2]>>
    BY <1>4 DEF Sent
  <2>3. CASE x[1] = n /\ j = k + 1
    BY <2>1, <2>2, <2>3
  <2>4. CASE ~ (x[1] = n /\ j = k + 1)
    <3>1. x[1] = n => j <= k
      BY <1>2, <1>3, <2>1, <2>4
    <3> QED BY <2>1, <2>2, <3>1 DEF Sent
  <2> QED BY <2>3, <2>4
<1>5. ASSUME NEW x \in Sent(p, n, k) PROVE x \in Sent(p, n, k + 1)
  <2>1. PICK j \in DOMAIN BlockTxs[p[x[1]]] : x[2] = BlockTxs[p[x[1]]][j] /\ (x[1] = n => j <= k)
    BY <1>5 DEF Sent
  <2>2. x[1] = n => j <= k + 1
    BY <1>2, <1>3, <2>1
  <2> QED BY <1>5, <2>1, <2>2 DEF Sent
<1>6. <<n, tx>> \in Sent(p, n, k + 1)
  <2> DEFINE x == <<n, tx>>
  <2>1. x[1] = n /\ x[2] = tx /\ x \in (DOMAIN p) \X (DOMAIN Inputs)
    BY <1>3
  <2> HIDE DEF x
  <2>2. \E j \in DOMAIN BlockTxs[p[x[1]]] : x[2] = BlockTxs[p[x[1]]][j] /\ (x[1] = n => j <= k + 1)
    BY <1>3, <2>1
  <2>3. x \in Sent(p, n, k + 1)
    BY <2>1, <2>2 DEF Sent
  <2> QED BY <2>3 DEF x
<1> QED BY <1>3, <1>4, <1>5, <1>6

(* A block with all its transactions sent is wholly in the history.        *)
LEMMA SentAll ==
  ASSUME NEW p, NEW n \in DOMAIN p, PartialChain(p)
  PROVE  Sent(p, n, Len(BlockTxs[p[n]])) = Txs(p)
<1>1. p[n] \in Blocks
  BY DEF PartialChain
<1>2. /\ Len(BlockTxs[p[n]]) \in Nat /\ DOMAIN BlockTxs[p[n]] = 1 .. Len(BlockTxs[p[n]])
  BY <1>1, TxsOfBlock
<1>3. \A j \in DOMAIN BlockTxs[p[n]] : j <= Len(BlockTxs[p[n]])
  BY <1>2
<1> QED BY <1>3 DEF Sent, Txs

(* The transactions below a height are those of the path below it.         *)
LEMMA TxsCut ==
  ASSUME NEW p, NEW n
  PROVE  Earlier(Txs(p), n) = Txs(Below(p, n))
<1> DEFINE q == Below(p, n)
<1>1. DOMAIN q = {m \in DOMAIN p : m < n} /\ \A m \in DOMAIN q : q[m] = p[m]
  BY BelowFacts
<1> HIDE DEF q
<1>2. ASSUME NEW x \in Earlier(Txs(p), n) PROVE x \in Txs(q)
  <2>1. x \in (DOMAIN p) \X (DOMAIN Inputs) /\ x[1] < n
    BY <1>2 DEF Earlier, Txs
  <2>2. x[1] \in DOMAIN q /\ x \in (DOMAIN q) \X (DOMAIN Inputs)
    BY <1>1, <2>1
  <2> QED BY <1>1, <1>2, <2>2 DEF Earlier, Txs
<1>3. ASSUME NEW x \in Txs(q) PROVE x \in Earlier(Txs(p), n)
  <2>1. x \in (DOMAIN q) \X (DOMAIN Inputs)
    BY <1>3 DEF Txs
  <2>2. x[1] \in DOMAIN q /\ x[1] < n /\ x \in (DOMAIN p) \X (DOMAIN Inputs)
    BY <1>1, <2>1
  <2> QED BY <1>1, <1>3, <2>2 DEF Earlier, Txs
<1> QED BY <1>2, <1>3 DEF q

(* An empty path has no transactions.                                      *)
LEMMA NoTxs ==
  ASSUME NEW p, DOMAIN p = {}
  PROVE  Txs(p) = {}
BY DEF Txs

-----------------------------------------------------------------------------
(* Consensus.                                                              *)

(* A path followed to its top is a branch of the block tree.               *)
LEMMA PathIsBranch ==
  ASSUME NEW p, NEW t \in DOMAIN p, PartialChain(p), IsSegment(p), Greatest(p, t)
  PROVE  p \in Branches
<1> DEFINE lo == Min(DOMAIN p)
<1>1. DOMAIN p \subseteq Nat /\ p \in [DOMAIN p -> Blocks]
  BY DEF PartialChain
<1>2. lo \in DOMAIN p /\ \A m \in DOMAIN p : lo <= m
  BY <1>1, LeastOf
<1> HIDE DEF lo
<1>3. DOMAIN p = lo .. t
  <2>1. \A m \in DOMAIN p : m \in lo .. t
    BY <1>1, <1>2 DEF Greatest
  <2>2. \A m \in lo .. t : m \in DOMAIN p
    BY <1>2 DEF IsSegment, Unbroken
  <2> QED BY <2>1, <2>2
<1>4. \A m \in DOMAIN p : m \in Range(Height)
  <2> TAKE m \in DOMAIN p
  <2>1. p[m] \in Blocks /\ Height[p[m]] = m
    BY <1>1 DEF IsSegment, Linked
  <2>2. p[m] \in DOMAIN Height
    BY <2>1, TreeAssumption
  <2> QED BY <2>1, <2>2 DEF Range
<1>5. p \in [lo .. t -> Blocks] /\ lo \in Range(Height) /\ t \in Range(Height)
  BY <1>1, <1>2, <1>3, <1>4
<1> DEFINE W(l, h) == [l .. h -> Blocks]
           S == Range(Height)
<1>6. Branches = {q \in UNION {W(l, h) : l, h \in S} : IsSegment(q)}
  BY DEF Branches
<1>7. p \in W(lo, t) /\ lo \in S /\ t \in S
  BY <1>5
<1> HIDE DEF W, S
<1>8. W(lo, t) \in {W(l, h) : l, h \in S}
  BY <1>7
<1> QED BY <1>6, <1>7, <1>8

(* t, the i-th transaction at height a, and u, the j-th at height c.       *)
Apart(t, u, a, i, c, j) ==
  /\ t = u \/ Range(Inputs[t]) \cap Range(Inputs[u]) # {} => a = c /\ i = j
  /\ Range(Outputs[t]) \cap Range(Inputs[u]) # {} => a < c \/ (a = c /\ i < j)

(* By consensus the next transaction of a block may follow those sent      *)
(* before it.                                                              *)
LEMMA SentFresh ==
  ASSUME NEW p, NEW n \in DOMAIN p, PathInv(p), Greatest(p, n),
         NEW k \in 0 .. Len(BlockTxs[p[n]]) - 1
  PROVE  /\ Fresh(Sent(p, n, k), BlockTxs[p[n]][k + 1])
         /\ IsInjective(Outputs[BlockTxs[p[n]][k + 1]])
<1> DEFINE tx == BlockTxs[p[n]][k + 1]
<1>1. PartialChain(p) /\ IsSegment(p)
  BY DEF PathInv
<1>2. k + 1 \in DOMAIN BlockTxs[p[n]] /\ tx \in DOMAIN Inputs
  BY <1>1, SentNext
<1>3. p \in Branches
  BY <1>1, PathIsBranch
<1>4. ASSUME NEW a \in DOMAIN p, NEW c \in DOMAIN p, NEW i \in DOMAIN BlockTxs[p[a]],
             NEW j \in DOMAIN BlockTxs[p[c]]
      PROVE  Apart(BlockTxs[p[a]][i], BlockTxs[p[c]][j], a, i, c, j)
  BY <1>3, ConsensusAssumption DEF Apart
<1>5. /\ IsInjective(Outputs[tx])
      /\ \A u \in DOMAIN Inputs : Range(Outputs[tx]) \cap Range(Outputs[u]) # {} => tx = u
  BY <1>2, ConsensusAssumption
<1>6. n \in Nat /\ k \in Nat
  BY <1>1 DEF PartialChain
<1>9. \A c \in DOMAIN p : \A j \in DOMAIN BlockTxs[p[c]] :
        Apart(tx, BlockTxs[p[c]][j], n, k + 1, c, j)
  BY <1>2, <1>4
<1>10. Apart(tx, tx, n, k + 1, n, k + 1)
  BY <1>2, <1>9
<1> HIDE DEF tx
<1>7. Range(Outputs[tx]) \cap Range(Inputs[tx]) = {}
  BY <1>6, <1>10 DEF Apart
<1>8. ASSUME NEW x \in Sent(p, n, k)
      PROVE  /\ Range(Outputs[tx]) \cap Range(Outputs[x[2]]) = {}
             /\ Range(Outputs[tx]) \cap Range(Inputs[x[2]]) = {}
             /\ Range(Inputs[tx]) \cap Range(Inputs[x[2]]) = {}
  <2>1. /\ x[1] \in DOMAIN p /\ x[2] \in DOMAIN Inputs
        /\ \E j \in DOMAIN BlockTxs[p[x[1]]] : x[2] = BlockTxs[p[x[1]]][j] /\ (x[1] = n => j <= k)
    BY <1>8 DEF Sent
  <2>2. PICK j \in DOMAIN BlockTxs[p[x[1]]] : x[2] = BlockTxs[p[x[1]]][j] /\ (x[1] = n => j <= k)
    BY <2>1
  <2>3. x[1] \in Nat /\ x[1] <= n /\ j \in Nat
    <3>1. p[x[1]] \in Blocks /\ x[1] \in Nat
      BY <1>1, <2>1 DEF PartialChain
    <3>2. j \in Nat
      BY <3>1, TxsOfBlock
    <3> QED BY <2>1, <3>1, <3>2 DEF Greatest
  <2>4. ~ (n = x[1] /\ k + 1 = j) /\ ~ (n < x[1] \/ (n = x[1] /\ k + 1 < j))
    BY <1>6, <2>2, <2>3
  <2>5. Apart(tx, x[2], n, k + 1, x[1], j)
    BY <1>9, <2>1, <2>2
  <2> QED BY <1>5, <2>1, <2>4, <2>5 DEF Apart
<1> QED BY <1>5, <1>7, <1>8 DEF Fresh, tx

-----------------------------------------------------------------------------
(* The channel.                                                            *)

(* The transactions of b after the first k.                                *)
Left(b, k) == [i \in 1 .. Len(BlockTxs[b]) - k |-> TxLanded(BlockTxs[b][k + i], b)]

(* What may follow the last block of a range.                              *)
Tails == {<<>>, <<ReplayCloses(TRUE)>>, <<HydrationCompleted, ReplayCloses(TRUE)>>}

(* The channel q holds m, and q1 behind it.                                *)
Holds(q, m, q1) == q # <<>> /\ Head(q) = m /\ Tail(q) = q1

(* A message at the head of a list is at the head of any longer one.       *)
LEMMA HeldThenTail ==
  ASSUME NEW M, NEW s \in Seq(M), NEW t \in Seq(M), NEW m, NEW s1, Holds(s, m, s1)
  PROVE  Holds(s \o t, m, s1 \o t)
<1>1. Len(s) \in Nat \ {0} /\ Len(t) \in Nat /\ s1 = Tail(s) /\ m = s[1]
  BY DEF Holds
<1>2. s \o t \in Seq(M) /\ Len(s \o t) = Len(s) + Len(t)
  OBVIOUS
<1>3. s \o t # <<>> /\ Head(s \o t) = m
  BY <1>1, <1>2
<1>4. Tail(s \o t) = s1 \o t
  BY <1>1, <1>2
<1> QED BY <1>3, <1>4 DEF Holds

(* What the channel may hold of a block and behind it.                     *)
Sendable(b) ==
  {TxLanded(tx, b) : tx \in DOMAIN Inputs}
    \cup {BlockMined(b), HydrationCompleted, ReplayCloses(TRUE)}

(* The transactions of a block that are still to be sent are messages.     *)
LEMMA LeftIs ==
  ASSUME NEW b \in Blocks, NEW k \in 0 .. Len(BlockTxs[b])
  PROVE  Left(b, k) \in Seq(Sendable(b)) /\ Len(Left(b, k)) = Len(BlockTxs[b]) - k
<1>1. /\ Len(BlockTxs[b]) \in Nat /\ DOMAIN BlockTxs[b] = 1 .. Len(BlockTxs[b])
      /\ \A j \in DOMAIN BlockTxs[b] : BlockTxs[b][j] \in DOMAIN Inputs
  BY TxsOfBlock
<1> DEFINE n == Len(BlockTxs[b]) - k
<1>2. n \in Nat
  BY <1>1
<1>3. \A i \in 1 .. n : TxLanded(BlockTxs[b][k + i], b) \in Sendable(b)
  <2> TAKE i \in 1 .. n
  <2>1. k + i \in DOMAIN BlockTxs[b]
    BY <1>1
  <2>2. BlockTxs[b][k + i] \in DOMAIN Inputs
    BY <1>1, <2>1
  <2> QED BY <2>2 DEF Sendable
<1>4. Left(b, k) \in [1 .. n -> Sendable(b)]
  BY <1>3 DEF Left
<1> HIDE DEF n
<1>5. Left(b, k) \in Seq(Sendable(b)) /\ Len(Left(b, k)) = n
  BY <1>2, <1>4
<1> QED BY <1>5 DEF n

(* What follows the last block of a range are messages.                    *)
LEMMA TailsAre ==
  ASSUME NEW b, NEW t \in Tails
  PROVE  t \in Seq(Sendable(b))
<1> DEFINE c == ReplayCloses(TRUE)
           h == HydrationCompleted
           S == Sendable(b)
<1>1. c \in S /\ h \in S /\ (t = <<>> \/ t = <<c>> \/ t = <<h, c>>)
  BY DEF Tails, Sendable
<1> HIDE DEF c, h, S
<1>2. <<>> \in Seq(S) /\ <<c>> \in Seq(S) /\ <<h, c>> \in Seq(S)
  BY <1>1
<1> QED BY <1>1, <1>2 DEF S

(* The next transaction of a block is the head of those still to be sent.  *)
LEMMA NextTx ==
  ASSUME NEW b \in Blocks, NEW k \in 0 .. Len(BlockTxs[b]) - 1, NEW t \in Tails
  PROVE  Holds(Left(b, k) \o t, TxLanded(BlockTxs[b][k + 1], b), Left(b, k + 1) \o t)
<1>1. Len(BlockTxs[b]) \in Nat
  BY TxsOfBlock
<1>2. k \in 0 .. Len(BlockTxs[b]) /\ k + 1 \in 0 .. Len(BlockTxs[b])
  BY <1>1
<1>3. /\ Left(b, k) \in Seq(Sendable(b)) /\ Len(Left(b, k)) = Len(BlockTxs[b]) - k
      /\ Left(b, k + 1) \in Seq(Sendable(b)) /\ Len(Left(b, k + 1)) = Len(BlockTxs[b]) - (k + 1)
  BY <1>2, LeftIs
<1>4. Left(b, k) # <<>> /\ Head(Left(b, k)) = TxLanded(BlockTxs[b][k + 1], b)
  <2>1. Left(b, k)[1] = TxLanded(BlockTxs[b][k + 1], b)
    BY <1>1 DEF Left
  <2> QED BY <1>1, <1>3, <2>1
<1>5. Tail(Left(b, k)) = Left(b, k + 1)
  <2> DEFINE s == Left(b, k)
             u == Left(b, k + 1)
             n == Len(BlockTxs[b])
  <2>1. \A i \in 1 .. n - (k + 1) : s[i + 1] = u[i]
    <3> TAKE i \in 1 .. n - (k + 1)
    <3>1. i + 1 \in 1 .. n - k /\ k + (i + 1) = (k + 1) + i
      BY <1>1
    <3>2. s[i + 1] = TxLanded(BlockTxs[b][k + (i + 1)], b)
      BY <3>1 DEF Left
    <3>3. u[i] = TxLanded(BlockTxs[b][(k + 1) + i], b)
      BY DEF Left
    <3> QED BY <3>1, <3>2, <3>3
  <2>2. n \in Nat /\ k \in Nat
    BY <1>1
  <2>3. s \in Seq(Sendable(b)) /\ u \in Seq(Sendable(b)) /\ Len(s) = n - k /\ Len(u) = n - (k + 1)
    BY <1>3
  <2> HIDE DEF s, u, n
  <2>4. n - k \in Nat \ {0}
    BY <1>1 DEF n
  <2>5. Tail(s) \in Seq(Sendable(b)) /\ Len(Tail(s)) = n - (k + 1)
    BY <2>2, <2>3, <2>4
  <2>6. \A i \in 1 .. n - (k + 1) : Tail(s)[i] = s[i + 1]
    BY <2>2, <2>3, <2>4
  <2>7. Tail(s) = u
    BY <2>1, <2>2, <2>3, <2>5, <2>6
  <2> QED BY <2>7 DEF s, u
<1>6. t \in Seq(Sendable(b))
  BY TailsAre
<1> QED BY <1>3, <1>4, <1>5, <1>6, HeldThenTail DEF Holds

(* After its last transaction nothing of a block is left to be sent.       *)
LEMMA NoTxLeft ==
  ASSUME NEW b \in Blocks, NEW t \in Tails
  PROVE  Left(b, Len(BlockTxs[b])) \o t = t
<1>1. Len(BlockTxs[b]) \in Nat
  BY TxsOfBlock
<1> DEFINE s == Left(b, Len(BlockTxs[b]))
<1>2. s \in Seq(Sendable(b)) /\ Len(s) = 0
  BY <1>1, LeftIs
<1> HIDE DEF s
<1>3. s = <<>> /\ t \in Seq(Sendable(b))
  BY <1>2, TailsAre
<1> QED BY <1>3 DEF s

(* The messages of a block start with BlockMined.                          *)
LEMMA FirstMined ==
  ASSUME NEW b \in Blocks, NEW t \in Tails
  PROVE  Holds(BlockMutations(b) \o t, BlockMined(b), Left(b, 0) \o t)
<1>1. Len(BlockTxs[b]) \in Nat /\ DOMAIN BlockTxs[b] = 1 .. Len(BlockTxs[b])
  BY TxsOfBlock
<1>2. Left(b, 0) \in Seq(Sendable(b)) /\ t \in Seq(Sendable(b))
  BY <1>1, LeftIs, TailsAre
<1>3. [i \in DOMAIN BlockTxs[b] |-> TxLanded(BlockTxs[b][i], b)] = Left(b, 0)
  <2>1. Len(BlockTxs[b]) - 0 = Len(BlockTxs[b]) /\ \A i \in 1 .. Len(BlockTxs[b]) : 0 + i = i
    BY <1>1
  <2> QED BY <1>1, <2>1 DEF Left
<1>4. BlockMutations(b) = <<BlockMined(b)>> \o Left(b, 0)
  BY <1>3 DEF BlockMutations
<1>5. <<BlockMined(b)>> \in Seq(Sendable(b))
  BY DEF Sendable
<1> DEFINE s == <<BlockMined(b)>>
<1>6. Holds(s, BlockMined(b), <<>>)
  BY DEF Holds
<1>7. Holds(BlockMutations(b), BlockMined(b), <<>> \o Left(b, 0))
  BY <1>2, <1>4, <1>5, <1>6, HeldThenTail
<1>8. BlockMutations(b) \in Seq(Sendable(b)) /\ <<>> \o Left(b, 0) = Left(b, 0)
  BY <1>2, <1>4, <1>5
<1> QED BY <1>2, <1>7, <1>8, HeldThenTail

(* The head of a list of one.                                              *)
LEMMA OneHeld ==
  ASSUME NEW m
  PROVE  Holds(<<m>>, m, <<>>)
BY DEF Holds

(* The head of a list of two.                                              *)
LEMMA TwoHeld ==
  ASSUME NEW m, NEW n
  PROVE  Holds(<<m, n>>, m, <<n>>)
BY DEF Holds

(* The head of a list of three.                                            *)
LEMMA ThreeHeld ==
  ASSUME NEW m, NEW n, NEW k
  PROVE  Holds(<<m, n, k>>, m, <<n, k>>)
BY DEF Holds

-----------------------------------------------------------------------------
(* The invariant.  What is in the channel tells how far the reducer is     *)
(* behind the adapter.                                                     *)

(* Some rows wait in the limbo.                                            *)
Parked == DOMAIN galaxy.limbo # {}
(* Some blocks of a window are still to be sent.                           *)
Unread == DOMAIN window # {}
(* Galaxy and page agree with the history L.                               *)
Has(L) == Whole(galaxy, page, DOMAIN path, L, evicted, promised)

(* The adapter goes on from p, the path that the channel leads to.         *)
Following(p) == Follows(p, window, anchors) /\ Anchored(anchors, path, entity)

(* The channel ends with t.                                                *)
Ends(t) ==
  /\ t = <<>> => /\ Parked => resuming
                 /\ Unread => galaxy.replay /\ ~ resuming
  /\ t # <<>> => galaxy.replay /\ ~ Unread

(* Nothing in the channel but, at most, the end of a range.                *)
Resting == queue \in Tails /\ Following(path) /\ Ends(queue) /\ Has(Txs(path))

(* An envelope opens.                                                      *)
Opening ==
  /\ queue = <<ReplayOpens>> /\ Following(path) /\ Has(Txs(path))
  /\ (Parked => resuming) /\ (Unread => ~ resuming)

(* An envelope opens and closes around nothing.                            *)
OpeningInVain ==
  /\ queue = <<ReplayOpens, ReplayCloses(TRUE)>> /\ Following(path) /\ Has(Txs(path))
  /\ ~ Unread

(* A range failed: its envelope closes incomplete.                         *)
Aborting ==
  /\ queue = <<ReplayCloses(FALSE)>> /\ Following(path) /\ Has(Txs(path))
  /\ ~ Unread /\ resuming

(* The adapter went back to an anchor; the blocks above it are still       *)
(* there.                                                                  *)
Reorganizing ==
  \E n \in DOMAIN anchors :
    /\ queue = <<ChainReorganized(n + 1), ReplayOpens>>
    /\ Following(Below(path, n + 1)) /\ Has(Txs(path))
    /\ n + 1 \in Nat /\ ~ Unread /\ resuming

(* The adapter starts over from a window of blocks.                        *)
Rebuilding ==
  \E n \in Nat :
    /\ \/ queue = <<ReplayOpens, ChainRebuild(n), ReplayOpens>>
       \/ queue = <<ChainRebuild(n), ReplayOpens>>
    /\ Follows(NoBlocks, window, anchors) /\ Has(Txs(path)) /\ ~ resuming

(* A block is announced.                                                   *)
Connecting ==
  \E b \in Blocks : \E t \in Tails :
    /\ queue = BlockMutations(b) \o t
    /\ Following(Put(path, Height[b], b)) /\ PathInv(Put(path, Height[b], b))
    /\ \A m \in DOMAIN path : m < Height[b]
    /\ Has(Txs(path)) /\ Ends(t) /\ (galaxy.replay \/ ~ Parked)

(* Some transactions of the topmost block have landed, k of them.          *)
Landing ==
  \E n \in DOMAIN path : \E k \in 0 .. Len(BlockTxs[path[n]]) - 1 : \E t \in Tails :
    /\ queue = Left(path[n], k) \o t
    /\ Greatest(path, n) /\ n \in DOMAIN galaxy.hashes
    /\ Following(path) /\ Has(Sent(path, n, k)) /\ Ends(t)

(* What the channel holds decides what the rest of the state is.           *)
Phase ==
  \/ Resting \/ Opening \/ OpeningInVain \/ Aborting
  \/ Reorganizing \/ Rebuilding \/ Connecting \/ Landing

(* A save under way has saved the state that is still current.             *)
SavingInv == saving # Nothing => queue = <<>> /\ saving.entity = entity /\ saving.path = path

(* The file holds one moment: entity, path and cells of the same blocks.   *)
FileInv ==
  file # Nothing =>
    /\ PathInv(file.path) /\ EntityInv(file.entity, file.path)
    /\ Stored(file.cells, DOMAIN file.path, Txs(file.path), file.evicted)

(* The invariant of a process.                                             *)
PipeInv ==
  /\ PathInv(path) /\ EntityInv(entity, path)
  /\ DOMAIN anchors = {} => ~ Parked
  /\ resuming => DOMAIN anchors # {}
  /\ Phase

(* The invariant of what it leaves to the next one.                        *)
DiskInv == SavingInv /\ FileInv

(* No block is sent while a save is under way.                             *)
SavesAreQuiet == saving # Nothing => queue = <<>>

(* A rollback stays within the journal of the cells.                       *)
WithinJournal ==
  queue # <<>> /\ Head(queue).type = "reorganized" =>
    \/ Head(queue).from \in DOMAIN galaxy.hashes
    \/ \A n \in DOMAIN path : n < Head(queue).from

-----------------------------------------------------------------------------
(* The reducer takes m off the channel, and leaves q1.                     *)
Takes(m, q1) ==
  /\ queue' = q1
  /\ Handled(galaxy, page, evicted, promised, m, galaxy', page', evicted', promised')
  /\ Entered(entity, path, m, entity', path')
  /\ UNCHANGED <<anchors, resuming, window>>

(* The reducer takes the head of the channel.                              *)
LEMMA Taken ==
  ASSUME Reduce, NEW m, NEW q1, Holds(queue, m, q1)
  PROVE  Takes(m, q1)
BY DEF Reduce, Applies, Takes, Handled, Entered, Holds

(* The heights of a path are bounded.                                      *)
LEMMA PathBound ==
  ASSUME NEW p, PathInv(p)
  PROVE  DOMAIN p \subseteq Nat /\ \E top \in Nat : \A m \in DOMAIN p : m <= top
<1>1. DOMAIN p \subseteq Nat
  BY DEF PathInv, PartialChain
<1>2. CASE DOMAIN p = {}
  BY <1>1, <1>2
<1>3. CASE DOMAIN p # {}
  BY <1>1, <1>3 DEF PathInv, Greatest
<1> QED BY <1>1, <1>2, <1>3

(* The part of the invariant that a reduction may change.                  *)
PhaseKept ==
  /\ PathInv(path') /\ EntityInv(entity', path')
  /\ DOMAIN anchors = {} => ~ Parked'
  /\ Phase'

(* What may close a range: the end of the envelope, with or without the    *)
(* news of the hydration.                                                  *)
LEMMA TailsHold ==
  ASSUME NEW t \in Tails, t # <<>>
  PROVE  \/ t = <<ReplayCloses(TRUE)>> /\ Holds(t, ReplayCloses(TRUE), <<>>)
         \/ /\ t = <<HydrationCompleted, ReplayCloses(TRUE)>>
            /\ Holds(t, HydrationCompleted, <<ReplayCloses(TRUE)>>)
            /\ <<ReplayCloses(TRUE)>> \in Tails /\ <<ReplayCloses(TRUE)>> # <<>>
BY OneHeld, TwoHeld DEF Tails

(* An envelope message.                                                    *)
ProgressMsg(m, active, complete) ==
  m = [type |-> "progress", active |-> active, complete |-> complete] /\ m.type = "progress"

(* The envelope messages and what they say.                                *)
LEMMA ProgressMsgs ==
  /\ ProgressMsg(ReplayOpens, TRUE, FALSE)
  /\ \A c \in BOOLEAN : ProgressMsg(ReplayCloses(c), FALSE, c)
BY DEF ProgressMsg, ReplayOpens, ReplayCloses

(* The envelope opens or closes in front of q1.                            *)
LEMMA ProgressTaken ==
  ASSUME NEW m, NEW q1, NEW active \in BOOLEAN, NEW complete \in BOOLEAN,
         ProgressMsg(m, active, complete), Has(Txs(path)), Reduce, Holds(queue, m, q1)
  PROVE  /\ queue' = q1 /\ UNCHANGED <<anchors, resuming, window, entity, path>>
         /\ Has(Txs(path))' /\ galaxy'.replay = active /\ (Parked' => Parked)
         /\ galaxy'.hashes = galaxy.hashes
         /\ complete /\ ~ active /\ galaxy.replay => ~ Parked'
<1>1. Takes(m, q1)
  BY Taken
<1>2. entity' = entity /\ path' = path
  BY <1>1, EntityStays DEF Takes, ProgressMsg
<1>3. ProgressWhole(galaxy, galaxy', page', DOMAIN path, Txs(path), evicted', promised', active, complete)
  BY <1>1, ProgressHandled DEF Takes, Has, ProgressMsg
<1>4. /\ Has(Txs(path))' /\ galaxy'.replay = active /\ (Parked' => Parked)
      /\ galaxy'.hashes = galaxy.hashes
      /\ complete /\ ~ active /\ galaxy.replay => ~ Parked'
  BY <1>2, <1>3 DEF ProgressWhole, Has, Parked
<1> QED BY <1>1, <1>2, <1>4 DEF Takes

(* The reducer's step when only the end of a range is left.                *)
LEMMA RestingReduces ==
  ASSUME PathInv(path), EntityInv(entity, path), DOMAIN anchors = {} => ~ Parked,
         Resting, Reduce
  PROVE  PhaseKept
<1>1. queue # <<>> /\ queue \in Tails
  BY DEF Reduce, Resting
<1>2. CASE queue = <<ReplayCloses(TRUE)>> /\ Holds(queue, ReplayCloses(TRUE), <<>>)
  <2>1. ~ Unread /\ galaxy.replay
    BY <1>1 DEF Resting, Ends
  <2>2. /\ queue' = <<>> /\ UNCHANGED <<anchors, resuming, window, entity, path>>
        /\ Has(Txs(path))' /\ ~ Parked'
    BY <1>2, <2>1, ProgressMsgs, ProgressTaken DEF Resting
  <2>3. <<>> \in Tails
    BY DEF Tails
  <2>4. Resting'
    BY <2>1, <2>2, <2>3 DEF Resting, Following, Ends, Unread
  <2> QED BY <2>2, <2>4 DEF PhaseKept, Phase
<1>3. CASE /\ queue = <<HydrationCompleted, ReplayCloses(TRUE)>>
           /\ Holds(queue, HydrationCompleted, <<ReplayCloses(TRUE)>>)
           /\ <<ReplayCloses(TRUE)>> \in Tails /\ <<ReplayCloses(TRUE)>> # <<>>
  <2> DEFINE m == HydrationCompleted
  <2>1. Takes(m, <<ReplayCloses(TRUE)>>)
    BY <1>3, Taken
  <2>2. m.type = "hydrated"
    BY DEF HydrationCompleted
  <2>3. entity' = entity /\ path' = path
    BY <2>1, <2>2, EntityStays DEF Takes
  <2>4. /\ Whole(galaxy', page', DOMAIN path, Txs(path), evicted', promised')
        /\ galaxy'.replay = galaxy.replay /\ galaxy'.limbo = galaxy.limbo
    BY <2>1, HydratedHandled DEF Takes, Resting, Has
  <2>5. ~ Unread /\ galaxy.replay
    BY <1>1 DEF Resting, Ends
  <2>6. queue' = <<ReplayCloses(TRUE)>> /\ anchors' = anchors /\ window' = window
    BY <2>1 DEF Takes
  <2>7. Resting'
    BY <1>3, <2>3, <2>4, <2>5, <2>6 DEF Resting, Following, Ends, Unread, Has
  <2> QED BY <2>3, <2>4, <2>7 DEF PhaseKept, Phase, Parked
<1> QED BY <1>1, <1>2, <1>3, TailsHold

(* The reducer's step when an envelope opens.                              *)
LEMMA OpeningReduces ==
  ASSUME PathInv(path), EntityInv(entity, path), DOMAIN anchors = {} => ~ Parked,
         Opening, Reduce
  PROVE  PhaseKept
<1>1. Holds(queue, ReplayOpens, <<>>)
  BY OneHeld DEF Opening
<1>2. /\ queue' = <<>> /\ UNCHANGED <<anchors, resuming, window, entity, path>>
      /\ Has(Txs(path))' /\ galaxy'.replay = TRUE /\ (Parked' => Parked)
  BY <1>1, ProgressMsgs, ProgressTaken DEF Opening
<1>3. <<>> \in Tails
  BY DEF Tails
<1>4. Resting'
  BY <1>2, <1>3 DEF Opening, Resting, Following, Ends, Unread
<1> QED BY <1>2, <1>4 DEF PhaseKept, Phase

(* The reducer's step when an envelope opens and closes around nothing.    *)
LEMMA OpeningInVainReduces ==
  ASSUME PathInv(path), EntityInv(entity, path), DOMAIN anchors = {} => ~ Parked,
         OpeningInVain, Reduce
  PROVE  PhaseKept
<1>1. Holds(queue, ReplayOpens, <<ReplayCloses(TRUE)>>)
  BY TwoHeld DEF OpeningInVain
<1>2. /\ queue' = <<ReplayCloses(TRUE)>> /\ UNCHANGED <<anchors, resuming, window, entity, path>>
      /\ Has(Txs(path))' /\ galaxy'.replay = TRUE /\ (Parked' => Parked)
  BY <1>1, ProgressMsgs, ProgressTaken DEF OpeningInVain
<1>3. <<ReplayCloses(TRUE)>> \in Tails /\ <<ReplayCloses(TRUE)>> # <<>>
  BY DEF Tails
<1>4. Resting'
  BY <1>2, <1>3 DEF OpeningInVain, Resting, Following, Ends, Unread
<1> QED BY <1>2, <1>4 DEF PhaseKept, Phase

(* The reducer's step when a failed range closes its envelope.             *)
LEMMA AbortingReduces ==
  ASSUME PathInv(path), EntityInv(entity, path), DOMAIN anchors = {} => ~ Parked,
         Aborting, Reduce
  PROVE  PhaseKept
<1>1. Holds(queue, ReplayCloses(FALSE), <<>>)
  BY OneHeld DEF Aborting
<1>2. /\ queue' = <<>> /\ UNCHANGED <<anchors, resuming, window, entity, path>>
      /\ Has(Txs(path))' /\ galaxy'.replay = FALSE /\ (Parked' => Parked)
  BY <1>1, ProgressMsgs, ProgressTaken DEF Aborting
<1>3. <<>> \in Tails
  BY DEF Tails
<1>4. Resting'
  BY <1>2, <1>3 DEF Aborting, Resting, Following, Ends, Unread
<1> QED BY <1>2, <1>4 DEF PhaseKept, Phase

-----------------------------------------------------------------------------
(* The orphaned blocks are undone.                                         *)
ReorgTaken(n) ==
  /\ queue' = <<ReplayOpens>> /\ UNCHANGED <<anchors, resuming, window>>
  /\ path' = Below(path, n) /\ PathInv(path') /\ EntityInv(entity', path')
  /\ DOMAIN entity'.recent \subseteq DOMAIN entity.recent
  /\ Following(path)' /\ Has(Txs(path))' /\ Spared(galaxy, galaxy', n)

(* The reducer undoes the orphaned blocks, if the journal reaches the      *)
(* fork.                                                                   *)
LEMMA ReorgReduces ==
  ASSUME PathInv(path), EntityInv(entity, path), Reduce, WithinJournal, NEW n \in Nat,
         queue = <<ChainReorganized(n), ReplayOpens>>, Following(Below(path, n)),
         Has(Txs(path)), ~ Unread
  PROVE  ReorgTaken(n)
<1> DEFINE m == ChainReorganized(n)
<1>1. Holds(queue, m, <<ReplayOpens>>)
  BY TwoHeld
<1>2. m.type = "reorganized" /\ m.from = n
  BY DEF ChainReorganized
<1>3. n \in DOMAIN galaxy.hashes \/ \A k \in DOMAIN path : k < n
  BY <1>1, <1>2 DEF WithinJournal, Holds
<1> HIDE DEF m
<1>4. Takes(m, <<ReplayOpens>>)
  BY <1>1, Taken
<1>5. PICK top \in Nat : \A k \in DOMAIN path : k <= top
  BY PathBound
<1>6. DOMAIN path \subseteq Nat
  BY PathBound
<1>7. ReorgWhole(galaxy, galaxy', page', DOMAIN path, Txs(path), evicted', promised', n)
  <2>1. /\ Whole(galaxy, page, DOMAIN path, Txs(path), evicted, promised)
        /\ Handled(galaxy, page, evicted, promised, ChainReorganized(n),
                   galaxy', page', evicted', promised')
    BY <1>4 DEF Has, Takes, m
  <2> QED BY <1>3, <1>5, <1>6, <2>1, ReorgHandled
<1>8. Led(Below(path, n), anchors)
  <2>1. PartialChain(Below(path, n))
    BY BelowPartial DEF PathInv
  <2> QED BY <2>1, FollowsPath DEF Following, Unread
<1>9. /\ path' = Below(path, n) /\ EntityInv(entity', path') /\ Anchored(anchors, path', entity')
      /\ DOMAIN entity'.recent \subseteq DOMAIN entity.recent
  BY <1>4, <1>8, EntityReorg DEF Takes, m, Following
<1>10. PathInv(path')
  BY <1>9, PathCut
<1>11. DOMAIN path' = {k \in DOMAIN path : k < n} /\ Earlier(Txs(path), n) = Txs(path')
  BY <1>9, BelowFacts, TxsCut
<1>12. Has(Txs(path))' /\ Spared(galaxy, galaxy', n)
  BY <1>7, <1>11 DEF ReorgWhole, Has
<1>13. Following(path)'
  BY <1>4, <1>9 DEF Following, Takes
<1> QED BY <1>4, <1>9, <1>10, <1>12, <1>13 DEF ReorgTaken, Takes

(* The reducer's step when the channel starts with a reorganisation.       *)
LEMMA ReorganizingReduces ==
  ASSUME PathInv(path), EntityInv(entity, path), DOMAIN anchors = {} => ~ Parked,
         Reorganizing, WithinJournal, Reduce
  PROVE  PhaseKept
<1>1. PICK n \in DOMAIN anchors :
        /\ queue = <<ChainReorganized(n + 1), ReplayOpens>>
        /\ Following(Below(path, n + 1)) /\ Has(Txs(path))
        /\ n + 1 \in Nat /\ ~ Unread /\ resuming
  BY DEF Reorganizing
<1>2. ReorgTaken(n + 1)
  BY <1>1, ReorgReduces
<1>3. Opening'
  BY <1>1, <1>2 DEF ReorgTaken, Opening, Unread
<1>4. DOMAIN anchors # {}
  BY <1>1
<1> QED BY <1>2, <1>3, <1>4 DEF ReorgTaken, PhaseKept, Phase

-----------------------------------------------------------------------------
(* Everything is dropped.                                                  *)

(* The reducer's step when a rebuild is in the channel.                    *)
LEMMA RebuildingReduces ==
  ASSUME PathInv(path), EntityInv(entity, path), DOMAIN anchors = {} => ~ Parked,
         Rebuilding, Reduce
  PROVE  PhaseKept
<1>1. PICK n \in Nat :
        /\ \/ queue = <<ReplayOpens, ChainRebuild(n), ReplayOpens>>
           \/ queue = <<ChainRebuild(n), ReplayOpens>>
        /\ Follows(NoBlocks, window, anchors) /\ Has(Txs(path)) /\ ~ resuming
  BY DEF Rebuilding
<1>2. CASE queue = <<ReplayOpens, ChainRebuild(n), ReplayOpens>>
  <2>1. Holds(queue, ReplayOpens, <<ChainRebuild(n), ReplayOpens>>)
    BY <1>2, ThreeHeld
  <2>2. /\ queue' = <<ChainRebuild(n), ReplayOpens>>
        /\ UNCHANGED <<anchors, resuming, window, entity, path>>
        /\ Has(Txs(path))' /\ (Parked' => Parked)
    BY <1>1, <2>1, ProgressMsgs, ProgressTaken
  <2>3. Rebuilding'
    BY <1>1, <2>2 DEF Rebuilding
  <2> QED BY <2>2, <2>3 DEF PhaseKept, Phase
<1>3. CASE queue = <<ChainRebuild(n), ReplayOpens>>
  <2>1. Holds(queue, ChainRebuild(n), <<ReplayOpens>>)
    BY <1>3, TwoHeld
  <2>2. Takes(ChainRebuild(n), <<ReplayOpens>>)
    BY <2>1, Taken
  <2>3. Whole(galaxy', page', {}, {}, evicted', promised') /\ DOMAIN galaxy'.limbo = {}
    BY <1>1, <2>2, RebuildHandled DEF Takes, Has
  <2>4. /\ path' = NoBlocks /\ EntityInv(entity', path') /\ PathInv(path')
        /\ Anchored(anchors, path', entity')
    BY <2>2, EntityRebuilt DEF Takes
  <2>5. DOMAIN path' = {} /\ Txs(path') = {}
    BY <2>4, NoBlocksFacts, NoTxs
  <2>6. Has(Txs(path))' /\ ~ Parked'
    BY <2>3, <2>5 DEF Has, Parked
  <2>7. Opening'
    BY <1>1, <2>2, <2>4, <2>6 DEF Opening, Following, Takes
  <2> QED BY <2>4, <2>6, <2>7 DEF PhaseKept, Phase
<1> QED BY <1>1, <1>2, <1>3

(* After k transactions of the block at n.                                 *)
Halfway(n, k, t) ==
  /\ queue = Left(path[n], k) \o t
  /\ Greatest(path, n) /\ n \in DOMAIN galaxy.hashes
  /\ Following(path) /\ Has(Sent(path, n, k)) /\ Ends(t)

(* After some transactions of a block either more are left, or only the    *)
(* end of the range is.                                                    *)
LEMMA HalfwayOn ==
  ASSUME NEW n \in DOMAIN path', PathInv(path'), NEW k \in 0 .. Len(BlockTxs[path'[n]]),
         NEW t \in Tails, Halfway(n, k, t)'
  PROVE  Landing' \/ Resting'
<1> DEFINE last == Len(BlockTxs[path'[n]])
<1>1. path'[n] \in Blocks /\ PartialChain(path')
  BY DEF PathInv, PartialChain
<1>2. last \in Nat
  BY <1>1, TxsOfBlock
<1>3. CASE k = last
  <2>1. queue' = t
    BY <1>1, <1>3, NoTxLeft DEF Halfway
  <2>2. Sent(path', n, k) = Txs(path')
    BY <1>1, <1>3, SentAll
  <2>3. Has(Txs(path))'
    BY <2>2 DEF Halfway, Has
  <2> QED BY <2>1, <2>3 DEF Halfway, Resting
<1>4. CASE k # last
  <2>1. k \in 0 .. last - 1
    BY <1>2, <1>4
  <2> QED BY <2>1 DEF Halfway, Landing
<1> QED BY <1>3, <1>4

(* The block b is announced, t behind it.                                  *)
MinedTaken(b, t) ==
  /\ queue' = Left(b, 0) \o t /\ UNCHANGED <<anchors, resuming, window>>
  /\ path' = Put(path, Height[b], b) /\ EntityInv(entity', path')
  /\ DOMAIN entity'.recent \subseteq DOMAIN entity.recent \cup {Height[b]}
  /\ Following(path)'
  /\ MinedWhole(galaxy, galaxy', page', DOMAIN path, Txs(path), evicted', promised', Height[b])

(* The reducer connects an announced block.                                *)
LEMMA MinedReduces ==
  ASSUME PathInv(path), EntityInv(entity, path), Reduce, NEW b \in Blocks, NEW t \in Tails,
         queue = BlockMutations(b) \o t, Following(Put(path, Height[b], b)),
         \A m \in DOMAIN path : m < Height[b], Has(Txs(path)), galaxy.replay \/ ~ Parked
  PROVE  MinedTaken(b, t)
<1>1. Takes(BlockMined(b), Left(b, 0) \o t)
  BY FirstMined, Taken
<1>2. /\ path' = Put(path, Height[b], b) /\ EntityInv(entity', path')
      /\ Anchored(anchors, path', entity')
      /\ DOMAIN entity'.recent \subseteq DOMAIN entity.recent \cup {Height[b]}
  <2>1. /\ Entered(entity, path, BlockMined(b), entity', path')
        /\ Follows(Put(path, Height[b], b), window, anchors) /\ Anchored(anchors, path, entity)
    BY <1>1 DEF Takes, Following
  <2>2. Connects(entity, path, anchors, b, entity', path')
    BY <2>1, EntityMined
  <2> QED BY <2>2 DEF Connects
<1>3. MinedWhole(galaxy, galaxy', page', DOMAIN path, Txs(path), evicted', promised', Height[b])
  <2>1. DOMAIN path \subseteq Nat
    BY PathBound
  <2>2. /\ Whole(galaxy, page, DOMAIN path, Txs(path), evicted, promised)
        /\ Handled(galaxy, page, evicted, promised, BlockMined(b),
                   galaxy', page', evicted', promised')
    BY <1>1 DEF Has, Takes
  <2>3. galaxy.replay \/ DOMAIN galaxy.limbo = {}
    BY DEF Parked
  <2> QED BY <2>1, <2>2, <2>3, MinedHandled
<1>4. Following(path)'
  BY <1>1, <1>2 DEF Following, Takes
<1> QED BY <1>1, <1>2, <1>3, <1>4 DEF Takes, MinedTaken

(* The reducer's step when the channel starts with a block.                *)
LEMMA ConnectingReduces ==
  ASSUME PathInv(path), EntityInv(entity, path), DOMAIN anchors = {} => ~ Parked,
         Connecting, Reduce
  PROVE  PhaseKept
<1>1. PICK b \in Blocks, t \in Tails :
        /\ queue = BlockMutations(b) \o t
        /\ Following(Put(path, Height[b], b)) /\ PathInv(Put(path, Height[b], b))
        /\ \A m \in DOMAIN path : m < Height[b]
        /\ Has(Txs(path)) /\ Ends(t) /\ (galaxy.replay \/ ~ Parked)
  BY DEF Connecting
<1> DEFINE n == Height[b]
<1>2. MinedTaken(b, t)
  BY <1>1, MinedReduces
<1>3. path' = Put(path, n, b) /\ PathInv(path') /\ PathInv(path)
  BY <1>1, <1>2 DEF MinedTaken
<1>4. DOMAIN path' = DOMAIN path \cup {n} /\ path'[n] = b
  BY <1>3 DEF Put
<1>5. n \in Nat /\ DOMAIN path \subseteq Nat
  BY TreeAssumption, PathBound
<1>6. Greatest(path', n)
  BY <1>1, <1>4, <1>5 DEF Greatest
<1>7. Sent(path', n, 0) = Txs(path)
  BY <1>1, <1>3, SentNone DEF PathInv
<1>8. /\ Whole(galaxy', page', DOMAIN path', Txs(path), evicted', promised')
      /\ galaxy'.replay = galaxy.replay /\ DOMAIN galaxy'.limbo = DOMAIN galaxy.limbo
      /\ n \in DOMAIN galaxy'.hashes
  BY <1>2, <1>4 DEF MinedTaken, MinedWhole
<1> HIDE DEF n
<1>9. Halfway(n, 0, t)'
  <2>1. Ends(t)'
    BY <1>1, <1>2, <1>8 DEF Ends, Parked, Unread, MinedTaken
  <2>2. Has(Sent(path, n, 0))'
    BY <1>7, <1>8 DEF Has
  <2> QED BY <1>2, <1>4, <1>6, <1>8, <2>1, <2>2 DEF Halfway, MinedTaken
<1>10. Landing' \/ Resting'
  <2>1. n \in DOMAIN path' /\ Len(BlockTxs[b]) \in Nat
    BY <1>4, TxsOfBlock
  <2>2. 0 \in 0 .. Len(BlockTxs[path'[n]])
    BY <1>4, <2>1
  <2> QED BY <1>3, <1>9, <2>1, <2>2, HalfwayOn
<1>11. DOMAIN anchors = {} => ~ Parked'
  BY <1>8 DEF Parked
<1> QED BY <1>2, <1>3, <1>10, <1>11 DEF PhaseKept, Phase, MinedTaken

(* Another transaction of the block at height n lands.                     *)
TxTaken(n, k, t) ==
  /\ queue' = Left(path[n], k + 1) \o t
  /\ UNCHANGED <<anchors, resuming, window, entity, path>>
  /\ TxWhole(galaxy, galaxy', page', DOMAIN path, Sent(path, n, k), evicted', promised',
             n, BlockTxs[path[n]][k + 1])
  /\ Has(Sent(path, n, k + 1))'

(* The reducer lands the next transaction of the block under way.          *)
LEMMA TxReduces ==
  ASSUME PathInv(path), Reduce, NEW n \in DOMAIN path,
         NEW k \in 0 .. Len(BlockTxs[path[n]]) - 1, NEW t \in Tails,
         queue = Left(path[n], k) \o t, Greatest(path, n), n \in DOMAIN galaxy.hashes,
         Has(Sent(path, n, k))
  PROVE  TxTaken(n, k, t)
<1> DEFINE b == path[n]
           tx == BlockTxs[b][k + 1]
           m == TxLanded(tx, b)
<1>1. b \in Blocks /\ Height[b] = n /\ PartialChain(path)
  BY DEF PathInv, PartialChain, IsSegment, Linked
<1>2. Takes(m, Left(b, k + 1) \o t)
  BY <1>1, NextTx, Taken
<1>3. m.type = "tx"
  BY DEF TxLanded
<1>4. entity' = entity /\ path' = path
  <2> HIDE DEF m
  <2> QED BY <1>2, <1>3, EntityStays DEF Takes
<1>5. /\ Sent(path, n, k + 1) = Sent(path, n, k) \cup {<<n, tx>>}
      /\ tx \in DOMAIN Inputs
  BY <1>1, SentNext
<1>6. Fresh(Sent(path, n, k), tx) /\ IsInjective(Outputs[tx])
  BY SentFresh
<1>7. /\ Whole(galaxy, page, DOMAIN path, Sent(path, n, k), evicted, promised)
      /\ Handled(galaxy, page, evicted, promised, m, galaxy', page', evicted', promised')
  BY <1>2 DEF Has, Takes
<1>8. DOMAIN path \subseteq Nat /\ (\A j \in DOMAIN path : j <= Height[b])
      /\ Height[b] \in DOMAIN galaxy.hashes
  BY <1>1, PathBound DEF Greatest
<1> HIDE DEF b, tx
<1>9. TxWhole(galaxy, galaxy', page', DOMAIN path, Sent(path, n, k), evicted', promised',
              Height[b], tx)
  BY <1>1, <1>5, <1>6, <1>7, <1>8, TxHandled DEF m
<1>10. Has(Sent(path, n, k + 1))'
  BY <1>1, <1>4, <1>5, <1>9 DEF TxWhole, Has
<1> QED BY <1>1, <1>2, <1>4, <1>9, <1>10 DEF TxTaken, Takes, b, tx

(* The reducer's step in the middle of a block.                            *)
LEMMA LandingReduces ==
  ASSUME PathInv(path), EntityInv(entity, path), DOMAIN anchors = {} => ~ Parked,
         Landing, Reduce
  PROVE  PhaseKept
<1>0. PICK n \in DOMAIN path : \E k \in 0 .. Len(BlockTxs[path[n]]) - 1 : \E t \in Tails :
        /\ queue = Left(path[n], k) \o t
        /\ Greatest(path, n) /\ n \in DOMAIN galaxy.hashes
        /\ Following(path) /\ Has(Sent(path, n, k)) /\ Ends(t)
  BY DEF Landing
<1>1. PICK k \in 0 .. Len(BlockTxs[path[n]]) - 1, t \in Tails :
        /\ queue = Left(path[n], k) \o t
        /\ Greatest(path, n) /\ n \in DOMAIN galaxy.hashes
        /\ Following(path) /\ Has(Sent(path, n, k)) /\ Ends(t)
  BY <1>0
<1>2. TxTaken(n, k, t)
  BY <1>1, TxReduces
<1>3. /\ galaxy'.replay = galaxy.replay /\ (Parked' => Parked) /\ n \in DOMAIN galaxy'.hashes
  BY <1>2 DEF TxTaken, TxWhole, Parked
<1>4. Halfway(n, k + 1, t)'
  BY <1>1, <1>2, <1>3 DEF Halfway, TxTaken, Following, Ends, Unread
<1>5. k + 1 \in 0 .. Len(BlockTxs[path'[n]]) /\ n \in DOMAIN path' /\ PathInv(path')
  <2>1. path' = path /\ path[n] \in Blocks
    BY <1>2 DEF TxTaken, PathInv, PartialChain
  <2>2. Len(BlockTxs[path[n]]) \in Nat
    BY <2>1, TxsOfBlock
  <2> QED BY <2>1, <2>2
<1>6. Landing' \/ Resting'
  BY <1>4, <1>5, HalfwayOn
<1> QED BY <1>2, <1>3, <1>5, <1>6 DEF PhaseKept, Phase, TxTaken

(* Every step of the reducer keeps the invariant.                          *)
LEMMA Reduces ==
  ASSUME PipeInv, WithinJournal, Reduce
  PROVE  PipeInv'
<1>1. PhaseKept
  BY RestingReduces, OpeningReduces, OpeningInVainReduces, AbortingReduces,
     ReorganizingReduces, RebuildingReduces, ConnectingReduces, LandingReduces
     DEF PipeInv, Phase
<1>2. UNCHANGED <<anchors, resuming>>
  BY DEF Reduce
<1> QED BY <1>1, <1>2 DEF PipeInv, PhaseKept

-----------------------------------------------------------------------------
(* A poll step sends ms.                                                   *)

(* With an empty channel the adapter follows the path of the reducer, and  *)
(* the history is that of the path.                                        *)
LEMMA RestingIfEmpty ==
  ASSUME PipeInv, queue = <<>>
  PROVE  Following(path) /\ Ends(<<>>) /\ Has(Txs(path))
<1>1. ~ Opening /\ ~ OpeningInVain /\ ~ Aborting /\ ~ Reorganizing /\ ~ Rebuilding
  BY DEF Opening, OpeningInVain, Aborting, Reorganizing, Rebuilding
<1>2. ~ Connecting
  <2> SUFFICES ASSUME NEW b \in Blocks, NEW t \in Tails PROVE BlockMutations(b) \o t # <<>>
    BY DEF Connecting
  <2> QED BY FirstMined DEF Holds
<1>3. ~ Landing
  <2> SUFFICES ASSUME NEW n \in DOMAIN path, NEW k \in 0 .. Len(BlockTxs[path[n]]) - 1,
                      NEW t \in Tails
               PROVE  Left(path[n], k) \o t # <<>>
    BY DEF Landing
  <2>1. path[n] \in Blocks
    BY DEF PipeInv, PathInv, PartialChain
  <2> QED BY <2>1, NextTx DEF Holds
<1>4. Resting
  BY <1>1, <1>2, <1>3 DEF PipeInv, Phase
<1> QED BY <1>4 DEF Resting

(* A step of the adapter keeps the invariant if it leads to a phase and    *)
(* leaves the anchors in order.                                            *)
LEMMA Posted ==
  ASSUME PipeInv, NEW ms, Posts(ms), Phase', DOMAIN anchors' = {} => ~ Parked,
         resuming' => DOMAIN anchors' # {}
  PROVE  PipeInv'
<1>1. UNCHANGED <<path, entity, galaxy>>
  BY DEF Posts, server
<1>2. PathInv(path') /\ EntityInv(entity', path') /\ (DOMAIN anchors' = {} => ~ Parked')
  BY <1>1 DEF PipeInv, Parked
<1> QED BY <1>2 DEF PipeInv

(* A step of the adapter changes nothing that the reducer keeps.           *)
LEMMA HasStays ==
  ASSUME NEW ms, Posts(ms), Has(Txs(path))
  PROVE  /\ Has(Txs(path))' /\ Parked' = Parked /\ queue' = ms
         /\ UNCHANGED <<path, entity, galaxy>>
BY DEF Posts, server, Has, Parked

(* Nothing was followed while there is no anchor.                          *)
LEMMA NoAnchorNoPath ==
  ASSUME PipeInv, queue = <<>>, anchors = NoBlocks
  PROVE  path = NoBlocks /\ ~ Parked /\ DOMAIN window = {}
<1>1. Follows(path, window, anchors)
  BY RestingIfEmpty DEF Following
<1>2. DOMAIN anchors = {}
  BY NoBlocksFacts
<1>3. DOMAIN Over(window, path) = {}
  BY <1>1, <1>2 DEF Follows, Led
<1>4. DOMAIN path = {} /\ DOMAIN window = {}
  BY <1>3, OverFacts
<1>5. PartialChain(path)
  BY DEF PipeInv, PathInv
<1> QED BY <1>2, <1>4, <1>5, NoBlocksEmpty DEF PipeInv

(* Joining short lists of messages.                                        *)
LEMMA Joined ==
  ASSUME NEW x, NEW y, NEW z
  PROVE  <<x>> \o <<>> = <<x>> /\ <<x>> \o <<y, z>> = <<x, y, z>>
<1> DEFINE S == {x, y, z}
           s == <<x>> \o <<y, z>>
<1>1. <<x>> \in Seq(S) /\ <<y, z>> \in Seq(S)
  OBVIOUS
<1>2. <<x>> \o <<>> = <<x>>
  BY <1>1
<1>3. s \in Seq(S) /\ Len(s) = 3 /\ s[1] = x /\ s[2] = y /\ s[3] = z
  BY <1>1
<1> HIDE DEF s
<1>4. s = <<x, y, z>>
  BY <1>3
<1> QED BY <1>2, <1>4 DEF s

(* Reading a window of blocks below a tip block: the window leads to the   *)
(* anchors, with or without a rebuild before it.                           *)
LEMMA Hydrated ==
  ASSUME NEW b \in Blocks, NEW lo \in 0 .. Height[b], NEW again \in BOOLEAN,
         Hydrate(b, lo, again), RecentCap >= Window + 1
  PROVE  /\ Follows(NoBlocks, window', anchors') /\ DOMAIN anchors' # {} /\ resuming' = FALSE
         /\ Posts(IF again THEN <<ReplayOpens, ChainRebuild(lo), ReplayOpens>> ELSE <<ReplayOpens>>)
         /\ queue = <<>> /\ lo \in Nat
<1>1. /\ window' \in [lo .. Height[b] -> Blocks] /\ IsSegment(window') /\ window'[Height[b]] = b
      /\ anchors' = Newest(IF lo = 0 THEN window' ELSE Put(window', lo - 1, Parent[window'[lo]]),
                           Window + 1, Height[b])
  BY DEF Hydrate
<1>2. Follows(NoBlocks, window', anchors') /\ DOMAIN anchors' # {}
  BY <1>1, LedByWindow
<1> DEFINE ms == <<ReplayOpens>> \o IF again THEN <<ChainRebuild(lo), ReplayOpens>> ELSE <<>>
<1>3. ms = IF again THEN <<ReplayOpens, ChainRebuild(lo), ReplayOpens>> ELSE <<ReplayOpens>>
  BY Joined
<1>4. Posts(ms) /\ resuming' = FALSE
  BY DEF Hydrate
<1> HIDE DEF ms
<1>5. queue = <<>>
  BY <1>4 DEF Posts
<1>6. lo \in Nat
  BY TreeAssumption
<1> QED BY <1>2, <1>3, <1>4, <1>5, <1>6

(* The first window after a start with nothing saved keeps the invariant.  *)
LEMMA BootHydrationKeeps ==
  ASSUME RecentCap >= Window + 1, PipeInv, BootHydration
  PROVE  PipeInv'
<1>1. anchors = NoBlocks
  BY DEF BootHydration
<1>0. PICK b \in Blocks : \E lo \in 0 .. Height[b] : Hydrate(b, lo, FALSE)
  BY DEF BootHydration
<1>2. PICK lo \in 0 .. Height[b] : Hydrate(b, lo, FALSE)
  BY <1>0
<1>3. /\ Follows(NoBlocks, window', anchors') /\ DOMAIN anchors' # {} /\ resuming' = FALSE
      /\ Posts(<<ReplayOpens>>) /\ queue = <<>>
  BY <1>2, Hydrated
<1>4. path = NoBlocks /\ ~ Parked /\ Has(Txs(path))
  BY <1>1, <1>3, NoAnchorNoPath, RestingIfEmpty
<1>5. /\ Has(Txs(path))' /\ Parked' = Parked /\ queue' = <<ReplayOpens>>
      /\ path' = path
  BY <1>3, <1>4, HasStays
<1>6. Following(path)'
  BY <1>3, <1>4, <1>5, NoBlocksFacts DEF Following, Anchored
<1>7. Opening'
  BY <1>3, <1>4, <1>5, <1>6 DEF Opening
<1>8. Phase'
  BY <1>7 DEF Phase
<1> QED BY <1>3, <1>8, Posted

(* A window read anew because no anchor is canonical any more keeps the    *)
(* invariant, and leads to a rebuild.                                      *)
LEMMA RebuildWindowKeeps ==
  ASSUME RecentCap >= Window + 1, PipeInv, RebuildWindow
  PROVE  PipeInv' /\ Rebuilding'
<1>0. PICK b \in Blocks : \E lo \in 0 .. Height[b] : Hydrate(b, lo, TRUE)
  BY DEF RebuildWindow
<1>1. PICK lo \in 0 .. Height[b] : Hydrate(b, lo, TRUE)
  BY <1>0
<1>2. /\ Follows(NoBlocks, window', anchors') /\ DOMAIN anchors' # {} /\ resuming' = FALSE
      /\ Posts(<<ReplayOpens, ChainRebuild(lo), ReplayOpens>>) /\ queue = <<>>
  BY <1>1, Hydrated
<1>3. Has(Txs(path))
  BY <1>2, RestingIfEmpty
<1>4. Has(Txs(path))' /\ queue' = <<ReplayOpens, ChainRebuild(lo), ReplayOpens>>
  BY <1>2, <1>3, HasStays
<1>5. Rebuilding'
  BY <1>2, <1>4 DEF Rebuilding
<1>6. Phase'
  BY <1>5 DEF Phase
<1> QED BY <1>2, <1>5, <1>6, Posted

(* Sending the next block of the window keeps the invariant.               *)
LEMMA ReplayWindowKeeps ==
  ASSUME PipeInv, ReplayWindow
  PROVE  PipeInv'
<1>1. PICK n : n = Min(DOMAIN window)
  OBVIOUS
<1>2. PICK b : b = window[n]
  OBVIOUS
<1>3. PICK rest : rest = Restrict(window, DOMAIN window \ {n})
  OBVIOUS
<1>4. PICK t : t = IF rest = NoBlocks THEN <<HydrationCompleted, ReplayCloses(TRUE)>> ELSE <<>>
  OBVIOUS
<1>5. PICK ms : ms = BlockMutations(b) \o t
  OBVIOUS
<1>6. window # NoBlocks /\ Posts(ms) /\ window' = rest /\ UNCHANGED <<anchors, resuming>>
  BY <1>1, <1>2, <1>3, <1>4, <1>5 DEF ReplayWindow
<1>7. queue = <<>>
  BY <1>6 DEF Posts
<1>8. Following(path) /\ Ends(<<>>) /\ Has(Txs(path)) /\ PathInv(path)
  BY <1>7, RestingIfEmpty DEF PipeInv
<1>9. PartialChain(window) /\ DOMAIN window # {}
  BY <1>6, <1>8, NoBlocksEmpty DEF Following, Follows
<1>10. Advances(path, window, anchors, n)
  BY <1>8, <1>9, <1>1, WindowAdvances DEF Following, PathInv
<1>11. galaxy.replay /\ ~ resuming /\ ~ Parked
  BY <1>8, <1>9 DEF Ends, Unread
<1>12. /\ b \in Blocks /\ Height[b] = n /\ \A m \in DOMAIN path : m < Height[b]
       /\ PathInv(Put(path, Height[b], b)) /\ Follows(Put(path, Height[b], b), rest, anchors)
  BY <1>10, <1>2, <1>3 DEF Advances
<1>13. t \in Tails /\ (t = <<>> \/ DOMAIN rest = {}) /\ (t # <<>> <=> DOMAIN rest = {})
  <2>1. rest = NoBlocks <=> DOMAIN rest = {}
    BY <1>12, NoBlocksEmpty DEF Follows
  <2> QED BY <1>4, <2>1 DEF Tails
<1>14. /\ Has(Txs(path))' /\ Parked' = Parked /\ queue' = ms
       /\ UNCHANGED <<path, entity, galaxy>>
  BY <1>6, <1>8, HasStays
<1>15. Following(Put(path, Height[b], b))'
  BY <1>6, <1>8, <1>12, <1>14 DEF Following
<1>16. Ends(t)'
  BY <1>6, <1>11, <1>13, <1>14 DEF Ends, Unread
<1>17. Connecting'
  BY <1>11, <1>12, <1>13, <1>5, <1>14, <1>15, <1>16 DEF Connecting
<1>18. Phase' /\ (DOMAIN anchors' = {} => ~ Parked) /\ ~ resuming'
  BY <1>6, <1>11, <1>17 DEF Phase
<1> QED BY <1>6, <1>18, Posted

(* Nothing is left of a window, and the adapter sends ms.                  *)
LEMMA Polled ==
  ASSUME PipeInv, NEW ms, Polls(ms)
  PROVE  /\ Led(path, anchors) /\ Anchored(anchors, path, entity) /\ Ends(<<>>)
         /\ Posts(ms) /\ DOMAIN window = {} /\ window' = window /\ PartialChain(window)
         /\ Has(Txs(path))' /\ Parked' = Parked /\ queue' = ms /\ queue = <<>>
         /\ UNCHANGED <<path, entity, galaxy>>
<1>1. queue = <<>> /\ Posts(ms) /\ window = NoBlocks /\ window' = window
  BY DEF Polls, Posts
<1>2. Following(path) /\ Ends(<<>>) /\ Has(Txs(path))
  BY <1>1, RestingIfEmpty
<1>3. DOMAIN window = {} /\ PartialChain(window)
  BY <1>1, NoBlocksFacts
<1>4. Led(path, anchors)
  BY <1>2, <1>3, FollowsPath DEF Following, PipeInv, PathInv
<1>5. /\ Has(Txs(path))' /\ Parked' = Parked /\ queue' = ms
      /\ UNCHANGED <<path, entity, galaxy>>
  BY <1>1, <1>2, HasStays
<1> QED BY <1>1, <1>2, <1>3, <1>4, <1>5 DEF Following

(* There are anchors unless the chain of anchors is empty.                 *)
LEMMA SomeAnchor ==
  ASSUME PartialChain(anchors)
  PROVE  anchors # NoBlocks <=> DOMAIN anchors # {}
BY NoBlocksEmpty

(* A window that cannot be read keeps the invariant.                       *)
LEMMA HydrationFailsKeeps ==
  ASSUME PipeInv, HydrationFails
  PROVE  PipeInv'
<1> DEFINE ms == <<ReplayOpens, ReplayCloses(TRUE)>>
<1>0. Polls(ms) /\ anchors' = anchors /\ resuming' \in {resuming, FALSE}
  BY DEF HydrationFails
<1>6. resuming' = resuming \/ resuming' = FALSE
  BY <1>0
<1>1. Polls(ms) /\ anchors' = anchors /\ (resuming' => resuming)
  BY <1>0, <1>6
<1>2. /\ Led(path, anchors) /\ Anchored(anchors, path, entity)
      /\ Posts(ms) /\ DOMAIN window = {} /\ window' = window /\ PartialChain(window)
      /\ Has(Txs(path))' /\ Parked' = Parked /\ queue' = ms
      /\ UNCHANGED <<path, entity, galaxy>> /\ PartialChain(path)
  BY <1>1, Polled DEF PipeInv, PathInv
<1>3. Follows(path, window, anchors)
  BY <1>2, FollowsPath
<1>4. OpeningInVain'
  BY <1>1, <1>2, <1>3 DEF OpeningInVain, Following, Unread
<1>5. Phase' /\ (DOMAIN anchors' = {} => ~ Parked) /\ (resuming' => DOMAIN anchors' # {})
  BY <1>1, <1>4 DEF Phase, PipeInv
<1> QED BY <1>2, <1>5, Posted

(* A start on a chain too short for a window keeps the invariant.          *)
LEMMA BootLiveKeeps ==
  ASSUME PipeInv, BootLive
  PROVE  PipeInv'
<1>1. PICK b \in Blocks \ {Genesis} : anchors' = Put(NoBlocks, Height[b] - 1, Parent[b])
  BY DEF BootLive
<1>2. Polls(<<>>) /\ anchors = NoBlocks /\ resuming' = resuming
  BY DEF BootLive
<1>3. /\ Posts(<<>>) /\ DOMAIN window = {} /\ window' = window /\ PartialChain(window)
      /\ Has(Txs(path))' /\ Parked' = Parked /\ queue' = <<>> /\ queue = <<>>
      /\ UNCHANGED <<path, entity, galaxy>>
  BY <1>2, Polled
<1>4. path = NoBlocks /\ ~ Parked /\ PartialChain(path) /\ DOMAIN path = {}
  BY <1>2, <1>3, NoAnchorNoPath, NoBlocksFacts
<1>5. Parent[b] \in Blocks /\ Height[b] - 1 = Height[Parent[b]]
  <2> DEFINE c == Parent[b]
             k == Height[c]
  <2>1. c \in Blocks /\ Height[b] = k + 1
    BY TreeAssumption
  <2> HIDE DEF c
  <2>2. k \in Nat
    BY <2>1, TreeAssumption
  <2> QED BY <2>1, <2>2 DEF c
<1>6. Led(path, anchors') /\ DOMAIN anchors' # {}
  BY <1>1, <1>4, <1>5, LedByOne
<1>7. Follows(path, window, anchors')
  BY <1>3, <1>4, <1>6, FollowsPath
<1>8. Following(path)'
  BY <1>3, <1>4, <1>7 DEF Following, Anchored
<1>9. Resting'
  BY <1>3, <1>4, <1>8 DEF Resting, Tails, Ends, Unread
<1>10. Phase'
  BY <1>9 DEF Phase
<1> QED BY <1>3, <1>6, <1>10, Posted

(* The next block is sent, with t behind it.                               *)
LEMMA BlockPosted ==
  ASSUME RecentCap >= Window + 1, PipeInv, anchors # NoBlocks,
         NEW b \in Blocks \ {Genesis}, NEW t \in Tails, Follow(b), Polls(BlockMutations(b) \o t),
         IF t = <<>> THEN Parked => resuming' ELSE galaxy.replay,
         galaxy.replay \/ ~ Parked
  PROVE  PipeInv'
<1>1. /\ Led(path, anchors) /\ Anchored(anchors, path, entity)
      /\ Posts(BlockMutations(b) \o t) /\ DOMAIN window = {} /\ window' = window
      /\ PartialChain(window)
      /\ Has(Txs(path))' /\ Parked' = Parked /\ queue' = BlockMutations(b) \o t
      /\ UNCHANGED <<path, entity, galaxy>>
  BY Polled
<1>2. DOMAIN anchors # {}
  BY <1>1, SomeAnchor DEF Led
<1>3. /\ Parent[b] = anchors[Max(DOMAIN anchors)]
      /\ anchors' = Newest(Put(anchors, Height[b], b), Window + 1, Height[b])
  BY DEF Follow, Cursor
<1>4. Extends(path, anchors, b, anchors')
  BY <1>1, <1>2, <1>3, LedFurther
<1>5. /\ \A m \in DOMAIN path : m < Height[b]
      /\ PathInv(Put(path, Height[b], b)) /\ Led(Put(path, Height[b], b), anchors')
      /\ DOMAIN anchors' \subseteq DOMAIN anchors \cup {Height[b]}
  BY <1>4 DEF Extends
<1>6. Height[b] \in Nat /\ DOMAIN path \subseteq Nat
  BY TreeAssumption, PathBound DEF PipeInv
<1>7. Anchored(anchors', path, entity)
  BY <1>1, <1>5, <1>6 DEF Anchored
<1>8. Follows(Put(path, Height[b], b), window, anchors')
  BY <1>1, <1>5, FollowsPath DEF PathInv
<1>9. Following(Put(path, Height[b], b))'
  BY <1>1, <1>7, <1>8 DEF Following
<1>10. Ends(t)'
  BY <1>1 DEF Ends, Unread
<1>11. Connecting'
  BY <1>1, <1>5, <1>9, <1>10 DEF Connecting
<1>12. DOMAIN anchors' # {}
  <2>1. Height[b] \in DOMAIN Put(path, Height[b], b)
    BY DEF Put
  <2> QED BY <1>5, <2>1 DEF Led
<1>13. Phase'
  BY <1>11 DEF Phase
<1> QED BY <1>1, <1>12, <1>13, Posted

(* A block sent alone.                                                     *)
LEMMA NothingBehind ==
  ASSUME NEW b \in Blocks
  PROVE  BlockMutations(b) \o <<>> = BlockMutations(b)
<1>1. Len(BlockTxs[b]) \in Nat
  BY TxsOfBlock
<1>2. <<BlockMined(b)>> \o [i \in DOMAIN BlockTxs[b] |-> TxLanded(BlockTxs[b][i], b)] \in Seq(Sendable(b))
  <2> DEFINE s == [i \in DOMAIN BlockTxs[b] |-> TxLanded(BlockTxs[b][i], b)]
  <2>1. \A i \in DOMAIN BlockTxs[b] : TxLanded(BlockTxs[b][i], b) \in Sendable(b)
    BY TxsOfBlock DEF Sendable
  <2>2. DOMAIN BlockTxs[b] = 1 .. Len(BlockTxs[b])
    BY TxsOfBlock
  <2>3. s \in Seq(Sendable(b))
    BY <1>1, <2>1, <2>2
  <2> HIDE DEF s
  <2>4. <<BlockMined(b)>> \in Seq(Sendable(b))
    BY DEF Sendable
  <2>5. <<BlockMined(b)>> \o s \in Seq(Sendable(b))
    BY <2>3, <2>4
  <2> QED BY <2>5 DEF s
<1>3. BlockMutations(b) \in Seq(Sendable(b))
  BY <1>2 DEF BlockMutations
<1> QED BY <1>3

(* Sending one live block keeps the invariant.                             *)
LEMMA PollLiveKeeps ==
  ASSUME RecentCap >= Window + 1, PipeInv, PollLive
  PROVE  PipeInv'
<1>1. PICK b \in Blocks \ {Genesis} : Follow(b) /\ Polls(BlockMutations(b))
  BY DEF PollLive
<1>2. Polls(BlockMutations(b) \o <<>>) /\ <<>> \in Tails
  BY <1>1, NothingBehind DEF Tails
<1>3. anchors # NoBlocks /\ ~ resuming /\ resuming' = resuming
  BY DEF PollLive
<1>4. ~ Parked
  BY <1>2, <1>3, Polled DEF Ends
<1> QED BY <1>1, <1>2, <1>3, <1>4, BlockPosted

(* Sending one block of a longer range keeps the invariant.                *)
LEMMA ReplayBlockKeeps ==
  ASSUME RecentCap >= Window + 1, PipeInv, ReplayBlock
  PROVE  PipeInv'
<1>1. PICK b \in Blocks \ {Genesis}, last \in BOOLEAN :
        /\ Follow(b)
        /\ Polls(BlockMutations(b) \o IF last THEN <<ReplayCloses(TRUE)>> ELSE <<>>)
        /\ resuming' = ~ last
  BY DEF ReplayBlock
<1>2. resuming /\ galaxy.replay
  BY DEF ReplayBlock
<1>3. PICK t : t = IF last THEN <<ReplayCloses(TRUE)>> ELSE <<>>
  OBVIOUS
<1>4. t \in Tails /\ (t = <<>> => ~ last) /\ Polls(BlockMutations(b) \o t)
  BY <1>1, <1>3 DEF Tails
<1>5. anchors # NoBlocks
  BY <1>2, NoBlocksFacts DEF PipeInv
<1> QED BY <1>1, <1>2, <1>4, <1>5, BlockPosted

(* Opening the envelope of a longer range keeps the invariant.             *)
LEMMA OpenRangeKeeps ==
  ASSUME PipeInv, OpenRange
  PROVE  PipeInv'
<1> DEFINE ms == <<ReplayOpens>>
<1>1. Polls(ms) /\ anchors' = anchors /\ resuming' = TRUE /\ anchors # NoBlocks
  BY DEF OpenRange
<1>2. /\ Led(path, anchors) /\ Anchored(anchors, path, entity)
      /\ Posts(ms) /\ DOMAIN window = {} /\ window' = window /\ PartialChain(window)
      /\ Has(Txs(path))' /\ Parked' = Parked /\ queue' = ms
      /\ UNCHANGED <<path, entity, galaxy>> /\ PartialChain(path)
  BY <1>1, Polled DEF PipeInv, PathInv
<1>3. Follows(path, window, anchors)
  BY <1>2, FollowsPath
<1>4. Opening'
  BY <1>1, <1>2, <1>3 DEF Opening, Following, Unread
<1>5. DOMAIN anchors # {}
  BY <1>1, <1>2, SomeAnchor DEF Led
<1>6. Phase' /\ DOMAIN anchors' # {}
  BY <1>1, <1>4, <1>5 DEF Phase
<1> QED BY <1>2, <1>6, Posted

(* A range that fails, its envelope closed incomplete, keeps the           *)
(* invariant.                                                              *)
LEMMA RangeFailsKeeps ==
  ASSUME PipeInv, RangeFails
  PROVE  PipeInv'
<1> DEFINE ms == <<ReplayCloses(FALSE)>>
<1>1. Polls(ms) /\ anchors' = anchors /\ resuming' = resuming /\ resuming
  BY DEF RangeFails
<1>2. /\ Led(path, anchors) /\ Anchored(anchors, path, entity)
      /\ Posts(ms) /\ DOMAIN window = {} /\ window' = window /\ PartialChain(window)
      /\ Has(Txs(path))' /\ Parked' = Parked /\ queue' = ms
      /\ UNCHANGED <<path, entity, galaxy>> /\ PartialChain(path)
  BY <1>1, Polled DEF PipeInv, PathInv
<1>3. Follows(path, window, anchors)
  BY <1>2, FollowsPath
<1>4. Aborting'
  BY <1>1, <1>2, <1>3 DEF Aborting, Following, Unread
<1>5. Phase' /\ DOMAIN anchors' # {}
  BY <1>1, <1>4 DEF Phase, PipeInv
<1> QED BY <1>2, <1>5, Posted

(* Going back to the last canonical anchor keeps the invariant.            *)
LEMMA ReorganizeKeeps ==
  ASSUME PipeInv, Reorganize
  PROVE  PipeInv'
<1>1. PICK n \in DOMAIN anchors : /\ Polls(<<ChainReorganized(n + 1), ReplayOpens>>)
                                  /\ anchors' = Below(anchors, n + 1)
  BY DEF Reorganize
<1>2. resuming' = TRUE
  BY DEF Reorganize
<1> DEFINE ms == <<ChainReorganized(n + 1), ReplayOpens>>
<1>3. /\ Led(path, anchors) /\ Anchored(anchors, path, entity)
      /\ Posts(ms) /\ DOMAIN window = {} /\ window' = window /\ PartialChain(window)
      /\ Has(Txs(path))' /\ Parked' = Parked /\ queue' = ms
      /\ UNCHANGED <<path, entity, galaxy>> /\ PathInv(path)
  BY <1>1, Polled DEF PipeInv
<1>4. Returns(path, anchors, n)
  BY <1>3, LedBack
<1>5. /\ PathInv(Below(path, n + 1)) /\ Led(Below(path, n + 1), anchors')
      /\ n \in DOMAIN anchors' /\ DOMAIN anchors' \subseteq DOMAIN anchors
      /\ n + 1 \in Nat
  BY <1>1, <1>4 DEF Returns
<1>6. Follows(Below(path, n + 1), window, anchors') /\ Anchored(anchors', path, entity)
  BY <1>3, <1>5, FollowsPath DEF PathInv, Anchored
<1>7. Reorganizing'
  BY <1>2, <1>3, <1>5, <1>6 DEF Reorganizing, Following, Unread
<1>8. Phase' /\ DOMAIN anchors' # {}
  BY <1>5, <1>7 DEF Phase
<1> QED BY <1>3, <1>8, Posted

-----------------------------------------------------------------------------
(* A page that connects, and the state file.                               *)

(* A page that connects and takes a snapshot keeps the invariant.          *)
LEMMA ConnectKeeps ==
  ASSUME PipeInv, Connect
  PROVE  PipeInv'
<1>1. /\ page' = SnapshotOf(galaxy)
      /\ UNCHANGED <<anchors, resuming, window, queue, path, entity, galaxy, evicted, promised>>
  BY DEF Connect, adapter
<1>2. ASSUME NEW L, Has(L) PROVE Has(L)'
  BY <1>1, <1>2, ConnectedWhole DEF Has
<1>3. Parked' = Parked /\ Unread' = Unread
  BY <1>1 DEF Parked, Unread
<1>4. Phase'
  <2>1. CASE Resting
    BY <1>1, <1>2, <1>3, <2>1 DEF Phase, Resting, Following, Ends
  <2>2. CASE Opening
    BY <1>1, <1>2, <1>3, <2>2 DEF Phase, Opening, Following
  <2>3. CASE OpeningInVain
    BY <1>1, <1>2, <1>3, <2>3 DEF Phase, OpeningInVain, Following
  <2>4. CASE Aborting
    BY <1>1, <1>2, <1>3, <2>4 DEF Phase, Aborting, Following
  <2>5. CASE Reorganizing
    BY <1>1, <1>2, <1>3, <2>5 DEF Phase, Reorganizing, Following
  <2>6. CASE Rebuilding
    BY <1>1, <1>2, <1>3, <2>6 DEF Phase, Rebuilding
  <2>7. CASE Connecting
    BY <1>1, <1>2, <1>3, <2>7 DEF Phase, Connecting, Following, Ends
  <2>8. CASE Landing
    BY <1>1, <1>2, <1>3, <2>8 DEF Phase, Landing, Following, Ends
  <2> QED BY <2>1, <2>2, <2>3, <2>4, <2>5, <2>6, <2>7, <2>8 DEF PipeInv, Phase
<1> QED BY <1>1, <1>3, <1>4 DEF PipeInv

(* Steps that change nothing of what the invariant is about but the disk.  *)
LEMMA SameServer ==
  ASSUME PipeInv, UNCHANGED <<anchors, resuming, window, queue>>,
         UNCHANGED <<path, entity, galaxy, evicted, promised, page>>
  PROVE  PipeInv'
<1>1. \A L : Has(L) => Has(L)'
  BY DEF Has
<1>3. Parked' = Parked /\ Unread' = Unread
  BY DEF Parked, Unread
<1>4. Phase'
  <2>1. CASE Resting
    BY <1>1, <1>3, <2>1 DEF Phase, Resting, Following, Ends
  <2>2. CASE Opening
    BY <1>1, <1>3, <2>2 DEF Phase, Opening, Following
  <2>3. CASE OpeningInVain
    BY <1>1, <1>3, <2>3 DEF Phase, OpeningInVain, Following
  <2>4. CASE Aborting
    BY <1>1, <1>3, <2>4 DEF Phase, Aborting, Following
  <2>5. CASE Reorganizing
    BY <1>1, <1>3, <2>5 DEF Phase, Reorganizing, Following
  <2>6. CASE Rebuilding
    BY <1>1, <1>3, <2>6 DEF Phase, Rebuilding
  <2>7. CASE Connecting
    BY <1>1, <1>3, <2>7 DEF Phase, Connecting, Following, Ends
  <2>8. CASE Landing
    BY <1>1, <1>3, <2>8 DEF Phase, Landing, Following, Ends
  <2> QED BY <2>1, <2>2, <2>3, <2>4, <2>5, <2>6, <2>7, <2>8 DEF PipeInv, Phase
<1> QED BY <1>3, <1>4 DEF PipeInv

(* The first half of a save keeps the invariant of the disk, if it finds   *)
(* the channel empty.                                                      *)
LEMMA SaveEntitiesKeeps ==
  ASSUME SavesAreQuiet', DiskInv, SaveEntities
  PROVE  DiskInv'
<1>1. /\ saving' = [entity |-> entity, path |-> path]
      /\ UNCHANGED <<queue, path, entity, file>>
  BY DEF SaveEntities, adapter, server
<1> QED BY <1>1 DEF SavesAreQuiet, DiskInv, SavingInv, FileInv

(* The second half of a save writes a sound file.                          *)
LEMMA SaveProjectionsKeeps ==
  ASSUME PipeInv, DiskInv, SaveProjections
  PROVE  DiskInv'
<1>1. /\ saving # Nothing /\ saving' = Nothing
      /\ file' = [entity |-> saving.entity, path |-> saving.path,
                  cells |-> ToPersisted(galaxy), evicted |-> evicted]
  BY DEF SaveProjections
<1>2. queue = <<>> /\ saving.entity = entity /\ saving.path = path
  BY <1>1 DEF DiskInv, SavingInv
<1>3. Has(Txs(path))
  BY <1>2, RestingIfEmpty
<1>4. Stored(ToPersisted(galaxy), DOMAIN path, Txs(path), evicted)
  BY <1>3, SavedWhole DEF Has
<1> QED BY <1>1, <1>2, <1>4 DEF PipeInv, DiskInv, SavingInv, FileInv

(* Every step of the adapter sends a list of messages and leaves the disk  *)
(* alone.                                                                  *)
LEMMA PollPosts ==
  ASSUME Poll
  PROVE  \E ms : Posts(ms)
<1>1. ASSUME NEW b, NEW lo, NEW again, Hydrate(b, lo, again) PROVE \E ms : Posts(ms)
  BY <1>1 DEF Hydrate
<1>2. CASE BootHydration \/ RebuildWindow
  BY <1>1, <1>2 DEF BootHydration, RebuildWindow
<1>3. CASE ReplayWindow
  BY <1>3 DEF ReplayWindow
<1>4. CASE HydrationFails \/ BootLive \/ OpenRange \/ RangeFails
  BY <1>4 DEF HydrationFails, BootLive, OpenRange, RangeFails, Polls
<1>5. CASE PollLive \/ ReplayBlock \/ Reorganize
  BY <1>5 DEF PollLive, ReplayBlock, Reorganize, Polls
<1> QED BY <1>2, <1>3, <1>4, <1>5 DEF Poll

-----------------------------------------------------------------------------
(* A new process.                                                          *)

(* A range may end with nothing behind its last block.                     *)
LEMMA SomeTail == <<>> \in Tails
BY DEF Tails

(* What a new process starts with, whatever it found.                      *)
NewProcess ==
  queue' = <<>> /\ resuming' = FALSE /\ DOMAIN window' = {} /\ PartialChain(window')

(* A new process that starts with its parts in order satisfies the         *)
(* invariant.                                                              *)
LEMMA NewProcessKeeps ==
  ASSUME NewProcess, PathInv(path'), EntityInv(entity', path'),
         Led(path', anchors'), Anchored(anchors', path', entity'),
         Whole(galaxy', page', DOMAIN path', Txs(path'), evicted', promised'),
         DOMAIN galaxy'.limbo = {}
  PROVE  PipeInv'
<1>1. Follows(path', window', anchors')
  BY FollowsPath DEF NewProcess, PathInv
<1>2. ~ Parked' /\ ~ Unread'
  BY DEF NewProcess, Parked, Unread
<1>3. Resting'
  BY <1>1, <1>2, SomeTail DEF NewProcess, Resting, Following, Ends, Has
<1> QED BY <1>2, <1>3 DEF PipeInv, Phase, NewProcess

(* A process that resumes from the file satisfies the invariant.           *)
LEMMA ResumedKeeps ==
  ASSUME FileInv, NewProcess, file # Nothing,
         entity' = file.entity, galaxy' = RestoreFrom(file.cells), path' = file.path,
         evicted' = file.evicted, promised' = Empty, page' = SnapshotOf(galaxy'),
         \/ anchors' = file.entity.recent /\ file.entity.tip \in DOMAIN file.entity.recent
         \/ /\ file.entity.recent = NoBlocks
            /\ \E b \in Blocks : anchors' = Put(NoBlocks, Height[b], b)
  PROVE  PipeInv'
<1>1. /\ PathInv(path') /\ EntityInv(entity', path')
      /\ Stored(file.cells, DOMAIN path', Txs(path'), evicted')
  BY DEF FileInv
<1>2. Led(path', anchors') /\ Anchored(anchors', path', entity')
  <2>1. CASE anchors' = file.entity.recent /\ file.entity.tip \in DOMAIN file.entity.recent
    BY <1>1, <2>1, LedByEntity
  <2>2. CASE /\ file.entity.recent = NoBlocks
             /\ \E b \in Blocks : anchors' = Put(NoBlocks, Height[b], b)
    <3>1. PICK b \in Blocks : anchors' = Put(NoBlocks, Height[b], b)
      BY <2>2
    <3>2. DOMAIN path' = {}
      BY <1>1, <2>2, NoBlocksFacts, RecentOfNothing
    <3>3. PartialChain(path')
      BY <1>1 DEF PathInv
    <3>4. Led(path', anchors')
      BY <3>1, <3>2, <3>3, LedByOne
    <3> QED BY <3>2, <3>4 DEF Anchored
  <2> QED BY <2>1, <2>2
<1>3. PICK top \in Nat : \A m \in DOMAIN path' : m <= top
  BY <1>1, PathBound
<1>4. DOMAIN path' \subseteq Nat
  BY <1>1, PathBound
<1>5. /\ Whole(galaxy', page', DOMAIN path', Txs(path'), evicted', promised')
      /\ DOMAIN galaxy'.limbo = {}
  BY <1>1, <1>3, <1>4, RestoredWhole
<1> QED BY <1>1, <1>2, <1>5, NewProcessKeeps

(* A process with nothing saved has its parts in order.                    *)
LEMMA StartsEmpty ==
  ASSUME NEW p, p = NoBlocks
  PROVE  /\ PathInv(p) /\ EntityInv(NoEntity, p) /\ Led(p, NoBlocks) /\ Anchored(NoBlocks, p, NoEntity)
         /\ Whole(EmptyGalaxy, SnapshotOf(EmptyGalaxy), DOMAIN p, Txs(p), {}, Empty)
         /\ DOMAIN EmptyGalaxy.limbo = {}
<1>1. DOMAIN p = {} /\ Txs(p) = {}
  BY NoBlocksFacts, NoTxs
<1> QED BY <1>1, EmptyWhole, EntityNothing, LedByNothing

(* A process that finds no file to resume from satisfies the invariant.    *)
LEMMA AfreshKeeps ==
  ASSUME Restart, ~ Resumes
  PROVE  PipeInv'
<1>1. NewProcess /\ promised' = Empty /\ page' = SnapshotOf(galaxy')
  BY NoBlocksFacts DEF Restart, NewProcess
<1>2. /\ entity' = NoEntity /\ galaxy' = EmptyGalaxy
      /\ path' = NoBlocks /\ evicted' = {} /\ anchors' = NoBlocks
  BY DEF Restart
<1> QED BY <1>1, <1>2, StartsEmpty, NewProcessKeeps

(* A restart, whether it resumes from the file or not, keeps the           *)
(* invariant.                                                              *)
LEMMA RestartKeeps ==
  ASSUME FileInv, Restart
  PROVE  PipeInv'
<1>1. NewProcess /\ promised' = Empty /\ page' = SnapshotOf(galaxy')
  BY NoBlocksFacts DEF Restart, NewProcess
<1>2. CASE /\ Resumes
           /\ entity' = file.entity
           /\ galaxy' = RestoreFrom(file.cells)
           /\ path' = file.path
           /\ evicted' = file.evicted
           /\ \/ anchors' = file.entity.recent /\ file.entity.tip \in DOMAIN file.entity.recent
              \/ /\ file.entity.recent = NoBlocks
                 /\ \E b \in Blocks : anchors' = Put(NoBlocks, Height[b], b)
  BY <1>1, <1>2, ResumedKeeps DEF Resumes
<1> QED BY <1>2, AfreshKeeps DEF Restart

(* The invariant holds when the system starts.                             *)
LEMMA InitPipeInv ==
  ASSUME Init
  PROVE  PipeInv /\ DiskInv
<1>1. /\ anchors = NoBlocks /\ resuming = FALSE /\ window = NoBlocks /\ queue = <<>>
      /\ path = NoBlocks /\ entity = NoEntity /\ galaxy = EmptyGalaxy /\ evicted = {}
      /\ promised = Empty /\ page = SnapshotOf(EmptyGalaxy) /\ saving = Nothing /\ file = Nothing
  BY DEF Init
<1>2. /\ PathInv(path) /\ EntityInv(entity, path) /\ Led(path, anchors)
      /\ Anchored(anchors, path, entity) /\ Has(Txs(path)) /\ ~ Parked
  BY <1>1, StartsEmpty DEF Has, Parked
<1>3. Follows(path, window, anchors) /\ ~ Unread
  BY <1>1, <1>2, NoBlocksFacts, FollowsPath DEF PathInv, Unread
<1>4. Resting
  BY <1>1, <1>2, <1>3, SomeTail DEF Resting, Following, Ends
<1> QED BY <1>1, <1>2, <1>4 DEF PipeInv, Phase, DiskInv, SavingInv, FileInv

(* Every step of the adapter keeps the invariant.                          *)
LEMMA PollKeeps ==
  ASSUME RecentCap >= Window + 1, PipeInv, Poll
  PROVE  PipeInv'
BY BootHydrationKeeps, RebuildWindowKeeps, ReplayWindowKeeps, HydrationFailsKeeps, BootLiveKeeps,
   PollLiveKeeps, OpenRangeKeeps, ReplayBlockKeeps, RangeFailsKeeps, ReorganizeKeeps
   DEF Poll

(* A process that starts finds no file to resume from.                     *)
Afresh == Restart => ~ Resumes

(* Within the life of one process every step keeps its invariant, if the   *)
(* rollback at hand stays within the journal.                              *)
LEMMA LifeKeeps ==
  ASSUME RecentCap >= Window + 1, PipeInv, WithinJournal, [Next]_vars,
         FileInv \/ [Afresh]_vars
  PROVE  PipeInv'
<1>1. CASE UNCHANGED vars \/ SaveEntities \/ SaveProjections
  <2>1. /\ UNCHANGED <<anchors, resuming, window, queue>>
        /\ UNCHANGED <<path, entity, galaxy, evicted, promised, page>>
    BY <1>1 DEF vars, adapter, server, SaveEntities, SaveProjections
  <2> QED BY <2>1, SameServer
<1>2. CASE Restart /\ (FileInv \/ Afresh)
  BY <1>2, RestartKeeps, AfreshKeeps DEF Afresh
<1> QED BY <1>1, <1>2, PollKeeps, Reduces, ConnectKeeps DEF Next

(* Every step keeps the invariant of the disk, if saves are quiet.         *)
LEMMA DiskKeeps ==
  ASSUME SavesAreQuiet', PipeInv, DiskInv, [Next]_vars
  PROVE  DiskInv'
<1>1. CASE UNCHANGED vars \/ Connect
  BY <1>1 DEF vars, adapter, server, disk, Connect, DiskInv, SavingInv, FileInv
<1>2. CASE Poll
  <2>1. UNCHANGED <<path, entity, saving, file>>
    BY <1>2, PollPosts DEF Posts, server, disk
  <2> QED BY <2>1 DEF SavesAreQuiet, DiskInv, SavingInv, FileInv
<1>3. CASE Reduce
  BY <1>3 DEF Reduce, disk, DiskInv, SavingInv, FileInv
<1>4. CASE Restart
  BY <1>4 DEF Restart, DiskInv, SavingInv, FileInv
<1> QED BY <1>1, <1>2, <1>3, <1>4, SaveEntitiesKeeps, SaveProjectionsKeeps DEF Next

-----------------------------------------------------------------------------
(* What the invariant says of the cells.                                   *)

(* In every phase galaxy and page agree with some history.                 *)
LEMMA SomeHistory ==
  ASSUME PipeInv
  PROVE  \E L : Has(L)
BY DEF PipeInv, Phase, Resting, Opening, OpeningInVain, Aborting, Reorganizing, Rebuilding,
       Connecting, Landing

(* The ledger is that of the path, and the index what is left of it.       *)
Tallies(g, B, D, E) ==
  /\ DOMAIN B = Created
  /\ DOMAIN D = (Created \cap SpentBy(PathTxs)) \ E
  /\ DOMAIN g.index = Unspent \ E

(* Where the history is that of the path, the ledger is what the path      *)
(* created and spent.                                                      *)
LEMMA HistoryOfPath ==
  ASSUME PathInv(path), NEW B, NEW D, NEW E, NEW g, NEW P, History(Txs(path), B, D, E),
         LedgerInv(g, P, B, D, E)
  PROVE  Tallies(g, B, D, E)
<1>1. \A tx : tx \in PathTxs <=> \E x \in Txs(path) : x[2] = tx
  <2>1. ASSUME NEW tx \in PathTxs PROVE \E x \in Txs(path) : x[2] = tx
    <3>1. PICK n \in DOMAIN path : tx \in Range(BlockTxs[path[n]])
      BY DEF PathTxs
    <3>2. PICK j \in DOMAIN BlockTxs[path[n]] : tx = BlockTxs[path[n]][j]
      BY <3>1 DEF Range
    <3>3. path[n] \in Blocks
      BY DEF PathInv, PartialChain
    <3>4. tx \in DOMAIN Inputs
      BY <3>2, <3>3, TxsOfBlock
    <3>5. <<n, tx>> \in Txs(path) /\ <<n, tx>>[2] = tx
      BY <3>2, <3>4 DEF Txs
    <3> QED BY <3>5
  <2>2. ASSUME NEW x \in Txs(path) PROVE x[2] \in PathTxs
    BY DEF Txs, PathTxs, Range
  <2> QED BY <2>1, <2>2
<1>2. DOMAIN B = Created
  <2>1. ASSUME NEW op \in DOMAIN B PROVE op \in Created
    BY <1>1 DEF History, Created, CreatedBy
  <2>2. ASSUME NEW op \in Created PROVE op \in DOMAIN B
    <3>1. PICK tx \in PathTxs : op \in Range(Outputs[tx])
      BY DEF Created, CreatedBy
    <3> QED BY <1>1, <3>1 DEF History
  <2> QED BY <2>1, <2>2
<1>3. DOMAIN D = (Created \cap SpentBy(PathTxs)) \ E
  <2>1. ASSUME NEW op \in DOMAIN D PROVE op \in (Created \cap SpentBy(PathTxs)) \ E
    BY <1>1, <1>2 DEF History, LedgerInv, SpentBy
  <2>2. ASSUME NEW op \in (Created \cap SpentBy(PathTxs)) \ E PROVE op \in DOMAIN D
    <3>1. PICK tx \in PathTxs : op \in Range(Inputs[tx])
      BY DEF SpentBy
    <3> QED BY <1>1, <1>2, <3>1 DEF History
  <2> QED BY <2>1, <2>2
<1> QED BY <1>2, <1>3 DEF LedgerInv, Unspent, Tallies

(* The invariant implies that cells and counters are those of the path,    *)
(* whenever the channel is empty.                                          *)
LEMMA CellsFollow ==
  ASSUME PipeInv
  PROVE  CellsAreCanonical /\ CountersAreCanonical
<1> SUFFICES ASSUME AtRest
             PROVE  /\ DOMAIN galaxy.index \subseteq Unspent
                    /\ Unspent \ DOMAIN galaxy.index \subseteq evicted
                    /\ galaxy.nBirths = Cardinality(Created)
                    /\ galaxy.nDeaths = Cardinality((Created \cap SpentBy(PathTxs)) \ evicted)
  BY DEF CellsAreCanonical, CountersAreCanonical
<1>1. Has(Txs(path)) /\ PathInv(path)
  BY RestingIfEmpty DEF AtRest, PipeInv
<1>2. PICK B, D : /\ Sound(galaxy, DOMAIN path, B, D, evicted, promised, {})
                  /\ History(Txs(path), B, D, evicted)
  BY <1>1 DEF Has, Whole
<1>3. LedgerInv(galaxy, DOMAIN path, B, D, evicted) /\ CountInv(galaxy, B, D)
  BY <1>2 DEF Sound
<1>4. Tallies(galaxy, B, D, evicted)
  BY <1>1, <1>2, <1>3, HistoryOfPath
<1> QED BY <1>3, <1>4 DEF CountInv, Tallies

(* The invariant implies that survivors keep their identities.             *)
LEMMA IdsFollow ==
  ASSUME PipeInv
  PROVE  SurvivorsKeepIds
<1>1. PICK L : Has(L)
  BY SomeHistory
<1>2. PICK B, D : Sound(galaxy, DOMAIN path, B, D, evicted, promised, {})
  BY <1>1 DEF Has, Whole
<1>3. IndexInv(galaxy) /\ PromInv(galaxy, B, evicted, promised)
  BY <1>2 DEF Sound
<1> SUFFICES ASSUME NEW op \in DOMAIN promised \cap DOMAIN galaxy.index
             PROVE  galaxy.index[op] = promised[op]
  BY DEF SurvivorsKeepIds
<1>4. PICK x \in Range(galaxy.rows) : IsAlive(x) /\ x.op = op
  BY <1>3 DEF IndexInv
<1>5. galaxy.index[op] = x.id /\ x \in Carriers(galaxy)
  BY <1>3, <1>4 DEF IndexInv, Carriers
<1> QED BY <1>3, <1>4, <1>5 DEF PromInv

(* The invariant implies that a page shows the galaxy.                     *)
LEMMA PageFollows ==
  ASSUME PipeInv
  PROVE  PageShowsGalaxy
<1> DEFINE s == SnapshotOf(galaxy)
<1>1. PICK L : Has(L)
  BY SomeHistory
<1>2. PICK B, D : Sound(galaxy, DOMAIN path, B, D, evicted, promised, {})
  BY <1>1 DEF Has, Whole
<1>3. Mirrors(page, galaxy)
  BY <1>1 DEF Has, Whole
<1>4. Mirrors(s, galaxy)
  BY <1>2, SnapshotMirrors
<1>5. DOMAIN s.cells = RowIds(galaxy)
  <2>1. Ids(galaxy.rows) = RowIds(galaxy)
    BY DEF Ids, RowIds, Range
  <2> QED BY <2>1 DEF SnapshotOf
<1> HIDE DEF s
<1>6. ASSUME NEW id \in DOMAIN s.cells
      PROVE  id \in DOMAIN page.cells /\ page.cells[id] = s.cells[id]
  <2>1. PICK x \in Range(galaxy.rows) : x.id = id
    BY <1>5 DEF RowIds
  <2> QED BY <1>3, <1>4, <2>1 DEF Mirrors, Shows
<1>7. DOMAIN page.cells \subseteq DOMAIN s.cells \cup {galaxy.limbo[op].id : op \in DOMAIN galaxy.limbo}
  BY <1>3, <1>5 DEF Mirrors, Shows, LimboIds
<1>8. page.births = s.births /\ page.deaths = s.deaths
  BY <1>3, <1>4 DEF Mirrors
<1> QED BY <1>6, <1>7, <1>8 DEF PageShowsGalaxy, s

(* The invariant implies that nothing stays in the limbo for good.         *)
LEMMA GhostsFollow ==
  ASSUME PipeInv
  PROVE  NoGhosts
BY RestingIfEmpty DEF NoGhosts, AtRest, Ends, Parked

(* The invariant implies that the index names just the living rows.        *)
LEMMA IndexFollows ==
  ASSUME PipeInv
  PROVE  IndexNamesTheLiving
<1>1. PICK L : Has(L)
  BY SomeHistory
<1>2. PICK B, D : Sound(galaxy, DOMAIN path, B, D, evicted, promised, {})
  BY <1>1 DEF Has, Whole
<1>3. /\ Shape(galaxy) /\ NamesInv(galaxy) /\ IndexInv(galaxy) /\ ParkedInv(galaxy, B)
      /\ LedgerInv(galaxy, DOMAIN path, B, D, evicted)
  BY <1>2 DEF Sound
<1> DEFINE living == {i \in DOMAIN galaxy.rows : IsAlive(galaxy.rows[i])}
<1>4. \A i \in DOMAIN galaxy.rows : galaxy.rows[i] \in Range(galaxy.rows)
  BY DEF Range
<1>5. DOMAIN galaxy.index = {galaxy.rows[i].op : i \in living}
  <2>1. ASSUME NEW op \in DOMAIN galaxy.index PROVE \E i \in living : galaxy.rows[i].op = op
    BY <1>3 DEF IndexInv, Range
  <2>2. ASSUME NEW i \in living PROVE galaxy.rows[i].op \in DOMAIN galaxy.index
    BY <1>3, <1>4 DEF IndexInv
  <2> QED BY <2>1, <2>2
<1>6. \A i \in living : galaxy.index[galaxy.rows[i].op] = galaxy.rows[i].id
  BY <1>3, <1>4 DEF IndexInv
<1>7. \A i, j \in DOMAIN galaxy.rows : galaxy.rows[i].id = galaxy.rows[j].id => i = j
  BY <1>3 DEF Shape, Distinct
<1>8. ASSUME NEW op \in DOMAIN galaxy.limbo PROVE galaxy.limbo[op].id \notin Ids(galaxy.rows)
  <2> SUFFICES ASSUME NEW i \in DOMAIN galaxy.rows, galaxy.limbo[op].id = galaxy.rows[i].id
               PROVE  FALSE
    BY DEF Ids
  <2> DEFINE x == galaxy.limbo[op]
             y == galaxy.rows[i]
  <2>1. x \in Carriers(galaxy) /\ y \in Carriers(galaxy) /\ y \in Range(galaxy.rows)
    BY <1>4 DEF Carriers, Range
  <2>2. x.op = y.op
    BY <1>3, <2>1 DEF NamesInv
  <2>3. x.op \notin DOMAIN B /\ y.op \in DOMAIN B
    BY <1>3, <2>1 DEF ParkedInv, LedgerInv
  <2> QED BY <2>2, <2>3
<1> QED BY <1>5, <1>6, <1>7, <1>8 DEF IndexNamesTheLiving

-----------------------------------------------------------------------------
(* How far back the journal of the cells reaches in the life of one        *)
(* process.                                                                *)

(* To go back to an anchor of a, the galaxy g that followed p can undo.    *)
Backed(a, p, g) ==
  \A m \in DOMAIN a : \A k \in DOMAIN p : m < k => m + 1 \in DOMAIN g.hashes

(* The anchors lie no deeper than the window and the block below it.       *)
Shallow(a) == \A m, k \in DOMAIN a : m + (Window + 1) > k

(* They lie so close to n, the top of p.                                   *)
Near(a, p, n) ==
  \A m \in DOMAIN a : /\ m \in Nat /\ m + (Window + 1) > n
                      /\ \A k \in DOMAIN p : m < k => m + 1 \in DOMAIN p

(* Wherever the adapter may go back to, the journal reaches.               *)
ReachInv == Shallow(anchors) /\ (Rebuilding \/ Backed(anchors, path, galaxy))

(* A block connected within the window leaves the anchors within the       *)
(* journal.                                                                *)
LEMMA BackedFurther ==
  ASSUME NEW a, NEW p, NEW q, NEW g, NEW h, NEW n \in Nat, Backed(a, p, g),
         Near(a, q, n), Reaches(g, h, n),
         \A m \in DOMAIN q : m \in DOMAIN p \/ m \in DOMAIN h.hashes,
         DOMAIN p \subseteq Nat
  PROVE  Backed(a, q, h)
<1> SUFFICES ASSUME NEW m \in DOMAIN a, NEW k \in DOMAIN q, m < k
             PROVE  m + 1 \in DOMAIN h.hashes
  BY DEF Backed
<1>1. m \in Nat /\ m + (Window + 1) > n /\ m + 1 \in DOMAIN q
  BY DEF Near
<1>2. CASE m + 1 \in DOMAIN p
  <2>1. m + 1 \in DOMAIN g.hashes
    BY <1>1, <1>2 DEF Backed
  <2>2. (m + 1) + Window > n
    BY <1>1, GalaxyAssumption
  <2> QED BY <2>1, <2>2 DEF Reaches
<1> QED BY <1>1, <1>2

(* A rollback leaves the anchors below the fork within the journal.        *)
LEMMA BackedCut ==
  ASSUME NEW a, NEW b, NEW p, NEW g, NEW h, NEW n \in Nat, DOMAIN b \subseteq DOMAIN a,
         DOMAIN a \subseteq Nat, DOMAIN p \subseteq Nat,
         Backed(a, p, g), Spared(g, h, n)
  PROVE  Backed(b, Below(p, n), h)
<1> SUFFICES ASSUME NEW m \in DOMAIN b, NEW k \in DOMAIN Below(p, n), m < k
             PROVE  m + 1 \in DOMAIN h.hashes
  BY DEF Backed
<1>1. k \in DOMAIN p /\ k < n
  BY BelowFacts
<1>2. m + 1 \in DOMAIN g.hashes
  BY <1>1 DEF Backed
<1>3. m + 1 < n
  BY <1>1
<1> QED BY <1>2, <1>3 DEF Spared

(* The same journal backs the same anchors.                                *)
LEMMA BackedSame ==
  ASSUME NEW a, NEW p, NEW g, NEW h, Backed(a, p, g), h.hashes = g.hashes
  PROVE  Backed(a, p, h)
BY DEF Backed

(* With nothing followed there is nothing to undo.                         *)
LEMMA BackedByNothing ==
  ASSUME NEW p, DOMAIN p = {}
  PROVE  \A a, g : Backed(a, p, g)
BY DEF Backed

(* The anchors lie within the window below the top of the path, without a  *)
(* hole above them.                                                        *)
LEMMA AnchorsNear ==
  ASSUME NEW p, NEW w, NEW a, NEW n, PathInv(p), Greatest(p, n), Follows(p, w, a), Shallow(a)
  PROVE  Near(a, p, n)
<1> DEFINE f == Over(w, p)
<1>1. Led(f, a) /\ PartialChain(w) /\ \A k \in DOMAIN p, m \in DOMAIN w : k < m
  BY DEF Follows
<1>2. DOMAIN f = DOMAIN w \cup DOMAIN p
  BY OverFacts
<1> HIDE DEF f
<1>3. DOMAIN w \subseteq Nat /\ DOMAIN p \subseteq Nat /\ DOMAIN a \subseteq Nat
  BY <1>1 DEF PathInv, PartialChain, Led
<1>4. n \in DOMAIN f /\ n \in DOMAIN p
  BY <1>2 DEF Greatest
<1>5. PICK t \in DOMAIN a : (\A m \in DOMAIN a : m + (Window + 1) > t) /\ Greatest(f, t)
  BY <1>1, <1>4 DEF Led, Shallow
<1>6. n <= t
  BY <1>4, <1>5 DEF Greatest
<1>7. Window \in Nat
  BY GalaxyAssumption
<1> SUFFICES ASSUME NEW m \in DOMAIN a
             PROVE  /\ m \in Nat /\ m + (Window + 1) > n
                    /\ \A k \in DOMAIN p : m < k => m + 1 \in DOMAIN p
  BY DEF Near
<1>8. m \in Nat /\ m + (Window + 1) > n
  <2>1. m + (Window + 1) > t /\ m \in Nat /\ t \in Nat /\ n \in Nat
    BY <1>3, <1>4, <1>5
  <2> QED BY <1>6, <1>7, <2>1
<1>9. ASSUME NEW k \in DOMAIN p, m < k PROVE m + 1 \in DOMAIN p
  <2>1. m + 1 \in DOMAIN f
    BY <1>1, <1>2, <1>9 DEF Led, Adjoins
  <2>2. m + 1 \notin DOMAIN w
    <3>1. k \in Nat /\ m \in Nat /\ m + 1 <= k
      BY <1>3, <1>9
    <3>2. \A i \in DOMAIN w : k < i /\ i \in Nat
      BY <1>1, <1>3
    <3> QED BY <3>1, <3>2
  <2> QED BY <1>2, <2>1, <2>2
<1> QED BY <1>8, <1>9

-----------------------------------------------------------------------------
(* Which phase the channel is in.                                          *)

(* A channel that starts with anything but a rebuild or its envelope leads *)
(* to no rebuild.                                                          *)
LEMMA NotRebuilding ==
  ASSUME NEW m, NEW q1, Holds(queue, m, q1), m.type # "rebuild",
         m.type = "progress" => q1 = <<>> \/ q1 = <<ReplayCloses(TRUE)>>
  PROVE  ~ Rebuilding
<1> SUFFICES ASSUME Rebuilding PROVE FALSE
  OBVIOUS
<1>1. PICK n \in Nat : \/ queue = <<ReplayOpens, ChainRebuild(n), ReplayOpens>>
                       \/ queue = <<ChainRebuild(n), ReplayOpens>>
  BY DEF Rebuilding
<1>2. CASE queue = <<ReplayOpens, ChainRebuild(n), ReplayOpens>>
  <2>1. m = ReplayOpens /\ q1 = <<ChainRebuild(n), ReplayOpens>>
    BY <1>2, ThreeHeld DEF Holds
  <2>2. m.type = "progress"
    BY <2>1, ProgressMsgs DEF ProgressMsg
  <2>3. q1 # <<>> /\ q1 # <<ReplayCloses(TRUE)>>
    BY <2>1
  <2> QED BY <2>2, <2>3
<1>3. CASE queue = <<ChainRebuild(n), ReplayOpens>>
  <2>1. m = ChainRebuild(n)
    BY <1>3, TwoHeld DEF Holds
  <2> QED BY <2>1 DEF ChainRebuild
<1> QED BY <1>1, <1>2, <1>3

(* An empty channel leads to no rebuild.                                   *)
LEMMA NothingToRebuild ==
  ASSUME queue = <<>>
  PROVE  ~ Rebuilding
BY DEF Rebuilding

(* A reduction that leaves the path alone, and hashes as they were.        *)
LEMMA ReachStays ==
  ASSUME ReachInv, NEW m, NEW q1, Holds(queue, m, q1), m.type # "rebuild",
         m.type = "progress" => q1 = <<>> \/ q1 = <<ReplayCloses(TRUE)>>,
         UNCHANGED <<anchors, path>>, galaxy'.hashes = galaxy.hashes
  PROVE  ReachInv'
<1>1. Shallow(anchors) /\ Backed(anchors, path, galaxy)
  BY NotRebuilding DEF ReachInv
<1>2. Backed(anchors', path', galaxy')
  BY <1>1, BackedSame
<1> QED BY <1>1, <1>2 DEF ReachInv

(* The types of the messages.                                              *)
LEMMA TypesOf ==
  /\ \A n : ChainReorganized(n).type = "reorganized" /\ ChainReorganized(n).from = n
  /\ \A n : ChainRebuild(n).type = "rebuild"
  /\ \A b : BlockMined(b).type = "mined"
  /\ \A tx, b : TxLanded(tx, b).type = "tx"
  /\ HydrationCompleted.type = "hydrated"
  /\ ReplayOpens.type = "progress" /\ \A c : ReplayCloses(c).type = "progress"
BY DEF ChainReorganized, ChainRebuild, BlockMined, TxLanded, HydrationCompleted, ReplayOpens,
       ReplayCloses

(* The end of a range leaves the anchors within the journal.               *)
LEMMA RestingReaches ==
  ASSUME Resting, Reduce, ReachInv
  PROVE  ReachInv'
<1>1. queue # <<>> /\ queue \in Tails
  BY DEF Reduce, Resting
<1>2. CASE queue = <<ReplayCloses(TRUE)>> /\ Holds(queue, ReplayCloses(TRUE), <<>>)
  <2>1. UNCHANGED <<anchors, path>> /\ galaxy'.hashes = galaxy.hashes
    BY <1>2, ProgressMsgs, ProgressTaken DEF Resting
  <2> QED BY <1>2, <2>1, TypesOf, ReachStays
<1>3. CASE /\ queue = <<HydrationCompleted, ReplayCloses(TRUE)>>
           /\ Holds(queue, HydrationCompleted, <<ReplayCloses(TRUE)>>)
           /\ <<ReplayCloses(TRUE)>> \in Tails /\ <<ReplayCloses(TRUE)>> # <<>>
  <2>1. Takes(HydrationCompleted, <<ReplayCloses(TRUE)>>)
    BY <1>3, Taken
  <2>2. path' = path /\ anchors' = anchors
    BY <2>1, TypesOf, EntityStays DEF Takes
  <2>3. galaxy'.hashes = galaxy.hashes
    BY <2>1, HydratedHandled DEF Takes, Resting, Has
  <2> QED BY <1>3, <2>2, <2>3, TypesOf, ReachStays
<1> QED BY <1>1, <1>2, <1>3, TailsHold

(* The envelope leaves the anchors within the journal.                     *)
LEMMA EnvelopeReaches ==
  ASSUME Opening \/ OpeningInVain \/ Aborting, Reduce, ReachInv
  PROVE  ReachInv'
<1>1. CASE Opening
  <2>1. Holds(queue, ReplayOpens, <<>>)
    BY <1>1, OneHeld DEF Opening
  <2>2. UNCHANGED <<anchors, path>> /\ galaxy'.hashes = galaxy.hashes
    BY <1>1, <2>1, ProgressMsgs, ProgressTaken DEF Opening
  <2> QED BY <2>1, <2>2, TypesOf, ReachStays
<1>2. CASE OpeningInVain
  <2>1. Holds(queue, ReplayOpens, <<ReplayCloses(TRUE)>>)
    BY <1>2, TwoHeld DEF OpeningInVain
  <2>2. UNCHANGED <<anchors, path>> /\ galaxy'.hashes = galaxy.hashes
    BY <1>2, <2>1, ProgressMsgs, ProgressTaken DEF OpeningInVain
  <2> QED BY <2>1, <2>2, TypesOf, ReachStays
<1>3. CASE Aborting
  <2>1. Holds(queue, ReplayCloses(FALSE), <<>>)
    BY <1>3, OneHeld DEF Aborting
  <2>2. UNCHANGED <<anchors, path>> /\ galaxy'.hashes = galaxy.hashes
    BY <1>3, <2>1, ProgressMsgs, ProgressTaken DEF Aborting
  <2> QED BY <2>1, <2>2, TypesOf, ReachStays
<1> QED BY <1>1, <1>2, <1>3

(* A rollback leaves the anchors below the fork within the journal.        *)
LEMMA ReorganizingReaches ==
  ASSUME PipeInv, WithinJournal, Reorganizing, Reduce, ReachInv
  PROVE  ReachInv'
<1>1. PICK n \in DOMAIN anchors :
        /\ queue = <<ChainReorganized(n + 1), ReplayOpens>>
        /\ Following(Below(path, n + 1)) /\ Has(Txs(path))
        /\ n + 1 \in Nat /\ ~ Unread /\ resuming
  BY DEF Reorganizing
<1>2. ReorgTaken(n + 1)
  BY <1>1, ReorgReduces DEF PipeInv
<1>3. /\ path' = Below(path, n + 1) /\ anchors' = anchors
      /\ Spared(galaxy, galaxy', n + 1)
  BY <1>2 DEF ReorgTaken
<1>4. Holds(queue, ChainReorganized(n + 1), <<ReplayOpens>>)
  BY <1>1, TwoHeld
<1>5. Shallow(anchors) /\ Backed(anchors, path, galaxy)
  BY <1>4, TypesOf, NotRebuilding DEF ReachInv
<1>6. DOMAIN path \subseteq Nat /\ DOMAIN anchors \subseteq Nat
  BY <1>1 DEF PipeInv, PathInv, PartialChain, Following, Follows, Led
<1>7. Backed(anchors', path', galaxy')
  BY <1>1, <1>3, <1>5, <1>6, BackedCut
<1> QED BY <1>3, <1>5, <1>7 DEF ReachInv

(* A rebuild leaves nothing to undo.                                       *)
LEMMA RebuildingReaches ==
  ASSUME Rebuilding, Reduce, ReachInv
  PROVE  ReachInv'
<1>1. PICK n \in Nat :
        /\ \/ queue = <<ReplayOpens, ChainRebuild(n), ReplayOpens>>
           \/ queue = <<ChainRebuild(n), ReplayOpens>>
        /\ Follows(NoBlocks, window, anchors) /\ Has(Txs(path)) /\ ~ resuming
  BY DEF Rebuilding
<1>2. Shallow(anchors') /\ anchors' = anchors
  BY DEF ReachInv, Reduce
<1>3. CASE queue = <<ReplayOpens, ChainRebuild(n), ReplayOpens>>
  <2>1. Holds(queue, ReplayOpens, <<ChainRebuild(n), ReplayOpens>>)
    BY <1>3, ThreeHeld
  <2>2. /\ queue' = <<ChainRebuild(n), ReplayOpens>>
        /\ UNCHANGED <<anchors, resuming, window>>
        /\ Has(Txs(path))'
    BY <1>1, <2>1, ProgressMsgs, ProgressTaken
  <2>3. Rebuilding'
    BY <1>1, <2>2 DEF Rebuilding
  <2> QED BY <1>2, <2>3 DEF ReachInv
<1>4. CASE queue = <<ChainRebuild(n), ReplayOpens>>
  <2>1. Holds(queue, ChainRebuild(n), <<ReplayOpens>>)
    BY <1>4, TwoHeld
  <2>2. path' = NoBlocks
    BY <2>1, Taken, EntityRebuilt DEF Takes
  <2>3. DOMAIN path' = {}
    BY <2>2, NoBlocksFacts
  <2> QED BY <1>2, <2>3, BackedByNothing DEF ReachInv
<1> QED BY <1>1, <1>3, <1>4

(* A block announced leaves the anchors within the journal.                *)
LEMMA ConnectingReaches ==
  ASSUME RecentCap >= Window + 1, PipeInv, Connecting, Reduce, ReachInv
  PROVE  ReachInv'
<1>1. PICK b \in Blocks, t \in Tails :
        /\ queue = BlockMutations(b) \o t
        /\ Following(Put(path, Height[b], b)) /\ PathInv(Put(path, Height[b], b))
        /\ \A m \in DOMAIN path : m < Height[b]
        /\ Has(Txs(path)) /\ Ends(t) /\ (galaxy.replay \/ ~ Parked)
  BY DEF Connecting
<1> DEFINE n == Height[b]
<1>2. MinedTaken(b, t)
  BY <1>1, MinedReduces DEF PipeInv
<1>3. /\ path' = Put(path, n, b) /\ PathInv(path')
      /\ Follows(path', window', anchors') /\ anchors' = anchors
      /\ n \in DOMAIN galaxy'.hashes /\ Reaches(galaxy, galaxy', n)
  BY <1>1, <1>2 DEF MinedTaken, MinedWhole, Following
<1>4. DOMAIN path' = DOMAIN path \cup {n}
  BY <1>3 DEF Put
<1>5. n \in Nat /\ DOMAIN path \subseteq Nat
  BY TreeAssumption, PathBound DEF PipeInv
<1>6. Greatest(path', n)
  BY <1>1, <1>4, <1>5 DEF Greatest
<1>7. Shallow(anchors') /\ Near(anchors', path', n)
  BY <1>3, <1>6, AnchorsNear DEF ReachInv
<1>8. ~ Rebuilding
  BY <1>1, FirstMined, TypesOf, NotRebuilding
<1>9. Backed(anchors', path, galaxy)
  BY <1>3, <1>8 DEF ReachInv
<1> HIDE DEF n
<1>10. \A m \in DOMAIN path' : m \in DOMAIN path \/ m \in DOMAIN galaxy'.hashes
  BY <1>3, <1>4
<1>11. Backed(anchors', path', galaxy')
  BY <1>3, <1>5, <1>7, <1>9, <1>10, BackedFurther
<1> QED BY <1>7, <1>11 DEF ReachInv

(* A transaction leaves the anchors within the journal.                    *)
LEMMA LandingReaches ==
  ASSUME RecentCap >= Window + 1, PipeInv, Landing, Reduce, ReachInv
  PROVE  ReachInv'
<1>0. PICK n \in DOMAIN path : \E k \in 0 .. Len(BlockTxs[path[n]]) - 1 : \E t \in Tails :
        /\ queue = Left(path[n], k) \o t
        /\ Greatest(path, n) /\ n \in DOMAIN galaxy.hashes
        /\ Following(path) /\ Has(Sent(path, n, k)) /\ Ends(t)
  BY DEF Landing
<1>1. PICK k \in 0 .. Len(BlockTxs[path[n]]) - 1, t \in Tails :
        /\ queue = Left(path[n], k) \o t
        /\ Greatest(path, n) /\ n \in DOMAIN galaxy.hashes
        /\ Following(path) /\ Has(Sent(path, n, k)) /\ Ends(t)
  BY <1>0
<1>2. TxTaken(n, k, t)
  BY <1>1, TxReduces DEF PipeInv
<1>3. UNCHANGED <<anchors, path>> /\ Reaches(galaxy, galaxy', n)
  BY <1>2 DEF TxTaken, TxWhole
<1>4. path[n] \in Blocks /\ n \in Nat /\ DOMAIN path \subseteq Nat
  BY DEF PipeInv, PathInv, PartialChain
<1>5. ~ Rebuilding
  BY <1>1, <1>4, NextTx, TypesOf, NotRebuilding
<1>6. Shallow(anchors) /\ Near(anchors, path, n)
  BY <1>1, AnchorsNear DEF PipeInv, Following, ReachInv
<1>7. Backed(anchors, path, galaxy)
  BY <1>5 DEF ReachInv
<1>8. Backed(anchors, path, galaxy')
  BY <1>3, <1>4, <1>6, <1>7, BackedFurther
<1> QED BY <1>3, <1>6, <1>8 DEF ReachInv

(* Every step of the reducer leaves the anchors within the journal.        *)
LEMMA ReduceReaches ==
  ASSUME RecentCap >= Window + 1, PipeInv, WithinJournal, Reduce, ReachInv
  PROVE  ReachInv'
BY RestingReaches, EnvelopeReaches, ReorganizingReaches, RebuildingReaches, ConnectingReaches,
   LandingReaches DEF PipeInv, Phase

(* A rollback that the adapter asked for is within the journal.            *)
LEMMA JournalReaches ==
  ASSUME PipeInv, ReachInv
  PROVE  WithinJournal
<1> SUFFICES ASSUME queue # <<>>, Head(queue).type = "reorganized"
             PROVE  \/ Head(queue).from \in DOMAIN galaxy.hashes
                    \/ \A n \in DOMAIN path : n < Head(queue).from
  BY DEF WithinJournal
<1>1. ~ Resting
  BY TailsHold, TypesOf DEF Resting, Holds
<1>2. ~ Opening /\ ~ OpeningInVain /\ ~ Aborting
  <2>1. ~ Opening
    BY OneHeld, TypesOf DEF Opening, Holds
  <2>2. ~ OpeningInVain
    <3>1. OpeningInVain => Holds(queue, ReplayOpens, <<ReplayCloses(TRUE)>>)
      BY TwoHeld DEF OpeningInVain
    <3> QED BY <3>1, TypesOf DEF Holds
  <2>3. ~ Aborting
    <3>1. Aborting => Holds(queue, ReplayCloses(FALSE), <<>>)
      BY OneHeld DEF Aborting
    <3> QED BY <3>1, TypesOf DEF Holds
  <2> QED BY <2>1, <2>2, <2>3
<1>3. ~ Rebuilding
  BY ThreeHeld, TwoHeld, TypesOf DEF Rebuilding, Holds
<1>4. ~ Connecting
  <2> SUFFICES ASSUME NEW b \in Blocks, NEW t \in Tails
               PROVE  queue # BlockMutations(b) \o t
    BY DEF Connecting
  <2> QED BY FirstMined, TypesOf DEF Holds
<1>5. ~ Landing
  <2> SUFFICES ASSUME NEW n \in DOMAIN path, NEW k \in 0 .. Len(BlockTxs[path[n]]) - 1,
                      NEW t \in Tails
               PROVE  queue # Left(path[n], k) \o t
    BY DEF Landing
  <2>1. path[n] \in Blocks
    BY DEF PipeInv, PathInv, PartialChain
  <2> QED BY <2>1, NextTx, TypesOf DEF Holds
<1>6. Reorganizing
  BY <1>1, <1>2, <1>3, <1>4, <1>5 DEF PipeInv, Phase
<1>7. PICK n \in DOMAIN anchors : /\ queue = <<ChainReorganized(n + 1), ReplayOpens>>
                                  /\ n + 1 \in Nat
                                  /\ Following(Below(path, n + 1))
  BY <1>6 DEF Reorganizing
<1>8. Head(queue).from = n + 1
  BY <1>7, TwoHeld, TypesOf DEF Holds
<1>9. Backed(anchors, path, galaxy)
  BY <1>3 DEF ReachInv
<1>10. DOMAIN path \subseteq Nat /\ n \in Nat
  BY <1>7 DEF PipeInv, PathInv, PartialChain, Following, Follows, Led
<1>11. ASSUME NEW k \in DOMAIN path, ~ (k < n + 1) PROVE n + 1 \in DOMAIN galaxy.hashes
  <2>1. n < k
    BY <1>10, <1>11
  <2> QED BY <1>9, <2>1 DEF Backed
<1> QED BY <1>8, <1>11

(* A step that leaves the server alone: each anchor is an old one, or lies *)
(* above the path.                                                         *)
LEMMA AnchorsReach ==
  ASSUME ReachInv, ~ Rebuilding, UNCHANGED <<path, galaxy>>, Shallow(anchors'),
         \A m \in DOMAIN anchors' : m \in DOMAIN anchors \/ \A k \in DOMAIN path : ~ (m < k)
  PROVE  ReachInv'
<1>1. Backed(anchors, path, galaxy)
  BY DEF ReachInv
<1>2. Backed(anchors', path, galaxy)
  BY <1>1 DEF Backed
<1> QED BY <1>2 DEF ReachInv

(* A step of the adapter changes nothing that backs the anchors.           *)
LEMMA PostReaches ==
  ASSUME ReachInv, NEW ms, Posts(ms)
  PROVE  /\ ~ Rebuilding /\ UNCHANGED <<path, galaxy>>
         /\ DOMAIN anchors' \subseteq DOMAIN anchors => ReachInv'
         /\ Shallow(anchors') /\ DOMAIN path = {} => ReachInv'
         /\ Shallow(anchors') /\ Rebuilding' => ReachInv'
<1>1. ~ Rebuilding /\ UNCHANGED <<path, galaxy>>
  BY NothingToRebuild DEF Posts, server
<1>2. ASSUME DOMAIN anchors' \subseteq DOMAIN anchors PROVE ReachInv'
  <2>1. Shallow(anchors')
    BY <1>2 DEF ReachInv, Shallow
  <2> QED BY <1>1, <1>2, <2>1, AnchorsReach
<1>3. ASSUME Shallow(anchors'), DOMAIN path = {} PROVE ReachInv'
  BY <1>1, <1>3, AnchorsReach
<1>4. ASSUME Shallow(anchors'), Rebuilding' PROVE ReachInv'
  BY <1>4 DEF ReachInv
<1> QED BY <1>1, <1>2, <1>3, <1>4

(* What Newest keeps lies within the window.                               *)
LEMMA NewestShallow ==
  ASSUME NEW f, NEW n \in Nat, \A m \in DOMAIN f : m \in Nat /\ m <= n
  PROVE  Shallow(Newest(f, Window + 1, n))
<1>1. Window \in Nat
  BY GalaxyAssumption
<1>2. DOMAIN Newest(f, Window + 1, n) = {m \in DOMAIN f : m + (Window + 1) > n}
  BY DEF Newest, Restrict
<1> QED BY <1>1, <1>2 DEF Shallow

(* A hydration leaves anchors within the window.                           *)
LEMMA HydratedShallow ==
  ASSUME NEW b \in Blocks, NEW lo \in 0 .. Height[b], NEW again, Hydrate(b, lo, again)
  PROVE  Shallow(anchors')
<1> DEFINE n == Height[b]
           v == IF lo = 0 THEN window' ELSE Put(window', lo - 1, Parent[window'[lo]])
<1>1. n \in Nat /\ lo \in Nat /\ lo <= n
  BY TreeAssumption
<1>2. anchors' = Newest(v, Window + 1, n) /\ DOMAIN window' = lo .. n
  BY DEF Hydrate
<1>3. DOMAIN v = DOMAIN window' \/ (lo # 0 /\ DOMAIN v = DOMAIN window' \cup {lo - 1})
  BY DEF Put
<1> HIDE DEF v, n
<1>4. \A m \in DOMAIN v : m \in Nat /\ m <= n
  BY <1>1, <1>2, <1>3
<1> QED BY <1>1, <1>2, <1>4, NewestShallow

(* A block above the anchors adds no anchor that could be rolled back to.  *)
LEMMA FollowReaches ==
  ASSUME RecentCap >= Window + 1, PipeInv, ReachInv, NEW ms, Polls(ms), anchors # NoBlocks,
         NEW b \in Blocks \ {Genesis}, Follow(b)
  PROVE  ReachInv'
<1>1. Led(path, anchors) /\ Posts(ms)
  BY Polled
<1>2. DOMAIN anchors # {}
  BY <1>1, SomeAnchor DEF Led
<1>3. /\ Parent[b] = anchors[Max(DOMAIN anchors)]
      /\ anchors' = Newest(Put(anchors, Height[b], b), Window + 1, Height[b])
  BY DEF Follow, Cursor
<1>4. Extends(path, anchors, b, anchors')
  BY <1>1, <1>2, <1>3, LedFurther
<1>5. Height[b] \in Nat /\ DOMAIN path \subseteq Nat
  BY TreeAssumption, PathBound DEF PipeInv
<1>6. \A k \in DOMAIN path : ~ (Height[b] < k)
  BY <1>4, <1>5 DEF Extends
<1>7. \A m \in DOMAIN anchors' : m \in DOMAIN anchors \/ \A k \in DOMAIN path : ~ (m < k)
  BY <1>4, <1>6 DEF Extends
<1>8. Shallow(anchors')
  <2>1. PICK t \in DOMAIN anchors' : /\ Greatest(anchors', t)
                                     /\ Greatest(Put(path, Height[b], b), t)
    BY <1>4 DEF Extends, Led, Put
  <2>2. t = Height[b]
    BY <1>4, <1>5, <2>1 DEF Extends, Greatest, Put
  <2>3. \A m \in DOMAIN anchors' : m + (Window + 1) > Height[b] /\ m <= Height[b]
    BY <1>3, <2>1, <2>2 DEF Newest, Restrict, Greatest
  <2>4. DOMAIN anchors' \subseteq Nat /\ Window \in Nat
    BY <1>4, GalaxyAssumption DEF Extends, Led, PartialChain
  <2> QED BY <1>5, <2>3, <2>4 DEF Shallow
<1> QED BY <1>1, <1>7, <1>8, PostReaches, AnchorsReach

(* Every step of the adapter leaves the anchors within the journal.        *)
LEMMA PollReaches ==
  ASSUME RecentCap >= Window + 1, PipeInv, ReachInv, Poll
  PROVE  ReachInv'
<1>1. CASE BootHydration
  <2>1. PICK b \in Blocks : \E lo \in 0 .. Height[b] : Hydrate(b, lo, FALSE)
    BY <1>1 DEF BootHydration
  <2>2. PICK lo \in 0 .. Height[b] : Hydrate(b, lo, FALSE)
    BY <2>1
  <2>3. Posts(<<ReplayOpens>>) /\ queue = <<>> /\ anchors = NoBlocks
    BY <1>1, <2>2, Hydrated DEF BootHydration
  <2>4. DOMAIN path = {}
    BY <2>3, NoAnchorNoPath, NoBlocksFacts
  <2>5. Shallow(anchors')
    BY <2>2, HydratedShallow
  <2> QED BY <2>3, <2>4, <2>5, PostReaches
<1>2. CASE RebuildWindow
  <2>0. PICK b \in Blocks : \E lo \in 0 .. Height[b] : Hydrate(b, lo, TRUE)
    BY <1>2 DEF RebuildWindow
  <2>1. PICK lo \in 0 .. Height[b] : Hydrate(b, lo, TRUE)
    BY <2>0
  <2>2. Posts(<<ReplayOpens, ChainRebuild(lo), ReplayOpens>>)
    BY <2>1, Hydrated
  <2>3. Rebuilding'
    BY <1>2, RebuildWindowKeeps
  <2>4. Shallow(anchors')
    BY <2>1, HydratedShallow
  <2> QED BY <2>2, <2>3, <2>4, PostReaches
<1>3. CASE ReplayWindow
  <2>1. (\E ms : Posts(ms)) /\ anchors' = anchors
    BY <1>3 DEF ReplayWindow
  <2> QED BY <2>1, PostReaches
<1>4. CASE HydrationFails \/ OpenRange \/ RangeFails
  <2>1. (\E ms : Posts(ms)) /\ anchors' = anchors
    BY <1>4 DEF HydrationFails, OpenRange, RangeFails, Polls
  <2> QED BY <2>1, PostReaches
<1>5. CASE BootLive
  <2>1. Posts(<<>>) /\ queue = <<>> /\ anchors = NoBlocks
    BY <1>5 DEF BootLive, Polls, Posts
  <2>2. DOMAIN path = {}
    BY <2>1, NoAnchorNoPath, NoBlocksFacts
  <2>3. PICK b \in Blocks \ {Genesis} : anchors' = Put(NoBlocks, Height[b] - 1, Parent[b])
    BY <1>5 DEF BootLive
  <2>4. Height[b] - 1 \in Int /\ DOMAIN anchors' = {Height[b] - 1} /\ Window \in Nat
    BY <2>3, TreeAssumption, NoBlocksFacts, GalaxyAssumption DEF Put
  <2>5. Shallow(anchors')
    BY <2>4 DEF Shallow
  <2> QED BY <2>1, <2>2, <2>5, PostReaches
<1>6. CASE PollLive
  <2>1. /\ anchors # NoBlocks
        /\ \E b \in Blocks \ {Genesis} : Follow(b) /\ Polls(BlockMutations(b))
    BY <1>6 DEF PollLive
  <2> QED BY <2>1, FollowReaches
<1>7. CASE ReplayBlock
  <2>1. PICK b \in Blocks \ {Genesis} : Follow(b) /\ \E ms : Polls(ms)
    BY <1>7 DEF ReplayBlock
  <2>2. anchors # NoBlocks
    BY <1>7, NoBlocksFacts DEF PipeInv, ReplayBlock
  <2> QED BY <2>1, <2>2, FollowReaches
<1>8. CASE Reorganize
  <2>1. PICK n \in DOMAIN anchors : /\ Polls(<<ChainReorganized(n + 1), ReplayOpens>>)
                                    /\ anchors' = Below(anchors, n + 1)
    BY <1>8 DEF Reorganize
  <2>2. DOMAIN anchors' \subseteq DOMAIN anchors
    BY <2>1, BelowFacts
  <2>3. Posts(<<ChainReorganized(n + 1), ReplayOpens>>)
    BY <2>1 DEF Polls
  <2> QED BY <2>2, <2>3, PostReaches
<1> QED BY <1>1, <1>2, <1>3, <1>4, <1>5, <1>6, <1>7, <1>8 DEF Poll

(* Every step within the life of a process leaves the anchors within the   *)
(* journal.                                                                *)
LEMMA StepReaches ==
  ASSUME RecentCap >= Window + 1, PipeInv, ReachInv, [Next]_vars, [Afresh]_vars
  PROVE  ReachInv'
<1>1. WithinJournal
  BY JournalReaches
<1>2. CASE UNCHANGED vars \/ SaveEntities \/ SaveProjections
  <2>1. UNCHANGED <<anchors, resuming, window, queue, path, galaxy, evicted, promised, page>>
    BY <1>2 DEF vars, adapter, server, SaveEntities, SaveProjections
  <2>2. Rebuilding => Rebuilding'
    BY <2>1 DEF Rebuilding, Has
  <2> QED BY <2>1, <2>2 DEF ReachInv
<1>3. CASE Connect
  <2>1. /\ UNCHANGED <<anchors, resuming, window, queue, path, galaxy, evicted, promised>>
        /\ page' = SnapshotOf(galaxy)
    BY <1>3 DEF Connect, adapter
  <2>2. \A L : Has(L) => Has(L)'
    BY <2>1, ConnectedWhole DEF Has
  <2>3. Rebuilding => Rebuilding'
    BY <2>1, <2>2 DEF Rebuilding
  <2> QED BY <2>1, <2>3 DEF ReachInv
<1>4. CASE Restart /\ Afresh
  <2>1. DOMAIN path' = {} /\ DOMAIN anchors' = {}
    BY <1>4, NoBlocksFacts DEF Afresh, Restart
  <2> QED BY <2>1 DEF ReachInv, Shallow, Backed
<1> QED BY <1>1, <1>2, <1>3, <1>4, PollReaches, ReduceReaches DEF Next

(* At the start there is nothing to undo.                                  *)
LEMMA InitReaches ==
  ASSUME Init
  PROVE  ReachInv
<1>1. path = NoBlocks /\ anchors = NoBlocks
  BY DEF Init
<1>2. DOMAIN path = {} /\ DOMAIN anchors = {}
  BY <1>1, NoBlocksFacts
<1> QED BY <1>2 DEF ReachInv, Shallow, Backed

-----------------------------------------------------------------------------
(* Theorems.                                                               *)

(* The inductive invariant of the pipeline: in whatever order the adapter  *)
(* polls, the reducer works through the channel, the file is saved and the *)
(* process restarts, the channel is in one of eight phases, in each of     *)
(* which galaxy and page agree with a known history. It needs saves that   *)
(* find the channel empty, and rollbacks that stay within the journal of   *)
(* the cells.                                                              *)
THEOREM PipelineInvariant ==
  ASSUME RecentCap >= Window + 1
  PROVE  Spec /\ []SavesAreQuiet /\ []WithinJournal => [](PipeInv /\ DiskInv)
<1>1. Init => PipeInv /\ DiskInv
  BY InitPipeInv
<1>2. PipeInv /\ DiskInv /\ WithinJournal /\ SavesAreQuiet' /\ [Next]_vars => PipeInv' /\ DiskInv'
  BY LifeKeeps, DiskKeeps DEF DiskInv
<1> QED BY <1>1, <1>2, PTL DEF Spec

(* The same within the life of one process, where nothing has to be        *)
(* assumed of the saves, nor of the rollbacks: each that the adapter asks  *)
(* for is within the journal, since it keeps anchors no deeper than        *)
(* prune_canonical_history leaves them, the window and one block, and      *)
(* prune_reorg_journal keeps the window. (Of the boot's own hydration this *)
(* is true from the first poll on, which adapter.rs run makes at once.)    *)
THEOREM LifeInvariant ==
  ASSUME RecentCap >= Window + 1
  PROVE  Spec /\ [][Afresh]_vars => [](PipeInv /\ ReachInv)
<1>1. Init => PipeInv /\ ReachInv
  BY InitPipeInv, InitReaches
<1>2. PipeInv /\ ReachInv /\ [Next]_vars /\ [Afresh]_vars => PipeInv' /\ ReachInv'
  BY JournalReaches, LifeKeeps, StepReaches
<1> QED BY <1>1, <1>2, PTL DEF Spec

(* In the life of one process no rollback outreaches the journal of the    *)
(* cells: rollback_from finds every height it is asked to undo.            *)
THEOREM RingCoversJournal ==
  ASSUME RecentCap >= Window + 1
  PROVE  Spec /\ [][Afresh]_vars => []WithinJournal
<1>1. PipeInv /\ ReachInv => WithinJournal
  BY JournalReaches
<1> QED BY <1>1, LifeInvariant, PTL

(* Whenever the channel is empty, the cells indexed are those the followed *)
(* chain leaves unspent, less those the cap took: no reorganisation,       *)
(* replay, rebuild, save or restart loses a cell or brings one back        *)
(* (handle_tx_landed, rollback_from, settle_reorg_limbo, enforce_cap).     *)
THEOREM CellsStayCanonical ==
  ASSUME RecentCap >= Window + 1
  PROVE  Spec /\ []SavesAreQuiet /\ []WithinJournal => []CellsAreCanonical
<1>1. PipeInv => CellsAreCanonical
  BY CellsFollow
<1> QED BY <1>1, PipelineInvariant, PTL

(* Whenever the channel is empty, total_births is what the followed chain  *)
(* created, and total_deaths what it spent of the cells that the cap had   *)
(* not taken: each rollback takes back just what the orphaned blocks had   *)
(* counted.                                                                *)
THEOREM CountersStayCanonical ==
  ASSUME RecentCap >= Window + 1
  PROVE  Spec /\ []SavesAreQuiet /\ []WithinJournal => []CountersAreCanonical
<1>1. PipeInv => CountersAreCanonical
  BY CellsFollow
<1> QED BY <1>1, PipelineInvariant, PTL

(* Until a replacement is over, a cell that was indexed when it began and  *)
(* is alive has the id it had, through further rollbacks and failed        *)
(* attempts: reorg_limbo gives a re-included outpoint no second identity.  *)
THEOREM SurvivorsStayThemselves ==
  ASSUME RecentCap >= Window + 1
  PROVE  Spec /\ []SavesAreQuiet /\ []WithinJournal => []SurvivorsKeepIds
<1>1. PipeInv => SurvivorsKeepIds
  BY IdsFollow
<1> QED BY <1>1, PipelineInvariant, PTL

(* A page that took one snapshot and applied every delta since holds every *)
(* row as the galaxy has it, and the counters; beyond the rows it shows    *)
(* only identities that are still parked.                                  *)
THEOREM PageStaysTrue ==
  ASSUME RecentCap >= Window + 1
  PROVE  Spec /\ []SavesAreQuiet /\ []WithinJournal => []PageShowsGalaxy
<1>1. PipeInv => PageShowsGalaxy
  BY PageFollows
<1> QED BY <1>1, PipelineInvariant, PTL

(* Once the channel is empty and the adapter has nothing to resume,        *)
(* reorg_limbo is empty: no page goes on showing a cell whose block is     *)
(* gone.                                                                   *)
THEOREM GhostsAreSettled ==
  ASSUME RecentCap >= Window + 1
  PROVE  Spec /\ []SavesAreQuiet /\ []WithinJournal => []NoGhosts
<1>1. PipeInv => NoGhosts
  BY GhostsFollow
<1> QED BY <1>1, PipelineInvariant, PTL

(* After every mutation outpoint_index names just the living rows, by      *)
(* their ids, no two rows share an id, and no parked row shares one with a *)
(* row.                                                                    *)
THEOREM IndexStaysExact ==
  ASSUME RecentCap >= Window + 1
  PROVE  Spec /\ []SavesAreQuiet /\ []WithinJournal => []IndexNamesTheLiving
<1>1. PipeInv => IndexNamesTheLiving
  BY IndexFollows
<1> QED BY <1>1, PipelineInvariant, PTL

(* In the life of one process the six properties hold with no hypothesis   *)
(* about saves or rollbacks: for every block tree that consensus allows,   *)
(* every cap, window and corpse hold, and wherever saves fall.             *)
THEOREM OneLifeStaysCanonical ==
  ASSUME RecentCap >= Window + 1
  PROVE  Spec /\ [][Afresh]_vars
           => [](CellsAreCanonical /\ CountersAreCanonical /\ SurvivorsKeepIds
                   /\ PageShowsGalaxy /\ NoGhosts /\ IndexNamesTheLiving)
<1>1. PipeInv => /\ CellsAreCanonical /\ CountersAreCanonical /\ SurvivorsKeepIds
                 /\ PageShowsGalaxy /\ NoGhosts /\ IndexNamesTheLiving
  BY CellsFollow, IdsFollow, PageFollows, GhostsFollow, IndexFollows
<1> QED BY <1>1, LifeInvariant, PTL

=============================================================================
