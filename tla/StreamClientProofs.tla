-------------------------- MODULE StreamClientProofs --------------------------
(***************************************************************************)
(* Facts about StreamLog and StreamClient that the proofs of both streams  *)
(* use: greatest elements, the state a log has after k entries, and what   *)
(* a batch that goes on where the view ends makes of it.                   *)
(***************************************************************************)
EXTENDS StreamClient, FiniteSetTheorems, NaturalsInduction, WellFoundedInduction, TLAPS

-----------------------------------------------------------------------------
(* Greatest elements. *)

LEMMA NaturalsAreWellFounded ==
  IsWellFoundedOn({p \in Nat \X Nat : p[1] < p[2]}, Nat)
BY NatLessThanWellFounded DEF OpToRel

\* The least-number principle.
LEMMA LeastNatural ==
  ASSUME NEW T, T \subseteq Nat, T # {}
  PROVE  \E n \in T : \A m \in T : n <= m
<1> DEFINE R == {p \in Nat \X Nat : p[1] < p[2]}
<1>1. PICK n \in T : \A m \in T : ~(<<m, n>> \in R)
  <2>1. IsWellFoundedOn(R, Nat)
    BY NaturalsAreWellFounded
  <2> HIDE DEF R
  <2> QED BY <2>1, WFMin
<1>2. \A m \in T : ~(m < n)
  BY <1>1
<1> QED BY <1>2

LEMMA BoundedHasGreatest ==
  ASSUME NEW n \in Nat, NEW T, T \subseteq 0 .. n, T # {}
  PROVE  \E m \in T : \A x \in T : x <= m
<1> DEFINE U == {n - x : x \in T}
<1>1. U \subseteq Nat /\ U # {}
  <2>1. \A x \in T : n - x \in Nat
    OBVIOUS
  <2>2. PICK x : x \in T
    OBVIOUS
  <2> QED BY <2>1, <2>2
<1>2. PICK u \in U : \A v \in U : u <= v
  <2> HIDE DEF U
  <2> QED BY <1>1, LeastNatural
<1>3. PICK m \in T : u = n - m
  BY <1>2
<1>4. \A x \in T : n - m <= n - x
  BY <1>2, <1>3
<1> QED BY <1>4

LEMMA MaxIs ==
  ASSUME NEW T, T \subseteq Int, NEW m \in T, \A x \in T : x <= m
  PROVE  Max(T) = m
<1>1. m \in T /\ \A y \in T : m >= y
  OBVIOUS
<1>2. Max(T) \in T /\ \A y \in T : Max(T) >= y
  BY <1>1, Zenon DEF Max
<1> HIDE DEF Max
<1>3. PICK x : x = Max(T)
  OBVIOUS
<1>4. x \in T /\ x >= m /\ x <= m
  BY <1>2, <1>3
<1>5. x \in Int /\ m \in Int
  BY <1>4
<1>6. x = m
  BY <1>4, <1>5
<1> QED BY <1>3, <1>6

LEMMA MaxOfBounded ==
  ASSUME NEW n \in Nat, NEW T, T \subseteq 0 .. n, T # {}
  PROVE  Max(T) \in T /\ \A x \in T : x <= Max(T)
<1>1. PICK m \in T : \A x \in T : x <= m
  BY BoundedHasGreatest
<1>2. T \subseteq Int
  OBVIOUS
<1>3. Max(T) = m
  BY <1>1, <1>2, MaxIs
<1> QED BY <1>1, <1>3

LEMMA MaxOfTwo ==
  ASSUME NEW a \in Int, NEW b \in Int
  PROVE  Max({a, b}) = IF a <= b THEN b ELSE a
<1>1. CASE a <= b
  BY <1>1, MaxIs
<1>2. CASE ~ (a <= b)
  <2>1. \A x \in {a, b} : x <= a
    BY <1>2
  <2> QED BY <1>2, <2>1, MaxIs
<1> QED BY <1>1, <1>2

\* The ring's ends.
LEMMA IntervalEnds ==
  ASSUME NEW a \in Int, NEW b \in Int, a <= b
  PROVE  Max(a .. b) = b /\ Min(a .. b) = a
<1>1. a .. b \subseteq Int /\ b \in a .. b /\ \A x \in a .. b : x <= b
  OBVIOUS
<1>2. Max(a .. b) = b
  BY <1>1, MaxIs
<1>3. a \in a .. b /\ \A y \in a .. b : a =< y
  OBVIOUS
<1>4. Min(a .. b) \in a .. b /\ \A y \in a .. b : Min(a .. b) =< y
  BY <1>3, Zenon DEF Min
<1> QED BY <1>2, <1>3, <1>4

\* An interval in order is the interval.
LEMMA InOrderOfInterval ==
  ASSUME NEW a \in Nat, NEW b \in Nat, a <= b
  PROVE  /\ InOrder(a .. b) \in [1 .. (b - a + 1) -> a .. b]
         /\ ToSet(InOrder(a .. b)) = a .. b
         /\ \A j, k \in 1 .. (b - a + 1) :
              j < k => InOrder(a .. b)[j] < InOrder(a .. b)[k]
<1> DEFINE n == b - a + 1
           q == [j \in 1 .. n |-> a + j - 1]
<1>1. Cardinality(a .. b) = n /\ n \in Nat
  BY FS_Interval
<1>2. q \in [1 .. n -> a .. b]
  OBVIOUS
<1>3. ToSet(q) = a .. b
  <2>0. DOMAIN q = 1 .. n /\ \A j \in DOMAIN q : q[j] \in a .. b
    BY <1>2
  <2>1. ASSUME NEW x \in a .. b PROVE \E j \in DOMAIN q : q[j] = x
    <3>1. x - a + 1 \in 1 .. n /\ q[x - a + 1] = x
      OBVIOUS
    <3> QED BY <3>1
  <2> HIDE DEF q
  <2> QED BY <2>0, <2>1 DEF ToSet
<1>4. \A j, k \in DOMAIN q : j < k => q[j] < q[k]
  OBVIOUS
<1> HIDE DEF q
<1>5. \E p \in [1 .. n -> a .. b] :
        ToSet(p) = a .. b /\ \A j, k \in DOMAIN p : j < k => p[j] < p[k]
  BY <1>2, <1>3, <1>4
<1>6. /\ InOrder(a .. b) \in [1 .. n -> a .. b]
      /\ ToSet(InOrder(a .. b)) = a .. b
      /\ \A j, k \in DOMAIN InOrder(a .. b) :
           j < k => InOrder(a .. b)[j] < InOrder(a .. b)[k]
  BY <1>1, <1>5 DEF InOrder
<1> QED BY <1>6

-----------------------------------------------------------------------------
(* The state after k entries. *)

Writers(lg, k, i) == {0} \cup {s \in 1 .. k : lg[s].item = i}

LEMMA ContentIs ==
  ASSUME NEW lg, NEW k \in Nat, NEW i \in Items
  PROVE  /\ Content(lg, k)[i] = Max(Writers(lg, k, i))
         /\ Content(lg, k)[i] \in Writers(lg, k, i)
         /\ Content(lg, k)[i] \in 0 .. k
         /\ \A x \in Writers(lg, k, i) : x <= Content(lg, k)[i]
<1>1. Content(lg, k)[i] = Max(Writers(lg, k, i))
  BY DEF Content, Writers
<1>2. Writers(lg, k, i) \subseteq 0 .. k /\ Writers(lg, k, i) # {}
  BY DEF Writers
<1> QED BY <1>1, <1>2, MaxOfBounded

LEMMA ContentType ==
  ASSUME NEW lg, NEW k \in Nat
  PROVE  Content(lg, k) \in [Items -> 0 .. k]
<1>1. Content(lg, k) = [i \in Items |-> Content(lg, k)[i]]
  BY DEF Content
<1>2. \A i \in Items : Content(lg, k)[i] \in 0 .. k
  BY ContentIs
<1> QED BY <1>1, <1>2

\* A greatest writer is what the state holds.
LEMMA ContentHolds ==
  ASSUME NEW lg, NEW k \in Nat, NEW i \in Items, NEW m \in Writers(lg, k, i),
         \A x \in Writers(lg, k, i) : x <= m
  PROVE  Content(lg, k)[i] = m
<1>1. Writers(lg, k, i) \subseteq Int
  BY DEF Writers
<1> QED BY <1>1, ContentIs, MaxIs

LEMMA ContentCovers ==
  ASSUME NEW lg \in Seq(Entry), NEW k \in Nat, k <= Len(lg), NEW s \in 1 .. k
  PROVE  Content(lg, k)[lg[s].item] >= s
<1>1. s \in DOMAIN lg /\ lg[s] \in Entry
  OBVIOUS
<1>3. lg[s].item \in Items
  BY <1>1 DEF Entry
<1>2. s \in Writers(lg, k, lg[s].item)
  BY DEF Writers
<1> QED BY <1>1, <1>2, <1>3, ContentIs

LEMMA ContentGrows ==
  ASSUME NEW lg, NEW k \in Nat, NEW m \in Nat, k <= m
  PROVE  \A i \in Items : Content(lg, m)[i] >= Content(lg, k)[i]
<1> SUFFICES ASSUME NEW i \in Items PROVE Content(lg, m)[i] >= Content(lg, k)[i]
  OBVIOUS
<1>1. Writers(lg, k, i) \subseteq Writers(lg, m, i)
  BY DEF Writers
<1>2. Content(lg, k)[i] \in Writers(lg, m, i)
  BY <1>1, ContentIs
<1> QED BY <1>2, ContentIs

\* What is appended to a log is no part of its earlier states.
LEMMA ContentOfPrefix ==
  ASSUME NEW lg, NEW more, NEW k \in Nat, \A s \in 1 .. k : more[s] = lg[s]
  PROVE  Content(more, k) = Content(lg, k)
<1>1. \A i \in Items : Writers(more, k, i) = Writers(lg, k, i)
  BY DEF Writers
<1>2. \A i \in Items : Content(more, k)[i] = Content(lg, k)[i]
  BY <1>1, ContentIs
<1>3. \A g : Content(g, k) = [i \in Items |-> Content(g, k)[i]]
  BY DEF Content
<1> QED BY <1>2, <1>3

LEMMA EmptyContent == ASSUME NEW lg PROVE Content(lg, 0) = Content(<<>>, 0)
BY ContentOfPrefix

-----------------------------------------------------------------------------
(* Batches. *)

\* Consecutive entries, at least one.
Run(q) ==
  /\ q \in Seq(1 .. Len(log)) /\ q # <<>>
  /\ \A a \in DOMAIN q : q[a] = q[1] + a - 1

LEMMA RunEnds ==
  ASSUME NEW q, Run(q), log \in Seq(Entry)
  PROVE  /\ DOMAIN q = 1 .. Len(q) /\ Len(q) \in Nat \ {0}
         /\ q[1] \in 1 .. Len(log) /\ q[Len(q)] \in 1 .. Len(log)
         /\ q[Len(q)] = q[1] + Len(q) - 1
         /\ ToSet(q) = q[1] .. q[Len(q)]
<1>1. /\ DOMAIN q = 1 .. Len(q) /\ Len(q) \in Nat \ {0} /\ Len(log) \in Nat
      /\ \A a \in DOMAIN q : q[a] \in 1 .. Len(log)
  BY DEF Run
<1>2. 1 \in DOMAIN q /\ Len(q) \in DOMAIN q
  BY <1>1
<1>3. q[Len(q)] = q[1] + Len(q) - 1 /\ q[1] \in 1 .. Len(log)
  BY <1>1, <1>2 DEF Run
<1>4. ASSUME NEW x \in q[1] .. q[Len(q)] PROVE \E a \in DOMAIN q : q[a] = x
  <2>1. x - q[1] + 1 \in DOMAIN q /\ q[x - q[1] + 1] = q[1] + (x - q[1] + 1) - 1
    BY <1>1, <1>3 DEF Run
  <2> QED BY <1>3, <2>1
<1>5. \A a \in DOMAIN q : q[a] \in q[1] .. q[Len(q)]
  <2> SUFFICES ASSUME NEW a \in DOMAIN q PROVE q[a] \in q[1] .. q[Len(q)]
    OBVIOUS
  <2>1. q[a] = q[1] + a - 1 /\ a \in 1 .. Len(q)
    BY <1>1 DEF Run
  <2> QED BY <1>1, <1>3, <2>1
<1> QED BY <1>1, <1>2, <1>3, <1>4, <1>5 DEF ToSet

\* Two runs, the second of which begins where the first ends, are one.
LEMMA RunsJoin ==
  ASSUME NEW p, Run(p), NEW q, Run(q), q[1] = p[Len(p)] + 1, log \in Seq(Entry)
  PROVE  /\ Run(p \o q)
         /\ (p \o q)[1] = p[1] /\ (p \o q)[Len(p \o q)] = q[Len(q)]
<1>1. p \in Seq(1 .. Len(log)) /\ q \in Seq(1 .. Len(log))
  BY DEF Run
<1>2. /\ p \o q \in Seq(1 .. Len(log)) /\ Len(p \o q) = Len(p) + Len(q)
      /\ Len(p) \in Nat \ {0} /\ Len(q) \in Nat \ {0}
  BY <1>1, RunEnds
<1>3. /\ \A a \in 1 .. Len(p) : (p \o q)[a] = p[a]
      /\ \A a \in 1 .. Len(q) : (p \o q)[Len(p) + a] = q[a]
  BY <1>1
<1>4. /\ p[Len(p)] = p[1] + Len(p) - 1 /\ p[1] \in Nat
      /\ DOMAIN p = 1 .. Len(p) /\ DOMAIN q = 1 .. Len(q)
  BY RunEnds
<1>5. ASSUME NEW a \in 1 .. (Len(p) + Len(q)) PROVE (p \o q)[a] = p[1] + a - 1
  <2>1. CASE a <= Len(p)
    <3>1. a \in 1 .. Len(p)
      BY <1>2, <2>1
    <3> QED BY <1>3, <1>4, <3>1 DEF Run
  <2>2. CASE ~ (a <= Len(p))
    <3>1. a - Len(p) \in 1 .. Len(q) /\ Len(p) + (a - Len(p)) = a
      BY <1>2, <2>2
    <3>2. (p \o q)[a] = q[a - Len(p)]
      BY <1>3, <3>1
    <3>3. q[a - Len(p)] = q[1] + (a - Len(p)) - 1
      BY <1>4, <3>1 DEF Run
    <3>4. q[1] = p[1] + Len(p) - 1 + 1
      BY <1>4
    <3> HIDE DEF Run
    <3>5. a \in Int /\ Len(p) \in Int /\ p[1] \in Int
      BY <1>2, <1>4
    <3>6. q[a - Len(p)] = p[1] + a - 1
      BY <3>3, <3>4, <3>5
    <3> QED BY <3>2, <3>6
  <2> QED BY <2>1, <2>2
<1>6. (p \o q)[1] = p[1] /\ (p \o q)[Len(p) + Len(q)] = q[Len(q)]
  BY <1>2, <1>3
<1>7. DOMAIN (p \o q) = 1 .. (Len(p) + Len(q)) /\ p \o q # <<>>
  BY <1>2
<1> QED BY <1>2, <1>5, <1>6, <1>7 DEF Run

\* A batch that goes on where the view ends, or overlaps it, and ends no
\* earlier, takes the view to the batch's last entry.
LEMMA AppliedRun ==
  ASSUME log \in Seq(Entry), NEW k \in 0 .. Len(log), view = Content(log, k),
         NEW q, Run(q), q[1] <= k + 1, k <= q[Len(q)]
  PROVE  Applied(q) = Content(log, q[Len(q)])
<1> DEFINE b == q[Len(q)]
<1>1. /\ DOMAIN q = 1 .. Len(q) /\ Len(q) \in Nat \ {0} /\ q[1] \in Nat \ {0}
      /\ b \in 1 .. Len(log) /\ b = q[1] + Len(q) - 1
      /\ \A a \in 1 .. Len(q) : q[a] = q[1] + a - 1
  BY RunEnds DEF Run
<1> HIDE DEF b
<1>2. ASSUME NEW i \in Items PROVE Applied(q)[i] = Content(log, b)[i]
  <2> DEFINE hits == {j \in DOMAIN q : log[q[j]].item = i}
  <2>1. CASE hits = {}
    <3>1. \A s \in 1 .. b : log[s].item = i => s <= k
      <4> SUFFICES ASSUME NEW s \in 1 .. b, log[s].item = i, ~ (s <= k) PROVE FALSE
        OBVIOUS
      <4>1. s - q[1] + 1 \in 1 .. Len(q) /\ q[s - q[1] + 1] = s
        BY <1>1
      <4> QED BY <1>1, <2>1, <4>1
    <3>2. Writers(log, b, i) = Writers(log, k, i)
      BY <1>1, <3>1, k <= b DEF Writers, b
    <3>3. Content(log, b)[i] = Content(log, k)[i]
      BY <1>1, <3>2, ContentIs
    <3>4. Applied(q)[i] = view[i]
      BY <2>1 DEF Applied
    <3> QED BY <3>3, <3>4
  <2>2. CASE hits # {}
    <3> DEFINE m == Max(hits)
    <3>1. m \in hits /\ \A j \in hits : j <= m
      <4>1. hits \subseteq 0 .. Len(q) /\ Len(q) \in Nat
        BY <1>1
      <4> HIDE DEF hits
      <4> QED BY <2>2, <4>1, MaxOfBounded
    <3>2. Applied(q)[i] = q[m]
      BY <2>2 DEF Applied
    <3> HIDE DEF m
    <3>3. m \in 1 .. Len(q) /\ q[m] = q[1] + m - 1 /\ log[q[m]].item = i
      BY <1>1, <3>1
    <3>4. q[m] \in Writers(log, b, i)
      BY <1>1, <3>3 DEF Writers
    <3>5. ASSUME NEW x \in Writers(log, b, i) PROVE x <= q[m]
      <4>1. CASE x < q[1]
        BY <1>1, <3>3, <4>1 DEF Writers
      <4>2. CASE ~ (x < q[1])
        <5>1. x - q[1] + 1 \in 1 .. Len(q) /\ q[x - q[1] + 1] = x
          BY <1>1, <4>2 DEF Writers
        <5>2. log[x].item = i
          BY <1>1, <4>2 DEF Writers
        <5>3. x - q[1] + 1 \in hits
          BY <1>1, <5>1, <5>2
        <5> QED BY <1>1, <3>1, <3>3, <5>1, <5>3
      <4> QED BY <4>1, <4>2
    <3> QED BY <1>1, <3>2, <3>4, <3>5, ContentHolds
  <2> QED BY <2>1, <2>2
<1>3. Applied(q) = [i \in Items |-> Applied(q)[i]]
  BY DEF Applied
<1>4. Content(log, b) = [i \in Items |-> Content(log, b)[i]]
  BY DEF Content
<1> QED BY <1>2, <1>3, <1>4 DEF b

\* An empty batch changes nothing.
LEMMA AppliedNothing ==
  ASSUME NEW k \in Nat, view = Content(log, k)
  PROVE  Applied(<<>>) = view
<1>1. view = [i \in Items |-> view[i]]
  BY DEF Content
<1>2. \A i \in Items : Applied(<<>>)[i] = view[i]
  BY DEF Applied
<1>3. Applied(<<>>) = [i \in Items |-> Applied(<<>>)[i]]
  BY DEF Applied
<1> QED BY <1>1, <1>2, <1>3

\* What a replay frame carries: the interval in order is consecutive.
LEMMA IntervalRun ==
  ASSUME log \in Seq(Entry), NEW a \in 1 .. Len(log), NEW b \in 1 .. Len(log), a <= b
  PROVE  /\ Run(InOrder(a .. b)) /\ ToSet(InOrder(a .. b)) = a .. b
         /\ InOrder(a .. b)[1] = a /\ InOrder(a .. b)[Len(InOrder(a .. b))] = b
<1> DEFINE n == b - a + 1  q == InOrder(a .. b)
<1>1. a \in Nat /\ b \in Nat /\ n \in Nat \ {0} /\ Len(log) \in Nat
  OBVIOUS
<1>2. /\ q \in [1 .. n -> a .. b] /\ ToSet(q) = a .. b
      /\ \A j, k \in 1 .. n : j < k => q[j] < q[k]
  BY <1>1, InOrderOfInterval
<1> HIDE DEF q
<1>3. \A v \in a .. b : \E j \in 1 .. n : q[j] = v
  BY <1>2 DEF ToSet
<1>4. \A j \in 1 .. n : q[j] = a + j - 1
  <2> DEFINE T == {j \in 1 .. n : q[j] # a + j - 1}
  <2> SUFFICES ASSUME T # {} PROVE FALSE
    OBVIOUS
  <2>1. PICK j \in T : \A m \in T : j <= m
    <3>1. T \subseteq Nat
      OBVIOUS
    <3> HIDE DEF T
    <3> QED BY <3>1, LeastNatural
  <2>2. j \in 1 .. n /\ q[j] # a + j - 1 /\ q[j] \in a .. b
    BY <1>2, <2>1
  <2>3. q[j] >= a + j - 1
    <3>1. CASE j = 1
      BY <1>1, <2>2, <3>1
    <3>2. CASE j # 1
      <4>1. j - 1 \in 1 .. n /\ j - 1 < j
        BY <1>1, <2>2, <3>2
      <4>2. q[j - 1] = a + (j - 1) - 1 /\ q[j - 1] < q[j]
        BY <1>1, <1>2, <2>1, <2>2, <4>1
      <4> QED BY <1>1, <2>2, <4>2
    <3> QED BY <3>1, <3>2
  <2>4. a + j - 1 \in a .. b
    BY <1>1, <2>2
  <2>5. PICK i \in 1 .. n : q[i] = a + j - 1
    BY <1>3, <2>4
  <2>6. CASE i < j
    <3>1. i \notin T
      BY <1>1, <2>1, <2>2, <2>6
    <3> QED BY <1>1, <2>2, <2>5, <2>6, <3>1
  <2>7. CASE j < i
    <3>1. q[j] < q[i]
      BY <1>2, <2>2, <2>7
    <3> QED BY <1>1, <2>2, <2>3, <2>5, <3>1
  <2>8. CASE i = j
    BY <2>2, <2>5, <2>8
  <2> QED BY <1>1, <2>2, <2>6, <2>7, <2>8
<1>5. q \in Seq(1 .. Len(log)) /\ Len(q) = n /\ DOMAIN q = 1 .. n /\ q # <<>>
  <2>1. a .. b \subseteq 1 .. Len(log)
    BY <1>1
  <2>2. q \in [1 .. n -> 1 .. Len(log)]
    BY <1>2, <2>1
  <2> QED BY <1>1, <2>2
<1>6. q[1] = a /\ q[n] = b
  BY <1>1, <1>4
<1>7. \A j \in DOMAIN q : q[j] = q[1] + j - 1
  BY <1>1, <1>4, <1>5, <1>6
<1> QED BY <1>2, <1>5, <1>6, <1>7 DEF Run, q

-----------------------------------------------------------------------------
(* The queue of frames. *)

\* Frames up to the j-th are still meant for the client: it hangs up at the
\* first lagged one.
BeforeLag(j) == \A i \in 1 .. j : wire[i].kind # "lagged"

\* What a sent frame leaves of the queue before it.
LEMMA QueueGrew ==
  ASSUME wire \in Seq(Frame), NEW f, wire' = Append(wire, f), pending' = pending
  PROVE  /\ Len(wire) \in Nat /\ DOMAIN wire = 1 .. Len(wire)
         /\ Len(wire') = Len(wire) + 1 /\ DOMAIN wire' = 1 .. (Len(wire) + 1)
         /\ wire'[Len(wire) + 1] = f
         /\ \A j \in 1 .. Len(wire) : wire'[j] = wire[j]
         /\ \A j \in 0 .. Len(wire) : Deltas(j)' = Deltas(j)
         /\ \A j \in 0 .. Len(wire) : BeforeLag(j)' <=> BeforeLag(j)
         /\ \A n : n = Len(wire) + 1 =>
              /\ Deltas(n)' = IF f.kind = "delta" THEN f.deltas ELSE <<>>
              /\ BeforeLag(n)' <=> BeforeLag(Len(wire)) /\ f.kind # "lagged"
<1>1. Len(wire) \in Nat /\ DOMAIN wire = 1 .. Len(wire)
  OBVIOUS
<1>2. /\ Len(wire') = Len(wire) + 1 /\ DOMAIN wire' = 1 .. (Len(wire) + 1)
      /\ wire'[Len(wire) + 1] = f
      /\ \A j \in 1 .. Len(wire) : wire'[j] = wire[j]
  <2>1. wire \in Seq(Frame \cup {f}) /\ f \in Frame \cup {f}
    OBVIOUS
  <2> QED BY <2>1
<1>3. \A j \in 0 .. Len(wire) : Deltas(j)' = Deltas(j)
  BY <1>1, <1>2 DEF Deltas
<1>4. \A j \in 0 .. Len(wire) : BeforeLag(j)' <=> BeforeLag(j)
  BY <1>1, <1>2 DEF BeforeLag
<1>5. ASSUME NEW n, n = Len(wire) + 1
      PROVE  Deltas(n)' = IF f.kind = "delta" THEN f.deltas ELSE <<>>
  BY <1>1, <1>2, <1>5 DEF Deltas
<1>6. ASSUME NEW n, n = Len(wire) + 1
      PROVE  BeforeLag(n)' <=> BeforeLag(Len(wire)) /\ f.kind # "lagged"
  BY <1>6, <1>1, <1>2 DEF BeforeLag
<1> QED BY <1>1, <1>2, <1>3, <1>4, <1>5, <1>6

\* What is left of the queue when the client takes its first frame.
LEMMA QueueShrank ==
  ASSUME wire \in Seq(Frame), wire # <<>>, wire' = Tail(wire)
  PROVE  /\ Len(wire) \in Nat \ {0} /\ DOMAIN wire = 1 .. Len(wire)
         /\ wire' \in Seq(Frame)
         /\ Len(wire') = Len(wire) - 1 /\ DOMAIN wire' = 1 .. (Len(wire) - 1)
         /\ Head(wire) = wire[1] /\ wire[1] \in Frame
         /\ \A j \in 1 .. (Len(wire) - 1) : wire'[j] = wire[j + 1]
         /\ \A j \in 1 .. (Len(wire) - 1) : Deltas(j)' = Deltas(j + 1)
         /\ wire[1].kind # "lagged" =>
              \A j \in 0 .. (Len(wire) - 1) : BeforeLag(j)' <=> BeforeLag(j + 1)
<1>1. Len(wire) \in Nat \ {0} /\ DOMAIN wire = 1 .. Len(wire)
  OBVIOUS
<1>2. /\ wire' \in Seq(Frame)
      /\ Len(wire') = Len(wire) - 1 /\ DOMAIN wire' = 1 .. (Len(wire) - 1)
      /\ Head(wire) = wire[1] /\ wire[1] \in Frame
      /\ \A j \in 1 .. (Len(wire) - 1) : wire'[j] = wire[j + 1]
  BY <1>1
<1>3. \A j \in 1 .. (Len(wire) - 1) : Deltas(j)' = Deltas(j + 1)
  BY <1>1, <1>2 DEF Deltas
<1>4. ASSUME wire[1].kind # "lagged", NEW j \in 0 .. (Len(wire) - 1)
      PROVE  BeforeLag(j)' <=> BeforeLag(j + 1)
  <2>1. ASSUME BeforeLag(j + 1) PROVE BeforeLag(j)'
    BY <1>1, <1>2, <2>1 DEF BeforeLag
  <2>2. ASSUME BeforeLag(j)', NEW i \in 1 .. (j + 1) PROVE wire[i].kind # "lagged"
    <3>1. CASE i = 1
      BY <1>4, <3>1
    <3>2. CASE i # 1
      <4>1. i - 1 \in 1 .. j /\ i - 1 \in 1 .. (Len(wire) - 1) /\ (i - 1) + 1 = i
        BY <1>1, <3>2
      <4>2. wire'[i - 1] = wire[i]
        BY <1>2, <4>1
      <4> QED BY <2>2, <4>1, <4>2 DEF BeforeLag
    <3> QED BY <3>1, <3>2
  <2> QED BY <2>1, <2>2 DEF BeforeLag
<1> QED BY <1>1, <1>2, <1>3, <1>4
=============================================================================
