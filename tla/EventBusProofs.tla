--------------------------- MODULE EventBusProofs ---------------------------
(***************************************************************************)
(* Proofs about EventBus, for any number of subscribers and topics, any    *)
(* replay limit and any number of events: its invariants, and that it      *)
(* implements EventLog.                                                    *)
(*                                                                         *)
(* What a subscriber is still to be given is in its queue; what its queue  *)
(* holds depends on how far emit's loop has come with it.  The invariant   *)
(* says of every subscriber which events that is.                          *)
(***************************************************************************)
EXTENDS EventBus, TLAPS, WellFoundedInduction

-----------------------------------------------------------------------------
(* Induction over the numbers, from their well-foundedness, and what Kept  *)
(* computes.                                                               *)

(* The order of the numbers, as a relation.                                *)
LessThan == {ss \in Nat \X Nat : ss[1] < ss[2]}

(* Every set of numbers has a least one. *)
LEMMA Least ==
  ASSUME NEW T \in SUBSET Nat, T # {}
  PROVE  \E n \in T : \A m \in T : n <= m
<1>1. IsWellFoundedOn(LessThan, Nat)
  BY NatLessThanWellFounded, Zenon DEF OpToRel, LessThan
<1>2. PICK n \in T : \A m \in T : <<m, n>> \notin LessThan
  BY <1>1, WFMin, Zenon
<1>3. \A m \in T : n <= m
  <2> SUFFICES ASSUME NEW m \in T PROVE n <= m
    OBVIOUS
  <2>1. <<m, n>> \notin LessThan /\ m \in Nat /\ n \in Nat
    BY <1>2
  <2>2. ~(m < n)
    BY <2>1, Zenon DEF LessThan
  <2> QED
    BY <2>1, <2>2
<1> QED
  BY <1>3

(* Induction, for a set of numbers. *)
LEMMA Induction ==
  ASSUME NEW S, 0 \in S, \A n \in Nat : n \in S => n + 1 \in S
  PROVE  Nat \subseteq S
<1> SUFFICES ASSUME Nat \ S # {} PROVE FALSE
  OBVIOUS
<1>1. PICK n \in Nat \ S : \A m \in Nat \ S : n <= m
  BY Least
<1>2. n # 0 /\ n - 1 \in Nat
  OBVIOUS
<1>3. n - 1 \in S
  BY <1>1, <1>2
<1> QED
  BY <1>2, <1>3

Keeps(q, S, f, n) ==
  f = [i \in 0..n |-> IF i = 0 THEN <<>>
                      ELSE IF q[i] \in S THEN Append(f[i - 1], q[i])
                      ELSE f[i - 1]]

(* The function Kept is defined with exists. *)
LEMMA KeptExists ==
  ASSUME NEW X, NEW q \in Seq(X), NEW S, NEW n \in Nat
  PROVE  \E f : Keeps(q, S, f, n)
<1> DEFINE D == {m \in Nat : \E f : Keeps(q, S, f, m)}
<1>1. 0 \in D
  <2> DEFINE f == [i \in 0..0 |-> <<>>]
  <2>1. Keeps(q, S, f, 0)
    BY DEF Keeps
  <2> QED
    BY <2>1
<1>2. ASSUME NEW m \in Nat, m \in D PROVE m + 1 \in D
  <2>1. PICK f : Keeps(q, S, f, m)
    BY <1>2
  <2> DEFINE new == IF q[m + 1] \in S THEN Append(f[m], q[m + 1]) ELSE f[m]
             g == [i \in 0..(m + 1) |-> IF i = m + 1 THEN new ELSE f[i]]
             h == [i \in 0..(m + 1) |-> IF i = 0 THEN <<>>
                      ELSE IF q[i] \in S THEN Append(g[i - 1], q[i])
                      ELSE g[i - 1]]
  <2>2. ASSUME NEW i \in 0..(m + 1) PROVE g[i] = h[i]
    <3>1. CASE i = m + 1
      <4>1. g[m] = f[m] /\ i # 0 /\ i - 1 = m
        BY <3>1
      <4> QED
        BY <3>1, <4>1
    <3>2. CASE i # m + 1
      <4>1. i \in 0..m /\ g[i] = f[i] /\ (i # 0 => i - 1 \in 0..m /\ g[i - 1] = f[i - 1])
        BY <3>2
      <4>2. f[i] = IF i = 0 THEN <<>>
                      ELSE IF q[i] \in S THEN Append(f[i - 1], q[i])
                      ELSE f[i - 1]
        BY <2>1, <4>1 DEF Keeps
      <4> QED
        BY <4>1, <4>2
    <3> QED
      BY <3>1, <3>2
  <2>3. g = h
    BY <2>2
  <2>4. Keeps(q, S, g, m + 1)
    BY <2>3 DEF Keeps
  <2> QED
    BY <2>4
<1>3. Nat \subseteq D
  BY <1>1, <1>2, Induction
<1> QED
  BY <1>3

(* What Kept returns, in the terms of its sequence.  *)
LEMMA KeptIs ==
  ASSUME NEW X, NEW q \in Seq(X), NEW S
  PROVE  \E f : Keeps(q, S, f, Len(q)) /\ Kept(q, S) = f[Len(q)]
<1> DEFINE f == CHOOSE f : Keeps(q, S, f, Len(q))
<1>1. Keeps(q, S, f, Len(q))
  BY KeptExists
<1>2. Kept(q, S) = f[Len(q)]
  BY DEF Kept, Keeps
<1> QED
  BY <1>1, <1>2

(* r has all elements of S among the first n of q, no others, in their order. *)
HasAll(q, S, n, r) ==
  \A j \in 1..n : q[j] \in S => \E k \in DOMAIN r : r[k] = q[j]

HasOnly(q, S, n, r) ==
  \A k \in DOMAIN r : r[k] \in S /\ \E i \in 1..n : r[k] = q[i]

HasOrder(q, n, r) ==
  \A k, l \in DOMAIN r : k < l => \E i, j \in 1..n : i < j /\ r[k] = q[i] /\ r[l] = q[j]

Selects(q, S, n, r) == HasAll(q, S, n, r) /\ HasOnly(q, S, n, r) /\ HasOrder(q, n, r)

(* One more element that is not in S ... *)
LEMMA SelectsSkip ==
  ASSUME NEW X, NEW q \in Seq(X), NEW S, NEW m \in Nat, NEW r \in Seq(X),
         m + 1 <= Len(q), q[m + 1] \notin S, Selects(q, S, m, r)
  PROVE  Selects(q, S, m + 1, r)
<1>1. HasAll(q, S, m + 1, r)
  <2> SUFFICES ASSUME NEW j \in 1..(m + 1), q[j] \in S
               PROVE  \E k \in DOMAIN r : r[k] = q[j]
    BY DEF HasAll
  <2>1. j \in 1..m
    OBVIOUS
  <2> QED
    BY <2>1 DEF Selects, HasAll
<1>2. HasOnly(q, S, m + 1, r)
  <2> SUFFICES ASSUME NEW k \in DOMAIN r
               PROVE  r[k] \in S /\ \E i \in 1..(m + 1) : r[k] = q[i]
    BY DEF HasOnly
  <2> QED
    BY DEF Selects, HasOnly
<1>3. HasOrder(q, m + 1, r)
  <2> SUFFICES ASSUME NEW k \in DOMAIN r, NEW l \in DOMAIN r, k < l
               PROVE  \E i, j \in 1..(m + 1) : i < j /\ r[k] = q[i] /\ r[l] = q[j]
    BY DEF HasOrder
  <2>1. PICK i \in 1..m, j \in 1..m : i < j /\ r[k] = q[i] /\ r[l] = q[j]
    BY DEF Selects, HasOrder
  <2> QED
    BY <2>1
<1> QED
  BY <1>1, <1>2, <1>3 DEF Selects

(* ... and one that is. *)
LEMMA SelectsAppend ==
  ASSUME NEW X, NEW q \in Seq(X), NEW S, NEW m \in Nat, NEW r \in Seq(X),
         m + 1 <= Len(q), q[m + 1] \in S, Selects(q, S, m, r)
  PROVE  Append(r, q[m + 1]) \in Seq(X) /\ Selects(q, S, m + 1, Append(r, q[m + 1]))
<1> DEFINE g == Append(r, q[m + 1])
<1>1. q[m + 1] \in X /\ DOMAIN r = 1..Len(r) /\ Len(r) \in Nat
  OBVIOUS
<1>2. /\ g \in Seq(X)
      /\ Len(g) = Len(r) + 1
      /\ g[Len(r) + 1] = q[m + 1]
      /\ \A k \in DOMAIN r : g[k] = r[k]
  BY <1>1
<1>3. DOMAIN g = 1..(Len(r) + 1)
  BY <1>2
<1> HIDE DEF g
<1>4. HasAll(q, S, m + 1, g)
  <2> SUFFICES ASSUME NEW j \in 1..(m + 1), q[j] \in S
               PROVE  \E k \in DOMAIN g : g[k] = q[j]
    BY DEF HasAll
  <2>1. CASE j = m + 1
    BY <1>1, <1>2, <1>3, <2>1
  <2>2. CASE j \in 1..m
    <3>1. PICK k \in DOMAIN r : r[k] = q[j]
      BY <2>2 DEF Selects, HasAll
    <3> QED
      BY <1>1, <1>2, <1>3, <3>1
  <2> QED
    BY <2>1, <2>2
<1>5. HasOnly(q, S, m + 1, g)
  <2> SUFFICES ASSUME NEW k \in DOMAIN g
               PROVE  g[k] \in S /\ \E i \in 1..(m + 1) : g[k] = q[i]
    BY DEF HasOnly
  <2>1. CASE k = Len(r) + 1
    BY <1>2, <2>1
  <2>2. CASE k \in DOMAIN r
    <3>1. r[k] \in S
      BY <2>2 DEF Selects, HasOnly
    <3>2. PICK i \in 1..m : r[k] = q[i]
      BY <2>2 DEF Selects, HasOnly
    <3> QED
      BY <1>2, <2>2, <3>1, <3>2
  <2> QED
    BY <1>1, <1>3, <2>1, <2>2
<1>6. HasOrder(q, m + 1, g)
  <2> SUFFICES ASSUME NEW k \in DOMAIN g, NEW l \in DOMAIN g, k < l
               PROVE  \E i, j \in 1..(m + 1) : i < j /\ g[k] = q[i] /\ g[l] = q[j]
    BY DEF HasOrder
  <2>1. k \in DOMAIN r
    BY <1>1, <1>3
  <2>2. CASE l = Len(r) + 1
    <3>1. PICK i \in 1..m : r[k] = q[i]
      BY <2>1 DEF Selects, HasOnly
    <3>2. i \in 1..(m + 1) /\ m + 1 \in 1..(m + 1) /\ i < m + 1
      OBVIOUS
    <3>3. g[k] = q[i] /\ g[l] = q[m + 1]
      BY <1>2, <2>1, <2>2, <3>1
    <3> QED
      BY <3>2, <3>3
  <2>3. CASE l \in DOMAIN r
    <3>1. PICK i \in 1..m, j \in 1..m : i < j /\ r[k] = q[i] /\ r[l] = q[j]
      BY <2>1, <2>3 DEF Selects, HasOrder
    <3> QED
      BY <1>2, <2>1, <2>3, <3>1
  <2> QED
    BY <1>1, <1>3, <2>2, <2>3
<1> QED
  BY <1>2, <1>4, <1>5, <1>6 DEF Selects, g

(* Kept returns the elements of q that are in S, all of them, in their     *)
(* order.                                                                  *)
LEMMA KeptSelects ==
  ASSUME NEW X, NEW q \in Seq(X), NEW S
  PROVE  Kept(q, S) \in Seq(X) /\ Selects(q, S, Len(q), Kept(q, S))
<1>1. PICK f : Keeps(q, S, f, Len(q)) /\ Kept(q, S) = f[Len(q)]
  BY KeptIs
<1>2. \A i \in 0..Len(q) : f[i] = IF i = 0 THEN <<>>
                      ELSE IF q[i] \in S THEN Append(f[i - 1], q[i])
                      ELSE f[i - 1]
  BY <1>1 DEF Keeps
<1> DEFINE D == {m \in Nat : m <= Len(q) => f[m] \in Seq(X) /\ Selects(q, S, m, f[m])}
<1>3. 0 \in D
  <2>1. f[0] = <<>>
    BY <1>2
  <2>2. <<>> \in Seq(X) /\ Selects(q, S, 0, <<>>)
    BY DEF Selects, HasAll, HasOnly, HasOrder
  <2>3. f[0] \in Seq(X) /\ Selects(q, S, 0, f[0])
    BY <2>1, <2>2, Zenon
  <2> QED
    BY <2>3
<1>4. ASSUME NEW m \in Nat, m \in D PROVE m + 1 \in D
  <2> SUFFICES ASSUME m + 1 <= Len(q)
               PROVE  f[m + 1] \in Seq(X) /\ Selects(q, S, m + 1, f[m + 1])
    OBVIOUS
  <2>1. f[m] \in Seq(X) /\ Selects(q, S, m, f[m])
    BY <1>4
  <2>2. m + 1 \in 0..Len(q) /\ m + 1 # 0 /\ (m + 1) - 1 = m
    OBVIOUS
  <2>3. CASE q[m + 1] \notin S
    <3>1. f[m + 1] = f[m]
      BY <1>2, <2>2, <2>3
    <3> QED
      BY <2>1, <2>3, <3>1, SelectsSkip
  <2>4. CASE q[m + 1] \in S
    <3>1. f[m + 1] = Append(f[m], q[m + 1])
      BY <1>2, <2>2, <2>4
    <3> QED
      BY <2>1, <2>4, <3>1, SelectsAppend
  <2> QED
    BY <2>3, <2>4
<1>5. Nat \subseteq D
  <2>1. \A m \in Nat : m \in D => m + 1 \in D
    BY <1>4
  <2> HIDE DEF D
  <2> QED
    BY <1>3, <2>1, Induction
<1> QED
  BY <1>1, <1>5

-----------------------------------------------------------------------------
(* Sequences and stacks.                                                   *)

Distinct(q) == \A i, j \in DOMAIN q : i # j => q[i] # q[j]

Increasing(q) == \A i, j \in DOMAIN q : i < j => q[i] < q[j]

In(x, q) == \E i \in DOMAIN q : q[i] = x

(* What Kept returns, for a sequence without repetitions ... *)
LEMMA KeptIn ==
  ASSUME NEW X, NEW q \in Seq(X), NEW S
  PROVE  /\ Kept(q, S) \in Seq(X)
         /\ \A x : In(x, Kept(q, S)) <=> In(x, q) /\ x \in S
         /\ Distinct(q) => Distinct(Kept(q, S))
<1>1. PICK r : r = Kept(q, S)
  OBVIOUS
<1>2. r \in Seq(X) /\ Selects(q, S, Len(q), r)
  BY <1>1, KeptSelects
<1>3. DOMAIN q = 1..Len(q) /\ Len(q) \in Nat /\ DOMAIN r = 1..Len(r) /\ Len(r) \in Nat
  BY <1>2
<1>4. ASSUME NEW x PROVE In(x, r) <=> In(x, q) /\ x \in S
  BY <1>2, <1>3 DEF Selects, HasAll, HasOnly, In
<1>5. ASSUME Distinct(q), NEW k \in DOMAIN r, NEW l \in DOMAIN r, k < l PROVE r[k] # r[l]
  <2>1. PICK i \in 1..Len(q), j \in 1..Len(q) : i < j /\ r[k] = q[i] /\ r[l] = q[j]
    BY <1>2, <1>5 DEF Selects, HasOrder
  <2> QED
    BY <1>3, <1>5, <2>1 DEF Distinct
<1>6. Distinct(q) => Distinct(r)
  <2> SUFFICES ASSUME Distinct(q), NEW k \in DOMAIN r, NEW l \in DOMAIN r, k # l
               PROVE  r[k] # r[l]
    BY DEF Distinct
  <2>1. k < l \/ l < k
    BY <1>3
  <2> QED
    BY <1>5, <2>1
<1> QED
  BY <1>1, <1>2, <1>4, <1>6

(* ... and for one of increasing numbers. *)
LEMMA KeptIncreasing ==
  ASSUME NEW q \in Seq(Nat), NEW S, Increasing(q)
  PROVE  Increasing(Kept(q, S))
<1>1. PICK r : r = Kept(q, S)
  OBVIOUS
<1>2. Selects(q, S, Len(q), r)
  BY <1>1, KeptSelects
<1>3. ASSUME NEW k \in DOMAIN r, NEW l \in DOMAIN r, k < l PROVE r[k] < r[l]
  <2>1. PICK i \in 1..Len(q), j \in 1..Len(q) : i < j /\ r[k] = q[i] /\ r[l] = q[j]
    BY <1>2, <1>3 DEF Selects, HasOrder
  <2> QED
    BY <2>1 DEF Increasing
<1> QED
  BY <1>1, <1>3 DEF Increasing

(* The calls of a stack. *)
CallsIn(q) == {q[i] : i \in DOMAIN q}

Unique(q) == \A i, j \in DOMAIN q : i # j => q[i].sub # q[j].sub

(* Entering a call. *)
LEMMA Entered ==
  ASSUME NEW q \in Seq(Frame), NEW f \in Frame
  PROVE  /\ <<f>> \o q \in Seq(Frame)
         /\ <<f>> \o q # <<>>
         /\ CallsIn(<<f>> \o q) = {f} \cup CallsIn(q)
         /\ Unique(q) /\ (\A g \in CallsIn(q) : g.sub # f.sub) => Unique(<<f>> \o q)
<1>1. PICK r : r = <<f>> \o q
  OBVIOUS
<1>2. /\ r \in Seq(Frame) /\ Len(r) = Len(q) + 1 /\ r[1] = f
      /\ \A i \in DOMAIN q : r[i + 1] = q[i]
  BY <1>1
<1>3. /\ DOMAIN r = 1..(Len(q) + 1) /\ DOMAIN q = 1..Len(q) /\ Len(q) \in Nat
      /\ \A i \in DOMAIN r : i # 1 => i - 1 \in DOMAIN q /\ r[i] = q[i - 1]
  <2>1. DOMAIN r = 1..(Len(q) + 1) /\ DOMAIN q = 1..Len(q) /\ Len(q) \in Nat
    BY <1>2
  <2>2. ASSUME NEW i \in DOMAIN r, i # 1 PROVE i - 1 \in DOMAIN q /\ r[i] = q[i - 1]
    <3>1. i - 1 \in DOMAIN q /\ (i - 1) + 1 = i
      BY <2>1, <2>2
    <3> QED
      BY <1>2, <3>1
  <2> QED
    BY <2>1, <2>2
<1>4. CallsIn(r) = {f} \cup CallsIn(q)
  <2>1. ASSUME NEW g \in CallsIn(r) PROVE g \in {f} \cup CallsIn(q)
    <3>1. PICK i \in DOMAIN r : g = r[i]
      BY DEF CallsIn
    <3> QED
      BY <1>2, <1>3, <3>1 DEF CallsIn
  <2>2. ASSUME NEW g \in CallsIn(q) PROVE g \in CallsIn(r)
    <3>1. PICK i \in DOMAIN q : g = q[i]
      BY DEF CallsIn
    <3>2. i + 1 \in DOMAIN r
      BY <1>3
    <3> QED
      BY <1>2, <3>1, <3>2 DEF CallsIn
  <2>3. f \in CallsIn(r)
    BY <1>2, <1>3 DEF CallsIn
  <2> QED
    BY <2>1, <2>2, <2>3
<1>5. ASSUME Unique(q), \A g \in CallsIn(q) : g.sub # f.sub PROVE Unique(r)
  <2> SUFFICES ASSUME NEW i \in DOMAIN r, NEW j \in DOMAIN r, i # j
               PROVE  r[i].sub # r[j].sub
    BY DEF Unique
  <2>1. CASE i = 1
    <3>1. j - 1 \in DOMAIN q /\ r[j] = q[j - 1]
      BY <1>3, <2>1
    <3> QED
      BY <1>2, <1>5, <2>1, <3>1 DEF CallsIn
  <2>2. CASE j = 1
    <3>1. i - 1 \in DOMAIN q /\ r[i] = q[i - 1]
      BY <1>3, <2>2
    <3> QED
      BY <1>2, <1>5, <2>2, <3>1 DEF CallsIn
  <2>3. CASE i # 1 /\ j # 1
    <3>1. /\ i - 1 \in DOMAIN q /\ r[i] = q[i - 1]
          /\ j - 1 \in DOMAIN q /\ r[j] = q[j - 1]
          /\ i - 1 # j - 1
      BY <1>3, <2>3
    <3> QED
      BY <1>5, <3>1 DEF Unique
  <2> QED
    BY <2>1, <2>2, <2>3
<1>6. r # <<>>
  BY <1>2
<1> QED
  BY <1>1, <1>2, <1>4, <1>5, <1>6

(* Returning from the innermost call. *)
LEMMA Returned ==
  ASSUME NEW q \in Seq(Frame), q # <<>>
  PROVE  /\ Head(q) \in Frame /\ Tail(q) \in Seq(Frame)
         /\ CallsIn(q) = {Head(q)} \cup CallsIn(Tail(q))
         /\ Unique(q) => Unique(Tail(q)) /\ \A g \in CallsIn(Tail(q)) : g.sub # Head(q).sub
<1>1. PICK r : r = Tail(q)
  OBVIOUS
<1>2. /\ r \in Seq(Frame) /\ Len(r) = Len(q) - 1 /\ Len(q) \in Nat /\ Len(q) # 0
      /\ Head(q) = q[1] /\ q[1] \in Frame
      /\ \A i \in 1..Len(r) : r[i] = q[i + 1]
  BY <1>1
<1>3. /\ DOMAIN q = 1..Len(q) /\ DOMAIN r = 1..(Len(q) - 1)
      /\ \A i \in DOMAIN r : i + 1 \in DOMAIN q /\ i + 1 # 1 /\ r[i] = q[i + 1]
      /\ \A i \in DOMAIN q : i # 1 => i - 1 \in DOMAIN r /\ q[i] = r[i - 1]
  <2>1. DOMAIN q = 1..Len(q) /\ DOMAIN r = 1..(Len(q) - 1)
    BY <1>2
  <2>2. ASSUME NEW i \in DOMAIN q, i # 1 PROVE i - 1 \in DOMAIN r /\ q[i] = r[i - 1]
    <3>1. i - 1 \in DOMAIN r /\ (i - 1) + 1 = i
      BY <1>2, <2>1, <2>2
    <3> QED
      BY <1>2, <2>1, <3>1
  <2>3. ASSUME NEW i \in DOMAIN r PROVE i + 1 \in DOMAIN q /\ i + 1 # 1 /\ r[i] = q[i + 1]
    BY <1>2, <2>1
  <2> QED
    BY <2>1, <2>2, <2>3
<1>4. CallsIn(q) = {q[1]} \cup CallsIn(r)
  <2>1. ASSUME NEW g \in CallsIn(q) PROVE g \in {q[1]} \cup CallsIn(r)
    <3>1. PICK i \in DOMAIN q : g = q[i]
      BY DEF CallsIn
    <3> QED
      BY <1>3, <3>1 DEF CallsIn
  <2>2. ASSUME NEW g \in CallsIn(r) PROVE g \in CallsIn(q)
    <3>1. PICK i \in DOMAIN r : g = r[i]
      BY DEF CallsIn
    <3> QED
      BY <1>3, <3>1 DEF CallsIn
  <2>3. 1 \in DOMAIN q
    BY <1>2, <1>3
  <2>4. q[1] \in CallsIn(q)
    BY <2>3 DEF CallsIn
  <2> QED
    BY <2>1, <2>2, <2>4
<1>5. ASSUME Unique(q) PROVE Unique(r)
  <2> SUFFICES ASSUME NEW i \in DOMAIN r, NEW j \in DOMAIN r, i # j
               PROVE  r[i].sub # r[j].sub
    BY DEF Unique
  <2>1. /\ i + 1 \in DOMAIN q /\ r[i] = q[i + 1]
        /\ j + 1 \in DOMAIN q /\ r[j] = q[j + 1]
        /\ i + 1 # j + 1
    BY <1>3
  <2> QED
    BY <1>5, <2>1 DEF Unique
<1>6. ASSUME Unique(q), NEW g \in CallsIn(r) PROVE g.sub # q[1].sub
  <2>1. PICK i \in DOMAIN r : g = r[i]
    BY DEF CallsIn
  <2>2. i + 1 \in DOMAIN q /\ i + 1 # 1 /\ r[i] = q[i + 1] /\ 1 \in DOMAIN q
    BY <1>2, <1>3
  <2> QED
    BY <1>6, <2>1, <2>2 DEF Unique
<1> QED
  BY <1>1, <1>2, <1>4, <1>5, <1>6

-----------------------------------------------------------------------------
(* The inductive invariant.                                                *)

(* The events that emit's loop has begun with. *)
Dealt == Last - Len(pending)

(* The loop has not come to s with the last one of them. *)
Awaits(s) == \E f \in CallsIn(stack) : In(s, f.targets)

(* The event up to which s has been given, or has in its queue, whatever   *)
(* it asked for.                                                           *)
Seen(s) ==
  LET n == IF Awaits(s) THEN Dealt - 1 ELSE Dealt
  IN IF n > sub[s].liveAfter THEN n ELSE sub[s].liveAfter

LogType == log \in Seq(Topic) /\ Last <= MaxEvents

ReplayEndsLog ==
  /\ replay \in Seq(1..MaxEvents)
  /\ Len(replay) = (IF Last < ReplayLimit THEN Last ELSE ReplayLimit)
  /\ \A i \in DOMAIN replay : replay[i] = Last - Len(replay) + i

PendingEndsLog ==
  /\ pending \in Seq(1..MaxEvents)
  /\ Len(pending) <= Last
  /\ \A i \in DOMAIN pending : pending[i] = Last - Len(pending) + i

SubType ==
  sub \in [Subscriber ->
       [filter : SUBSET Topic, liveAfter : 0..MaxEvents, queue : Seq(1..MaxEvents),
        last : 0..MaxEvents, used : BOOLEAN]]

Members ==
  /\ subscribers \in Seq(Subscriber)
  /\ Distinct(subscribers)
  /\ \A s \in Subscriber : Subscribed(s) => sub[s].used

(* A call in progress, and the event that emit's loop is giving out. *)
FrameOK(f) ==
  /\ f.kind = "emit" <=> f.sub = None
  /\ f.kind = "deliver" => f.targets = <<>> /\ sub[f.sub].used
  /\ Distinct(f.targets)
  /\ \A s \in Subscriber : In(s, f.targets) => sub[s].used
  /\ f.targets # <<>> => f.event = Dealt

Calls == stack \in Seq(Frame) /\ Unique(stack) /\ \A f \in CallsIn(stack) : FrameOK(f)

(* The queue of s has what s has seen and not been given, in order, and a  *)
(* call that will give it.                                                 *)
QueueOK(s) ==
  /\ sub[s].liveAfter <= Last
  /\ sub[s].last <= Seen(s)
  /\ Increasing(sub[s].queue)
  /\ \A n \in 1..MaxEvents :
       In(n, sub[s].queue) <=> n > sub[s].last /\ n <= Seen(s) /\ Matches(n, sub[s].filter)
  /\ sub[s].queue # <<>> => Busy(s)

Queues == \A s \in Subscriber : Subscribed(s) => QueueOK(s)

PendingIsDealt == pending # <<>> => Delivering

BusInv ==
  /\ LogType /\ ReplayEndsLog /\ PendingEndsLog
  /\ SubType /\ Members /\ Calls
  /\ Queues /\ PendingIsDealt

(* The calls in progress, as a set. *)
LEMMA CallsAre ==
  /\ Delivering <=> \E f \in CallsIn(stack) : f.kind = "emit"
  /\ \A s : Busy(s) <=> \E f \in CallsIn(stack) : f.sub = s
  BY DEF Delivering, Busy, CallsIn

(* ... and in the next state. *)
LEMMA CallsAreNext ==
  /\ Delivering' <=> \E f \in CallsIn(stack') : f.kind = "emit"
  /\ \A s : Busy(s)' <=> \E f \in CallsIn(stack') : f.sub = s
  BY DEF Delivering, Busy, CallsIn

(* Whether s subscribes, in the terms of sequences. *)
LEMMA SubscribedIn == \A s : Subscribed(s) <=> In(s, subscribers)
  BY DEF Subscribed, In

(* Nothing is in the empty sequence. *)
LEMMA InEmpty == \A x : ~In(x, <<>>)
  BY DEF In

(* Appending a new element adds it and keeps the elements distinct. *)
LEMMA InAppend ==
  ASSUME NEW X, NEW q \in Seq(X), NEW e \in X
  PROVE  /\ Append(q, e) \in Seq(X) /\ Append(q, e) # <<>>
         /\ \A x : In(x, Append(q, e)) <=> In(x, q) \/ x = e
         /\ Distinct(q) /\ ~In(e, q) => Distinct(Append(q, e))
<1>1. PICK r : r = Append(q, e)
  OBVIOUS
<1>2. /\ r \in Seq(X) /\ Len(r) = Len(q) + 1 /\ r[Len(q) + 1] = e
      /\ \A i \in DOMAIN q : r[i] = q[i]
      /\ DOMAIN q = 1..Len(q) /\ Len(q) \in Nat
  BY <1>1
<1>3. DOMAIN r = 1..(Len(q) + 1) /\ \A i \in DOMAIN r : i \in DOMAIN q \/ i = Len(q) + 1
  BY <1>2
<1>4. ASSUME NEW x PROVE In(x, r) <=> In(x, q) \/ x = e
  <2>1. ASSUME In(x, r) PROVE In(x, q) \/ x = e
    BY <1>2, <1>3, <2>1 DEF In
  <2>2. ASSUME In(x, q) PROVE In(x, r)
    <3>1. PICK i \in DOMAIN q : q[i] = x
      BY <2>2 DEF In
    <3>2. i \in DOMAIN r /\ r[i] = x
      BY <1>2, <1>3, <3>1
    <3> QED
      BY <3>2 DEF In
  <2>3. In(e, r)
    BY <1>2, <1>3 DEF In
  <2> QED
    BY <2>1, <2>2, <2>3
<1>5. ASSUME Distinct(q), ~In(e, q), NEW i \in DOMAIN r, NEW j \in DOMAIN r, i # j
      PROVE  r[i] # r[j]
  <2>1. CASE i \in DOMAIN q /\ j \in DOMAIN q
    BY <1>2, <1>5, <2>1 DEF Distinct
  <2>2. CASE i = Len(q) + 1
    <3>1. j \in DOMAIN q /\ r[j] = q[j] /\ r[i] = e
      BY <1>2, <1>3, <1>5, <2>2
    <3> QED
      BY <1>5, <3>1 DEF In
  <2>3. CASE j = Len(q) + 1
    <3>1. i \in DOMAIN q /\ r[i] = q[i] /\ r[j] = e
      BY <1>2, <1>3, <1>5, <2>3
    <3> QED
      BY <1>5, <3>1 DEF In
  <2> QED
    BY <1>3, <2>1, <2>2, <2>3
<1>6. r # <<>>
  BY <1>2
<1> QED
  BY <1>1, <1>2, <1>4, <1>5, <1>6 DEF Distinct

(* The head of a sequence is its first element. *)
LEMMA HeadIs ==
  ASSUME NEW X, NEW q \in Seq(X), q # <<>>
  PROVE  Head(q) = q[1] /\ 1 \in 1..Len(q) /\ Head(q) \in X
  OBVIOUS

(* The elements of a sequence are in its set ... *)
LEMMA ElementsAre ==
  ASSUME NEW X, NEW q \in Seq(X)
  PROVE  \A i \in DOMAIN q : q[i] \in X
  OBVIOUS

(* ... and it is a sequence over every larger set. *)
LEMMA SeqOfMore ==
  ASSUME NEW X, NEW Y, X \subseteq Y, NEW q \in Seq(X)
  PROVE  q \in Seq(Y)
  OBVIOUS

(* A queue of events is one of numbers. *)
LEMMA EventQueue ==
  ASSUME NEW q \in Seq(1..MaxEvents)
  PROVE  q \in Seq(Nat) /\ \A m : In(m, q) => m \in 1..MaxEvents
<1>1. \A i \in DOMAIN q : q[i] \in 1..MaxEvents
  BY ElementsAre, Zenon
<1>2. q \in Seq(Nat)
  <2>1. 1..MaxEvents \subseteq Nat
    OBVIOUS
  <2> QED
    BY <2>1, SeqOfMore, Zenon
<1> QED
  BY <1>1, <1>2, Zenon DEF In

(* What is in a sequence is its head or in its tail. *)
LEMMA InTail ==
  ASSUME NEW X, NEW q \in Seq(X), q # <<>>
  PROVE  /\ Head(q) \in X /\ Tail(q) \in Seq(X) /\ In(Head(q), q)
         /\ \A x : In(x, q) <=> x = Head(q) \/ In(x, Tail(q))
         /\ Distinct(q) => Distinct(Tail(q)) /\ ~In(Head(q), Tail(q))
<1>1. PICK r : r = Tail(q)
  OBVIOUS
<1>2. /\ r \in Seq(X) /\ Len(r) = Len(q) - 1 /\ Len(q) \in Nat /\ Len(q) # 0
      /\ Head(q) = q[1] /\ q[1] \in X
      /\ \A i \in 1..Len(r) : r[i] = q[i + 1]
      /\ DOMAIN q = 1..Len(q) /\ DOMAIN r = 1..(Len(q) - 1)
  BY <1>1
<1>3. /\ 1 \in DOMAIN q
      /\ \A i \in DOMAIN r : i + 1 \in DOMAIN q /\ i + 1 # 1 /\ r[i] = q[i + 1]
      /\ \A i \in DOMAIN q : i # 1 => i - 1 \in DOMAIN r /\ q[i] = r[i - 1]
  <2>1. 1 \in DOMAIN q
    BY <1>2
  <2>2. ASSUME NEW i \in DOMAIN q, i # 1 PROVE i - 1 \in DOMAIN r /\ q[i] = r[i - 1]
    <3>1. i - 1 \in DOMAIN r /\ (i - 1) + 1 = i
      BY <1>2, <2>2
    <3> QED
      BY <1>2, <3>1
  <2>3. ASSUME NEW i \in DOMAIN r PROVE i + 1 \in DOMAIN q /\ i + 1 # 1 /\ r[i] = q[i + 1]
    BY <1>2
  <2> QED
    BY <2>1, <2>2, <2>3
<1>4. ASSUME NEW x PROVE In(x, q) <=> x = q[1] \/ In(x, r)
  BY <1>3 DEF In
<1>5. ASSUME Distinct(q) PROVE Distinct(r) /\ ~In(q[1], r)
  <2>1. ASSUME NEW i \in DOMAIN r, NEW j \in DOMAIN r, i # j PROVE r[i] # r[j]
    <3>1. i + 1 # j + 1
      BY <1>2, <2>1
    <3> QED
      BY <1>3, <1>5, <3>1 DEF Distinct
  <2>2. ASSUME NEW i \in DOMAIN r PROVE r[i] # q[1]
    BY <1>3, <1>5 DEF Distinct
  <2> QED
    BY <2>1, <2>2 DEF Distinct, In
<1> QED
  BY <1>1, <1>2, <1>3, <1>4, <1>5 DEF In

(* The head of a queue is its least event. *)
LEMMA IncreasingQueues ==
  ASSUME NEW q \in Seq(Nat), Increasing(q)
  PROVE  /\ \A e \in Nat : (\A n \in Nat : In(n, q) => n < e) => Increasing(Append(q, e))
         /\ q # <<>> => Increasing(Tail(q)) /\ \A n \in Nat : In(n, Tail(q)) => Head(q) < n
<1>1. ASSUME NEW e \in Nat, \A n \in Nat : In(n, q) => n < e PROVE Increasing(Append(q, e))
  <2>1. PICK r : r = Append(q, e)
    OBVIOUS
  <2>2. /\ r \in Seq(Nat) /\ Len(r) = Len(q) + 1 /\ r[Len(q) + 1] = e
        /\ \A i \in DOMAIN q : r[i] = q[i] /\ q[i] \in Nat
        /\ DOMAIN q = 1..Len(q) /\ Len(q) \in Nat /\ DOMAIN r = 1..(Len(q) + 1)
    BY <2>1
  <2>3. ASSUME NEW i \in DOMAIN r, NEW j \in DOMAIN r, i < j PROVE r[i] < r[j]
    <3>1. i \in DOMAIN q
      BY <2>2, <2>3
    <3>2. CASE j \in DOMAIN q
      BY <2>2, <2>3, <3>1, <3>2 DEF Increasing
    <3>3. CASE j = Len(q) + 1
      <4>1. In(q[i], q)
        BY <3>1 DEF In
      <4> QED
        BY <1>1, <2>2, <3>1, <3>3, <4>1
    <3> QED
      BY <2>2, <3>2, <3>3
  <2> QED
    BY <2>1, <2>3 DEF Increasing
<1>2. ASSUME q # <<>> PROVE Increasing(Tail(q)) /\ \A n \in Nat : In(n, Tail(q)) => Head(q) < n
  <2>1. PICK r : r = Tail(q)
    OBVIOUS
  <2>2. /\ r \in Seq(Nat) /\ Len(r) = Len(q) - 1 /\ Len(q) \in Nat /\ Len(q) # 0
        /\ Head(q) = q[1]
        /\ \A i \in 1..Len(r) : r[i] = q[i + 1]
        /\ DOMAIN q = 1..Len(q) /\ DOMAIN r = 1..(Len(q) - 1)
    BY <1>2, <2>1
  <2>3. ASSUME NEW i \in DOMAIN r
        PROVE  i + 1 \in DOMAIN q /\ 1 < i + 1 /\ 1 \in DOMAIN q /\ r[i] = q[i + 1]
    BY SMTT(30), <2>2
  <2>4. ASSUME NEW i \in DOMAIN r, NEW j \in DOMAIN r, i < j PROVE r[i] < r[j]
    <3>1. i + 1 < j + 1
      BY <2>2, <2>4
    <3> QED
      BY <2>3, <3>1 DEF Increasing
  <2>5. ASSUME NEW n \in Nat, In(n, r) PROVE q[1] < n
    <3>1. PICK i \in DOMAIN r : r[i] = n
      BY <2>5 DEF In
    <3> QED
      BY <2>3, <3>1 DEF Increasing
  <2> QED
    BY <2>1, <2>2, <2>4, <2>5 DEF Increasing
<1> QED
  BY <1>1, <1>2

(* What s has seen is in the log. *)
LEMMA SeenIn ==
  ASSUME BusInv, NEW s \in Subscriber, Subscribed(s)
  PROVE  /\ Last \in Nat /\ Dealt \in Nat /\ Dealt <= Last
         /\ Seen(s) \in Nat /\ Seen(s) <= Last
         /\ sub[s].liveAfter \in Nat /\ sub[s].liveAfter <= Seen(s)
<1>1. Last \in Nat /\ Dealt \in Nat /\ Dealt <= Last
  BY DEF BusInv, LogType, PendingEndsLog, Last, Dealt
<1>2. sub[s].liveAfter \in Nat /\ sub[s].liveAfter <= Last
  BY EventBusAssumption DEF BusInv, SubType, Queues, QueueOK
<1> QED
  BY <1>1, <1>2 DEF Seen

(* The log only grows; a subscriber of whom nothing else changes keeps     *)
(* what it has.                                                            *)
LEMMA QueueKept ==
  ASSUME BusInv, NEW s \in Subscriber, Subscribed(s),
         Last' \in Nat, Last <= Last', \A n \in DOMAIN log : log'[n] = log[n],
         sub'[s] = sub[s], Seen(s)' = Seen(s), Busy(s) => Busy(s)'
  PROVE  QueueOK(s)'
<1>1. QueueOK(s)
  BY DEF BusInv, Queues
<1>2. /\ Last \in Nat /\ Seen(s) \in Nat /\ Seen(s) <= Last /\ sub[s].liveAfter \in Nat
  BY SeenIn
<1>3. DOMAIN log = 1..Last
  BY DEF BusInv, LogType, Last
<1>4. ASSUME NEW n \in 1..MaxEvents
      PROVE  In(n, sub'[s].queue) <=> n > sub'[s].last /\ n <= Seen(s)' /\ (Matches(n, sub[s].filter))'
  <2>1. n <= Seen(s) => log'[n] = log[n]
    BY <1>2, <1>3, EventBusAssumption
  <2> QED
    BY <1>1, <2>1 DEF QueueOK, Matches
<1> QED
  BY <1>1, <1>2, <1>4 DEF QueueOK

(* How much s has seen depends on how far the loop is, and whether it      *)
(* waits for it.                                                           *)
LEMMA SeenKept ==
  ASSUME NEW s, sub'[s] = sub[s],
         \/ Dealt' = Dealt /\ (Awaits(s)' <=> Awaits(s))
         \/ Dealt \in Nat /\ Dealt' = Dealt + 1 /\ ~Awaits(s) /\ Awaits(s)'
  PROVE  Seen(s)' = Seen(s)
<1>1. CASE Dealt' = Dealt /\ (Awaits(s)' <=> Awaits(s))
  BY <1>1 DEF Seen
<1>2. CASE Dealt \in Nat /\ Dealt' = Dealt + 1 /\ ~Awaits(s) /\ Awaits(s)'
  <2>1. (IF Awaits(s)' THEN Dealt' - 1 ELSE Dealt') = Dealt
    BY <1>2
  <2>2. (IF Awaits(s) THEN Dealt - 1 ELSE Dealt) = Dealt
    BY <1>2
  <2> QED
    BY <2>1, <2>2 DEF Seen
<1> QED
  BY <1>1, <1>2

(* A call stays as it was if the loop and its subscribers do. *)
LEMMA FrameKept ==
  ASSUME NEW f, FrameOK(f), f \in Frame,
         \A s \in Subscriber : sub[s].used => sub'[s].used,
         f.targets # <<>> => Dealt' = Dealt,
         None \notin Subscriber
  PROVE  FrameOK(f)'
<1>1. f.kind = "deliver" => f.sub \in Subscriber
  BY DEF FrameOK, Frame
<1> QED
  BY <1>1 DEF FrameOK

(* What deliver puts on the stack. *)
LEMMA DeliveryOK ==
  ASSUME NEW d, d.kind = "deliver", d.sub # None, d.targets = <<>>, sub'[d.sub].used
  PROVE  FrameOK(d)'
<1>1. Distinct(<<>>) /\ \A s : ~In(s, <<>>)
  BY DEF Distinct, In
<1> QED
  BY <1>1 DEF FrameOK

-----------------------------------------------------------------------------
(* Each step preserves it.                                                 *)

(* At the start nothing subscribes and nothing runs. *)
LEMMA InitInv == Init => BusInv
<1> SUFFICES ASSUME Init PROVE BusInv
  OBVIOUS
<1>1. LogType /\ ReplayEndsLog /\ PendingEndsLog /\ PendingIsDealt
  BY EventBusAssumption DEF Init, LogType, ReplayEndsLog, PendingEndsLog, PendingIsDealt, Last
<1>2. SubType
  BY EventBusAssumption DEF Init, SubType, Unused
<1>3. \A s : ~Subscribed(s)
  BY DEF Init, Subscribed
<1>4. Members /\ Queues
  BY <1>3 DEF Init, Members, Queues, Distinct
<1>5. CallsIn(stack) = {} /\ stack \in Seq(Frame) /\ Unique(stack)
  BY DEF Init, CallsIn, Unique
<1>6. Calls
  BY <1>5 DEF Calls
<1> QED
  BY <1>1, <1>2, <1>4, <1>6 DEF BusInv

(* emit appends to what is pending; nobody has seen the new event. *)
LEMMA EmitInv ==
  ASSUME BusInv, NEW x \in Topic, Emit(x)
  PROVE  BusInv'
<1>1. /\ Last \in Nat /\ Last' = Last + 1 /\ Last' \in 1..MaxEvents
      /\ \A n \in DOMAIN log : log'[n] = log[n]
      /\ LogType'
  BY EventBusAssumption DEF BusInv, LogType, Emit, Last
<1>2. ReplayEndsLog'
  <2> DEFINE r == Append(replay, Last')
  <2>1. /\ replay \in Seq(1..MaxEvents) /\ Len(replay) \in Nat
        /\ Len(replay) = (IF Last < ReplayLimit THEN Last ELSE ReplayLimit)
        /\ \A i \in 1..Len(replay) : replay[i] = Last - Len(replay) + i
    BY DEF BusInv, ReplayEndsLog
  <2>2. /\ r \in Seq(1..MaxEvents) /\ Len(r) = Len(replay) + 1
        /\ \A i \in 1..Len(replay) : r[i] = replay[i]
        /\ r[Len(replay) + 1] = Last'
    BY <1>1, <2>1
  <2>3. ASSUME NEW i \in 1..(Len(replay) + 1) PROVE r[i] = Last' - Len(r) + i
    <3>1. CASE i \in 1..Len(replay)
      <4>1. r[i] = replay[i] /\ replay[i] = Last - Len(replay) + i /\ i \in Nat
        BY <2>1, <2>2, <3>1
      <4>2. Len(r) = Len(replay) + 1 /\ Len(replay) \in Nat
        BY <2>1, <2>2
      <4> HIDE DEF r
      <4> QED
        BY <1>1, <4>1, <4>2
    <3>2. CASE i = Len(replay) + 1
      BY <1>1, <2>1, <2>2, <3>2
    <3> QED
      BY <2>1, <3>1, <3>2
  <2>4. replay' = IF Len(r) > ReplayLimit THEN Tail(r) ELSE r
    BY <1>1 DEF Emit, Limited
  <2> HIDE DEF r
  <2>5. CASE Len(r) > ReplayLimit
    <3>1. replay' = Tail(r) /\ r # <<>>
      BY <2>1, <2>2, <2>4, <2>5
    <3>2. /\ replay' \in Seq(1..MaxEvents)
          /\ Len(replay') = Len(r) - 1
          /\ \A i \in 1..Len(replay') : replay'[i] = r[i + 1]
      BY <2>2, <3>1
    <3>3. Len(replay) = ReplayLimit /\ Last >= ReplayLimit
      BY <1>1, <2>1, <2>2, <2>5, EventBusAssumption
    <3>4. DOMAIN replay' = 1..Len(replay') /\ Len(replay') = ReplayLimit
      BY <2>1, <2>2, <3>2, <3>3, EventBusAssumption
    <3>5. ASSUME NEW i \in DOMAIN replay' PROVE replay'[i] = Last' - Len(replay') + i
      <4>1. i + 1 \in 1..(Len(replay) + 1) /\ replay'[i] = r[i + 1]
        BY <2>1, <3>2, <3>3, <3>4
      <4>2. r[i + 1] = Last' - Len(r) + (i + 1)
        BY <2>3, <4>1
      <4>3. Len(replay') = Len(r) - 1 /\ Len(r) \in Nat /\ Last' \in Nat /\ i \in Nat
        BY <1>1, <2>1, <2>2, <3>2, <4>1
      <4> HIDE DEF r
      <4> QED
        BY <4>1, <4>2, <4>3
    <3> QED
      BY <1>1, <3>2, <3>3, <3>4, <3>5, EventBusAssumption DEF ReplayEndsLog
  <2>6. CASE ~(Len(r) > ReplayLimit)
    <3>1. replay' = r
      BY <2>4, <2>6
    <3>2. Len(replay) = Last /\ Last < ReplayLimit
      BY <1>1, <2>1, <2>2, <2>6, EventBusAssumption
    <3> QED
      BY <1>1, <2>2, <2>3, <3>1, <3>2, EventBusAssumption DEF ReplayEndsLog
  <2> QED
    BY <2>5, <2>6
<1>3. PendingEndsLog' /\ Dealt' = Dealt /\ pending' # <<>>
  <2>1. /\ pending \in Seq(1..MaxEvents) /\ Len(pending) \in Nat /\ Len(pending) <= Last
        /\ \A i \in 1..Len(pending) : pending[i] = Last - Len(pending) + i
    BY DEF BusInv, PendingEndsLog
  <2>2. /\ pending' \in Seq(1..MaxEvents) /\ Len(pending') = Len(pending) + 1
        /\ \A i \in 1..Len(pending) : pending'[i] = pending[i]
        /\ pending'[Len(pending) + 1] = Last + 1
    BY <1>1, <2>1 DEF Emit
  <2>3. DOMAIN pending' = 1..(Len(pending) + 1) /\ pending' # <<>>
    BY <2>1, <2>2
  <2>4. ASSUME NEW i \in DOMAIN pending' PROVE pending'[i] = Last' - Len(pending') + i
    <3>1. Len(pending') = Len(pending) + 1 /\ Len(pending) \in Nat
      BY <2>1, <2>2
    <3>2. CASE i \in 1..Len(pending)
      <4>1. pending'[i] = Last - Len(pending) + i /\ i \in Nat
        BY <2>1, <2>2, <3>2
      <4> QED
        BY <1>1, <3>1, <4>1
    <3>3. CASE i = Len(pending) + 1
      <4>1. pending'[i] = Last + 1
        BY <2>2, <3>3
      <4> QED
        BY <1>1, <3>1, <3>3, <4>1
    <3> QED
      BY <2>3, <3>1, <3>2, <3>3
  <2>5. Dealt' = Dealt
    BY <1>1, <2>1, <2>2 DEF Dealt
  <2> QED
    BY <1>1, <2>1, <2>2, <2>3, <2>4, <2>5 DEF PendingEndsLog
<1>4. SubType' /\ Members' /\ sub' = sub /\ \A s : Subscribed(s)' <=> Subscribed(s)
  BY DEF BusInv, Emit, SubType, Members, Subscribed
<1>5. \/ stack' = stack /\ Delivering
      \/ stack' = <<Loop(0, <<>>)>> \o stack /\ ~Delivering
  BY DEF Emit
<1>6. /\ stack' \in Seq(Frame) /\ Unique(stack') /\ \E f \in CallsIn(stack') : f.kind = "emit"
      /\ CallsIn(stack) \subseteq CallsIn(stack')
      /\ CallsIn(stack') \subseteq CallsIn(stack) \cup {Loop(0, <<>>)}
  <2>1. CASE stack' = stack /\ Delivering
    BY <2>1, CallsAre DEF BusInv, Calls
  <2>2. CASE stack' = <<Loop(0, <<>>)>> \o stack /\ ~Delivering
    <3>1. Loop(0, <<>>) \in Frame /\ Loop(0, <<>>).sub = None /\ Loop(0, <<>>).kind = "emit"
      BY EventBusAssumption DEF Loop, Frame
    <3>2. \A g \in CallsIn(stack) : g.sub # None
      BY <2>2, CallsAre DEF BusInv, Calls, FrameOK
    <3> QED
      BY <2>2, <3>1, <3>2, Entered DEF BusInv, Calls
  <2> QED
    BY <1>5, <2>1, <2>2
<1>7. Delivering'
  BY <1>6, CallsAreNext
<1>8. \A f \in CallsIn(stack) : f \in Frame
  BY DEF BusInv, Calls, CallsIn
<1>9. Calls'
  <2>1. ASSUME NEW f \in CallsIn(stack) PROVE FrameOK(f)'
    BY <1>3, <1>4, <1>8, FrameKept, EventBusAssumption DEF BusInv, Calls
  <2>2. FrameOK(Loop(0, <<>>))'
    BY DEF FrameOK, Loop, Distinct, In
  <2> QED
    BY <1>6, <2>1, <2>2 DEF Calls
<1>10. \A s : Awaits(s)' <=> Awaits(s)
  <2>1. \A s : ~In(s, Loop(0, <<>>).targets)
    BY DEF In, Loop
  <2> QED
    BY <1>6, <2>1 DEF Awaits
<1>11. \A s : Busy(s) => Busy(s)'
  BY <1>6, CallsAre, CallsAreNext
<1>12. Queues'
  <2> SUFFICES ASSUME NEW s \in Subscriber, Subscribed(s) PROVE QueueOK(s)'
    BY <1>4 DEF Queues
  <2>1. Seen(s)' = Seen(s)
    BY <1>3, <1>4, <1>10, SeenKept
  <2> QED
    BY <1>1, <1>4, <1>11, <2>1, QueueKept
<1> QED
  BY <1>1, <1>2, <1>3, <1>4, <1>7, <1>9, <1>12 DEF BusInv, PendingIsDealt

(* In a stack, only the loop of emit has subscribers still to see, and     *)
(* there is one.                                                           *)
LEMMA HeadLoop ==
  ASSUME BusInv, InLoop
  PROVE  /\ stack # <<>> /\ Head(stack) \in Frame /\ Tail(stack) \in Seq(Frame)
         /\ CallsIn(stack) = {Head(stack)} \cup CallsIn(Tail(stack))
         /\ Head(stack).kind = "emit" /\ Head(stack).sub = None /\ FrameOK(Head(stack))
         /\ Unique(Tail(stack))
         /\ \A g \in CallsIn(Tail(stack)) :
              g \in Frame /\ FrameOK(g) /\ g.sub # None /\ g.kind = "deliver" /\ g.targets = <<>>
         /\ \A s : Awaits(s) <=> In(s, Head(stack).targets)
<1>1. /\ stack # <<>> /\ Head(stack) \in Frame /\ Tail(stack) \in Seq(Frame)
      /\ CallsIn(stack) = {Head(stack)} \cup CallsIn(Tail(stack))
      /\ Unique(Tail(stack)) /\ \A g \in CallsIn(Tail(stack)) : g.sub # Head(stack).sub
      /\ Head(stack).kind = "emit"
  BY Returned DEF BusInv, Calls, InLoop
<1>2. FrameOK(Head(stack)) /\ Head(stack).sub = None
  BY <1>1 DEF BusInv, Calls, FrameOK
<1>3. ASSUME NEW g \in CallsIn(Tail(stack))
      PROVE  g \in Frame /\ FrameOK(g) /\ g.sub # None /\ g.kind = "deliver" /\ g.targets = <<>>
  <2>1. FrameOK(g) /\ g \in Frame
    BY <1>1 DEF BusInv, Calls, CallsIn
  <2> QED
    BY <1>1, <1>2, <2>1 DEF FrameOK, Frame
<1>4. \A s : Awaits(s) <=> In(s, Head(stack).targets)
  BY <1>1, <1>3, InEmpty DEF Awaits
<1> QED
  BY <1>1, <1>2, <1>3, <1>4

(* The call of deliver that is on top of the stack. *)
LEMMA HeadDelivery ==
  ASSUME BusInv, InDelivery
  PROVE  /\ stack # <<>> /\ Head(stack) \in Frame /\ Tail(stack) \in Seq(Frame)
         /\ CallsIn(stack) = {Head(stack)} \cup CallsIn(Tail(stack))
         /\ Head(stack).kind = "deliver" /\ Head(stack).sub \in Subscriber
         /\ Head(stack).targets = <<>> /\ sub[Head(stack).sub].used
         /\ Unique(Tail(stack)) /\ \A g \in CallsIn(Tail(stack)) : g.sub # Head(stack).sub
         /\ \A g \in CallsIn(Tail(stack)) : g \in Frame /\ FrameOK(g)
<1>1. /\ stack # <<>> /\ Head(stack) \in Frame /\ Tail(stack) \in Seq(Frame)
      /\ CallsIn(stack) = {Head(stack)} \cup CallsIn(Tail(stack))
      /\ Unique(Tail(stack)) /\ \A g \in CallsIn(Tail(stack)) : g.sub # Head(stack).sub
      /\ Head(stack).kind = "deliver"
  BY Returned DEF BusInv, Calls, InDelivery
<1>2. FrameOK(Head(stack)) /\ Head(stack).sub # None
  BY <1>1 DEF BusInv, Calls, FrameOK
<1>3. Head(stack).sub \in Subscriber /\ Head(stack).targets = <<>> /\ sub[Head(stack).sub].used
  BY <1>1, <1>2 DEF FrameOK, Frame
<1>4. ASSUME NEW g \in CallsIn(Tail(stack)) PROVE g \in Frame /\ FrameOK(g)
  BY <1>1 DEF BusInv, Calls, CallsIn
<1> QED
  BY <1>1, <1>3, <1>4

(* The loop begins with the next event; every subscriber then awaits it. *)
LEMMA NextEventInv ==
  ASSUME BusInv, NextEvent
  PROVE  BusInv'
<1>0. PICK f : f = Loop(Head(pending), subscribers)
  OBVIOUS
<1>1. /\ stack # <<>> /\ Tail(stack) \in Seq(Frame) /\ Unique(Tail(stack))
      /\ CallsIn(stack) = {Head(stack)} \cup CallsIn(Tail(stack))
      /\ Head(stack).sub = None /\ Head(stack).targets = <<>>
      /\ \A g \in CallsIn(Tail(stack)) :
           g \in Frame /\ FrameOK(g) /\ g.sub # None /\ g.targets = <<>>
      /\ \A s : ~Awaits(s)
  BY HeadLoop, InEmpty DEF NextEvent
<1>2. /\ pending \in Seq(1..MaxEvents) /\ pending # <<>> /\ Len(pending) \in Nat
      /\ Len(pending) # 0 /\ Len(pending) <= Last /\ Last \in Nat
      /\ \A i \in 1..Len(pending) : pending[i] = Last - Len(pending) + i
  BY DEF BusInv, PendingEndsLog, NextEvent, LogType, Last
<1>3. Head(pending) = Dealt + 1 /\ Head(pending) \in 1..MaxEvents
  <2>1. Head(pending) = pending[1] /\ 1 \in 1..Len(pending) /\ Head(pending) \in 1..MaxEvents
    <3>1. pending \in Seq(1..MaxEvents) /\ pending # <<>>
      BY <1>2
    <3> QED
      BY <3>1, HeadIs, Zenon
  <2>2. pending[1] = Last - Len(pending) + 1
    BY <1>2, <2>1
  <2> QED
    BY <2>1, <2>2 DEF Dealt
<1>4. PendingEndsLog' /\ Dealt' = Dealt + 1
  <2>1. /\ pending' \in Seq(1..MaxEvents) /\ Len(pending') = Len(pending) - 1
        /\ \A i \in 1..Len(pending') : pending'[i] = pending[i + 1]
        /\ DOMAIN pending' = 1..(Len(pending) - 1) /\ Last' = Last
    BY <1>2 DEF NextEvent, Last
  <2>2. ASSUME NEW i \in DOMAIN pending' PROVE pending'[i] = Last' - Len(pending') + i
    <3>1. i + 1 \in 1..Len(pending) /\ pending'[i] = pending[i + 1]
      BY <1>2, <2>1
    <3> QED
      BY <1>2, <2>1, <3>1
  <2> QED
    BY <1>2, <2>1, <2>2 DEF PendingEndsLog, Dealt
<1>5. /\ LogType' /\ ReplayEndsLog' /\ SubType' /\ Members'
      /\ sub' = sub /\ subscribers' = subscribers /\ log' = log /\ Last' = Last
      /\ \A s : Subscribed(s)' <=> Subscribed(s)
  BY DEF BusInv, NextEvent, LogType, ReplayEndsLog, SubType, Members, Subscribed, Last
<1>6. f \in Frame /\ f.sub = None /\ f.kind = "emit" /\ f.event = Dealt' /\ f.targets = subscribers
  <2>1. subscribers \in Seq(Subscriber) /\ Head(pending) \in 0..MaxEvents
    BY <1>3 DEF BusInv, Members
  <2> QED
    BY <1>0, <1>3, <1>4, <2>1 DEF Loop, Frame
<1>7. /\ stack' \in Seq(Frame) /\ Unique(stack')
      /\ CallsIn(stack') = {f} \cup CallsIn(Tail(stack))
  BY <1>0, <1>1, <1>6, Entered DEF NextEvent
<1>8. Calls'
  <2>1. ASSUME NEW g \in CallsIn(Tail(stack)) PROVE FrameOK(g)'
    BY <1>1, <1>5, FrameKept, EventBusAssumption
  <2>2. FrameOK(f)'
    BY <1>5, <1>6, SubscribedIn DEF FrameOK, BusInv, Members
  <2> QED
    BY <1>7, <2>1, <2>2 DEF Calls
<1>9. \A s : Awaits(s)' <=> In(s, subscribers)
  BY <1>1, <1>6, <1>7, InEmpty DEF Awaits
<1>10. /\ \A s \in Subscriber : Busy(s) => Busy(s)'
       /\ Delivering'
  BY <1>1, <1>6, <1>7, CallsAre, CallsAreNext, EventBusAssumption
<1>11. Queues'
  <2> SUFFICES ASSUME NEW s \in Subscriber, Subscribed(s) PROVE QueueOK(s)'
    BY <1>5 DEF Queues
  <2>1. Seen(s)' = Seen(s)
    BY <1>1, <1>4, <1>5, <1>9, SeenKept, SeenIn, SubscribedIn
  <2> QED
    BY <1>2, <1>5, <1>10, <2>1, QueueKept
<1> QED
  BY <1>4, <1>5, <1>8, <1>10, <1>11 DEF BusInv, PendingIsDealt

(* The loop ends with nothing pending. *)
LEMMA EmitReturnsInv ==
  ASSUME BusInv, EmitReturns
  PROVE  BusInv'
<1>1. /\ stack # <<>> /\ Tail(stack) \in Seq(Frame) /\ Unique(Tail(stack))
      /\ CallsIn(stack) = {Head(stack)} \cup CallsIn(Tail(stack))
      /\ Head(stack).sub = None
      /\ \A g \in CallsIn(Tail(stack)) : g \in Frame /\ FrameOK(g) /\ g.targets = <<>>
      /\ \A s : ~Awaits(s)
  BY HeadLoop, InEmpty DEF EmitReturns
<1>2. /\ LogType' /\ ReplayEndsLog' /\ PendingEndsLog' /\ SubType' /\ Members'
      /\ sub' = sub /\ log' = log /\ Last' = Last /\ Dealt' = Dealt /\ pending' = <<>>
      /\ \A s : Subscribed(s)' <=> Subscribed(s)
  BY DEF BusInv, EmitReturns, LogType, ReplayEndsLog, PendingEndsLog, SubType, Members,
         Subscribed, Last, Dealt
<1>3. stack' = Tail(stack)
  BY DEF EmitReturns
<1>4. Calls'
  <2>1. ASSUME NEW g \in CallsIn(Tail(stack)) PROVE FrameOK(g)'
    BY <1>1, <1>2, FrameKept, EventBusAssumption
  <2> QED
    BY <1>1, <1>3, <2>1 DEF Calls
<1>5. \A s : ~Awaits(s)'
  BY <1>1, <1>3, InEmpty DEF Awaits
<1>6. \A s \in Subscriber : Busy(s) => Busy(s)'
  BY <1>1, <1>3, CallsAre, CallsAreNext, EventBusAssumption
<1>7. Queues'
  <2> SUFFICES ASSUME NEW s \in Subscriber, Subscribed(s) PROVE QueueOK(s)'
    BY <1>2 DEF Queues
  <2>1. Seen(s)' = Seen(s)
    BY <1>1, <1>2, <1>5, SeenKept
  <2>2. Last \in Nat
    BY SeenIn
  <2> QED
    BY <1>2, <1>6, <2>1, <2>2, QueueKept
<1> QED
  BY <1>2, <1>4, <1>7 DEF BusInv, PendingIsDealt

(* The loop turns to s with event n; the queue of s takes it if s asked    *)
(* for it.                                                                 *)
LEMMA NextSubscriberInv ==
  ASSUME BusInv, NextSubscriber
  PROVE  BusInv'
<1>0. PICK s, n, f : /\ s = Head(Head(stack).targets) /\ n = Head(stack).event
                     /\ f = Loop(n, Tail(Head(stack).targets))
  OBVIOUS
<1>1. /\ stack # <<>> /\ Head(stack) \in Frame /\ Tail(stack) \in Seq(Frame)
      /\ CallsIn(stack) = {Head(stack)} \cup CallsIn(Tail(stack))
      /\ Head(stack).kind = "emit" /\ Head(stack).sub = None /\ FrameOK(Head(stack))
      /\ Unique(Tail(stack))
      /\ \A g \in CallsIn(Tail(stack)) :
           g \in Frame /\ FrameOK(g) /\ g.sub # None /\ g.targets = <<>>
      /\ \A u : Awaits(u) <=> In(u, Head(stack).targets)
      /\ Head(stack).targets # <<>>
  BY HeadLoop DEF NextSubscriber
<1>2. /\ s \in Subscriber /\ f.targets \in Seq(Subscriber)
      /\ \A u : In(u, Head(stack).targets) <=> u = s \/ In(u, f.targets)
      /\ Distinct(f.targets) /\ ~In(s, f.targets)
      /\ n = Dealt /\ n \in 0..MaxEvents
  <2>1. Head(stack).targets \in Seq(Subscriber) /\ Head(stack).event \in 0..MaxEvents
    BY <1>1 DEF Frame
  <2>2. f.targets = Tail(Head(stack).targets)
    BY <1>0 DEF Loop
  <2>3. Distinct(Head(stack).targets) /\ Head(stack).event = Dealt
    BY <1>1 DEF FrameOK
  <2>4. PICK q : q = Head(stack).targets
    OBVIOUS
  <2>5. q \in Seq(Subscriber) /\ q # <<>> /\ s = Head(q) /\ f.targets = Tail(q) /\ Distinct(q)
    BY <1>0, <1>1, <2>1, <2>2, <2>3, <2>4
  <2>6. /\ s \in Subscriber /\ f.targets \in Seq(Subscriber)
        /\ \A u : In(u, q) <=> u = s \/ In(u, f.targets)
        /\ Distinct(f.targets) /\ ~In(s, f.targets)
    <3>1. /\ Head(q) \in Subscriber /\ Tail(q) \in Seq(Subscriber)
          /\ \A u : In(u, q) <=> u = Head(q) \/ In(u, Tail(q))
          /\ Distinct(Tail(q)) /\ ~In(Head(q), Tail(q))
      <4>1. q \in Seq(Subscriber) /\ q # <<>> /\ Distinct(q)
        BY <2>5
      <4> HIDE <2>5
      <4> QED
        BY <4>1, InTail
    <3> QED
      BY <2>5, <3>1
  <2> QED
    BY <1>0, <2>1, <2>3, <2>4, <2>6
<1>3. f \in Frame /\ f.sub = None /\ f.kind = "emit" /\ f.event = n
  BY <1>0, <1>2 DEF Loop, Frame
<1>4. sub[s].used /\ \A u \in Subscriber : In(u, f.targets) => sub[u].used
  BY <1>1, <1>2 DEF FrameOK
<1>5. /\ LogType' /\ ReplayEndsLog' /\ PendingEndsLog'
      /\ log' = log /\ Last' = Last /\ Dealt' = Dealt /\ pending' = pending
      /\ subscribers' = subscribers /\ \A u : Subscribed(u)' <=> Subscribed(u)
  BY DEF BusInv, NextSubscriber, LogType, ReplayEndsLog, PendingEndsLog, Subscribed, Last, Dealt
<1>6. /\ \A u \in Subscriber : u # s => sub'[u] = sub[u]
      /\ sub'[s] = IF Eligible(s, n) THEN [sub[s] EXCEPT !.queue = Append(@, n)] ELSE sub[s]
      /\ SubType'
  <2>1. sub \in [Subscriber ->
          [filter : SUBSET Topic, liveAfter : 0..MaxEvents, queue : Seq(1..MaxEvents),
           last : 0..MaxEvents, used : BOOLEAN]]
    BY DEF BusInv, SubType
  <2>2. CASE Eligible(s, n)
    <3>1. sub' = [sub EXCEPT ![s].queue = Append(@, n)]
      BY <1>0, <2>2 DEF NextSubscriber
    <3>2. n \in 1..MaxEvents
      BY <1>2, <2>1, <2>2 DEF Eligible
    <3>3. Append(sub[s].queue, n) \in Seq(1..MaxEvents)
      BY <1>2, <2>1, <3>2
    <3> QED
      BY <1>2, <2>1, <2>2, <3>1, <3>3 DEF SubType
  <2>3. CASE ~Eligible(s, n)
    BY <1>0, <2>1, <2>3 DEF NextSubscriber, SubType
  <2> QED
    BY <2>2, <2>3
<1>7. \A u \in Subscriber : sub'[u].used = sub[u].used
  <2> SUFFICES ASSUME NEW u \in Subscriber PROVE sub'[u].used = sub[u].used
    OBVIOUS
  <2>1. CASE u = s
    <3>1. sub[s] \in [filter : SUBSET Topic, liveAfter : 0..MaxEvents, queue : Seq(1..MaxEvents),
                      last : 0..MaxEvents, used : BOOLEAN]
      BY <1>2 DEF BusInv, SubType
    <3> QED
      BY <1>6, <2>1, <3>1
  <2> QED
    BY <1>6, <2>1
<1>8. Members'
  BY <1>5, <1>7 DEF BusInv, Members
<1>9. /\ <<f>> \o Tail(stack) \in Seq(Frame) /\ Unique(<<f>> \o Tail(stack))
      /\ CallsIn(<<f>> \o Tail(stack)) = {f} \cup CallsIn(Tail(stack))
  BY <1>1, <1>3, Entered
<1>10. \/ stack' = <<f>> \o Tail(stack) /\ (Eligible(s, n) => Busy(s))
       \/ stack' = <<Delivery(s, 0)>> \o (<<f>> \o Tail(stack)) /\ ~Busy(s)
  BY <1>0 DEF NextSubscriber
<1>11. /\ stack' \in Seq(Frame) /\ Unique(stack') /\ f \in CallsIn(stack')
       /\ CallsIn(Tail(stack)) \subseteq CallsIn(stack')
       /\ CallsIn(stack') \subseteq CallsIn(Tail(stack)) \cup {f, Delivery(s, 0)}
       /\ Eligible(s, n) => Busy(s)'
  <2>1. CASE stack' = <<f>> \o Tail(stack) /\ (Eligible(s, n) => Busy(s))
    <3>1. Busy(s) => Busy(s)'
      BY <1>1, <1>2, <1>9, <2>1, CallsAre, CallsAreNext, EventBusAssumption
    <3> QED
      BY <1>9, <2>1, <3>1
  <2>2. CASE stack' = <<Delivery(s, 0)>> \o (<<f>> \o Tail(stack)) /\ ~Busy(s)
    <3>1. Delivery(s, 0) \in Frame /\ Delivery(s, 0).sub = s
      BY <1>2, EventBusAssumption DEF Delivery, Frame
    <3>2. \A g \in {f} \cup CallsIn(Tail(stack)) : g.sub # s
      BY <1>1, <1>2, <1>3, <2>2, CallsAre, EventBusAssumption
    <3>3. /\ stack' \in Seq(Frame) /\ Unique(stack')
          /\ CallsIn(stack') = {Delivery(s, 0)} \cup ({f} \cup CallsIn(Tail(stack)))
      BY <1>9, <2>2, <3>1, <3>2, Entered
    <3>4. Busy(s)'
      BY <3>1, <3>3, CallsAreNext
    <3> QED
      BY <3>3, <3>4
  <2> QED
    BY <1>10, <2>1, <2>2
<1>12. Calls'
  <2>1. ASSUME NEW g \in CallsIn(Tail(stack)) PROVE FrameOK(g)'
    BY <1>1, <1>7, FrameKept, EventBusAssumption
  <2>2. FrameOK(f)'
    BY <1>2, <1>3, <1>4, <1>5, <1>7 DEF FrameOK
  <2>3. FrameOK(Delivery(s, 0))'
    <3>1. PICK d : d = Delivery(s, 0)
      OBVIOUS
    <3>2. /\ d.kind = "deliver" /\ d.sub = s /\ d.targets = <<>>
      BY <3>1 DEF Delivery
    <3>3. FrameOK(d)'
      BY <1>2, <1>4, <1>7, <3>2, DeliveryOK, EventBusAssumption
    <3> QED
      BY <3>1, <3>3
  <2> QED
    BY <1>11, <2>1, <2>2, <2>3 DEF Calls
<1>13. \A u : Awaits(u)' <=> In(u, f.targets)
  <2>1. \A u : ~In(u, Delivery(s, 0).targets)
    BY DEF In, Delivery
  <2> QED
    BY <1>1, <1>11, <2>1, InEmpty DEF Awaits
<1>14. /\ \A u \in Subscriber : Busy(u) => Busy(u)'
       /\ Delivering'
  BY <1>1, <1>3, <1>11, CallsAre, CallsAreNext, EventBusAssumption
<1>15. ASSUME NEW u \in Subscriber, Subscribed(u), u # s PROVE QueueOK(u)'
  <2>1. Seen(u)' = Seen(u)
    BY <1>1, <1>2, <1>5, <1>6, <1>13, <1>15, SeenKept
  <2>2. Last \in Nat
    BY <1>15, SeenIn
  <2> QED
    BY <1>5, <1>6, <1>14, <1>15, <2>1, <2>2, QueueKept
<1>16. ASSUME Subscribed(s) PROVE QueueOK(s)'
  <2>1. /\ QueueOK(s) /\ Last \in Nat /\ n \in Nat /\ n <= Last /\ sub[s].liveAfter \in Nat
        /\ Seen(s) \in Nat /\ sub[s].last \in Nat
        /\ sub[s].queue \in Seq(1..MaxEvents)
    BY <1>2, <1>16, SeenIn DEF BusInv, Queues, SubType
  <2>2. Awaits(s) /\ ~Awaits(s)'
    BY <1>1, <1>2, <1>13
  <2>3. Seen(s) = IF n - 1 > sub[s].liveAfter THEN n - 1 ELSE sub[s].liveAfter
    BY <1>2, <2>2 DEF Seen
  <2>4. sub'[s].liveAfter = sub[s].liveAfter /\ sub'[s].last = sub[s].last
        /\ sub'[s].filter = sub[s].filter
    BY <1>2, <1>6 DEF BusInv, SubType
  <2>5. Seen(s)' = IF n > sub[s].liveAfter THEN n ELSE sub[s].liveAfter
    BY <1>2, <1>5, <2>2, <2>4 DEF Seen
  <2>6. \A m : Matches(m, sub[s].filter)' <=> log'[m] \in sub'[s].filter
    BY DEF Matches
  <2>7. \A m : log'[m] \in sub'[s].filter <=> Matches(m, sub[s].filter)
    BY <1>5, <2>4 DEF Matches
  <2>8. CASE Eligible(s, n)
    <3>1. n > sub[s].liveAfter /\ Matches(n, sub[s].filter)
      BY <2>8 DEF Eligible
    <3>2. Seen(s) = n - 1 /\ Seen(s)' = n /\ n \in 1..MaxEvents
      BY <1>2, <2>1, <2>3, <2>5, <3>1
    <3>3. sub'[s].queue = Append(sub[s].queue, n)
      BY <1>2, <1>6, <2>8 DEF BusInv, SubType
    <3>4. \A m : In(m, sub'[s].queue) <=> In(m, sub[s].queue) \/ m = n
      <4>1. sub[s].queue \in Seq(1..MaxEvents)
        BY <2>1
      <4>2. \A m : In(m, Append(sub[s].queue, n)) <=> In(m, sub[s].queue) \/ m = n
        BY ZenonT(60), <3>2, <4>1, InAppend
      <4> QED
        BY <3>3, <4>2
    <3>5. \A m \in 1..MaxEvents :
            In(m, sub[s].queue) <=> m > sub[s].last /\ m <= n - 1 /\ Matches(m, sub[s].filter)
      BY <2>1, <3>2 DEF QueueOK
    <3>6. Increasing(sub'[s].queue)
      <4>1. \A m \in Nat : In(m, sub[s].queue) => m \in 1..MaxEvents
        BY <2>1, EventQueue
      <4>2. \A m \in Nat : In(m, sub[s].queue) => m < n
        BY <2>1, <3>5, <4>1
      <4>3. sub[s].queue \in Seq(Nat) /\ Increasing(sub[s].queue)
        BY <2>1, EventQueue DEF QueueOK
      <4> QED
        BY <2>1, <3>3, <4>2, <4>3, IncreasingQueues
    <3>7. \A m \in 1..MaxEvents :
            In(m, sub'[s].queue) <=> m > sub[s].last /\ m <= n /\ Matches(m, sub[s].filter)
      <4> SUFFICES ASSUME NEW m \in 1..MaxEvents
                   PROVE  In(m, sub'[s].queue) <=>
                            m > sub[s].last /\ m <= n /\ Matches(m, sub[s].filter)
        OBVIOUS
      <4>1. CASE m = n
        <5>1. n > sub[s].last
          BY <2>1, <3>2 DEF QueueOK
        <5> QED
          BY <3>1, <3>4, <4>1, <5>1, <2>1
      <4>2. CASE m # n
        <5>1. m <= n <=> m <= n - 1
          BY <2>1, <4>2
        <5> QED
          BY <3>4, <3>5, <4>2, <5>1
      <4> QED
        BY <4>1, <4>2
    <3>8. Busy(s)'
      BY <1>11, <2>8
    <3>9. sub'[s].last <= Seen(s)'
      BY <2>1, <2>4, <3>2 DEF QueueOK
    <3> QED
      BY <1>5, <2>1, <2>4, <2>6, <2>7, <3>2, <3>6, <3>7, <3>8, <3>9 DEF QueueOK
  <2>9. CASE ~Eligible(s, n)
    <3>1. sub'[s] = sub[s] /\ (sub[s].liveAfter >= n \/ ~Matches(n, sub[s].filter))
      BY <1>6, <1>16, <2>1, <2>9 DEF Eligible
    <3>2. CASE sub[s].liveAfter >= n
      <4>1. Seen(s)' = Seen(s)
        BY <2>1, <2>3, <2>5, <3>2
      <4> QED
        BY <1>2, <1>5, <1>14, <1>16, <2>1, <3>1, <4>1, QueueKept
    <3>3. CASE sub[s].liveAfter < n /\ ~Matches(n, sub[s].filter)
      <4>1. Seen(s) = n - 1 /\ Seen(s)' = n
        BY <2>1, <2>3, <2>5, <3>3
      <4>2. \A m \in 1..MaxEvents : Matches(m, sub[s].filter) => (m <= n <=> m <= n - 1)
        BY <2>1, <3>3
      <4>3. \A m \in 1..MaxEvents :
              In(m, sub[s].queue) <=> m > sub[s].last /\ m <= n - 1 /\ Matches(m, sub[s].filter)
        BY <2>1, <4>1 DEF QueueOK
      <4>4. sub[s].last <= n
        BY <2>1, <4>1 DEF QueueOK
      <4>5. sub[s].queue # <<>> => Busy(s)'
        BY <1>2, <1>14, <2>1 DEF QueueOK
      <4>6. \A m \in 1..MaxEvents :
              In(m, sub'[s].queue) <=> m > sub'[s].last /\ m <= Seen(s)' /\ log'[m] \in sub'[s].filter
        BY <2>7, <3>1, <4>1, <4>2, <4>3
      <4> QED
        BY <1>5, <2>1, <2>6, <3>1, <4>1, <4>4, <4>5, <4>6 DEF QueueOK
    <3> QED
      BY <2>1, <3>1, <3>2, <3>3
  <2> QED
    BY <2>8, <2>9
<1>17. Queues'
  BY <1>5, <1>15, <1>16 DEF Queues
<1> QED
  BY <1>5, <1>6, <1>8, <1>12, <1>14, <1>17 DEF BusInv, PendingIsDealt

(* What replay has after the cursor, and nothing before it. *)
LEMMA EventsSinceIs ==
  ASSUME BusInv, NEW filter, NEW cursor \in Nat, Retained(cursor)
  PROVE  /\ EventsSince(cursor, filter) \in Seq(1..MaxEvents)
         /\ Increasing(EventsSince(cursor, filter))
         /\ \A n \in 1..MaxEvents :
              In(n, EventsSince(cursor, filter)) <=>
                n > cursor /\ n <= Last /\ Matches(n, filter)
<1>1. /\ replay \in Seq(1..MaxEvents) /\ Len(replay) \in Nat /\ Last \in Nat
      /\ DOMAIN replay = 1..Len(replay) /\ Len(replay) <= Last
      /\ \A i \in 1..Len(replay) : replay[i] = Last - Len(replay) + i
      /\ DOMAIN log = 1..Last
      /\ cursor <= Last /\ cursor + Len(replay) >= Last
  <2>1. Last \in Nat /\ DOMAIN log = 1..Last
    BY DEF BusInv, LogType, Last
  <2>2. /\ replay \in Seq(1..MaxEvents) /\ Len(replay) \in Nat /\ DOMAIN replay = 1..Len(replay)
        /\ Len(replay) = (IF Last < ReplayLimit THEN Last ELSE ReplayLimit)
        /\ \A i \in DOMAIN replay : replay[i] = Last - Len(replay) + i
    BY DEF BusInv, ReplayEndsLog
  <2>3. Len(replay) <= Last
    BY <2>1, <2>2, EventBusAssumption
  <2> QED
    BY <2>1, <2>2, <2>3 DEF Retained
<1> DEFINE S == {n \in DOMAIN log : n > cursor /\ Matches(n, filter)}
<1>2. EventsSince(cursor, filter) = Kept(replay, S)
  BY DEF EventsSince
<1>3. Increasing(replay)
  BY <1>1 DEF Increasing
<1>4. replay \in Seq(Nat)
  BY <1>1, EventQueue, Zenon
<1>5. /\ Kept(replay, S) \in Seq(1..MaxEvents)
      /\ \A n : In(n, Kept(replay, S)) <=> In(n, replay) /\ n \in S
  <2>1. replay \in Seq(1..MaxEvents)
    BY <1>1
  <2> HIDE DEF S
  <2> QED
    BY <2>1, KeptIn, Zenon
<1>6. Increasing(Kept(replay, S))
  <2> HIDE DEF S
  <2> QED
    BY <1>3, <1>4, KeptIncreasing, Zenon
<1>7. ASSUME NEW n \in 1..MaxEvents
      PROVE  In(n, replay) /\ n \in S <=> n > cursor /\ n <= Last /\ Matches(n, filter)
  <2>1. n \in S <=> n <= Last /\ n > cursor /\ Matches(n, filter)
    BY <1>1
  <2>2. ASSUME n <= Last, n > cursor PROVE In(n, replay)
    <3>1. n - (Last - Len(replay)) \in 1..Len(replay)
      BY <1>1, <2>2
    <3>2. replay[n - (Last - Len(replay))] = n
      BY <1>1, <3>1
    <3> QED
      BY <1>1, <3>1, <3>2 DEF In
  <2> HIDE DEF S
  <2> QED
    BY <2>1, <2>2
<1> HIDE DEF S
<1> QED
  BY <1>2, <1>5, <1>6, <1>7

(* A new queue has what is retained after the cursor, and is delivered. *)
LEMMA SubscribeInv ==
  ASSUME BusInv, NEW s \in Subscriber, NEW filter \in SUBSET Topic,
         NEW cursor \in 0..MaxEvents \cup {None}, Subscribe(s, filter, cursor)
  PROVE  BusInv'
<1>1. ~sub[s].used /\ stack \in Seq(Frame) /\ Unique(stack)
  BY DEF Subscribe, BusInv, Calls
<1>2. /\ LogType' /\ ReplayEndsLog' /\ PendingEndsLog' /\ pending' = pending
      /\ log' = log /\ Last' = Last /\ Dealt' = Dealt /\ Last \in Nat /\ Last <= MaxEvents
      /\ Dealt \in Nat /\ Dealt <= Last
  BY DEF BusInv, Subscribe, LogType, ReplayEndsLog, PendingEndsLog, Last, Dealt
<1>3. \A f \in CallsIn(stack) : f \in Frame /\ FrameOK(f)
  BY DEF BusInv, Calls, CallsIn
<1>4. /\ ~Subscribed(s)
      /\ \A f \in CallsIn(stack) : f.sub # s /\ ~In(s, f.targets)
  BY <1>1, <1>3, EventBusAssumption DEF BusInv, Members, FrameOK, Frame
<1>5. PICK c \in 0..MaxEvents, q \in Seq(1..MaxEvents) :
        /\ sub' = [sub EXCEPT ![s] = [filter |-> filter, liveAfter |-> Last, used |-> TRUE,
                                      queue |-> q, last |-> c]]
        /\ c <= Last /\ Increasing(q)
        /\ \A n \in 1..MaxEvents : In(n, q) <=> n > c /\ n <= Last /\ Matches(n, filter)
  <2>1. CASE cursor = None
    <3>1. sub' = [sub EXCEPT ![s] = [filter |-> filter, liveAfter |-> Last, used |-> TRUE,
                                     queue |-> <<>>, last |-> Last]]
      BY <2>1 DEF Subscribe
    <3>2. <<>> \in Seq(1..MaxEvents) /\ Increasing(<<>>) /\ Last \in 0..MaxEvents
      BY <1>2, EventBusAssumption DEF Increasing
    <3>3. \A n \in 1..MaxEvents : In(n, <<>>) <=> n > Last /\ n <= Last /\ Matches(n, filter)
      BY <1>2, InEmpty
    <3> Last \in 0..MaxEvents /\ <<>> \in Seq(1..MaxEvents) /\ Last <= Last
      BY <1>2, <3>2
    <3> WITNESS Last \in 0..MaxEvents, <<>> \in Seq(1..MaxEvents)
    <3> QED
      BY <3>1, <3>2, <3>3
  <2>2. CASE cursor # None
    <3>1. cursor \in 0..MaxEvents /\ cursor \in Nat /\ Retained(cursor)
      BY <2>2 DEF Subscribe
    <3>2. sub' = [sub EXCEPT ![s] = [filter |-> filter, liveAfter |-> Last, used |-> TRUE,
                                     queue |-> EventsSince(cursor, filter), last |-> cursor]]
      BY <2>2 DEF Subscribe
    <3>3. cursor <= Last
      BY <3>1 DEF Retained
    <3> QED
      BY <3>1, <3>2, <3>3, EventsSinceIs
  <2> QED
    BY <2>1, <2>2
<1>6. /\ SubType' /\ \A u \in Subscriber : u # s => sub'[u] = sub[u]
      /\ sub'[s] = [filter |-> filter, liveAfter |-> Last, used |-> TRUE, queue |-> q, last |-> c]
  <2>1. sub \in [Subscriber ->
          [filter : SUBSET Topic, liveAfter : 0..MaxEvents, queue : Seq(1..MaxEvents),
           last : 0..MaxEvents, used : BOOLEAN]]
    BY DEF BusInv, SubType
  <2>2. [filter |-> filter, liveAfter |-> Last, used |-> TRUE, queue |-> q, last |-> c] \in
          [filter : SUBSET Topic, liveAfter : 0..MaxEvents, queue : Seq(1..MaxEvents),
           last : 0..MaxEvents, used : BOOLEAN]
    BY <1>2, <1>5, EventBusAssumption
  <2> QED
    BY <1>5, <2>1, <2>2 DEF SubType
<1>7. \A u \in Subscriber : sub[u].used => sub'[u].used
  BY <1>1, <1>6
<1>8. \A u : Subscribed(u)' <=> Subscribed(u) \/ u = s
  <2>1. subscribers \in Seq(Subscriber) /\ subscribers' = Append(subscribers, s)
    BY DEF BusInv, Members, Subscribe
  <2>2. \A u : Subscribed(u)' <=> In(u, subscribers')
    BY DEF Subscribed, In
  <2>3. \A u : In(u, Append(subscribers, s)) <=> In(u, subscribers) \/ u = s
    BY <2>1, InAppend
  <2> QED
    BY <2>1, <2>2, <2>3, SubscribedIn
<1>9. Members'
  <2>1. subscribers \in Seq(Subscriber) /\ subscribers' = Append(subscribers, s) /\ Distinct(subscribers)
    BY DEF BusInv, Members, Subscribe
  <2>2. subscribers' \in Seq(Subscriber) /\ Distinct(subscribers')
    BY <1>4, <2>1, InAppend, SubscribedIn
  <2>3. \A u \in Subscriber : Subscribed(u)' => sub'[u].used
    BY <1>6, <1>7, <1>8 DEF BusInv, Members
  <2> QED
    BY <2>2, <2>3 DEF Members
<1>10. PICK d : d = Delivery(s, 0)
  OBVIOUS
<1>11. d \in Frame /\ d.sub = s /\ d.kind = "deliver" /\ d.targets = <<>>
  BY <1>10, EventBusAssumption DEF Delivery, Frame
<1>12. /\ stack' \in Seq(Frame) /\ Unique(stack')
       /\ CallsIn(stack') = {d} \cup CallsIn(stack)
  <2>1. stack' = <<d>> \o stack
    BY <1>10 DEF Subscribe
  <2> QED
    BY <1>1, <1>4, <1>11, <2>1, Entered
<1>13. Calls'
  <2>1. ASSUME NEW f \in CallsIn(stack) PROVE FrameOK(f)'
    BY <1>2, <1>3, <1>7, FrameKept, EventBusAssumption
  <2>2. FrameOK(d)'
    BY <1>6, <1>11, DeliveryOK, EventBusAssumption
  <2> QED
    BY <1>12, <2>1, <2>2 DEF Calls
<1>14. \A u : Awaits(u)' <=> Awaits(u)
  BY <1>11, <1>12, InEmpty DEF Awaits
<1>15. /\ \A u : Busy(u) => Busy(u)'
       /\ Busy(s)' /\ (Delivering => Delivering')
  BY <1>11, <1>12, CallsAre, CallsAreNext
<1>16. ASSUME NEW u \in Subscriber, Subscribed(u) PROVE QueueOK(u)'
  <2>1. u # s
    BY <1>4, <1>16
  <2>2. Seen(u)' = Seen(u)
    BY <1>2, <1>6, <1>14, <2>1, SeenKept
  <2> QED
    BY <1>2, <1>6, <1>15, <1>16, <2>1, <2>2, QueueKept
<1>17. QueueOK(s)'
  <2>1. Seen(s)' = Last
    BY <1>2, <1>4, <1>6, <1>14 DEF Seen, Awaits
  <2>2. \A n : Matches(n, sub[s].filter)' <=> Matches(n, filter)
    BY <1>2, <1>6 DEF Matches
  <2> QED
    BY <1>2, <1>5, <1>6, <1>15, <2>1, <2>2 DEF QueueOK
<1>18. Queues'
  BY <1>8, <1>16, <1>17 DEF Queues
<1>19. PendingIsDealt'
  BY <1>2, <1>15 DEF BusInv, PendingIsDealt
<1> QED
  BY <1>2, <1>6, <1>9, <1>13, <1>18, <1>19 DEF BusInv

(* Who unsubscribes is no subscriber any more; the other queues stay. *)
LEMMA UnsubscribeInv ==
  ASSUME BusInv, NEW s \in Subscriber, Unsubscribe(s)
  PROVE  BusInv'
<1>1. /\ LogType' /\ ReplayEndsLog' /\ PendingEndsLog' /\ SubType' /\ PendingIsDealt'
      /\ log' = log /\ Last' = Last /\ Dealt' = Dealt /\ sub' = sub /\ stack' = stack
      /\ CallsIn(stack') = CallsIn(stack)
      /\ \A u : Busy(u)' <=> Busy(u)
      /\ \A u : Awaits(u)' <=> Awaits(u)
  BY DEF BusInv, Unsubscribe, LogType, ReplayEndsLog, PendingEndsLog, SubType, PendingIsDealt,
         Last, Dealt, Delivering, Busy, Awaits
<1>2. /\ subscribers' \in Seq(Subscriber) /\ Distinct(subscribers')
      /\ \A u : Subscribed(u)' => Subscribed(u)
  <2>1. subscribers \in Seq(Subscriber) /\ Distinct(subscribers)
    BY DEF BusInv, Members
  <2>2. PICK S : S = Subscriber \ {s}
    OBVIOUS
  <2>3. subscribers' = Kept(subscribers, S)
    BY <2>2 DEF Unsubscribe, Without
  <2>4. /\ subscribers' \in Seq(Subscriber) /\ Distinct(subscribers')
        /\ \A u : In(u, subscribers') <=> In(u, subscribers) /\ u \in S
    BY <2>1, <2>3, KeptIn
  <2>5. \A u : Subscribed(u)' <=> In(u, subscribers')
    BY DEF Subscribed, In
  <2> QED
    BY <2>4, <2>5, SubscribedIn
<1>3. Members' /\ Calls'
  <2>1. ASSUME NEW f \in CallsIn(stack) PROVE FrameOK(f)'
    <3>1. f \in Frame /\ FrameOK(f)
      BY DEF BusInv, Calls, CallsIn
    <3> QED
      BY <1>1, <3>1, FrameKept, EventBusAssumption
  <2> QED
    BY <1>1, <1>2, <2>1 DEF BusInv, Members, Calls
<1>4. Queues'
  <2> SUFFICES ASSUME NEW u \in Subscriber, Subscribed(u)' PROVE QueueOK(u)'
    BY DEF Queues
  <2>1. Subscribed(u)
    BY <1>2
  <2>2. Seen(u)' = Seen(u) /\ Last \in Nat
    BY <1>1, <2>1, SeenKept, SeenIn
  <2> QED
    BY <1>1, <2>1, <2>2, QueueKept
<1> QED
  BY <1>1, <1>3, <1>4 DEF BusInv

(* deliver takes the head of the queue of s. *)
LEMMA CallListenerInv ==
  ASSUME BusInv, CallListener
  PROVE  BusInv'
<1>1. PICK s : s = Head(stack).sub
  OBVIOUS
<1>2. /\ stack # <<>> /\ Tail(stack) \in Seq(Frame) /\ Unique(Tail(stack))
      /\ CallsIn(stack) = {Head(stack)} \cup CallsIn(Tail(stack))
      /\ s \in Subscriber /\ Head(stack).kind = "deliver"
      /\ Head(stack).targets = <<>> /\ sub[s].used
      /\ \A g \in CallsIn(Tail(stack)) : g.sub # s
      /\ \A g \in CallsIn(Tail(stack)) : g \in Frame /\ FrameOK(g)
  BY <1>1, HeadDelivery DEF CallListener
<1>3. PICK q, n : q = sub[s].queue /\ n = Head(q)
  OBVIOUS
<1>4. /\ q \in Seq(1..MaxEvents) /\ q # <<>> /\ n \in 1..MaxEvents /\ Tail(q) \in Seq(1..MaxEvents)
      /\ In(n, q) /\ \A m : In(m, q) <=> m = n \/ In(m, Tail(q))
      /\ Subscribed(s)
  <2>1. Subscribed(s) /\ q # <<>>
    BY <1>1, <1>3 DEF CallListener, GoesOn
  <2>2. q \in Seq(1..MaxEvents)
    BY <1>2, <1>3 DEF BusInv, SubType
  <2>3. /\ Head(q) \in 1..MaxEvents /\ Tail(q) \in Seq(1..MaxEvents) /\ In(Head(q), q)
        /\ \A m : In(m, q) <=> m = Head(q) \/ In(m, Tail(q))
    BY <2>1, <2>2, InTail
  <2> QED
    BY <1>3, <2>1, <2>2, <2>3
<1>5. /\ LogType' /\ ReplayEndsLog' /\ PendingEndsLog'
      /\ log' = log /\ Last' = Last /\ Dealt' = Dealt /\ pending' = pending
      /\ subscribers' = subscribers /\ \A u : Subscribed(u)' <=> Subscribed(u)
  BY DEF BusInv, CallListener, LogType, ReplayEndsLog, PendingEndsLog, Subscribed, Last, Dealt
<1>6. /\ \A u \in Subscriber : u # s => sub'[u] = sub[u]
      /\ sub'[s].queue = Tail(q) /\ sub'[s].last = n
      /\ sub'[s].filter = sub[s].filter /\ sub'[s].liveAfter = sub[s].liveAfter
      /\ sub'[s].used = sub[s].used
      /\ SubType'
  <2>1. sub \in [Subscriber ->
          [filter : SUBSET Topic, liveAfter : 0..MaxEvents, queue : Seq(1..MaxEvents),
           last : 0..MaxEvents, used : BOOLEAN]]
    BY DEF BusInv, SubType
  <2>2. sub' = [sub EXCEPT ![s] = [sub[s] EXCEPT !.queue = Tail(q), !.last = n]]
    BY <1>1, <1>2, <1>3, <2>1 DEF CallListener
  <2>3. n \in 0..MaxEvents
    BY <1>4
  <2>4. [sub[s] EXCEPT !.queue = Tail(q), !.last = n] \in
          [filter : SUBSET Topic, liveAfter : 0..MaxEvents, queue : Seq(1..MaxEvents),
           last : 0..MaxEvents, used : BOOLEAN]
    BY <1>2, <1>4, <2>1, <2>3
  <2>5. SubType'
    BY <2>1, <2>2, <2>4 DEF SubType
  <2> QED
    BY <1>2, <2>1, <2>2, <2>5
<1>7. \A u \in Subscriber : sub'[u].used = sub[u].used
  BY <1>6
<1>8. Members'
  BY <1>5, <1>7 DEF BusInv, Members
<1>9. PICK d : d = Delivery(s, n)
  OBVIOUS
<1>10. d \in Frame /\ d.sub = s /\ d.kind = "deliver" /\ d.targets = <<>>
  BY <1>2, <1>4, <1>9 DEF Delivery, Frame
<1>11. /\ stack' \in Seq(Frame) /\ Unique(stack')
       /\ CallsIn(stack') = {d} \cup CallsIn(Tail(stack))
  <2>1. stack' = <<d>> \o Tail(stack)
    BY <1>1, <1>3, <1>9 DEF CallListener
  <2> QED
    BY <1>2, <1>10, <2>1, Entered
<1>12. Calls'
  <2>1. ASSUME NEW f \in CallsIn(Tail(stack)) PROVE FrameOK(f)'
    BY <1>2, <1>5, <1>7, FrameKept, EventBusAssumption
  <2>2. FrameOK(d)'
    BY <1>2, <1>6, <1>10, DeliveryOK, EventBusAssumption
  <2> QED
    BY <1>11, <2>1, <2>2 DEF Calls
<1>13. \A u : Awaits(u)' <=> Awaits(u)
  BY <1>2, <1>10, <1>11, InEmpty DEF Awaits
<1>14. /\ \A u : Busy(u) => Busy(u)'
       /\ Busy(s)' /\ (Delivering => Delivering')
  BY <1>1, <1>2, <1>10, <1>11, CallsAre, CallsAreNext
<1>15. ASSUME NEW u \in Subscriber, Subscribed(u), u # s PROVE QueueOK(u)'
  <2>1. Seen(u)' = Seen(u) /\ Last \in Nat
    BY <1>5, <1>6, <1>13, <1>15, SeenKept, SeenIn
  <2> QED
    BY <1>5, <1>6, <1>14, <1>15, <2>1, QueueKept
<1>16. QueueOK(s)'
  <2>1. QueueOK(s)
    BY <1>2, <1>4 DEF BusInv, Queues
  <2>2. /\ Seen(s)' = Seen(s) /\ Seen(s) \in Nat /\ Last \in Nat
        /\ sub[s].last \in Nat
    <3>1. Seen(s)' = Seen(s)
      BY <1>5, <1>6, <1>13 DEF Seen
    <3>2. sub[s].last \in Nat
      BY <1>2, EventBusAssumption DEF BusInv, SubType
    <3> QED
      BY <1>2, <1>4, <3>1, <3>2, SeenIn
  <2>3. q \in Seq(Nat) /\ Increasing(q)
    BY <1>3, <1>4, <2>1, EventQueue DEF QueueOK
  <2>4. Increasing(Tail(q)) /\ \A m \in Nat : In(m, Tail(q)) => n < m
    BY <1>3, <1>4, <2>3, IncreasingQueues
  <2>5. n > sub[s].last /\ n <= Seen(s)
    BY <1>3, <1>4, <2>1 DEF QueueOK
  <2>6. ASSUME NEW m \in 1..MaxEvents
        PROVE  In(m, Tail(q)) <=> m > n /\ m <= Seen(s) /\ Matches(m, sub[s].filter)
    <3>1. In(m, q) <=> m > sub[s].last /\ m <= Seen(s) /\ Matches(m, sub[s].filter)
      BY <1>3, <2>1 DEF QueueOK
    <3>2. In(m, q) <=> m = n \/ In(m, Tail(q))
      BY <1>4
    <3>3. In(m, Tail(q)) => n < m
      BY <2>4
    <3>4. m > n => m # n /\ m > sub[s].last
      BY <1>4, <2>2, <2>5
    <3> QED
      BY <3>1, <3>2, <3>3, <3>4, <1>4
  <2>7. \A m : Matches(m, sub[s].filter)' <=> Matches(m, sub[s].filter)
    BY <1>5, <1>6 DEF Matches
  <2>8. sub'[s].liveAfter <= Last'
    BY <1>5, <1>6, <2>1 DEF QueueOK
  <2> QED
    BY <1>6, <1>14, <2>2, <2>4, <2>5, <2>6, <2>7, <2>8 DEF QueueOK
<1>17. Queues'
  BY <1>5, <1>15, <1>16 DEF Queues
<1>18. PendingIsDealt'
  BY <1>5, <1>14 DEF BusInv, PendingIsDealt
<1> QED
  BY <1>5, <1>6, <1>8, <1>12, <1>17, <1>18 DEF BusInv

(* deliver returns when its queue is empty or its subscriber is gone. *)
LEMMA DeliverReturnsInv ==
  ASSUME BusInv, DeliverReturns
  PROVE  BusInv'
<1>1. /\ stack # <<>> /\ Tail(stack) \in Seq(Frame) /\ Unique(Tail(stack))
      /\ CallsIn(stack) = {Head(stack)} \cup CallsIn(Tail(stack))
      /\ Head(stack).kind = "deliver" /\ Head(stack).targets = <<>>
      /\ \A g \in CallsIn(Tail(stack)) : g \in Frame /\ FrameOK(g)
  BY HeadDelivery DEF DeliverReturns
<1>2. /\ LogType' /\ ReplayEndsLog' /\ PendingEndsLog' /\ SubType' /\ Members'
      /\ sub' = sub /\ log' = log /\ Last' = Last /\ Dealt' = Dealt /\ pending' = pending
      /\ \A u : Subscribed(u)' <=> Subscribed(u)
      /\ stack' = Tail(stack) /\ ~GoesOn(Head(stack).sub)
  BY DEF BusInv, DeliverReturns, LogType, ReplayEndsLog, PendingEndsLog, SubType, Members,
         Subscribed, Last, Dealt
<1>3. Calls'
  <2>1. ASSUME NEW f \in CallsIn(Tail(stack)) PROVE FrameOK(f)'
    BY <1>1, <1>2, FrameKept, EventBusAssumption
  <2> QED
    BY <1>1, <1>2, <2>1 DEF Calls
<1>4. \A u : Awaits(u)' <=> Awaits(u)
  BY <1>1, <1>2, InEmpty DEF Awaits
<1>5. Delivering => Delivering'
  BY <1>1, <1>2, CallsAre, CallsAreNext
<1>6. ASSUME NEW u \in Subscriber, Subscribed(u) PROVE QueueOK(u)'
  <2>1. Seen(u)' = Seen(u) /\ Last \in Nat
    BY <1>2, <1>4, <1>6, SeenKept, SeenIn
  <2>2. CASE u = Head(stack).sub
    <3>1. sub[u].queue = <<>>
      BY <1>2, <1>6, <2>2 DEF GoesOn
    <3>2. QueueOK(u)
      BY <1>6 DEF BusInv, Queues
    <3>3. \A m : Matches(m, sub[u].filter)' <=> Matches(m, sub[u].filter)
      BY <1>2 DEF Matches
    <3> QED
      BY <1>2, <2>1, <3>1, <3>2, <3>3 DEF QueueOK
  <2>3. CASE u # Head(stack).sub
    <3>1. Busy(u) => Busy(u)'
      BY <1>1, <1>2, <2>3, CallsAre, CallsAreNext
    <3> QED
      BY <1>2, <1>6, <2>1, <3>1, QueueKept
  <2> QED
    BY <2>2, <2>3
<1>7. Queues' /\ PendingIsDealt'
  BY <1>2, <1>5, <1>6 DEF BusInv, Queues, PendingIsDealt
<1> QED
  BY <1>2, <1>3, <1>7 DEF BusInv

(* The listener has returned to deliver. *)
LEMMA ListenerReturnsInv ==
  ASSUME BusInv, ListenerReturns
  PROVE  BusInv'
<1>1. PICK s, d : s = Head(stack).sub /\ d = Delivery(s, 0)
  OBVIOUS
<1>2. /\ stack # <<>> /\ Tail(stack) \in Seq(Frame) /\ Unique(Tail(stack))
      /\ CallsIn(stack) = {Head(stack)} \cup CallsIn(Tail(stack))
      /\ s \in Subscriber /\ Head(stack).kind = "deliver"
      /\ Head(stack).targets = <<>> /\ sub[s].used
      /\ \A g \in CallsIn(Tail(stack)) : g.sub # s
      /\ \A g \in CallsIn(Tail(stack)) : g \in Frame /\ FrameOK(g)
  BY <1>1, HeadDelivery DEF ListenerReturns
<1>3. /\ LogType' /\ ReplayEndsLog' /\ PendingEndsLog' /\ SubType' /\ Members'
      /\ sub' = sub /\ log' = log /\ Last' = Last /\ Dealt' = Dealt /\ pending' = pending
      /\ \A u : Subscribed(u)' <=> Subscribed(u)
  BY DEF BusInv, ListenerReturns, LogType, ReplayEndsLog, PendingEndsLog, SubType, Members,
         Subscribed, Last, Dealt
<1>4. d \in Frame /\ d.sub = s /\ d.kind = "deliver" /\ d.targets = <<>>
  BY <1>1, <1>2, EventBusAssumption DEF Delivery, Frame
<1>5. /\ stack' \in Seq(Frame) /\ Unique(stack')
      /\ CallsIn(stack') = {d} \cup CallsIn(Tail(stack))
  <2>1. stack' = <<d>> \o Tail(stack)
    BY <1>1 DEF ListenerReturns
  <2> QED
    BY <1>2, <1>4, <2>1, Entered
<1>6. Calls'
  <2>1. ASSUME NEW f \in CallsIn(Tail(stack)) PROVE FrameOK(f)'
    BY <1>2, <1>3, FrameKept, EventBusAssumption
  <2>2. FrameOK(d)'
    BY <1>2, <1>3, <1>4, DeliveryOK, EventBusAssumption
  <2> QED
    BY <1>5, <2>1, <2>2 DEF Calls
<1>7. \A u : Awaits(u)' <=> Awaits(u)
  BY <1>2, <1>4, <1>5, InEmpty DEF Awaits
<1>8. (\A u : Busy(u) => Busy(u)') /\ (Delivering => Delivering')
  BY <1>1, <1>2, <1>4, <1>5, CallsAre, CallsAreNext
<1>9. ASSUME NEW u \in Subscriber, Subscribed(u) PROVE QueueOK(u)'
  <2>1. Seen(u)' = Seen(u) /\ Last \in Nat
    BY <1>3, <1>7, <1>9, SeenKept, SeenIn
  <2> QED
    BY <1>3, <1>8, <1>9, <2>1, QueueKept
<1>10. Queues' /\ PendingIsDealt'
  BY <1>3, <1>8, <1>9 DEF BusInv, Queues, PendingIsDealt
<1> QED
  BY <1>3, <1>6, <1>10 DEF BusInv

(* Whom the loop of emit skips from now on, as he is gone. *)
LEMMA ListenerThrowsInv ==
  ASSUME BusInv, ListenerThrows
  PROVE  BusInv'
<1>1. PICK s : s = Head(stack).sub
  OBVIOUS
<1>2. /\ stack # <<>> /\ Tail(stack) \in Seq(Frame) /\ Unique(Tail(stack))
      /\ CallsIn(stack) = {Head(stack)} \cup CallsIn(Tail(stack))
      /\ s \in Subscriber /\ Head(stack).kind = "deliver" /\ Head(stack).targets = <<>>
      /\ \A g \in CallsIn(Tail(stack)) : g \in Frame /\ FrameOK(g)
  BY <1>1, HeadDelivery DEF ListenerThrows
<1>3. /\ LogType' /\ ReplayEndsLog' /\ PendingEndsLog'
      /\ log' = log /\ Last' = Last /\ Dealt' = Dealt /\ pending' = pending
      /\ stack' = Tail(stack) /\ subscribers' = Without(s)
      /\ sub' = [sub EXCEPT ![s].queue = <<>>]
  BY <1>1 DEF BusInv, ListenerThrows, LogType, ReplayEndsLog, PendingEndsLog, Last, Dealt
<1>4. /\ SubType' /\ \A u \in Subscriber : sub'[u].used = sub[u].used
      /\ \A u \in Subscriber : u # s => sub'[u] = sub[u]
  <2>1. sub \in [Subscriber ->
          [filter : SUBSET Topic, liveAfter : 0..MaxEvents, queue : Seq(1..MaxEvents),
           last : 0..MaxEvents, used : BOOLEAN]]
    BY DEF BusInv, SubType
  <2>2. sub' = [sub EXCEPT ![s] = [sub[s] EXCEPT !.queue = <<>>]]
    BY <1>2, <1>3, <2>1
  <2>3. [sub[s] EXCEPT !.queue = <<>>] \in
          [filter : SUBSET Topic, liveAfter : 0..MaxEvents, queue : Seq(1..MaxEvents),
           last : 0..MaxEvents, used : BOOLEAN]
    <3>1. /\ <<>> \in Seq(1..MaxEvents)
          /\ sub[s] \in [filter : SUBSET Topic, liveAfter : 0..MaxEvents,
                         queue : Seq(1..MaxEvents), last : 0..MaxEvents, used : BOOLEAN]
      BY <1>2, <2>1
    <3> QED
      BY <3>1
  <2>4. SubType'
    BY <2>1, <2>2, <2>3 DEF SubType
  <2>5. ASSUME NEW u \in Subscriber PROVE sub'[u].used = sub[u].used /\ (u # s => sub'[u] = sub[u])
    BY <1>2, <2>1, <2>2, <2>5
  <2> QED
    BY <2>4, <2>5
<1>5. /\ subscribers' \in Seq(Subscriber) /\ Distinct(subscribers')
      /\ \A u : Subscribed(u)' => Subscribed(u) /\ u # s
  <2>1. subscribers \in Seq(Subscriber) /\ Distinct(subscribers)
    BY DEF BusInv, Members
  <2>2. PICK S : S = Subscriber \ {s}
    OBVIOUS
  <2>3. subscribers' = Kept(subscribers, S)
    BY <1>3, <2>2 DEF Without
  <2>4. /\ subscribers' \in Seq(Subscriber) /\ Distinct(subscribers')
        /\ \A u : In(u, subscribers') <=> In(u, subscribers) /\ u \in S
    BY <2>1, <2>3, KeptIn
  <2>5. \A u : Subscribed(u)' <=> In(u, subscribers')
    BY DEF Subscribed, In
  <2> QED
    BY <2>2, <2>4, <2>5, SubscribedIn
<1>6. Members' /\ Calls'
  <2>1. ASSUME NEW f \in CallsIn(Tail(stack)) PROVE FrameOK(f)'
    BY <1>2, <1>3, <1>4, FrameKept, EventBusAssumption
  <2> QED
    BY <1>2, <1>3, <1>4, <1>5, <2>1 DEF BusInv, Members, Calls
<1>7. \A u : Awaits(u)' <=> Awaits(u)
  BY <1>2, <1>3, InEmpty DEF Awaits
<1>8. /\ \A u : u # s /\ Busy(u) => Busy(u)'
      /\ Delivering => Delivering'
  BY <1>1, <1>2, <1>3, CallsAre, CallsAreNext
<1>9. Queues'
  <2> SUFFICES ASSUME NEW u \in Subscriber, Subscribed(u)' PROVE QueueOK(u)'
    BY DEF Queues
  <2>1. Subscribed(u) /\ u # s
    BY <1>5
  <2>2. Seen(u)' = Seen(u) /\ Last \in Nat
    BY <1>3, <1>4, <1>7, <2>1, SeenKept, SeenIn
  <2> QED
    BY <1>3, <1>4, <1>8, <2>1, <2>2, QueueKept
<1>10. PendingIsDealt'
  BY <1>3, <1>8 DEF BusInv, PendingIsDealt
<1> QED
  BY <1>3, <1>4, <1>6, <1>9, <1>10 DEF BusInv

(* A stutter. *)
LEMMA StutterInv ==
  ASSUME BusInv, UNCHANGED vars
  PROVE  BusInv'
  BY DEF BusInv, vars, LogType, ReplayEndsLog, PendingEndsLog, SubType, Members, Calls, Queues,
         PendingIsDealt, FrameOK, QueueOK, Seen, Awaits, Dealt, Last, Matches, Busy, Subscribed,
         Delivering

(* Every step preserves the invariant. *)
LEMMA StepInv == BusInv /\ [Next]_vars => BusInv'
<1> SUFFICES ASSUME BusInv, [Next]_vars PROVE BusInv'
  OBVIOUS
<1>1. ASSUME NEW x \in Topic, Emit(x) PROVE BusInv'
  BY <1>1, EmitInv
<1>2. ASSUME NEW s \in Subscriber, NEW filter \in (SUBSET Topic) \ {{}},
             NEW cursor \in 0..MaxEvents \cup {None}, Subscribe(s, filter, cursor)
      PROVE  BusInv'
  BY <1>2, SubscribeInv
<1>3. ASSUME NEW s \in Subscriber, Unsubscribe(s) PROVE BusInv'
  BY <1>3, UnsubscribeInv
<1>4. CASE Step
  BY <1>4, NextEventInv, NextSubscriberInv, EmitReturnsInv, CallListenerInv, DeliverReturnsInv,
     ListenerReturnsInv, ListenerThrowsInv DEF Step
<1>5. CASE UNCHANGED vars
  BY <1>5, StutterInv
<1> QED
  BY <1>1, <1>2, <1>3, <1>4, <1>5 DEF Next

-----------------------------------------------------------------------------

(* BusInv is an invariant of the bus. *)
LEMMA BusInvariant == Spec => []BusInv
<1>1. Init => BusInv
  BY InitInv
<1>2. BusInv /\ [Next]_vars => BusInv'
  BY StepInv
<1> QED
  BY <1>1, <1>2, PTL DEF Spec

(* The invariant implies Safe: with an empty stack no queue has anything. *)
LEMMA BusIsSafe == BusInv => Safe
<1> SUFFICES ASSUME BusInv PROVE Safe
  OBVIOUS
<1>1. TypeOK
  <2>1. log \in Seq(Topic) /\ Last <= MaxEvents
    BY DEF BusInv, LogType
  <2>2. /\ Len(replay) = (IF Last < ReplayLimit THEN Last ELSE ReplayLimit)
        /\ \A i \in DOMAIN replay : replay[i] = Last - Len(replay) + i
    BY DEF BusInv, ReplayEndsLog
  <2>3. /\ Len(pending) <= Last
        /\ \A i \in DOMAIN pending : pending[i] = Last - Len(pending) + i
    BY DEF BusInv, PendingEndsLog
  <2>4. /\ subscribers \in Seq(Subscriber)
        /\ sub \in [Subscriber ->
             [filter : SUBSET Topic, liveAfter : 0..MaxEvents, queue : Seq(1..MaxEvents),
              last : 0..MaxEvents, used : BOOLEAN]]
    BY DEF BusInv, Members, SubType
  <2>5. /\ stack \in Seq(Frame)
        /\ \A i, j \in DOMAIN stack : i # j => stack[i].sub # stack[j].sub
    BY DEF BusInv, Calls, Unique
  <2> QED
    BY <2>1, <2>2, <2>3, <2>4, <2>5 DEF TypeOK
<1>2. ASSUME stack = <<>>
      PROVE  /\ pending = <<>>
             /\ \A s \in Subscriber : Subscribed(s) =>
                  \A n \in DOMAIN log : n > sub[s].last => ~Matches(n, sub[s].filter)
  <2>1. ~Delivering /\ (\A s : ~Busy(s)) /\ CallsIn(stack) = {}
    BY <1>2 DEF Delivering, Busy, CallsIn
  <2>2. pending = <<>>
    BY <2>1 DEF BusInv, PendingIsDealt
  <2>3. ASSUME NEW s \in Subscriber, Subscribed(s), NEW n \in DOMAIN log, n > sub[s].last
        PROVE  ~Matches(n, sub[s].filter)
    <3>1. QueueOK(s) /\ sub[s].queue = <<>>
      BY <2>1, <2>3 DEF BusInv, Queues, QueueOK
    <3>2. Last \in Nat /\ Last <= MaxEvents /\ DOMAIN log = 1..Last
      BY DEF BusInv, LogType, Last
    <3>3. Dealt = Last /\ ~Awaits(s)
      BY <2>1, <2>2, <3>2 DEF Dealt, Awaits
    <3>4. Last <= Seen(s)
      BY <2>3, <3>2, <3>3, SeenIn DEF Seen
    <3>5. n \in 1..MaxEvents /\ n <= Seen(s)
      BY <2>3, <3>2, <3>4, SeenIn, EventBusAssumption
    <3> QED
      BY <2>3, <3>1, <3>5, InEmpty DEF QueueOK
  <2> QED
    BY <2>2, <2>3
<1> QED
  BY <1>1, <1>2 DEF Safe, AllGiven

(* The bus keeps its buffers, queues and calls as it declares them, and    *)
(* when the outermost call of emit or subscribe returns, every subscriber  *)
(* has been given whatever it asked for, in whatever way the listeners     *)
(* have called the bus meanwhile.                                          *)
THEOREM Given == Spec => []Safe
  BY BusInvariant, BusIsSafe, PTL

-----------------------------------------------------------------------------
(* The bus implements EventLog.                                            *)

(* What EventLog calls a reader. *)
Reader(s) ==
  [phase |-> IF Subscribed(s) THEN "on" ELSE IF sub[s].used THEN "off" ELSE "new",
   topics |-> sub[s].filter,
   pos |-> sub[s].last]

Readers == [s \in Subscriber |-> Reader(s)]

(* At the start nobody has joined. *)
LEMMA InitRefines == Init => Log!Init
<1> SUFFICES ASSUME Init PROVE Log!Init
  OBVIOUS
<1>1. ASSUME NEW s \in Subscriber PROVE Reader(s) = [phase |-> "new", topics |-> {}, pos |-> 0]
  <2>1. sub[s] = Unused /\ subscribers = <<>>
    BY DEF Init
  <2>2. ~Subscribed(s)
    BY <2>1 DEF Subscribed
  <2>3. sub[s].filter = {} /\ sub[s].last = 0 /\ sub[s].used = FALSE
    BY <2>1 DEF Unused
  <2> QED
    BY <2>2, <2>3 DEF Reader
<1> QED
  BY <1>1 DEF Init, Log!Init, Reader

(* A step that changes neither the log nor what a reader is, is a stutter. *)
LEMMA ReadersKept ==
  ASSUME log' = log, \A s \in Subscriber : Reader(s)' = Reader(s)
  PROVE  UNCHANGED Log!logVars
  BY DEF Log!logVars, Reader

(* A step of one reader. *)
LEMMA ReaderChanges ==
  ASSUME NEW s \in Subscriber, NEW r, Reader(s)' = r,
         \A u \in Subscriber : u # s => Reader(u)' = Reader(u)
  PROVE  Readers' = [Readers EXCEPT ![s] = r]
  BY DEF Readers

(* emit publishes its event. *)
LEMMA EmitRefines ==
  ASSUME NEW x \in Topic, Emit(x)
  PROVE  Log!Publish(x)
<1>1. log' = Append(log, x) /\ subscribers' = subscribers /\ sub' = sub
  BY DEF Emit
<1> QED
  BY <1>1 DEF Log!Publish, Subscribed

(* subscribe joins, at the cursor or at the end of the log. *)
LEMMA SubscribeRefines ==
  ASSUME BusInv, NEW s \in Subscriber, NEW filter \in SUBSET Topic,
         NEW cursor \in 0..MaxEvents \cup {None}, Subscribe(s, filter, cursor)
  PROVE  \E from \in 0..Last : Log!Join(s, filter, from)
<1>1. PICK from : from = IF cursor = None THEN Last ELSE cursor
  OBVIOUS
<1>2. from \in 0..Last
  <2>1. Last \in Nat
    BY DEF BusInv, LogType, Last
  <2> QED
    BY <1>1, <2>1, EventBusAssumption DEF Subscribe, Retained
<1>3. ~Subscribed(s) /\ ~sub[s].used /\ log' = log
  BY DEF Subscribe, BusInv, Members
<1>4. \A u : Subscribed(u)' <=> Subscribed(u) \/ u = s
  <2>1. subscribers \in Seq(Subscriber) /\ subscribers' = Append(subscribers, s)
    BY DEF BusInv, Members, Subscribe
  <2>2. \A u : Subscribed(u)' <=> In(u, subscribers')
    BY DEF Subscribed, In
  <2>3. \A u : In(u, Append(subscribers, s)) <=> In(u, subscribers) \/ u = s
    BY <2>1, InAppend
  <2> QED
    BY <2>1, <2>2, <2>3, SubscribedIn
<1>5. /\ sub'[s].filter = filter /\ sub'[s].last = from
      /\ \A u \in Subscriber : u # s => sub'[u] = sub[u]
  <2>1. sub \in [Subscriber ->
          [filter : SUBSET Topic, liveAfter : 0..MaxEvents, queue : Seq(1..MaxEvents),
           last : 0..MaxEvents, used : BOOLEAN]]
    BY DEF BusInv, SubType
  <2>2. PICK q : sub' = [sub EXCEPT ![s] = [filter |-> filter, liveAfter |-> Last, used |-> TRUE,
                                           queue |-> q, last |-> from]]
    BY <1>1 DEF Subscribe
  <2> QED
    BY <2>1, <2>2
<1>6. Reader(s).phase = "new"
  BY <1>3 DEF Reader
<1>7. Readers' = [Readers EXCEPT ![s] = [phase |-> "on", topics |-> filter, pos |-> from]]
  <2>1. Reader(s)' = [phase |-> "on", topics |-> filter, pos |-> from]
    BY <1>4, <1>5 DEF Reader
  <2>2. \A u \in Subscriber : u # s => Reader(u)' = Reader(u)
    BY <1>4, <1>5 DEF Reader
  <2> QED
    BY <2>1, <2>2, ReaderChanges
<1>8. Log!Join(s, filter, from)
  BY <1>2, <1>3, <1>6, <1>7 DEF Log!Join, Readers, Reader, Last
<1> QED
  BY <1>2, <1>8

(* s leaves, if it is there. *)
LEMMA LeaveRefines ==
  ASSUME BusInv, NEW s \in Subscriber, subscribers' = Without(s), log' = log,
         \A u \in Subscriber : /\ sub'[u].filter = sub[u].filter
                               /\ sub'[u].last = sub[u].last
                               /\ sub'[u].used = sub[u].used
  PROVE  Log!Leave(s) \/ UNCHANGED Log!logVars
<1>1. \A u \in Subscriber : Subscribed(u)' <=> Subscribed(u) /\ u # s
  <2>1. subscribers \in Seq(Subscriber)
    BY DEF BusInv, Members
  <2>2. PICK S : S = Subscriber \ {s}
    OBVIOUS
  <2>3. \A u : In(u, subscribers') <=> In(u, subscribers) /\ u \in S
    BY <2>1, <2>2, KeptIn DEF Without
  <2>4. \A u : Subscribed(u)' <=> In(u, subscribers')
    BY DEF Subscribed, In
  <2> QED
    BY <2>2, <2>3, <2>4, SubscribedIn
<1>2. \A u \in Subscriber : u # s => Reader(u)' = Reader(u)
  BY <1>1 DEF Reader
<1>3. CASE Subscribed(s)
  <2>1. sub[s].used
    BY <1>3 DEF BusInv, Members
  <2>2. Reader(s)' = [Reader(s) EXCEPT !.phase = "off"]
    BY <1>1, <1>3, <2>1 DEF Reader
  <2>3. Readers' = [Readers EXCEPT ![s] = [Reader(s) EXCEPT !.phase = "off"]]
    BY <1>2, <2>2, ReaderChanges
  <2>4. Readers' = [Readers EXCEPT ![s].phase = "off"]
    BY <2>3 DEF Readers
  <2>5. Readers[s].phase = "on"
    BY <1>3 DEF Readers, Reader
  <2> QED
    BY <2>4, <2>5 DEF Log!Leave, Readers, Reader
<1>4. CASE ~Subscribed(s)
  <2>1. Reader(s)' = Reader(s)
    BY <1>1, <1>4 DEF Reader
  <2> QED
    BY <1>2, <2>1, ReadersKept
<1> QED
  BY <1>3, <1>4

(* The head of the queue of s is the next event that s wants. *)
LEMMA CallListenerRefines ==
  ASSUME BusInv, CallListener
  PROVE  \E s \in Subscriber : Log!Receive(s)
<1>1. PICK s, q, n : s = Head(stack).sub /\ q = sub[s].queue /\ n = Head(q)
  OBVIOUS
<1>2. s \in Subscriber /\ Subscribed(s) /\ q # <<>>
  BY <1>1, HeadDelivery DEF CallListener, GoesOn
<1>3. sub \in [Subscriber ->
        [filter : SUBSET Topic, liveAfter : 0..MaxEvents, queue : Seq(1..MaxEvents),
         last : 0..MaxEvents, used : BOOLEAN]]
  BY DEF BusInv, SubType
<1>4. q \in Seq(1..MaxEvents)
  BY <1>1, <1>2, <1>3
<1>5. n \in 1..MaxEvents /\ In(n, q) /\ \A m : In(m, q) <=> m = n \/ In(m, Tail(q))
  BY <1>1, <1>2, <1>4, InTail
<1>6. QueueOK(s) /\ Last \in Nat /\ Seen(s) \in Nat /\ Seen(s) <= Last
  BY <1>2, SeenIn DEF BusInv, Queues
<1>7. DOMAIN log = 1..Last /\ Last <= MaxEvents
  BY DEF BusInv, LogType, Last
<1>8. n > sub[s].last /\ n <= Seen(s) /\ log[n] \in sub[s].filter
  BY <1>1, <1>5, <1>6 DEF QueueOK, Matches
<1>9. ASSUME NEW m \in DOMAIN log, m > sub[s].last, log[m] \in sub[s].filter PROVE n <= m
  <2>1. CASE m <= Seen(s)
    <3>1. In(m, q)
      BY <1>1, <1>6, <1>7, <1>9, <2>1, EventBusAssumption DEF QueueOK, Matches
    <3>2. q \in Seq(Nat) /\ Increasing(q)
      BY <1>1, <1>4, <1>6, EventQueue DEF QueueOK
    <3>3. \A k \in Nat : In(k, Tail(q)) => n < k
      BY <1>1, <1>2, <3>2, IncreasingQueues
    <3>4. m \in Nat
      BY <1>7
    <3> QED
      BY <1>5, <3>1, <3>3, <3>4
  <2>2. CASE ~(m <= Seen(s))
    BY <1>5, <1>6, <1>7, <1>8, <2>2
  <2> QED
    BY <2>1, <2>2
<1>10. /\ sub'[s].last = n /\ sub'[s].filter = sub[s].filter /\ sub'[s].used = sub[s].used
       /\ \A u \in Subscriber : u # s => sub'[u] = sub[u]
       /\ log' = log /\ subscribers' = subscribers
  <2>1. sub' = [sub EXCEPT ![s] = [sub[s] EXCEPT !.queue = Tail(q), !.last = n]]
    BY <1>1, <1>2, <1>3 DEF CallListener
  <2>2. sub'[s] = [sub[s] EXCEPT !.queue = Tail(q), !.last = n]
    BY <1>2, <1>3, <2>1
  <2>3. sub[s] \in [filter : SUBSET Topic, liveAfter : 0..MaxEvents, queue : Seq(1..MaxEvents),
                    last : 0..MaxEvents, used : BOOLEAN]
    BY <1>2, <1>3
  <2>4. sub'[s].last = n /\ sub'[s].filter = sub[s].filter /\ sub'[s].used = sub[s].used
    BY <2>2, <2>3
  <2>5. \A u \in Subscriber : u # s => sub'[u] = sub[u]
    BY <1>2, <1>3, <2>1
  <2>6. log' = log /\ subscribers' = subscribers
    BY DEF CallListener
  <2> QED
    BY <2>4, <2>5, <2>6
<1>11. \A u : Subscribed(u)' <=> Subscribed(u)
  BY <1>10 DEF Subscribed
<1>12. Readers' = [Readers EXCEPT ![s].pos = n]
  <2>1. Reader(s)' = [Reader(s) EXCEPT !.pos = n]
    BY <1>10, <1>11 DEF Reader
  <2>2. \A u \in Subscriber : u # s => Reader(u)' = Reader(u)
    BY <1>10, <1>11 DEF Reader
  <2>3. Readers' = [Readers EXCEPT ![s] = [Reader(s) EXCEPT !.pos = n]]
    BY <1>2, <2>1, <2>2, ReaderChanges
  <2> QED
    BY <2>3 DEF Readers
<1>13. Readers[s].phase = "on" /\ Readers[s].pos = sub[s].last /\ Readers[s].topics = sub[s].filter
  BY <1>2 DEF Readers, Reader
<1>14. n \in DOMAIN log
  BY <1>5, <1>6, <1>7, <1>8
<1>15. Log!Receive(s)
  <2>1. Log!Wanted(s) = {m \in DOMAIN log : m > sub[s].last /\ log[m] \in sub[s].filter}
    BY <1>13 DEF Log!Wanted, Readers, Reader
  <2>2. n \in Log!Wanted(s) /\ \A m \in Log!Wanted(s) : n <= m
    BY <1>8, <1>9, <1>14, <2>1
  <2> QED
    BY <1>10, <1>12, <1>13, <2>2 DEF Log!Receive, Readers, Reader
<1> QED
  BY <1>2, <1>15

(* Every step of the bus is one of the log, or leaves it alone. *)
LEMMA StepRefines == BusInv /\ [Next]_vars => [Log!Next]_(Log!logVars)
<1> SUFFICES ASSUME BusInv, [Next]_vars PROVE Log!Next \/ UNCHANGED Log!logVars
  OBVIOUS
<1>1. ASSUME NEW x \in Topic, Emit(x) PROVE Log!Next
  BY <1>1, EmitRefines DEF Log!Next
<1>2. ASSUME NEW s \in Subscriber, NEW filter \in (SUBSET Topic) \ {{}},
             NEW cursor \in 0..MaxEvents \cup {None}, Subscribe(s, filter, cursor)
      PROVE  Log!Next
  <2>1. \E from \in 0..Last : Log!Join(s, filter, from)
    BY <1>2, SubscribeRefines
  <2> QED
    BY <2>1 DEF Log!Next, Last
<1>3. ASSUME NEW s \in Subscriber, Unsubscribe(s) PROVE Log!Next \/ UNCHANGED Log!logVars
  <2>1. Log!Leave(s) \/ UNCHANGED Log!logVars
    BY <1>3, LeaveRefines DEF Unsubscribe
  <2> QED
    BY <2>1 DEF Log!Next
<1>4. CASE CallListener
  <2>1. \E s \in Subscriber : Log!Receive(s)
    BY <1>4, CallListenerRefines
  <2> QED
    BY <2>1 DEF Log!Next
<1>5. CASE ListenerThrows
  <2>1. PICK s : s = Head(stack).sub
    OBVIOUS
  <2>2. s \in Subscriber
    BY <1>5, <2>1, HeadDelivery DEF ListenerThrows
  <2>3. /\ subscribers' = Without(s) /\ log' = log
        /\ \A u \in Subscriber : /\ sub'[u].filter = sub[u].filter
                                 /\ sub'[u].last = sub[u].last
                                 /\ sub'[u].used = sub[u].used
    <3>1. sub' = [sub EXCEPT ![s] = [sub[s] EXCEPT !.queue = <<>>]]
      BY <1>5, <2>1, <2>2 DEF ListenerThrows, BusInv, SubType
    <3> QED
      BY <1>5, <2>1, <2>2, <3>1 DEF ListenerThrows, BusInv, SubType
  <2>4. Log!Leave(s) \/ UNCHANGED Log!logVars
    BY <2>2, <2>3, LeaveRefines
  <2> QED
    BY <2>2, <2>4 DEF Log!Next
<1>6. CASE NextSubscriber
  <2>1. /\ log' = log /\ subscribers' = subscribers
        /\ \A u \in Subscriber : /\ sub'[u].filter = sub[u].filter
                                 /\ sub'[u].last = sub[u].last
                                 /\ sub'[u].used = sub[u].used
    <3>1. PICK s, n : s = Head(Head(stack).targets) /\ n = Head(stack).event
      OBVIOUS
    <3>2. log' = log /\ subscribers' = subscribers
      BY <1>6 DEF NextSubscriber
    <3>3. sub \in [Subscriber ->
            [filter : SUBSET Topic, liveAfter : 0..MaxEvents, queue : Seq(1..MaxEvents),
             last : 0..MaxEvents, used : BOOLEAN]]
      BY DEF BusInv, SubType
    <3>4. sub' = [sub EXCEPT ![s] = [sub[s] EXCEPT !.queue = Append(sub[s].queue, n)]] \/ sub' = sub
      <4>1. sub' = [sub EXCEPT ![s].queue = Append(sub[s].queue, n)] \/ sub' = sub
        BY <1>6, <3>1, Zenon DEF NextSubscriber
      <4> QED
        BY <4>1
    <3>5. ASSUME NEW u \in Subscriber
          PROVE  /\ sub'[u].filter = sub[u].filter
                 /\ sub'[u].last = sub[u].last
                 /\ sub'[u].used = sub[u].used
      <4>1. \/ sub'[u] = [sub[u] EXCEPT !.queue = Append(sub[u].queue, n)]
            \/ sub'[u] = sub[u]
        BY <3>3, <3>4
      <4>2. sub[u] \in
            [filter : SUBSET Topic, liveAfter : 0..MaxEvents, queue : Seq(1..MaxEvents),
             last : 0..MaxEvents, used : BOOLEAN]
        BY <3>3
      <4> QED
        BY <4>1, <4>2
    <3> QED
      BY <3>2, <3>5
  <2>2. \A s \in Subscriber : Reader(s)' = Reader(s)
    BY <2>1 DEF Reader, Subscribed
  <2> QED
    BY <2>1, <2>2, ReadersKept
<1>7. CASE NextEvent \/ EmitReturns \/ DeliverReturns \/ ListenerReturns \/ UNCHANGED vars
  <2>1. log' = log /\ subscribers' = subscribers /\ sub' = sub
    BY <1>7 DEF NextEvent, EmitReturns, DeliverReturns, ListenerReturns, vars
  <2>2. \A s \in Subscriber : Reader(s)' = Reader(s)
    BY <2>1 DEF Reader, Subscribed
  <2> QED
    BY <2>1, <2>2, ReadersKept
<1> QED
  BY <1>1, <1>2, <1>3, <1>4, <1>5, <1>6, <1>7 DEF Next, Step

(* The bus is an event log: every subscriber is given exactly the events   *)
(* that its filter lets through, from where it joined on, in their order,  *)
(* without a gap and without a repetition, until it leaves, however emits, *)
(* deliveries, subscriptions and failing listeners are nested.  (That it   *)
(* is served at all is OrderedLog's fairness, which TLC checks.)           *)
THEOREM BusImplementsLog == Spec => Log!Spec
<1>1. Init => Log!Init
  BY InitRefines
<1>2. BusInv /\ [Next]_vars => [Log!Next]_(Log!logVars)
  BY StepRefines
<1> QED
  BY <1>1, <1>2, BusInvariant, PTL DEF Spec, Log!Spec

=============================================================================
