---------------------------- MODULE SolverProofs ----------------------------
(***************************************************************************)
(* Proofs about the two solvers, for pools of every size.  The greedy one  *)
(* pairs every slot, never a player with themselves, so a league that uses *)
(* it needs no promise of a solver to be Season.  The certificate that     *)
(* verifyOptimum checks, and that TLC follows through the blossom solver's *)
(* steps, is enough for a matching to be one of the cheapest.              *)
(*                                                                         *)
(* GreedyMatch and the sums are recursive functions.  Induction over them  *)
(* is stated with sets, of numbers or of the subsets of a finite set.      *)
(***************************************************************************)
EXTENDS SeasonProofs, SequenceTheorems

-----------------------------------------------------------------------------
(* Greedy.Match. *)

(* Induction, as a fact about a set of numbers. *)
LEMMA NatSetInduction ==
  ASSUME NEW T, 0 \in T, \A k \in Nat : k \in T => k + 1 \in T
  PROVE  Nat \subseteq T
  <1> DEFINE B == Nat \ T
  <1>1. ASSUME B # {} PROVE FALSE
    <2> HIDE DEF B
    <2>1. PICK k \in B : \A j \in B : <<j, k>> \notin OpToRel(<, Nat)
      BY <1>1, NatLessThanWellFounded, WFMin DEF B
    <2>2. k \in Nat /\ k # 0
      BY DEF B
    <2>3. k - 1 \in Nat
      BY <2>2
    <2>4. <<k - 1, k>> \in OpToRel(<, Nat)
      BY <2>2, <2>3 DEF OpToRel
    <2>5. k - 1 \in T
      BY <2>1, <2>3, <2>4 DEF B
    <2> QED BY <2>2, <2>3, <2>5 DEF B
  <1> QED BY <1>1

(* The states of a greedy matching, one slot of the order after another. *)
Runs(f, g, start, order, n) ==
    f = [k \in 0 .. n |-> IF k = 0 THEN start ELSE MatchSlot(g, f[k - 1], order[k])]

(* The recursion that looks for partners one after another has a value. *)
LEMMA RunExists ==
  ASSUME NEW g, NEW start, NEW order, NEW n \in Nat
  PROVE  \E f : Runs(f, g, start, order, n)
  <1> DEFINE T == {k \in Nat : \E f : Runs(f, g, start, order, k)}
  <1>1. 0 \in T
    <2> DEFINE f == [k \in 0 .. 0 |-> start]
    <2>1. Runs(f, g, start, order, 0)
      BY DEF Runs
    <2> QED BY <2>1
  <1>2. ASSUME NEW k \in Nat, k \in T PROVE k + 1 \in T
    <2>1. PICK f : Runs(f, g, start, order, k)
      BY <1>2
    <2> DEFINE h == [j \in 0 .. k + 1 |->
                        IF j = k + 1 THEN MatchSlot(g, f[k], order[k + 1]) ELSE f[j]]
    <2>2. ASSUME NEW j \in 0 .. k + 1
          PROVE  h[j] = IF j = 0 THEN start ELSE MatchSlot(g, h[j - 1], order[j])
      <3>1. CASE j = k + 1
        <4>1. k \in 0 .. k + 1 /\ k # k + 1 /\ j # 0 /\ j - 1 = k
          BY <3>1
        <4>2. h[k] = f[k]
          BY <4>1
        <4> QED BY <3>1, <4>1, <4>2
      <3>2. CASE j # k + 1
        <4>1. j \in 0 .. k /\ (j # 0 => j - 1 \in 0 .. k /\ j - 1 # k + 1 /\ j - 1 \in 0 .. k + 1)
          BY <3>2
        <4>2. h[j] = f[j] /\ (j # 0 => h[j - 1] = f[j - 1])
          BY <3>2, <4>1
        <4>3. f[j] = IF j = 0 THEN start ELSE MatchSlot(g, f[j - 1], order[j])
          BY <2>1, <4>1 DEF Runs
        <4> QED BY <4>2, <4>3
      <3> QED BY <3>1, <3>2
    <2>3. h = [j \in 0 .. k + 1 |-> h[j]]
      OBVIOUS
    <2> HIDE DEF h
    <2>4. Runs(h, g, start, order, k + 1)
      BY <2>2, <2>3 DEF Runs
    <2> QED BY <2>4
  <1> HIDE DEF T
  <1>3. Nat \subseteq T
    BY <1>1, <1>2, NatSetInduction
  <1> QED BY <1>3 DEF T

(* A graph for a solver: its slots are even in number, those of two players  *)
(* may be matched, and one player at most has two of them.                   *)
Solvable(g, n) ==
    /\ n \in Nat /\ n % 2 = 0 /\ DOMAIN g.slots = 1 .. n
    /\ \A i \in 1 .. n : g.slots[i] \in Nat
    /\ \A i, j \in 1 .. n : g.cost[i][j] \in Int
    /\ \A i, j \in 1 .. n : {i, j} \in g.edges <=> g.slots[i] # g.slots[j]
    /\ \A e \in g.edges : \E i, j \in 1 .. n : e = {i, j}
    /\ \A i \in 1 .. n : \E j \in 1 .. n : g.slots[i] # g.slots[j]
    /\ \A i, j, a, b \in 1 .. n :
          (i # j /\ g.slots[i] = g.slots[j] /\ a # b /\ g.slots[a] = g.slots[b]) => i \in {a, b}

(* A slot with another player's slot still free is given one of those. *)
LEMMA PartnerFound ==
  ASSUME NEW g, NEW n, Solvable(g, n), NEW i \in 1 .. n, NEW free \in SUBSET (1 .. n),
         \E j \in free : g.slots[i] # g.slots[j]
  PROVE  LET partner == CheapestPartner(g, i, free)
         IN  partner \in free /\ g.slots[partner] # g.slots[i]
  <1> DEFINE S == {j \in free : {i, j} \in g.edges}
             Key(j) == <<g.cost[i][j], g.slots[j], j>>
             f == [j \in S |-> Key(j)]
  <1>0. n \in Nat /\ S \in SUBSET (1 .. n)
    BY DEF Solvable
  <1>1. ASSUME NEW j \in S
        PROVE  /\ g.cost[i][j] \in Int /\ g.slots[j] \in Int /\ j \in Int
               /\ j \in free /\ g.slots[j] # g.slots[i]
    <2>1. j \in 1 .. n /\ j \in Int /\ {i, j} \in g.edges
      BY <1>0
    <2>2. g.slots[j] \in Nat
      BY <2>1 DEF Solvable
    <2>3. g.cost[i][j] \in Int /\ g.slots[j] # g.slots[i]
      BY <2>1 DEF Solvable
    <2> QED BY <2>1, <2>2, <2>3
  <1>10. PICK k \in free : g.slots[i] # g.slots[k]
    OBVIOUS
  <1>11. k \in S
    BY <1>10 DEF Solvable
  <1>2. IsFiniteSet(S)
    <2>1. IsFiniteSet(1 .. n)
      BY <1>0, CountTo
    <2> QED BY <1>0, <2>1, FS_Subset
  <1>3. CheapestPartner(g, i, free) = CHOOSE x \in S : \A y \in S \ {x} : Precedes(Key(x), Key(y))
    BY DEF CheapestPartner, First
  <1> HIDE DEF S
  <1>4. ASSUME NEW j \in S
        PROVE  /\ f[j][1] \in Int /\ f[j][2] \in Int /\ f[j][3] \in Int
               /\ f[j][3] = j /\ f[j] = Key(j)
    <2>1. f[j] = Key(j)
      OBVIOUS
    <2> HIDE DEF f
    <2> QED BY <1>1, <2>1
  <1> HIDE DEF f
  <1>5. \E x \in S : \A y \in S \ {x} : Precedes(f[x], f[y])
    <2>1. S # {}
      BY <1>11
    <2>2. \A x \in S : f[x][1] \in Int /\ f[x][2] \in Int /\ f[x][3] \in Int
      BY <1>4
    <2>3. \A x, y \in S : x # y => f[x][3] # f[y][3]
      BY <1>4
    <2> QED BY <1>2, <2>1, <2>2, <2>3, LeastTriple
  <1>6. \E x \in S : \A y \in S \ {x} : Precedes(Key(x), Key(y))
    BY <1>4, <1>5
  <1>7. CheapestPartner(g, i, free) \in S
    BY <1>3, <1>6
  <1> QED BY <1>1, <1>7

(* What is matched so far is matched once, and the rest is still free. *)
MatchedSoFar(g, s) ==
    /\ s.free \subseteq DOMAIN g.slots /\ s.pairs \subseteq g.edges
    /\ Cardinality(s.free) % 2 = 0
    /\ \A e \in s.pairs : e \cap s.free = {}
    /\ \A i \in DOMAIN g.slots \ s.free :
          \E e \in s.pairs : i \in e /\ \A x \in s.pairs : i \in x => x = e

(* No player has two free slots. *)
Apart(g, free) == \A a, b \in free : a # b => g.slots[a] # g.slots[b]

(* One more slot looks for a partner, and what is left can still be matched. *)
LEMMA MatchOne ==
  ASSUME NEW g, NEW n, Solvable(g, n), NEW s, MatchedSoFar(g, s), NEW i,
         Apart(g, s.free) \/ (s.free = DOMAIN g.slots /\ i \in DuplicateSlots(g))
  PROVE  LET t == MatchSlot(g, s, i)
         IN  MatchedSoFar(g, t) /\ Apart(g, t.free) /\ i \notin t.free /\ t.free \subseteq s.free
  <1> DEFINE N == 1 .. n
             partner == CheapestPartner(g, i, s.free \ {i})
             t == MatchSlot(g, s, i)
             c == Cardinality(s.free)
  <1>0. /\ n \in Nat /\ DOMAIN g.slots = N /\ s.free \in SUBSET N
        /\ IsFiniteSet(s.free) /\ c \in Nat /\ c % 2 = 0
    <2>1. n \in Nat /\ DOMAIN g.slots = N /\ s.free \in SUBSET N /\ c % 2 = 0
      BY DEF Solvable, MatchedSoFar
    <2>2. IsFiniteSet(N)
      BY <2>1, CountTo
    <2> QED BY <2>1, <2>2, FS_Subset, FS_CardinalityType
  <1>1. CASE i \notin s.free
    <2>1. t = s
      BY <1>1 DEF MatchSlot
    <2>2. Apart(g, s.free)
      BY <1>1 DEF DuplicateSlots
    <2> QED BY <1>1, <2>1, <2>2
  <1>2. CASE i \in s.free
    <2>1. t.free = s.free \ {i, partner} /\ t.pairs = s.pairs \cup {{i, partner}}
      BY <1>2 DEF MatchSlot
    <2> HIDE DEF t
    <2>2. \E j \in s.free \ {i} : g.slots[i] # g.slots[j]
      <3>1. CASE Apart(g, s.free)
        <4>1. s.free # {i}
          <5>1. Cardinality({i}) = 1 /\ 1 % 2 # 0
            BY FS_Singleton
          <5> QED BY <1>0, <5>1
        <4>2. PICK j \in s.free : j # i
          BY <1>2, <4>1
        <4> QED BY <1>2, <3>1, <4>2 DEF Apart
      <3>2. CASE s.free = DOMAIN g.slots
        <4>1. PICK j \in N : g.slots[i] # g.slots[j]
          BY <1>0, <1>2 DEF Solvable
        <4> QED BY <1>0, <3>2, <4>1
      <3> QED BY <3>1, <3>2
    <2>3. partner \in s.free \ {i} /\ g.slots[partner] # g.slots[i]
      <3>1. s.free \ {i} \in SUBSET N /\ i \in N
        BY <1>0, <1>2
      <3> QED BY <2>2, <3>1, PartnerFound
    <2> HIDE DEF partner
    <2>4. {i, partner} \in g.edges
      BY <1>0, <1>2, <2>3 DEF Solvable
    <2>5. Cardinality(t.free) % 2 = 0
      <3>1. Cardinality(s.free \ {i}) = c - 1 /\ IsFiniteSet(s.free \ {i})
        BY <1>0, <1>2, FS_RemoveElement
      <3>2. Cardinality((s.free \ {i}) \ {partner}) = c - 1 - 1
        BY <2>3, <3>1, FS_RemoveElement
      <3>3. (s.free \ {i}) \ {partner} = t.free
        BY <2>1
      <3>4. (c - 1 - 1) % 2 = 0
        <4> HIDE DEF c
        <4> QED BY <1>0
      <3> QED BY <3>2, <3>3, <3>4
    <2>6. t.free \subseteq DOMAIN g.slots /\ t.pairs \subseteq g.edges
      BY <2>1, <2>4 DEF MatchedSoFar
    <2>7. \A e \in t.pairs : e \cap t.free = {}
      <3>1. \A e \in s.pairs : e \cap s.free = {}
        BY DEF MatchedSoFar
      <3>2. {i, partner} \cap t.free = {} /\ t.free \subseteq s.free
        BY <2>1
      <3> QED BY <2>1, <3>1, <3>2
    <2>8. ASSUME NEW j \in DOMAIN g.slots \ t.free
          PROVE  \E e \in t.pairs : j \in e /\ \A x \in t.pairs : j \in x => x = e
      <3>1. CASE j \in s.free
        <4>1. j \in {i, partner}
          BY <2>1, <3>1
        <4>2. \A x \in s.pairs : j \notin x
          BY <3>1 DEF MatchedSoFar
        <4> QED BY <2>1, <4>1, <4>2
      <3>2. CASE j \notin s.free
        <4>1. PICK e \in s.pairs : j \in e /\ \A x \in s.pairs : j \in x => x = e
          BY <3>2 DEF MatchedSoFar
        <4>2. j \notin {i, partner}
          BY <1>2, <2>3, <3>2
        <4> QED BY <2>1, <4>1, <4>2
      <3> QED BY <3>1, <3>2
    <2>9. MatchedSoFar(g, t)
      BY <2>5, <2>6, <2>7, <2>8 DEF MatchedSoFar
    <2>10. Apart(g, t.free)
      <3>1. CASE Apart(g, s.free)
        BY <2>1, <3>1 DEF Apart
      <3>2. CASE i \in DuplicateSlots(g)
        <4>1. PICK j \in N : i # j /\ g.slots[i] = g.slots[j]
          BY <1>0, <3>2 DEF DuplicateSlots
        <4>2. ASSUME NEW a \in t.free, NEW b \in t.free, a # b, g.slots[a] = g.slots[b]
              PROVE  FALSE
          <5>1. a \in N /\ b \in N /\ i \in N
            BY <1>0, <1>2, <2>1
          <5>2. i \in {a, b}
            BY <4>1, <4>2, <5>1 DEF Solvable
          <5> QED BY <2>1, <4>2, <5>2
        <4> QED BY <4>2 DEF Apart
      <3> QED BY <3>1, <3>2
    <2> QED BY <2>1, <2>9, <2>10 DEF t
  <1> QED BY <1>1, <1>2

(* Everyone looks for a partner once, and the volunteer's slots come first. *)
LEMMA OrderOfSlots ==
  ASSUME NEW g, NEW n, Solvable(g, n)
  PROVE  LET order == GreedyOrder(g)
         IN  /\ Len(order) \in Nat
             /\ \A i \in 1 .. n : \E k \in 1 .. Len(order) : order[k] = i
             /\ DuplicateSlots(g) # {} => order[1] \in DuplicateSlots(g)
  <1> DEFINE N == 1 .. n
             D == DuplicateSlots(g)
             d == Cardinality(D)
             Key(i) == <<i, 0, 0>>
             Pick(k) == CHOOSE x \in D : Cardinality({y \in D : Precedes(Key(y), Key(x))}) = k - 1
             s == [k \in 1 .. d |-> Pick(k)]
             below == [x \in D |-> {y \in D : y < x}]
             all == [i \in N |-> i]
             order == GreedyOrder(g)
  <1>1. n \in Nat /\ DOMAIN g.slots = N
    BY DEF Solvable
  <1>2. order = s \o all
    BY <1>1 DEF GreedyOrder, SortedBy
  <1> HIDE DEF order
  <1>3. D \in SUBSET N /\ IsFiniteSet(D)
    <2>1. IsFiniteSet(N)
      BY <1>1, CountTo
    <2>2. D \in SUBSET N
      BY <1>1 DEF DuplicateSlots
    <2> QED BY <2>1, <2>2, FS_Subset
  <1> HIDE DEF D
  <1>4. \A x \in D : x \in Int
    BY <1>1, <1>3
  <1>5. \A x, y \in D : Precedes(Key(y), Key(x)) <=> y < x
    BY <1>4 DEF Precedes
  <1>6. ASSUME NEW k \in 1 .. d, NEW x \in D, Cardinality(below[x]) = k - 1
        PROVE  s[k] \in D /\ Cardinality(below[s[k]]) = k - 1
    <2> DEFINE Below(z) == {y \in D : Precedes(Key(y), Key(z))}
    <2>1. \A z \in D : Below(z) = below[z]
      BY <1>5
    <2>2. s[k] = CHOOSE z \in D : Cardinality(Below(z)) = k - 1
      OBVIOUS
    <2> HIDE DEF Below, s, below
    <2>3. Cardinality(Below(x)) = k - 1
      BY <1>6, <2>1
    <2>4. s[k] \in D /\ Cardinality(Below(s[k])) = k - 1
      BY <2>2, <2>3
    <2> QED BY <2>1, <2>4
  <1>7. s = [k \in 1 .. d |-> s[k]]
    <2> HIDE DEF Pick
    <2> QED OBVIOUS
  <1>8. /\ below \in [D -> SUBSET D]
        /\ \A x, y \in D : y \in below[x] <=> y < x
    OBVIOUS
  <1> HIDE DEF s, below
  <1>9. Lists(s, D, below)
    <2>1. \A x \in D : x \notin below[x]
      BY <1>4, <1>8
    <2>2. \A x, y \in D : x # y => x \in below[y] \/ y \in below[x]
      BY <1>4, <1>8
    <2>3. \A x, y, z \in D : x \in below[y] /\ y \in below[z] => x \in below[z]
      BY <1>4, <1>8
    <2>4. \A k \in 1 .. d : (\E x \in D : Cardinality(below[x]) = k - 1) =>
             s[k] \in D /\ Cardinality(below[s[k]]) = k - 1
      BY <1>6
    <2> QED BY <1>3, <1>7, <1>8, <2>1, <2>2, <2>3, <2>4 DEF Lists
  <1>10. d \in Nat /\ s \in [1 .. d -> D]
    BY <1>9, SortedOnce
  <1> HIDE DEF d
  <1>11. s \in Seq(N) /\ Len(s) = d /\ all \in Seq(N) /\ Len(all) = n
    BY <1>1, <1>3, <1>10
  <1>12. \A i \in N : all[i] = i
    OBVIOUS
  <1> HIDE DEF all
  <1>13. /\ Len(order) = d + n
         /\ \A k \in 1 .. d : order[k] = s[k]
         /\ \A k \in 1 .. n : order[d + k] = all[k]
    <2> DEFINE both == s \o all
    <2> HIDE DEF N
    <2>1. /\ Len(both) = Len(s) + Len(all)
          /\ \A k \in 1 .. Len(s) + Len(all) :
                both[k] = IF k <= Len(s) THEN s[k] ELSE all[k - Len(s)]
      BY <1>11, ConcatProperties
    <2>2. /\ Len(both) = d + n
          /\ \A k \in 1 .. d + n : both[k] = IF k <= d THEN s[k] ELSE all[k - d]
      BY <1>11, <2>1
    <2> HIDE DEF both
    <2>3. \A k \in 1 .. d : k \in 1 .. d + n /\ k <= d
      BY <1>1, <1>10
    <2>5. order = both
      BY <1>2 DEF both
    <2>6. \A k \in 1 .. d : both[k] = s[k]
      BY <2>2, <2>3
    <2>7. ASSUME NEW k \in 1 .. n PROVE both[d + k] = all[k]
      <3> DEFINE j == d + k
      <3>1. j \in 1 .. d + n /\ ~(j <= d) /\ j - d = k
        BY <1>1, <1>10
      <3> HIDE DEF j
      <3>2. both[j] = all[j - d]
        BY <2>2, <3>1
      <3>3. both[j] = all[k]
        BY <3>1, <3>2
      <3> QED BY <3>3 DEF j
    <2> QED BY <2>2, <2>5, <2>6, <2>7
  <1>14. \A i \in N : \E k \in 1 .. Len(order) : order[k] = i
    <2> SUFFICES ASSUME NEW i \in N PROVE \E k \in 1 .. Len(order) : order[k] = i
      OBVIOUS
    <2>1. d + i \in 1 .. Len(order) /\ order[d + i] = i
      BY <1>1, <1>10, <1>12, <1>13
    <2> QED BY <2>1
  <1>15. D # {} => order[1] \in D
    <2> SUFFICES ASSUME D # {} PROVE order[1] \in D
      OBVIOUS
    <2>1. d # 0
      BY <1>3, FS_EmptySet DEF d
    <2>2. 1 \in 1 .. d
      BY <1>10, <2>1
    <2> QED BY <1>10, <1>13, <2>2
  <1> QED BY <1>1, <1>10, <1>13, <1>14, <1>15 DEF order, D

(* Every slot gets a partner on the way: no legal partner left is a panic of *)
(* solver_greedy.go that never happens.                                      *)
LEMMA GreedySolves ==
  ASSUME NEW g, NEW n, Solvable(g, n)
  PROVE  Perfect(g, GreedyMatch(g))
  <1> DEFINE N == 1 .. n
             order == GreedyOrder(g)
             len == Len(order)
             start == [free |-> DOMAIN g.slots, pairs |-> {}]
             run == CHOOSE f : Runs(f, g, start, order, len)
             s(k) == run[k]
             Fresh(k) == k = 0 /\ s(0).free = N
             Done(k) == /\ MatchedSoFar(g, s(k))
                        /\ Apart(g, s(k).free) \/ Fresh(k)
                        /\ \A j \in 1 .. k : order[j] \notin s(k).free
             T == {k \in Nat : k <= len => Done(k)}
  <1>1. GreedyMatch(g) = run[len].pairs
    BY DEF GreedyMatch, Runs
  <1>2. /\ len \in Nat
        /\ \A i \in N : \E k \in 1 .. len : order[k] = i
        /\ DuplicateSlots(g) # {} => order[1] \in DuplicateSlots(g)
    BY OrderOfSlots
  <1> HIDE DEF order, len
  <1>3. Runs(run, g, start, order, len)
    BY <1>2, RunExists
  <1>4. n \in Nat /\ n % 2 = 0 /\ DOMAIN g.slots = N
    BY DEF Solvable
  <1> HIDE DEF run
  <1>5. s(0) = start /\ \A k \in 1 .. len : s(k) = MatchSlot(g, s(k - 1), order[k])
    <2> HIDE DEF start
    <2>1. s(0) = start
      BY <1>2, <1>3 DEF Runs
    <2>2. ASSUME NEW k \in 1 .. len PROVE s(k) = MatchSlot(g, s(k - 1), order[k])
      <3>1. k \in 0 .. len /\ k # 0
        BY <1>2
      <3> QED BY <1>3, <3>1 DEF Runs
    <2> QED BY <2>1, <2>2
  <1> HIDE DEF s
  <1>6. 0 \in T
    <2>1. s(0).free = N /\ s(0).pairs = {}
      BY <1>4, <1>5
    <2>2. Cardinality(N) = n
      BY <1>4, CountTo
    <2>3. MatchedSoFar(g, s(0))
      BY <1>4, <2>1, <2>2 DEF MatchedSoFar
    <2> QED BY <2>1, <2>3
  <1>7. ASSUME NEW k \in Nat, k \in T PROVE k + 1 \in T
    <2> SUFFICES ASSUME k + 1 <= len PROVE Done(k + 1)
      OBVIOUS
    <2>1. Done(k) /\ k + 1 \in 1 .. len
      BY <1>2, <1>7
    <2>2. s(k + 1) = MatchSlot(g, s(k), order[k + 1])
      BY <1>5, <2>1
    <2>3. \/ Apart(g, s(k).free)
          \/ s(k).free = DOMAIN g.slots /\ order[k + 1] \in DuplicateSlots(g)
      <3>1. CASE Fresh(k) /\ DuplicateSlots(g) = {}
        BY <1>4, <3>1 DEF Apart, DuplicateSlots
      <3>2. CASE Fresh(k) /\ DuplicateSlots(g) # {}
        BY <1>2, <1>4, <3>2
      <3> QED BY <2>1, <3>1, <3>2
    <2>4. /\ MatchedSoFar(g, s(k + 1)) /\ Apart(g, s(k + 1).free)
          /\ order[k + 1] \notin s(k + 1).free /\ s(k + 1).free \subseteq s(k).free
      BY <2>1, <2>2, <2>3, MatchOne
    <2>5. ASSUME NEW j \in 1 .. k + 1 PROVE order[j] \notin s(k + 1).free
      <3>1. CASE j = k + 1
        BY <2>4, <3>1
      <3>2. CASE j # k + 1
        BY <2>1, <2>4, <3>2
      <3> QED BY <3>1, <3>2
    <2> QED BY <2>4, <2>5
  <1>8. len \in T
    <2> HIDE DEF T
    <2> QED BY <1>2, <1>6, <1>7, NatSetInduction
  <1>9. Done(len)
    BY <1>2, <1>8
  <1>10. \A i \in N : i \notin s(len).free
    BY <1>2, <1>9
  <1>11. /\ s(len).pairs \subseteq g.edges
         /\ \A i \in N : \E e \in s(len).pairs : i \in e /\ \A x \in s(len).pairs : i \in x => x = e
    BY <1>4, <1>9, <1>10 DEF MatchedSoFar
  <1>12. \A i \in N : \E e \in s(len).pairs : {x \in s(len).pairs : i \in x} = {e}
    <2> SUFFICES ASSUME NEW i \in N
                 PROVE  \E e \in s(len).pairs : {x \in s(len).pairs : i \in x} = {e}
      OBVIOUS
    <2>1. PICK e \in s(len).pairs : i \in e /\ \A x \in s(len).pairs : i \in x => x = e
      BY <1>11
    <2> QED BY <2>1
  <1>13. GreedyMatch(g) = s(len).pairs
    BY <1>1 DEF s
  <1> QED BY <1>4, <1>11, <1>12, <1>13 DEF Perfect

(* Every pair costs a whole number. *)
LEMMA CostsAreNumbers ==
  ASSUME NEW l, IsLeague(l), NEW a \in DOMAIN l.players, NEW b \in DOMAIN l.players
  PROVE  PairCost(l.players, l.history, l.cfg, a, b) \in Int
  <1> DEFINE players == l.players
             seated == AssignColours(players, a, b)
  <1>1. /\ \A p \in DOMAIN players : players[p].power \in Int /\ players[p].colour \in Int
        /\ l.cfg.colourWeight \in Nat /\ l.cfg.repeatPenalty \in Nat
    BY DEF IsLeague, Player, Config
  <1>2. seated.white \in DOMAIN players /\ seated.black \in DOMAIN players
    BY DEF AssignColours
  <1> HIDE DEF players, seated
  <1>3. Abs(players[a].power - players[b].power) \in Int
    BY <1>1 DEF Abs, players
  <1>4. LeftoverImbalance(players[seated.white], players[seated.black]) \in Int
    <2>1. players[seated.white].colour \in Int /\ players[seated.black].colour \in Int
      BY <1>1, <1>2
    <2> QED BY <2>1 DEF LeftoverImbalance, Abs
  <1>5. l.cfg.colourWeight * LeftoverImbalance(players[seated.white], players[seated.black]) \in Int
    BY <1>1, <1>4
  <1> QED BY <1>1, <1>3, <1>5 DEF PairCost, players, seated

(* An odd pool has its volunteer twice or its bye left out. *)
LEMMA EvenPool ==
  ASSUME NEW l, IsLeague(l)
  PROVE  LET odd == OddOutcome(l.players, l.cfg)
             S == Pool(l.players) \ odd.byes
         IN  /\ (Cardinality(S) + Cardinality(odd.doubles)) % 2 = 0
             /\ \A v \in odd.doubles : S # {v}
  <1> DEFINE pool == Pool(l.players)
             volunteers == Volunteers(l.players, pool)
             odd == OddOutcome(l.players, l.cfg)
             c == Cardinality(pool)
  <1>1. odd \in OddOutcomes(pool, volunteers, l.cfg.oddPool)
    BY OddAsPromised
  <1>2. IsFiniteSet(pool) /\ c \in Nat
    BY PoolFinite DEF IsLeague
  <1> HIDE DEF odd, pool, volunteers
  <1>3. CASE c % 2 = 0
    <2>1. odd.byes = {} /\ odd.doubles = {}
      BY <1>1, <1>3 DEF OddOutcomes
    <2>2. Cardinality({}) = 0 /\ pool \ {} = pool
      BY FS_EmptySet
    <2>3. (c + 0) % 2 = 0
      <3> HIDE DEF c
      <3> QED BY <1>2, <1>3
    <2> QED BY <2>1, <2>2, <2>3 DEF odd, pool
  <1>4. CASE /\ c % 2 = 1
             /\ l.cfg.oddPool = "double_then_bye" /\ c >= 3
             /\ volunteers # {}
    <2>1. PICK v \in volunteers : odd = [byes |-> {}, doubles |-> {v}]
      BY <1>1, <1>4 DEF OddOutcomes
    <2>2. odd.byes = {} /\ odd.doubles = {v}
      BY <2>1
    <2>3. Cardinality({v}) = 1 /\ pool \ {} = pool
      BY FS_Singleton
    <2>4. (c + 1) % 2 = 0
      <3> HIDE DEF c
      <3> QED BY <1>2, <1>4
    <2>5. pool # {v}
      BY <1>4, <2>3
    <2> QED BY <2>2, <2>3, <2>4, <2>5 DEF odd, pool
  <1>5. CASE /\ c % 2 # 0
             /\ ~(/\ c % 2 = 1
                  /\ l.cfg.oddPool = "double_then_bye" /\ c >= 3
                  /\ volunteers # {})
    <2>1. PICK b \in pool : odd = [byes |-> {b}, doubles |-> {}]
      BY <1>1, <1>5 DEF OddOutcomes
    <2>2. odd.byes = {b} /\ odd.doubles = {}
      BY <2>1
    <2>3. Cardinality({}) = 0
      BY FS_EmptySet
    <2>4. Cardinality(pool \ {b}) = c - 1
      BY <1>2, FS_RemoveElement
    <2>5. (c - 1 + 0) % 2 = 0
      <3> HIDE DEF c
      <3> QED BY <1>2, <1>5
    <2> QED BY <2>2, <2>3, <2>4, <2>5 DEF odd, pool
  <1> QED BY <1>3, <1>4, <1>5

(* Every league's graph is one for a solver. *)
LEMMA GraphSolvable ==
  ASSUME NEW l, IsLeague(l)
  PROVE  \E n : Solvable(BuildGraph(l.players, l.history, l.cfg), n)
  <1> DEFINE players == l.players
             odd == OddOutcome(players, l.cfg)
             twice == odd.doubles
             S == Pool(players) \ odd.byes
             slots == Slots(players, odd)
             g == BuildGraph(players, l.history, l.cfg)
  <1>1. SlotsOnce(slots, S, twice) /\ SlotsCounted(slots, S, twice)
    BY SlotsMade
  <1>2. PICK n \in Nat : DOMAIN slots = 1 .. n /\ n = Cardinality(S) + Cardinality(twice)
    BY <1>1 DEF SlotsCounted
  <1> DEFINE N == 1 .. n
  <1>3. n % 2 = 0 /\ \A v \in twice : S # {v}
    BY <1>2, EvenPool
  <1>4. S \subseteq DOMAIN players /\ DOMAIN players \subseteq Nat
    BY DEF Pool, IsLeague
  <1>5. g.slots = slots
    BY DEF BuildGraph
  <1> HIDE DEF S, twice
  <1>6. \A i \in N : slots[i] \in S
    BY <1>1, <1>2 DEF SlotsOnce
  <1>7. \A i, j \in N : g.cost[i][j] = IF slots[i] = slots[j] THEN 0
                                       ELSE PairCost(players, l.history, l.cfg, slots[i], slots[j])
    BY <1>2 DEF BuildGraph
  <1>8. g.edges = {e \in {{i, j} : i, j \in N} : \E i, j \in e : slots[i] # slots[j]}
    BY <1>2 DEF BuildGraph
  <1> HIDE DEF slots, g, players, odd
  <1>9. \A i, j \in N : g.cost[i][j] \in Int
    <2> SUFFICES ASSUME NEW i \in N, NEW j \in N PROVE g.cost[i][j] \in Int
      OBVIOUS
    <2>1. slots[i] \in DOMAIN players /\ slots[j] \in DOMAIN players
      BY <1>4, <1>6
    <2>2. PairCost(players, l.history, l.cfg, slots[i], slots[j]) \in Int
      BY <2>1, CostsAreNumbers DEF players
    <2> QED BY <1>7, <2>2
  <1>10. \A i, j \in N : {i, j} \in g.edges <=> slots[i] # slots[j]
    <2> SUFFICES ASSUME NEW i \in N, NEW j \in N
                 PROVE  {i, j} \in g.edges <=> slots[i] # slots[j]
      OBVIOUS
    <2>1. {i, j} \in {{a, b} : a, b \in N}
      OBVIOUS
    <2>2. {i, j} \in g.edges <=> \E a, b \in {i, j} : slots[a] # slots[b]
      BY <1>8, <2>1
    <2> QED BY <2>2
  <1>11. \A i \in N : \E j \in N : slots[i] # slots[j]
    <2> SUFFICES ASSUME NEW i \in N, \A j \in N : slots[j] = slots[i]
                 PROVE  FALSE
      OBVIOUS
    <2> DEFINE p == slots[i]
    <2>1. p \in S /\ {k \in N : slots[k] = p} = N
      BY <1>6
    <2>2. CASE p \notin twice
      <3>1. PICK k \in N : N = {k}
        BY <1>1, <1>2, <2>1, <2>2 DEF SlotsOnce
      <3>2. Cardinality(N) = n /\ Cardinality(N) = 1
        BY <1>2, <3>1, CountTo, FS_Singleton
      <3> QED BY <1>3, <3>2
    <2>3. CASE p \in twice
      <3>1. PICK q \in S : q # p
        BY <1>3, <2>1, <2>3
      <3>2. q \notin twice
        BY <1>1, <2>3, <3>1 DEF SlotsOnce
      <3>3. PICK k \in N : {j \in N : slots[j] = q} = {k}
        BY <1>1, <1>2, <3>1, <3>2 DEF SlotsOnce
      <3>4. slots[k] = q
        BY <3>3
      <3> QED BY <3>1, <3>4
    <2> QED BY <2>2, <2>3
  <1>12. ASSUME NEW i \in N, NEW j \in N, NEW a \in N, NEW b \in N,
                i # j, slots[i] = slots[j], a # b, slots[a] = slots[b]
         PROVE  i \in {a, b}
    <2>1. ASSUME NEW x \in N, NEW y \in N, x # y, slots[x] = slots[y]
          PROVE  slots[x] \in twice
      <3>1. ASSUME slots[x] \notin twice PROVE FALSE
        <4>1. PICK k \in N : {c \in N : slots[c] = slots[x]} = {k}
          BY <1>1, <1>2, <1>6, <3>1 DEF SlotsOnce
        <4>2. x \in {c \in N : slots[c] = slots[x]} /\ y \in {c \in N : slots[c] = slots[x]}
          BY <2>1
        <4> QED BY <2>1, <4>1, <4>2
      <3> QED BY <3>1
    <2>2. slots[i] = slots[a] /\ slots[i] \in twice
      BY <1>1, <1>12, <2>1 DEF SlotsOnce
    <2>3. PICK c, d \in N : {k \in N : slots[k] = slots[i]} = {c, d}
      BY <1>1, <1>2, <2>2 DEF SlotsOnce
    <2>4. i \in {c, d} /\ a \in {c, d} /\ b \in {c, d}
      BY <1>12, <2>2, <2>3
    <2> QED BY <1>12, <2>4
  <1>13. \A i \in N : slots[i] \in Nat
    BY <1>4, <1>6
  <1>14. Solvable(g, n)
    <2>1. n \in Nat /\ n % 2 = 0 /\ DOMAIN g.slots = 1 .. n
      BY <1>2, <1>3, <1>5
    <2>2. \A i \in 1 .. n : g.slots[i] \in Nat
      BY <1>5, <1>13
    <2>3. \A i, j \in 1 .. n : {i, j} \in g.edges <=> g.slots[i] # g.slots[j]
      BY <1>5, <1>10
    <2>4. \A i \in 1 .. n : \E j \in 1 .. n : g.slots[i] # g.slots[j]
      BY <1>5, <1>11
    <2>5. \A i, j, a, b \in 1 .. n :
             (i # j /\ g.slots[i] = g.slots[j] /\ a # b /\ g.slots[a] = g.slots[b]) => i \in {a, b}
      BY <1>5, <1>12
    <2>6. \A e \in g.edges : \E i, j \in 1 .. n : e = {i, j}
      BY <1>8
    <2> QED BY <1>9, <2>1, <2>2, <2>3, <2>4, <2>5, <2>6 DEF Solvable
  <1> QED BY <1>14 DEF g, players

(* The greedy solver keeps Solver.Match's promise for every pool of every    *)
(* league: every slot is paired exactly once and never against the same      *)
(* player, so cheapestPartner always finds someone and its panic is dead.    *)
THEOREM GreedyPerfect ==
  ASSUME NEW l, IsLeague(l)
  PROVE  LET g == BuildGraph(l.players, l.history, l.cfg)
         IN  Perfect(g, GreedyMatch(g))
  BY GraphSolvable, GreedySolves

(* One greedy round is a round of an engine with some solver. *)
LEMMA GreedyIsMatched ==
  ASSUME IsSeason, NEW gap, PublishGreedy(gap)
  PROVE  PublishMatched(gap)
  <1> DEFINE g == BuildGraph(league.players, league.history, league.cfg)
  <1>1. IsLeague(league)
    BY DEF IsSeason
  <1>2. Perfect(g, GreedyMatch(g))
    BY <1>1, GreedyPerfect
  <1>3. GreedyMatch(g) \in SUBSET g.edges
    BY <1>2 DEF Perfect
  <1>4. PublishRound(Generate(league.players, league.history, league.cfg, g, GreedyMatch(g)), gap)
    BY DEF PublishGreedy
  <1> HIDE DEF g
  <1> QED BY <1>2, <1>3, <1>4 DEF PublishMatched, g

(* A league on the greedy solver is Season, with no promise of a solver's    *)
(* taken on trust: its own matching is perfect for every pool it can meet,   *)
(* so the contract, the turns of the bye and the prices of repeats hold of   *)
(* it whatever the league.                                                   *)
THEOREM GreedyImplements == GreedySpec => SeasonSpec
  <1>1. SeasonInit => IsSeason
    BY SeasonStarts DEF ByeInv
  <1>2. IsSeason /\ [GreedyNext]_seasonVars => IsSeason' /\ [SeasonNext]_seasonVars
    <2> SUFFICES ASSUME IsSeason, [GreedyNext]_seasonVars
                 PROVE  IsSeason' /\ [SeasonNext]_seasonVars
      OBVIOUS
    <2>1. ASSUME NEW absent \in Absences, Assemble(absent)
          PROVE  IsSeason' /\ [SeasonNext]_seasonVars
      BY <2>1, AssembleFrame DEF SeasonNext
    <2>2. ASSUME NEW gap \in Gaps, PublishGreedy(gap)
          PROVE  IsSeason' /\ [SeasonNext]_seasonVars
      <3>1. PublishMatched(gap)
        BY <2>2, GreedyIsMatched
      <3> QED BY <3>1, MatchedIsAny DEF SeasonNext
    <2>3. CASE UNCHANGED seasonVars
      BY <2>3 DEF seasonVars, IsSeason
    <2> QED BY <2>1, <2>2, <2>3 DEF GreedyNext
  <1> QED BY <1>1, <1>2, PTL DEF GreedySpec, SeasonSpec

-----------------------------------------------------------------------------
(* Sums over finite sets. *)

(* Induction on a finite set, as a fact about a set of sets. *)
LEMMA SubsetInduction ==
  ASSUME NEW S, IsFiniteSet(S), NEW G,
         \A T \in SUBSET S : (\A U \in SUBSET T : U # T => U \in G) => T \in G
  PROVE  S \in G
  <1> DEFINE B == (SUBSET S) \ G
  <1>1. ASSUME B # {} PROVE FALSE
    <2>1. B \subseteq FiniteSubsetsOf(S)
      BY FS_Subset DEF FiniteSubsetsOf
    <2> HIDE DEF B
    <2>2. PICK T \in B : \A U \in B : <<U, T>> \notin StrictSubsetOrdering(S)
      BY <1>1, <2>1, FS_StrictSubsetOrderingWellFounded, WFMin
    <2>3. T \in SUBSET S /\ T \notin G
      BY DEF B
    <2>4. ASSUME NEW U \in SUBSET T, U # T PROVE U \in G
      <3>1. U \in SUBSET S /\ U \subseteq T /\ U # T
        BY <2>3, <2>4
      <3>2. <<U, T>> \in StrictSubsetOrdering(S)
        BY <2>3, <3>1 DEF StrictSubsetOrdering
      <3> QED BY <2>2, <3>1, <3>2 DEF B
    <2> QED BY <2>3, <2>4
  <1> QED BY <1>1

(* The function a sum is read from. *)
AnyOf(s) == CHOOSE x \in s : TRUE

Sums(h, f, S) ==
    h = [s \in SUBSET S |-> IF s = {} THEN 0 ELSE f[AnyOf(s)] + h[s \ {AnyOf(s)}]]

LEMMA SumIsSums ==
  ASSUME NEW f, NEW S
  PROVE  SumFunctionOnSet(f, S) = (CHOOSE h : Sums(h, f, S))[S]
  BY DEF SumFunctionOnSet, FoldFunctionOnSet, MapThenFoldSet, Sums, AnyOf

LEMMA AnyIsOne ==
  ASSUME NEW s, s # {}
  PROVE  AnyOf(s) \in s
  BY DEF AnyOf

(* Two such functions agree wherever both are defined. *)
LEMMA SumsAgree ==
  ASSUME NEW f, NEW A, NEW B, NEW S, IsFiniteSet(S), S \in SUBSET A, S \in SUBSET B,
         NEW h, Sums(h, f, A), NEW k, Sums(k, f, B)
  PROVE  h[S] = k[S]
  <1> DEFINE G == {s \in SUBSET S : h[s] = k[s]}
  <1>1. ASSUME NEW T \in SUBSET S, \A U \in SUBSET T : U # T => U \in G
        PROVE  T \in G
    <2>1. T \in SUBSET A /\ T \in SUBSET B
      OBVIOUS
    <2>2. /\ h[T] = IF T = {} THEN 0 ELSE f[AnyOf(T)] + h[T \ {AnyOf(T)}]
          /\ k[T] = IF T = {} THEN 0 ELSE f[AnyOf(T)] + k[T \ {AnyOf(T)}]
      BY <2>1 DEF Sums
    <2>3. CASE T = {}
      BY <2>2, <2>3
    <2>4. CASE T # {}
      <3>1. T \ {AnyOf(T)} \in SUBSET T /\ T \ {AnyOf(T)} # T
        BY <2>4, AnyIsOne
      <3> QED BY <1>1, <2>2, <2>4, <3>1
    <2> QED BY <2>3, <2>4
  <1> HIDE DEF G
  <1>2. S \in G
    BY <1>1, SubsetInduction
  <1> QED BY <1>2 DEF G

(* And there is one for every finite set. *)
LEMMA SumsExist ==
  ASSUME NEW f, NEW S, IsFiniteSet(S)
  PROVE  \E h : Sums(h, f, S)
  <1> DEFINE G == {s \in SUBSET S : \E h : Sums(h, f, s)}
  <1>1. ASSUME NEW T \in SUBSET S, \A U \in SUBSET T : U # T => U \in G
        PROVE  T \in G
    <2> DEFINE Found(U) == CHOOSE h : Sums(h, f, U)
               below == [U \in SUBSET T |-> Found(U)[U]]
               h == [U \in SUBSET T |-> IF U = {} THEN 0
                                        ELSE f[AnyOf(U)] + below[U \ {AnyOf(U)}]]
    <2>1. ASSUME NEW U \in SUBSET T, U # T
          PROVE  below[U] = h[U]
      <3>1. U \in G
        BY <1>1, <2>1
      <3>2. Sums(Found(U), f, U)
        BY <3>1
      <3>3. below[U] = Found(U)[U]
        OBVIOUS
      <3>4. h[U] = IF U = {} THEN 0 ELSE f[AnyOf(U)] + below[U \ {AnyOf(U)}]
        OBVIOUS
      <3> HIDE DEF Found, below, h
      <3>5. Found(U)[U] = IF U = {} THEN 0 ELSE f[AnyOf(U)] + Found(U)[U \ {AnyOf(U)}]
        BY <3>2 DEF Sums
      <3>6. CASE U = {}
        BY <3>3, <3>4, <3>5, <3>6
      <3>7. CASE U # {}
        <4> DEFINE V == U \ {AnyOf(U)}
        <4>1. V \in SUBSET U /\ V # T /\ V \in SUBSET T
          BY <2>1
        <4>2. V \in G
          BY <1>1, <2>1, <4>1, AnyIsOne
        <4>3. Sums(Found(V), f, V)
          BY <4>2 DEF G, Found
        <4>4. IsFiniteSet(V)
          BY <4>1, FS_Subset
        <4> HIDE DEF V, G
        <4>5. Found(U)[V] = Found(V)[V]
          BY <3>2, <4>1, <4>3, <4>4, SumsAgree
        <4>6. below[V] = Found(V)[V]
          BY <4>1 DEF below
        <4> QED BY <3>3, <3>4, <3>5, <3>7, <4>5, <4>6 DEF V
      <3> QED BY <3>6, <3>7
    <2>2. Sums(h, f, T)
      <3>1. \A U \in SUBSET T : h[U] = IF U = {} THEN 0 ELSE f[AnyOf(U)] + h[U \ {AnyOf(U)}]
        <4>0. h[{}] = 0
          OBVIOUS
        <4> SUFFICES ASSUME NEW U \in SUBSET T, U # {}
                     PROVE  h[U] = f[AnyOf(U)] + h[U \ {AnyOf(U)}]
          <5> HIDE DEF h
          <5> QED BY <4>0
        <4>1. U \ {AnyOf(U)} \in SUBSET T /\ U \ {AnyOf(U)} # T
          BY AnyIsOne
        <4>2. below[U \ {AnyOf(U)}] = h[U \ {AnyOf(U)}]
          BY <2>1, <4>1
        <4>3. h[U] = f[AnyOf(U)] + below[U \ {AnyOf(U)}]
          OBVIOUS
        <4> HIDE DEF h, below
        <4> QED BY <4>2, <4>3
      <3>2. h = [U \in SUBSET T |-> h[U]]
        OBVIOUS
      <3> HIDE DEF h
      <3> QED BY <3>1, <3>2 DEF Sums
    <2> QED BY <2>2
  <1> HIDE DEF G
  <1>2. S \in G
    BY <1>1, SubsetInduction
  <1> QED BY <1>2 DEF G

LEMMA SumOfNone ==
  ASSUME NEW f
  PROVE  SumFunctionOnSet(f, {}) = 0
  <1> DEFINE h == CHOOSE k : Sums(k, f, {})
  <1>1. IsFiniteSet({})
    BY FS_EmptySet
  <1>2. Sums(h, f, {})
    BY <1>1, SumsExist
  <1> HIDE DEF h
  <1>3. h[{}] = 0
    BY <1>2 DEF Sums
  <1> QED BY <1>3, SumIsSums DEF h

(* So a sum over a set is one of its elements, and the sum over the rest. *)
LEMMA SumOfAny ==
  ASSUME NEW f, NEW S, IsFiniteSet(S), S # {}
  PROVE  SumFunctionOnSet(f, S) = f[AnyOf(S)] + SumFunctionOnSet(f, S \ {AnyOf(S)})
  <1> DEFINE T == S \ {AnyOf(S)}
             h == CHOOSE k : Sums(k, f, S)
             i == CHOOSE k : Sums(k, f, T)
  <1>1. IsFiniteSet(T) /\ T \subseteq S
    BY FS_Subset
  <1>2. Sums(h, f, S) /\ Sums(i, f, T)
    <2> HIDE DEF T
    <2> QED BY <1>1, SumsExist
  <1>3. SumFunctionOnSet(f, S) = h[S] /\ SumFunctionOnSet(f, T) = i[T]
    <2> HIDE DEF T
    <2> QED BY SumIsSums
  <1> HIDE DEF h, i
  <1>4. h[S] = f[AnyOf(S)] + h[T]
    BY <1>2 DEF Sums
  <1>5. h[T] = i[T]
    <2> HIDE DEF T
    <2>1. IsFiniteSet(T)
      BY <1>1
    <2>2. T \in SUBSET S
      BY <1>1
    <2>3. T \in SUBSET T
      OBVIOUS
    <2>4. Sums(h, f, S)
      BY <1>2
    <2>5. Sums(i, f, T)
      BY <1>2
    <2>6. \A B, k : T \in SUBSET B /\ Sums(k, f, B) => h[T] = k[T]
      BY <2>1, <2>2, <2>4, SumsAgree
    <2> QED BY <2>3, <2>5, <2>6
  <1> QED BY <1>3, <1>4, <1>5

(* What a sum over one more element is, in whatever order it is added up. *)
LEMMA SumOfOneMore ==
  ASSUME NEW f, NEW S, IsFiniteSet(S), \A x \in S : f[x] \in Int
  PROVE  /\ SumFunctionOnSet(f, S) \in Int
         /\ \A x \in S : SumFunctionOnSet(f, S) = f[x] + SumFunctionOnSet(f, S \ {x})
  <1> DEFINE Sum(s) == SumFunctionOnSet(f, s)
             G == {s \in SUBSET S : /\ Sum(s) \in Int
                                    /\ \A x \in s : Sum(s) = f[x] + Sum(s \ {x})}
  <1>0. Sum({}) = 0
    BY SumOfNone
  <1>1. \A s \in SUBSET S : s # {} => Sum(s) = f[AnyOf(s)] + Sum(s \ {AnyOf(s)})
    <2> SUFFICES ASSUME NEW s \in SUBSET S, s # {}
                 PROVE  Sum(s) = f[AnyOf(s)] + Sum(s \ {AnyOf(s)})
      OBVIOUS
    <2>1. IsFiniteSet(s)
      BY FS_Subset
    <2> QED BY <2>1, SumOfAny
  <1> HIDE DEF Sum
  <1>2. ASSUME NEW T \in SUBSET S, \A U \in SUBSET T : U # T => U \in G
        PROVE  T \in G
    <2>1. CASE T = {}
      BY <1>0, <2>1
    <2>2. CASE T # {}
      <3> DEFINE p == AnyOf(T)
      <3>1. p \in T /\ p \in S /\ f[p] \in Int /\ Sum(T) = f[p] + Sum(T \ {p})
        BY <1>1, <2>2, AnyIsOne
      <3> HIDE DEF p
      <3>2. T \ {p} \in G
        BY <1>2, <3>1
      <3>3. Sum(T) \in Int
        BY <3>1, <3>2
      <3>4. ASSUME NEW x \in T, x # p PROVE Sum(T) = f[x] + Sum(T \ {x})
        <4>1. T \ {x} \in SUBSET T /\ T \ {x} # T
          OBVIOUS
        <4>2. T \ {x} \in G /\ p \in T \ {x} /\ x \in T \ {p}
          BY <1>2, <3>1, <3>4, <4>1
        <4> DEFINE U == (T \ {p}) \ {x}
        <4>3. (T \ {x}) \ {p} = U /\ (T \ {p}) \ {x} = U
          OBVIOUS
        <4>4. Sum(T \ {x}) = f[p] + Sum(U)
          <5>1. Sum(T \ {x}) = f[p] + Sum((T \ {x}) \ {p})
            BY <4>2
          <5> QED BY <4>3, <5>1
        <4>5. Sum(T \ {p}) = f[x] + Sum(U)
          BY <3>2, <4>2
        <4>6. U \in G
          <5>1. U \in SUBSET T /\ U # T
            BY <3>4
          <5> QED BY <1>2, <5>1
        <4>7. f[x] \in Int /\ Sum(U) \in Int
          BY <4>6
        <4> HIDE DEF U, G
        <4> QED BY <3>1, <4>3, <4>4, <4>5, <4>7
      <3> QED BY <3>1, <3>3, <3>4
    <2> QED BY <2>1, <2>2
  <1> HIDE DEF G
  <1>3. S \in G
    BY <1>2, SubsetInduction
  <1> QED BY <1>3 DEF G, Sum

(* One element after another. *)
LEMMA AddingInduction ==
  ASSUME NEW S, IsFiniteSet(S), NEW G, {} \in G,
         \A T \in SUBSET S : \A x \in S \ T : T \in G => T \cup {x} \in G
  PROVE  S \in G
  <1>1. ASSUME NEW T \in SUBSET S, \A U \in SUBSET T : U # T => U \in G
        PROVE  T \in G
    <2>1. CASE T = {}
      BY <2>1
    <2>2. CASE T # {}
      <3>1. PICK x \in T : TRUE
        BY <2>2
      <3>2. T \ {x} \in SUBSET T /\ T \ {x} # T /\ T \ {x} \in SUBSET S /\ x \in S \ (T \ {x})
        BY <3>1
      <3>3. T \ {x} \in G
        BY <1>1, <3>2
      <3>4. (T \ {x}) \cup {x} \in G
        BY <3>2, <3>3
      <3>5. (T \ {x}) \cup {x} = T
        BY <3>1
      <3> QED BY <3>4, <3>5
    <2> QED BY <2>1, <2>2
  <1> QED BY <1>1, SubsetInduction

LEMMA SumWith ==
  ASSUME NEW f, NEW S, IsFiniteSet(S), \A y \in S : f[y] \in Int, NEW x, x \notin S, f[x] \in Int
  PROVE  /\ SumFunctionOnSet(f, S) \in Int
         /\ SumFunctionOnSet(f, S \cup {x}) = f[x] + SumFunctionOnSet(f, S)
  <1> DEFINE T == S \cup {x}
  <1>1. IsFiniteSet(T) /\ x \in T /\ T \ {x} = S /\ \A y \in T : f[y] \in Int
    BY FS_AddElement
  <1> HIDE DEF T
  <1>2. SumFunctionOnSet(f, T) = f[x] + SumFunctionOnSet(f, T \ {x})
    BY <1>1, SumOfOneMore
  <1>3. SumFunctionOnSet(f, S) \in Int
    BY SumOfOneMore
  <1> QED BY <1>1, <1>2, <1>3 DEF T

(* Term by term. *)
LEMMA SumLeq ==
  ASSUME NEW f, NEW h, NEW S, IsFiniteSet(S),
         \A x \in S : f[x] \in Int /\ h[x] \in Int /\ f[x] <= h[x]
  PROVE  /\ SumFunctionOnSet(f, S) \in Int /\ SumFunctionOnSet(h, S) \in Int
         /\ SumFunctionOnSet(f, S) <= SumFunctionOnSet(h, S)
  <1> DEFINE F(T) == SumFunctionOnSet(f, T)
             H(T) == SumFunctionOnSet(h, T)
             G == {T \in SUBSET S : F(T) \in Int /\ H(T) \in Int /\ F(T) <= H(T)}
  <1>1. {} \in G
    BY SumOfNone
  <1>2. ASSUME NEW T \in SUBSET S, NEW x \in S \ T, T \in G
        PROVE  T \cup {x} \in G
    <2>1. IsFiniteSet(T)
      BY FS_Subset
    <2>2. F(T \cup {x}) = f[x] + F(T)
      BY <2>1, SumWith
    <2>3. H(T \cup {x}) = h[x] + H(T)
      BY <2>1, SumWith
    <2> HIDE DEF F, H
    <2>4. F(T) \in Int /\ H(T) \in Int /\ F(T) <= H(T)
      BY <1>2
    <2>5. f[x] \in Int /\ h[x] \in Int /\ f[x] <= h[x]
      OBVIOUS
    <2> QED BY <2>2, <2>3, <2>4, <2>5
  <1> HIDE DEF G
  <1>3. S \in G
    BY <1>1, <1>2, AddingInduction
  <1> QED BY <1>3 DEF G

LEMMA SumPlus ==
  ASSUME NEW f, NEW h, NEW k, NEW S, IsFiniteSet(S),
         \A x \in S : f[x] \in Int /\ h[x] \in Int /\ k[x] = f[x] + h[x]
  PROVE  /\ SumFunctionOnSet(f, S) \in Int /\ SumFunctionOnSet(h, S) \in Int
         /\ SumFunctionOnSet(k, S) = SumFunctionOnSet(f, S) + SumFunctionOnSet(h, S)
  <1> DEFINE F(T) == SumFunctionOnSet(f, T)
             H(T) == SumFunctionOnSet(h, T)
             K(T) == SumFunctionOnSet(k, T)
             G == {T \in SUBSET S : F(T) \in Int /\ H(T) \in Int /\ K(T) = F(T) + H(T)}
  <1>1. {} \in G
    BY SumOfNone
  <1>2. ASSUME NEW T \in SUBSET S, NEW x \in S \ T, T \in G
        PROVE  T \cup {x} \in G
    <2>1. IsFiniteSet(T)
      BY FS_Subset
    <2>2. F(T \cup {x}) = f[x] + F(T)
      BY <2>1, SumWith
    <2>3. H(T \cup {x}) = h[x] + H(T)
      BY <2>1, SumWith
    <2>4. K(T \cup {x}) = k[x] + K(T)
      <3>1. \A y \in T : k[y] \in Int
        OBVIOUS
      <3>2. k[x] \in Int
        OBVIOUS
      <3> QED BY <2>1, <3>1, <3>2, SumWith
    <2> HIDE DEF F, H, K
    <2>5. F(T) \in Int /\ H(T) \in Int /\ K(T) = F(T) + H(T)
      BY <1>2
    <2>6. f[x] \in Int /\ h[x] \in Int /\ k[x] = f[x] + h[x]
      OBVIOUS
    <2> QED BY <2>2, <2>3, <2>4, <2>5, <2>6
  <1> HIDE DEF G
  <1>3. S \in G
    BY <1>1, <1>2, AddingInduction
  <1> QED BY <1>3 DEF G

LEMMA TimesOneMore ==
  ASSUME NEW a \in Int, NEW c \in Int
  PROVE  a * (c + 1) = a + a * c /\ a * c \in Int
  OBVIOUS

LEMMA TimesLeq ==
  ASSUME NEW a \in Nat, NEW c \in Nat, NEW d \in Nat, c <= d
  PROVE  a * c <= a * d
  OBVIOUS

(* The same number for the elements of R and nothing for the others. *)
LEMMA SumOnPart ==
  ASSUME NEW f, NEW S, IsFiniteSet(S), NEW R \in SUBSET S, NEW a \in Int,
         \A x \in S : f[x] = IF x \in R THEN a ELSE 0
  PROVE  /\ Cardinality(R) \in Nat /\ IsFiniteSet(R)
         /\ SumFunctionOnSet(f, S) = a * Cardinality(R)
  <1> DEFINE F(T) == SumFunctionOnSet(f, T)
             C(T) == Cardinality(R \cap T)
             G == {T \in SUBSET S : C(T) \in Nat /\ F(T) = a * C(T)}
  <1>1. {} \in G
    <2>1. R \cap {} = {} /\ Cardinality({}) = 0
      BY FS_EmptySet
    <2>2. F({}) = 0
      BY SumOfNone
    <2> HIDE DEF F
    <2> QED BY <2>1, <2>2
  <1>2. ASSUME NEW T \in SUBSET S, NEW x \in S \ T, T \in G
        PROVE  T \cup {x} \in G
    <2>1. IsFiniteSet(T) /\ IsFiniteSet(R \cap T)
      BY FS_Subset
    <2>2. F(T \cup {x}) = f[x] + F(T)
      <3>1. \A y \in T : f[y] \in Int
        OBVIOUS
      <3>2. f[x] \in Int
        OBVIOUS
      <3> QED BY <2>1, <3>1, <3>2, SumWith
    <2> HIDE DEF F
    <2>3. C(T) \in Nat /\ F(T) = a * C(T)
      BY <1>2
    <2>4. CASE x \in R
      <3>1. R \cap (T \cup {x}) = (R \cap T) \cup {x} /\ x \notin R \cap T
        BY <2>4
      <3>2. C(T \cup {x}) = C(T) + 1
        BY <2>1, <3>1, FS_AddElement
      <3> HIDE DEF C
      <3>3. F(T \cup {x}) = a + a * C(T)
        BY <2>2, <2>3, <2>4
      <3>4. a * (C(T) + 1) = a + a * C(T) /\ C(T) + 1 \in Nat
        <4>1. C(T) \in Int /\ C(T) \in Nat
          BY <2>3
        <4>2. a * (C(T) + 1) = a + a * C(T)
          BY <4>1, TimesOneMore
        <4>3. C(T) + 1 \in Nat
          BY <4>1
        <4> QED BY <4>2, <4>3
      <3> QED BY <3>2, <3>3, <3>4
    <2>5. CASE x \notin R
      <3>1. R \cap (T \cup {x}) = R \cap T
        BY <2>5
      <3>2. C(T \cup {x}) = C(T)
        BY <3>1
      <3>3. F(T \cup {x}) = 0 + F(T)
        BY <2>2, <2>5
      <3> HIDE DEF C
      <3>4. a * C(T) \in Int
        BY <2>3
      <3> QED BY <2>3, <3>2, <3>3, <3>4
    <2> QED BY <2>4, <2>5
  <1> HIDE DEF G
  <1>3. S \in G
    BY <1>1, <1>2, AddingInduction
  <1>4. R \cap S = R
    OBVIOUS
  <1>5. IsFiniteSet(R)
    BY FS_Subset
  <1> QED BY <1>3, <1>4, <1>5 DEF G

-----------------------------------------------------------------------------
(* Pairs of slots, and what blossoms hold of them. *)

(* Pairs of numbers, no number in two of them. *)
Apartners(R) ==
    /\ \A e \in R : \E i, j \in Int : i < j /\ e = {i, j}
    /\ \A d, e \in R : d # e => d \cap e = {}

(* The sum over the pairs is the sum over who is in them. *)
LEMMA SumOverPairs ==
  ASSUME NEW R, IsFiniteSet(R), Apartners(R),
         NEW f, \A x \in UNION R : f[x] \in Int,
         NEW h, \A e \in R : h[e] = f[Min(e)] + f[Max(e)]
  PROVE  /\ IsFiniteSet(UNION R) /\ SumFunctionOnSet(f, UNION R) \in Int
         /\ SumFunctionOnSet(h, R) = SumFunctionOnSet(f, UNION R)
  <1> DEFINE F(T) == SumFunctionOnSet(f, T)
             H(T) == SumFunctionOnSet(h, T)
             G == {T \in SUBSET R : /\ IsFiniteSet(UNION T) /\ F(UNION T) \in Int
                                    /\ H(T) = F(UNION T)}
  <1>1. {} \in G
    <2>1. UNION {} = {} /\ IsFiniteSet(UNION {})
      BY FS_EmptySet
    <2>2. F({}) = 0 /\ H({}) = 0
      BY SumOfNone
    <2> HIDE DEF F, H
    <2>3. F(UNION {}) = 0
      BY <2>1, <2>2
    <2>4. F(UNION {}) \in Int /\ H({}) = F(UNION {})
      BY <2>2, <2>3
    <2> QED BY <2>1, <2>4
  <1>0. ASSUME NEW e \in R
        PROVE  \E i, j \in Int : /\ i # j /\ e = {i, j} /\ f[i] \in Int /\ f[j] \in Int
                                 /\ h[e] = f[i] + f[j]
    <2>1. PICK i, j \in Int : i < j /\ e = {i, j}
      BY DEF Apartners
    <2>2. Min(e) = i /\ Max(e) = j
      BY <2>1, MinMaxTwo
    <2>3. i \in UNION R /\ j \in UNION R /\ i # j
      BY <2>1
    <2> QED BY <2>1, <2>2, <2>3
  <1>2. ASSUME NEW T \in SUBSET R, NEW e \in R \ T, T \in G
        PROVE  T \cup {e} \in G
    <2>1. PICK i, j \in Int : /\ i # j /\ e = {i, j} /\ f[i] \in Int /\ f[j] \in Int
                              /\ h[e] = f[i] + f[j]
      BY <1>0
    <2>2. IsFiniteSet(UNION T) /\ F(UNION T) \in Int /\ H(T) = F(UNION T)
      BY <1>2
    <2>3. i \notin UNION T /\ j \notin UNION T
      <3>1. \A d \in T : d \cap e = {}
        BY DEF Apartners
      <3> QED BY <2>1, <3>1
    <2>4. /\ UNION (T \cup {e}) = ((UNION T) \cup {i}) \cup {j}
          /\ j \notin (UNION T) \cup {i}
      BY <2>1, <2>3
    <2>5. \A x \in UNION T : f[x] \in Int
      OBVIOUS
    <2>6. F((UNION T) \cup {i}) = f[i] + F(UNION T)
      BY <2>1, <2>2, <2>3, <2>5, SumWith
    <2>7. IsFiniteSet((UNION T) \cup {i})
      BY <2>2, FS_AddElement
    <2>8. F(((UNION T) \cup {i}) \cup {j}) = f[j] + F((UNION T) \cup {i})
      <3>1. \A x \in (UNION T) \cup {i} : f[x] \in Int
        BY <2>1, <2>5
      <3> DEFINE W == (UNION T) \cup {i}
      <3>2. IsFiniteSet(W) /\ (\A x \in W : f[x] \in Int) /\ j \notin W /\ f[j] \in Int
        BY <2>1, <2>4, <2>7, <3>1
      <3>3. SumFunctionOnSet(f, W \cup {j}) = f[j] + SumFunctionOnSet(f, W)
        <4> HIDE DEF W, F, H
        <4> QED BY <3>2, SumWith
      <3> QED BY <3>3
    <2>9. IsFiniteSet(UNION (T \cup {e}))
      <3>1. IsFiniteSet(((UNION T) \cup {i}) \cup {j})
        BY <2>7, FS_AddElement
      <3> QED BY <2>4, <3>1
    <2>10. H(T \cup {e}) = h[e] + H(T)
      <3>1. IsFiniteSet(T)
        BY FS_Subset
      <3>2. \A d \in T : h[d] \in Int
        BY <1>0
      <3>3. h[e] \in Int /\ e \notin T
        BY <2>1
      <3> QED BY <3>1, <3>2, <3>3, SumWith
    <2> HIDE DEF F, H
    <2>11. F(UNION (T \cup {e})) = f[j] + (f[i] + F(UNION T))
      BY <2>4, <2>6, <2>8
    <2>12. /\ F(UNION (T \cup {e})) \in Int
           /\ H(T \cup {e}) = F(UNION (T \cup {e}))
      BY <2>1, <2>2, <2>10, <2>11
    <2> QED BY <2>9, <2>12
  <1> HIDE DEF G
  <1>3. R \in G
    BY <1>1, <1>2, AddingInduction
  <1> QED BY <1>3 DEF G

LEMMA SumOfEqual ==
  ASSUME NEW f, NEW S, IsFiniteSet(S), NEW a \in Int, \A x \in S : f[x] = a
  PROVE  Cardinality(S) \in Nat /\ SumFunctionOnSet(f, S) = a * Cardinality(S)
  <1>1. \A R \in SUBSET S : (\A x \in S : f[x] = IF x \in R THEN a ELSE 0) =>
            Cardinality(R) \in Nat /\ SumFunctionOnSet(f, S) = a * Cardinality(R)
    BY SumOnPart
  <1>2. S \in SUBSET S /\ \A x \in S : f[x] = IF x \in S THEN a ELSE 0
    OBVIOUS
  <1> QED BY <1>1, <1>2

(* Two slots to a pair. *)
LEMMA TwiceAsMany ==
  ASSUME NEW R, IsFiniteSet(R), Apartners(R)
  PROVE  /\ IsFiniteSet(UNION R) /\ Cardinality(R) \in Nat
         /\ Cardinality(UNION R) = 2 * Cardinality(R)
  <1> DEFINE U == UNION R
             f == [x \in U |-> 1]
             h == [e \in R |-> 2]
  <1>1. \A x \in U : f[x] \in Int
    OBVIOUS
  <1>2. \A e \in R : h[e] = f[Min(e)] + f[Max(e)]
    <2> SUFFICES ASSUME NEW e \in R PROVE h[e] = f[Min(e)] + f[Max(e)]
      OBVIOUS
    <2>1. PICK i, j \in Int : i < j /\ e = {i, j}
      BY DEF Apartners
    <2>2. Min(e) = i /\ Max(e) = j
      BY <2>1, MinMaxTwo
    <2>3. Min(e) \in U /\ Max(e) \in U
      BY <2>1, <2>2
    <2> QED BY <2>3
  <1>3. (\A x \in U : f[x] = 1) /\ (\A e \in R : h[e] = 2)
    OBVIOUS
  <1> HIDE DEF f, h
  <1>4. IsFiniteSet(U) /\ SumFunctionOnSet(h, R) = SumFunctionOnSet(f, U)
    BY <1>1, <1>2, SumOverPairs
  <1>5. Cardinality(R) \in Nat /\ SumFunctionOnSet(h, R) = 2 * Cardinality(R)
    BY <1>3, SumOfEqual
  <1> HIDE DEF U
  <1>6. Cardinality(U) \in Nat /\ SumFunctionOnSet(f, U) = 1 * Cardinality(U)
    BY <1>3, <1>4, SumOfEqual
  <1>7. Cardinality(U) = 2 * Cardinality(R)
    <2>1. 1 * Cardinality(U) = Cardinality(U)
      BY <1>6
    <2> QED BY <1>4, <1>5, <1>6, <2>1
  <1> QED BY <1>4, <1>5, <1>7 DEF U

(* A perfect matching: pairs of slots, every slot in one. *)
PairsOff(P, V) == IsFiniteSet(P) /\ Apartners(P) /\ UNION P = V

(* A full blossom holds as many pairs as any perfect matching can have in it. *)
LEMMA FullIsMost ==
  ASSUME NEW V, NEW P, PairsOff(P, V), NEW Q, PairsOff(Q, V), NEW D, IsFiniteSet(D),
         2 * Cardinality({e \in P : e \subseteq D}) = Cardinality(D) - 1
  PROVE  /\ Cardinality({e \in P : e \subseteq D}) \in Nat
         /\ Cardinality({e \in Q : e \subseteq D}) \in Nat
         /\ Cardinality({e \in Q : e \subseteq D}) <= Cardinality({e \in P : e \subseteq D})
  <1> DEFINE In(X) == {e \in X : e \subseteq D}
  <1>1. ASSUME NEW X, PairsOff(X, V)
        PROVE  /\ Cardinality(In(X)) \in Nat
               /\ 2 * Cardinality(In(X)) <= Cardinality(D)
    <2>1. IsFiniteSet(In(X)) /\ Apartners(In(X))
      <3>1. In(X) \in SUBSET X
        OBVIOUS
      <3>2. IsFiniteSet(X)
        BY <1>1 DEF PairsOff
      <3> QED BY <1>1, <3>1, <3>2, FS_Subset DEF PairsOff, Apartners
    <2>2. UNION In(X) \in SUBSET D
      OBVIOUS
    <2> HIDE DEF In
    <2>3. /\ Cardinality(In(X)) \in Nat
          /\ Cardinality(UNION In(X)) = 2 * Cardinality(In(X))
      BY <2>1, TwiceAsMany
    <2>4. Cardinality(UNION In(X)) <= Cardinality(D)
      BY <2>2, FS_Subset
    <2> QED BY <2>3, <2>4
  <1>2. Cardinality(D) \in Nat
    BY FS_CardinalityType
  <1>3. /\ Cardinality(In(P)) \in Nat /\ Cardinality(In(Q)) \in Nat
        /\ 2 * Cardinality(In(Q)) <= Cardinality(D)
    BY <1>1
  <1>4. 2 * Cardinality(In(P)) = Cardinality(D) - 1
    OBVIOUS
  <1> HIDE DEF In
  <1>5. Cardinality(In(Q)) <= Cardinality(In(P))
    BY <1>2, <1>3, <1>4
  <1> QED BY <1>3, <1>5 DEF In

(* What the blossoms of C add to the slack of an edge, and of a matching. *)
DualsAround(z, inside, C, e) == SumFunctionOnSet(z, {b \in C : e \subseteq inside[b]})

DualsOver(z, inside, C, X) ==
    SumFunctionOnSet([e \in X |-> DualsAround(z, inside, C, e)], X)

(* The pairs of X that a blossom holds. *)
Within(inside, b, X) == {e \in X : e \subseteq inside[b]}

(* A blossom adds its dual once for every pair it holds. *)
LEMMA OneBlossomMore ==
  ASSUME NEW X, IsFiniteSet(X), NEW C, IsFiniteSet(C), NEW b, b \notin C, NEW inside,
         NEW z, \A c \in C : z[c] \in Int, z[b] \in Int
  PROVE  /\ Cardinality(Within(inside, b, X)) \in Nat
         /\ DualsOver(z, inside, C, X) \in Int
         /\ DualsOver(z, inside, C \cup {b}, X)
               = z[b] * Cardinality(Within(inside, b, X)) + DualsOver(z, inside, C, X)
  <1> DEFINE R == {e \in X : e \subseteq inside[b]}
             On(e) == {c \in C : e \subseteq inside[c]}
             more == [e \in X |-> IF e \in R THEN z[b] ELSE 0]
             old == [e \in X |-> DualsAround(z, inside, C, e)]
             new == [e \in X |-> DualsAround(z, inside, C \cup {b}, e)]
  <1>1. ASSUME NEW e \in X
        PROVE  more[e] \in Int /\ old[e] \in Int /\ new[e] = more[e] + old[e]
    <2>1. IsFiniteSet(On(e)) /\ b \notin On(e) /\ \A c \in On(e) : z[c] \in Int
      BY FS_Subset
    <2>2. old[e] = SumFunctionOnSet(z, On(e))
      BY DEF DualsAround
    <2>3. new[e] = SumFunctionOnSet(z, {c \in C \cup {b} : e \subseteq inside[c]})
      BY DEF DualsAround
    <2>4. more[e] = IF e \subseteq inside[b] THEN z[b] ELSE 0
      OBVIOUS
    <2>5. CASE e \subseteq inside[b]
      <3>1. {c \in C \cup {b} : e \subseteq inside[c]} = On(e) \cup {b}
        BY <2>5
      <3> HIDE DEF On, more, old, new
      <3>2. /\ SumFunctionOnSet(z, On(e)) \in Int
            /\ SumFunctionOnSet(z, On(e) \cup {b}) = z[b] + SumFunctionOnSet(z, On(e))
        BY <2>1, SumWith
      <3> QED BY <2>2, <2>3, <2>4, <2>5, <3>1, <3>2
    <2>6. CASE ~(e \subseteq inside[b])
      <3>1. {c \in C \cup {b} : e \subseteq inside[c]} = On(e)
        BY <2>6
      <3> HIDE DEF On, more, old, new
      <3>2. SumFunctionOnSet(z, On(e)) \in Int
        BY <2>1, SumOfOneMore
      <3>3. new[e] = old[e] /\ more[e] = 0 /\ old[e] \in Int
        BY <2>2, <2>3, <2>4, <2>6, <3>1, <3>2
      <3> QED BY <3>3
    <2> QED BY <2>5, <2>6
  <1>2. R \in SUBSET X /\ \A e \in X : more[e] = IF e \in R THEN z[b] ELSE 0
    OBVIOUS
  <1>3. /\ DualsOver(z, inside, C, X) = SumFunctionOnSet(old, X)
        /\ DualsOver(z, inside, C \cup {b}, X) = SumFunctionOnSet(new, X)
    BY DEF DualsOver
  <1> HIDE DEF R, more, old, new
  <1>4. /\ SumFunctionOnSet(old, X) \in Int
        /\ SumFunctionOnSet(new, X) = SumFunctionOnSet(more, X) + SumFunctionOnSet(old, X)
    BY <1>1, SumPlus
  <1>5. Cardinality(R) \in Nat /\ SumFunctionOnSet(more, X) = z[b] * Cardinality(R)
    <2>1. z[b] \in Int
      OBVIOUS
    <2>2. \A a \in Int : \A T \in SUBSET X : (\A e \in X : more[e] = IF e \in T THEN a ELSE 0)
             => Cardinality(T) \in Nat /\ SumFunctionOnSet(more, X) = a * Cardinality(T)
      BY SumOnPart
    <2> QED BY <1>2, <2>1, <2>2
  <1>6. /\ Cardinality(R) \in Nat /\ DualsOver(z, inside, C, X) \in Int
        /\ DualsOver(z, inside, C \cup {b}, X)
              = z[b] * Cardinality(R) + DualsOver(z, inside, C, X)
    BY <1>3, <1>4, <1>5
  <1>7. R = Within(inside, b, X)
    BY DEF R, Within
  <1> QED BY <1>6, <1>7

(* Full blossoms: no perfect matching has more of their duals than this one. *)
LEMMA DualsAtMost ==
  ASSUME NEW V, NEW P, PairsOff(P, V), NEW Q, PairsOff(Q, V),
         NEW B, IsFiniteSet(B), NEW inside, NEW z,
         \A b \in B : /\ IsFiniteSet(inside[b]) /\ z[b] \in Nat
                      /\ z[b] > 0 => 2 * Cardinality({e \in P : e \subseteq inside[b]})
                                        = Cardinality(inside[b]) - 1
  PROVE  /\ DualsOver(z, inside, B, P) \in Int /\ DualsOver(z, inside, B, Q) \in Int
         /\ DualsOver(z, inside, B, Q) <= DualsOver(z, inside, B, P)
  <1> DEFINE In(b, X) == Within(inside, b, X)
             D(C, X) == DualsOver(z, inside, C, X)
             G == {C \in SUBSET B : D(C, P) \in Int /\ D(C, Q) \in Int /\ D(C, Q) <= D(C, P)}
  <1>0. IsFiniteSet(P) /\ IsFiniteSet(Q)
    BY DEF PairsOff
  <1>1. {} \in G
    <2>1. ASSUME NEW X, IsFiniteSet(X) PROVE D({}, X) = 0
      <3> DEFINE row == [e \in X |-> DualsAround(z, inside, {}, e)]
      <3>1. \A e \in X : row[e] = 0
        <4> SUFFICES ASSUME NEW e \in X PROVE row[e] = 0
          OBVIOUS
        <4>1. {b \in {} : e \subseteq inside[b]} = {}
          OBVIOUS
        <4>2. DualsAround(z, inside, {}, e) = 0
          BY <4>1, SumOfNone DEF DualsAround
        <4> QED BY <4>2
      <3>2. D({}, X) = SumFunctionOnSet(row, X)
        BY DEF DualsOver
      <3> HIDE DEF row, D
      <3>3. Cardinality(X) \in Nat /\ SumFunctionOnSet(row, X) = 0 * Cardinality(X)
        BY <2>1, <3>1, SumOfEqual
      <3>4. 0 * Cardinality(X) = 0
        BY <3>3
      <3> QED BY <3>2, <3>3, <3>4
    <2> HIDE DEF D
    <2>2. D({}, P) = 0 /\ D({}, Q) = 0
      BY <1>0, <2>1
    <2> QED BY <2>2
  <1>2. ASSUME NEW C \in SUBSET B, NEW b \in B \ C, C \in G
        PROVE  C \cup {b} \in G
    <2>0. IsFiniteSet(C) /\ b \notin C
      BY FS_Subset
    <2>1. (\A c \in C : z[c] \in Int) /\ z[b] \in Nat /\ z[b] \in Int
      <3>1. \A c \in B : z[c] \in Nat
        OBVIOUS
      <3>2. \A n \in Nat : n \in Int
        OBVIOUS
      <3> QED BY <3>1, <3>2
    <2>2. ASSUME NEW X, IsFiniteSet(X)
          PROVE  /\ Cardinality(In(b, X)) \in Nat
                 /\ D(C \cup {b}, X) = z[b] * Cardinality(In(b, X)) + D(C, X)
      <3>1. /\ Cardinality(Within(inside, b, X)) \in Nat
            /\ DualsOver(z, inside, C \cup {b}, X)
                  = z[b] * Cardinality(Within(inside, b, X)) + DualsOver(z, inside, C, X)
        <4> HIDE DEF In, D, G
        <4> QED BY <2>0, <2>1, <2>2, OneBlossomMore
      <3> QED BY <3>1
    <2>3. z[b] > 0 => Cardinality(In(b, Q)) <= Cardinality(In(b, P))
      <3> SUFFICES ASSUME z[b] > 0
                   PROVE  Cardinality(In(b, Q)) <= Cardinality(In(b, P))
        OBVIOUS
      <3>1. /\ IsFiniteSet(inside[b])
            /\ 2 * Cardinality({e \in P : e \subseteq inside[b]}) = Cardinality(inside[b]) - 1
        OBVIOUS
      <3> QED BY <3>1, FullIsMost DEF Within
    <2> DEFINE p == Cardinality(In(b, P))
               q == Cardinality(In(b, Q))
    <2>4. /\ p \in Nat /\ q \in Nat
          /\ D(C \cup {b}, P) = z[b] * p + D(C, P)
          /\ D(C \cup {b}, Q) = z[b] * q + D(C, Q)
      BY <1>0, <2>2
    <2>5. z[b] > 0 => q <= p
      BY <2>3
    <2>6. D(C, P) \in Int /\ D(C, Q) \in Int /\ D(C, Q) <= D(C, P)
      BY <1>2
    <2> HIDE DEF p, q, D, In
    <2>7. z[b] * p \in Int /\ z[b] * q \in Int /\ z[b] * q <= z[b] * p
      <3>1. CASE z[b] = 0
        <4>1. 0 * p = 0 /\ 0 * q = 0
          BY <2>4
        <4> QED BY <3>1, <4>1
      <3>2. CASE z[b] # 0
        <4>1. q <= p
          BY <2>1, <2>5, <3>2
        <4>2. z[b] * p \in Int /\ z[b] * q \in Int
          BY <2>1, <2>4
        <4> QED BY <2>1, <2>4, <4>1, <4>2, TimesLeq
      <3> QED BY <3>1, <3>2
    <2>8. /\ D(C \cup {b}, P) \in Int /\ D(C \cup {b}, Q) \in Int
          /\ D(C \cup {b}, Q) <= D(C \cup {b}, P)
      BY <2>4, <2>6, <2>7
    <2> QED BY <2>8
  <1> HIDE DEF G
  <1>3. B \in G
    BY <1>1, <1>2, AddingInduction
  <1> QED BY <1>3 DEF G

-----------------------------------------------------------------------------
(* The certificate. *)

(* A finite set of numbers has a largest. *)
LEMMA MaxIsThere ==
  ASSUME NEW S, IsFiniteSet(S), S # {}, S \in SUBSET Int
  PROVE  Max(S) \in S
  <1> DEFINE G == {T \in SUBSET S : T = {} \/ \E x \in T : \A y \in T : x >= y}
  <1>1. {} \in G
    OBVIOUS
  <1>2. ASSUME NEW T \in SUBSET S, NEW x \in S \ T, T \in G
        PROVE  T \cup {x} \in G
    <2>1. x \in Int /\ \A y \in T : y \in Int
      OBVIOUS
    <2>2. CASE T = {}
      BY <2>1, <2>2
    <2>3. CASE T # {}
      <3>1. PICK t \in T : \A y \in T : t >= y
        BY <1>2, <2>3
      <3>2. CASE t >= x
        BY <2>1, <3>1, <3>2
      <3>3. CASE ~(t >= x)
        <4>1. \A y \in T \cup {x} : x >= y
          BY <2>1, <3>1, <3>3
        <4> QED BY <4>1
      <3> QED BY <3>2, <3>3
    <2> QED BY <2>2, <2>3
  <1> HIDE DEF G
  <1>3. S \in G
    BY <1>1, <1>2, AddingInduction
  <1>4. \E x \in S : \A y \in S : x >= y
    BY <1>3 DEF G
  <1> QED BY <1>4 DEF Max

(* The dearest pair has a cost, so the weights are numbers. *)
LEMMA MaxCost ==
  ASSUME NEW g, NEW n, Solvable(g, n), n > 0
  PROVE  Max(Costs(g)) \in Int
  <1> DEFINE N == 1 .. n
             f == [p \in N \X N |-> g.cost[p[1]][p[2]]]
  <1>1. n \in Nat /\ DOMAIN g.slots = N /\ \A i, j \in N : g.cost[i][j] \in Int
    BY DEF Solvable
  <1>2. Costs(g) = {g.cost[i][j] : i, j \in N}
    BY <1>1 DEF Costs
  <1>3. IsFiniteSet(N \X N)
    <2>1. IsFiniteSet(N)
      BY <1>1, CountTo
    <2> HIDE DEF N
    <2> QED BY <2>1, FS_Product
  <1>4. f \in Surjection(N \X N, Costs(g))
    <2>1. f \in [N \X N -> Costs(g)]
      BY <1>2
    <2>2. ASSUME NEW y \in Costs(g) PROVE \E p \in N \X N : f[p] = y
      <3>1. PICK i \in N, j \in N : y = g.cost[i][j]
        BY <1>2
      <3>2. <<i, j>> \in N \X N /\ f[<<i, j>>] = y
        BY <3>1
      <3> QED BY <3>2
    <2> HIDE DEF f
    <2> QED BY <2>1, <2>2 DEF Surjection
  <1>5. IsFiniteSet(Costs(g))
    BY <1>3, <1>4, FS_Surjection
  <1>6. Costs(g) \in SUBSET Int /\ Costs(g) # {}
    <2>1. 1 \in N
      BY <1>1
    <2>2. ASSUME NEW y \in Costs(g) PROVE y \in Int
      <3>1. PICK i \in N, j \in N : y = g.cost[i][j]
        BY <1>2
      <3> QED BY <1>1, <3>1
    <2>3. g.cost[1][1] \in Costs(g)
      BY <1>2, <2>1
    <2> QED BY <2>2, <2>3
  <1> QED BY <1>5, <1>6, MaxIsThere

(* The slack of a pair of slots, in terms of what it costs. *)
SlackOf(g, dual, B, inside, z, i, j, e) ==
    /\ Min(e) = i /\ Max(e) = j
    /\ Max(Costs(g)) \in Int /\ g.cost[i][j] \in Int /\ dual[i] \in Int /\ dual[j] \in Int
    /\ DualsAround(z, inside, B, e) \in Int
    /\ EdgeSlack(Weights(g), dual, inside, z, e)
         = 2 * g.cost[i][j] + 2 * DualsAround(z, inside, B, e)
           - (((Max(Costs(g)) + 1) - dual[i]) + ((Max(Costs(g)) + 1) - dual[j]))

LEMMA SlackIs ==
  ASSUME NEW g, NEW n, Solvable(g, n), n > 0, NEW dual \in [1 .. n -> Int],
         NEW B, IsFiniteSet(B), NEW inside, DOMAIN inside = B, NEW z \in [B -> Int],
         NEW i \in 1 .. n, NEW j \in 1 .. n, i < j, NEW e, e = {i, j}
  PROVE  SlackOf(g, dual, B, inside, z, i, j, e)
  <1> DEFINE N == 1 .. n
             A == {b \in B : e \subseteq inside[b]}
             M == Max(Costs(g))
             c == g.cost[i][j]
             d == DualsAround(z, inside, B, e)
  <1>1. n \in Nat /\ DOMAIN g.slots = N /\ c \in Int
    BY DEF Solvable
  <1>2. Min(e) = i /\ Max(e) = j
    <2>1. i \in Int /\ j \in Int
      BY <1>1
    <2> QED BY <2>1, MinMaxTwo
  <1>3. IsFiniteSet(A) /\ \A b \in A : z[b] \in Int
    <2>1. A \subseteq B /\ \A b \in A : z[b] \in Int
      OBVIOUS
    <2> HIDE DEF A
    <2> QED BY <2>1, FS_Subset
  <1>4. d = SumFunctionOnSet(z, A)
    BY DEF DualsAround
  <1>5. d \in Int
    <2> HIDE DEF A, d
    <2> QED BY <1>3, <1>4, SumOfOneMore
  <1>6. M \in Int
    BY MaxCost
  <1>7. Weights(g)[i][j] = (M + 1) - g.cost[i][j]
    <2>1. Weights(g) = [a \in N |-> [b \in N |-> (M + 1) - g.cost[a][b]]]
      BY <1>1 DEF Weights
    <2>2. i \in N /\ j \in N
      OBVIOUS
    <2> HIDE DEF N, M, c
    <2>3. \A a, b \in N : Weights(g)[a][b] = (M + 1) - g.cost[a][b]
      BY <2>1
    <2>4. Weights(g)[i][j] = (M + 1) - g.cost[i][j]
      BY <2>2, <2>3
    <2> QED BY <2>4
  <1>8. EdgeSlack(Weights(g), dual, inside, z, e) = dual[i] + dual[j] - 2 * Weights(g)[i][j] + 2 * d
    BY <1>2, <1>4 DEF EdgeSlack
  <1>9. dual[i] \in Int /\ dual[j] \in Int
    OBVIOUS
  <1> HIDE DEF M, c, d
  <1>10. EdgeSlack(Weights(g), dual, inside, z, e)
           = 2 * c + 2 * d - (((M + 1) - dual[i]) + ((M + 1) - dual[j]))
    <2>1. Weights(g)[i][j] = (M + 1) - c
      BY <1>7 DEF M, c
    <2>2. EdgeSlack(Weights(g), dual, inside, z, e)
            = dual[i] + dual[j] - 2 * ((M + 1) - c) + 2 * d
      BY <1>8, <2>1
    <2>3. M \in Int /\ c \in Int /\ d \in Int /\ dual[i] \in Int /\ dual[j] \in Int
      BY <1>1, <1>5, <1>6, <1>9
    <2>4. \A a, b \in Int : a + b - 2 * ((M + 1) - c) + 2 * d
                              = 2 * c + 2 * d - (((M + 1) - a) + ((M + 1) - b))
      BY <2>3
    <2> QED BY <2>2, <2>3, <2>4
  <1> QED BY <1>1, <1>2, <1>5, <1>6, <1>9, <1>10 DEF M, c, d, SlackOf

TwiceBoth(k, f, h, S) ==
    \A x \in S : f[x] \in Int /\ h[x] \in Int /\ k[x] = 2 * f[x] + 2 * h[x]

(* Twice one sum and twice another. *)
LEMMA SumOfTwice ==
  ASSUME NEW f, NEW h, NEW k, NEW S, IsFiniteSet(S), TwiceBoth(k, f, h, S)
  PROVE  /\ SumFunctionOnSet(f, S) \in Int /\ SumFunctionOnSet(h, S) \in Int
         /\ SumFunctionOnSet(k, S) = 2 * SumFunctionOnSet(f, S) + 2 * SumFunctionOnSet(h, S)
  <1>1. PICK s : \A x \in S : s[x] = f[x] + h[x]
    <2> DEFINE both == [x \in S |-> f[x] + h[x]]
    <2>1. \A x \in S : both[x] = f[x] + h[x]
      OBVIOUS
    <2> HIDE DEF both
    <2> QED BY <2>1
  <1>2. ASSUME NEW x \in S
        PROVE  /\ f[x] \in Int /\ h[x] \in Int /\ s[x] \in Int
               /\ s[x] = f[x] + h[x] /\ k[x] = s[x] + s[x]
    <2>1. s[x] = f[x] + h[x]
      BY <1>1
    <2>2. f[x] \in Int /\ h[x] \in Int /\ k[x] = 2 * f[x] + 2 * h[x]
      BY DEF TwiceBoth
    <2> QED BY <2>1, <2>2
  <1>3. /\ SumFunctionOnSet(f, S) \in Int /\ SumFunctionOnSet(h, S) \in Int
        /\ SumFunctionOnSet(s, S) = SumFunctionOnSet(f, S) + SumFunctionOnSet(h, S)
    BY <1>2, SumPlus
  <1>4. SumFunctionOnSet(k, S) = SumFunctionOnSet(s, S) + SumFunctionOnSet(s, S)
    BY <1>2, SumPlus
  <1> QED BY <1>3, <1>4

(* A perfect matching pairs the slots off. *)
LEMMA PerfectPairs ==
  ASSUME NEW g, NEW n, Solvable(g, n), NEW P, Perfect(g, P)
  PROVE  /\ PairsOff(P, 1 .. n)
         /\ \A e \in P : \E i, j \in 1 .. n : i < j /\ e = {i, j}
  <1> DEFINE N == 1 .. n
  <1>1. /\ n \in Nat /\ DOMAIN g.slots = N
        /\ \A i, j \in N : {i, j} \in g.edges <=> g.slots[i] # g.slots[j]
        /\ \A e \in g.edges : \E i, j \in N : e = {i, j}
    <2>1. n \in Nat /\ DOMAIN g.slots = N
      BY DEF Solvable
    <2>2. \A i, j \in N : {i, j} \in g.edges <=> g.slots[i] # g.slots[j]
      BY DEF Solvable
    <2>3. \A e \in g.edges : \E i, j \in N : e = {i, j}
      BY DEF Solvable
    <2> QED BY <2>1, <2>2, <2>3
  <1>2. P \subseteq g.edges /\ \A i \in N : \E e \in P : {x \in P : i \in x} = {e}
    BY <1>1 DEF Perfect
  <1>3. ASSUME NEW e \in P
        PROVE  \E i, j \in N : i < j /\ e = {i, j}
    <2>1. PICK i \in N, j \in N : e = {i, j}
      BY <1>1, <1>2
    <2>2. g.slots[i] # g.slots[j]
      BY <1>1, <1>2, <2>1
    <2>3. i # j /\ i \in Int /\ j \in Int
      BY <1>1, <2>2
    <2>4. CASE i < j
      BY <2>1, <2>4
    <2>5. CASE j < i
      <3>1. e = {j, i}
        BY <2>1
      <3> QED BY <2>5, <3>1
    <2> QED BY <2>3, <2>4, <2>5
  <1>4. ASSUME NEW d \in P, NEW e \in P, d # e
        PROVE  d \cap e = {}
    <2> SUFFICES ASSUME NEW x \in d \cap e PROVE FALSE
      OBVIOUS
    <2>1. x \in N
      BY <1>3
    <2>2. PICK k \in P : {y \in P : x \in y} = {k}
      BY <1>2, <2>1
    <2>3. d \in {y \in P : x \in y} /\ e \in {y \in P : x \in y}
      OBVIOUS
    <2> QED BY <1>4, <2>2, <2>3
  <1>5. UNION P = N
    <2>1. ASSUME NEW i \in N PROVE i \in UNION P
      <3>1. PICK e \in P : {x \in P : i \in x} = {e}
        BY <1>2
      <3> QED BY <3>1
    <2>2. ASSUME NEW e \in P, NEW i \in e PROVE i \in N
      BY <1>3
    <2> QED BY <2>1, <2>2
  <1>6. IsFiniteSet(P)
    <2>1. P \in SUBSET (SUBSET N)
      BY <1>5
    <2>2. IsFiniteSet(SUBSET N)
      BY <1>1, CountTo, FS_SUBSET
    <2> QED BY <2>1, <2>2, FS_Subset
  <1>7. Apartners(P)
    <2>1. \A e \in P : \E i, j \in Int : i < j /\ e = {i, j}
      <3>1. N \subseteq Int
        BY <1>1
      <3> QED BY <1>3, <3>1
    <2> QED BY <1>4, <2>1 DEF Apartners
  <1> QED BY <1>3, <1>5, <1>6, <1>7 DEF PairsOff

(* Duality: what the certificate promises of any perfect matching.           *)
LEMMA CertifiedLeast ==
  ASSUME NEW g, NEW n, Solvable(g, n), n > 0, NEW dual \in [1 .. n -> Int],
         NEW B, IsFiniteSet(B), NEW inside \in [B -> SUBSET (1 .. n)], NEW z \in [B -> Int],
         NEW P, Perfect(g, P), NEW Q, Perfect(g, Q),
         Certified(g, Weights(g), dual, inside, z, P)
  PROVE  TotalCost(g, P) \in Int /\ TotalCost(g, Q) \in Int /\ TotalCost(g, P) <= TotalCost(g, Q)
  <1> DEFINE N == 1 .. n
             M == Max(Costs(g)) + 1
             u == [v \in N |-> M - dual[v]]
             Cost(X) == [e \in X |-> g.cost[Min(e)][Max(e)]]
             Around(X) == [e \in X |-> DualsAround(z, inside, B, e)]
             Ends(X) == [e \in X |-> u[Min(e)] + u[Max(e)]]
             Due(X) == [e \in X |-> 2 * Cost(X)[e] + 2 * Around(X)[e]]
             Slack(e) == EdgeSlack(Weights(g), dual, inside, z, e)
  <1>0. n \in Nat /\ DOMAIN inside = B
    BY DEF Solvable
  <1>1. ASSUME NEW X, Perfect(g, X)
        PROVE  /\ PairsOff(X, N) /\ X \subseteq g.edges
               /\ \A e \in X : /\ Cost(X)[e] \in Int /\ Around(X)[e] \in Int
                               /\ Ends(X)[e] \in Int /\ Due(X)[e] \in Int
                               /\ Due(X)[e] = 2 * Cost(X)[e] + 2 * Around(X)[e]
                               /\ Slack(e) = Due(X)[e] - Ends(X)[e]
    <2>1. /\ PairsOff(X, N)
          /\ \A e \in X : \E i, j \in N : i < j /\ e = {i, j}
      BY <1>1, PerfectPairs
    <2>2. ASSUME NEW e \in X
          PROVE  /\ Cost(X)[e] \in Int /\ Around(X)[e] \in Int
                 /\ Ends(X)[e] \in Int /\ Due(X)[e] \in Int
                 /\ Due(X)[e] = 2 * Cost(X)[e] + 2 * Around(X)[e]
                 /\ Slack(e) = Due(X)[e] - Ends(X)[e]
      <3>1. PICK i \in N, j \in N : i < j /\ e = {i, j}
        BY <2>1
      <3> DEFINE c == g.cost[i][j]
                 d == DualsAround(z, inside, B, e)
      <3>2. /\ Min(e) = i /\ Max(e) = j
            /\ Max(Costs(g)) \in Int /\ c \in Int /\ dual[i] \in Int /\ dual[j] \in Int
            /\ d \in Int
            /\ Slack(e) = 2 * c + 2 * d
                  - (((Max(Costs(g)) + 1) - dual[i]) + ((Max(Costs(g)) + 1) - dual[j]))
        <4>1. i \in 1 .. n /\ j \in 1 .. n /\ i < j /\ e = {i, j}
          BY <3>1
        <4> HIDE DEF Cost, Around, Ends, Due, u, M, c, d, N, Slack
        <4>2. /\ Min(e) = i /\ Max(e) = j
              /\ Max(Costs(g)) \in Int /\ g.cost[i][j] \in Int /\ dual[i] \in Int /\ dual[j] \in Int
              /\ DualsAround(z, inside, B, e) \in Int
              /\ EdgeSlack(Weights(g), dual, inside, z, e)
                   = 2 * g.cost[i][j] + 2 * DualsAround(z, inside, B, e)
                     - (((Max(Costs(g)) + 1) - dual[i]) + ((Max(Costs(g)) + 1) - dual[j]))
          <5>1. SlackOf(g, dual, B, inside, z, i, j, e)
            BY <1>0, <4>1, SlackIs
          <5> QED BY <5>1 DEF SlackOf
        <4> QED BY <4>2 DEF c, d, Slack
      <3>3. Cost(X)[e] = c /\ Around(X)[e] = d
        BY <3>2
      <3>4. u[i] = M - dual[i] /\ u[j] = M - dual[j]
        BY <3>1
      <3>5. Ends(X)[e] = u[i] + u[j]
        BY <3>2
      <3>6. Due(X)[e] = 2 * Cost(X)[e] + 2 * Around(X)[e]
        OBVIOUS
      <3>7. M = Max(Costs(g)) + 1
        OBVIOUS
      <3> HIDE DEF Cost, Around, Ends, Due, u, M, c, d, Slack
      <3>8. u[i] \in Int /\ u[j] \in Int /\ Ends(X)[e] \in Int
        <4>1. M \in Int /\ dual[i] \in Int /\ dual[j] \in Int
          BY <3>2, <3>7
        <4>2. M - dual[i] \in Int /\ M - dual[j] \in Int
          BY <4>1
        <4>3. u[i] \in Int /\ u[j] \in Int
          BY <3>4, <4>2
        <4>4. u[i] + u[j] \in Int
          BY <4>3
        <4> QED BY <3>5, <4>3, <4>4
      <3>9. Due(X)[e] = 2 * c + 2 * d /\ Due(X)[e] \in Int
        BY <3>2, <3>3, <3>6
      <3>10. Slack(e) = 2 * c + 2 * d - (u[i] + u[j])
        <4>1. Slack(e) = 2 * c + 2 * d - ((M - dual[i]) + (M - dual[j]))
          BY <3>2, <3>7
        <4> QED BY <3>4, <4>1
      <3>11. Slack(e) = Due(X)[e] - Ends(X)[e]
        BY <3>2, <3>5, <3>8, <3>9, <3>10
      <3> QED BY <3>2, <3>3, <3>6, <3>8, <3>9, <3>11
    <2>3. X \subseteq g.edges
      BY <1>1 DEF Perfect
    <2> HIDE DEF Cost, Around, Ends, Due, Slack, u, M
    <2> QED BY <2>1, <2>2, <2>3
  <1>2. ASSUME NEW X, Perfect(g, X)
        PROVE  /\ TotalCost(g, X) = SumFunctionOnSet(Cost(X), X)
               /\ DualsOver(z, inside, B, X) = SumFunctionOnSet(Around(X), X)
               /\ \A e \in X : Ends(X)[e] = u[Min(e)] + u[Max(e)]
    BY DEF TotalCost, SumFunction, DualsOver
  <1>3. \A v \in N : u[v] \in Int
    <2>1. Max(Costs(g)) \in Int
      BY MaxCost
    <2> QED BY <2>1
  <1>4. /\ \A e \in Q : Slack(e) >= 0
        /\ \A e \in P : Slack(e) = 0
    <2>1. Q \subseteq g.edges
      BY <1>1
    <2> QED BY <2>1 DEF Certified
  <1> DEFINE Sum(X) == SumFunctionOnSet(Ends(X), X)
             D(X) == DualsOver(z, inside, B, X)
             T(X) == TotalCost(g, X)
  <1>5. ASSUME NEW X, Perfect(g, X)
        PROVE  Sum(X) = SumFunctionOnSet(u, N) /\ Sum(X) \in Int
    <2>1. IsFiniteSet(X) /\ Apartners(X) /\ UNION X = N
      BY <1>1, <1>5 DEF PairsOff
    <2>2. \A e \in X : Ends(X)[e] = u[Min(e)] + u[Max(e)]
      BY <1>2, <1>5
    <2>3. \A v \in UNION X : u[v] \in Int
      BY <1>3, <2>1
    <2> HIDE DEF Ends, u, N
    <2> DEFINE h == Ends(X)
    <2>4. \A e \in X : h[e] = u[Min(e)] + u[Max(e)]
      BY <2>2
    <2> HIDE DEF h
    <2>5. /\ SumFunctionOnSet(u, UNION X) \in Int
          /\ SumFunctionOnSet(h, X) = SumFunctionOnSet(u, UNION X)
      BY <2>1, <2>3, <2>4, SumOverPairs
    <2> QED BY <2>1, <2>5 DEF h
  <1>6. ASSUME NEW X, Perfect(g, X)
        PROVE  /\ T(X) \in Int /\ D(X) \in Int
               /\ SumFunctionOnSet(Due(X), X) = 2 * T(X) + 2 * D(X)
    <2>1. IsFiniteSet(X)
      BY <1>1, <1>6 DEF PairsOff
    <2>2. T(X) = SumFunctionOnSet(Cost(X), X) /\ D(X) = SumFunctionOnSet(Around(X), X)
      BY <1>2, <1>6
    <2>3. TwiceBoth(Due(X), Cost(X), Around(X), X)
      <3> HIDE DEF Cost, Around, Due
      <3> QED BY <1>1, <1>6 DEF TwiceBoth
    <2> HIDE DEF Cost, Around, Due, T, D
    <2> QED BY <2>1, <2>2, <2>3, SumOfTwice
  <1>7. ASSUME NEW X, Perfect(g, X), \A e \in X : Slack(e) >= 0
        PROVE  Sum(X) <= 2 * T(X) + 2 * D(X)
    <2>1. IsFiniteSet(X)
      BY <1>1, <1>7 DEF PairsOff
    <2>2. ASSUME NEW e \in X
          PROVE  Ends(X)[e] \in Int /\ Due(X)[e] \in Int /\ Ends(X)[e] <= Due(X)[e]
      <3>1. /\ Ends(X)[e] \in Int /\ Due(X)[e] \in Int
            /\ Slack(e) = Due(X)[e] - Ends(X)[e] /\ Slack(e) >= 0
        <4> HIDE DEF Ends, Due, Slack, Cost, Around
        <4> QED BY <1>1, <1>7
      <3> HIDE DEF Ends, Due, Slack
      <3> QED BY <3>1
    <2> HIDE DEF Ends, Due
    <2>3. SumFunctionOnSet(Ends(X), X) <= SumFunctionOnSet(Due(X), X)
      BY <2>1, <2>2, SumLeq
    <2> HIDE DEF T, D
    <2> QED BY <1>6, <1>7, <2>3
  <1>8. 2 * T(P) + 2 * D(P) <= Sum(P)
    <2>1. IsFiniteSet(P)
      BY <1>1 DEF PairsOff
    <2>2. ASSUME NEW e \in P
          PROVE  Ends(P)[e] \in Int /\ Due(P)[e] \in Int /\ Due(P)[e] <= Ends(P)[e]
      <3>1. /\ Ends(P)[e] \in Int /\ Due(P)[e] \in Int
            /\ Slack(e) = Due(P)[e] - Ends(P)[e] /\ Slack(e) = 0
        <4> HIDE DEF Ends, Due, Slack, Cost, Around
        <4> QED BY <1>1, <1>4
      <3> HIDE DEF Ends, Due, Slack
      <3> QED BY <3>1
    <2> HIDE DEF Ends, Due
    <2>3. SumFunctionOnSet(Due(P), P) <= SumFunctionOnSet(Ends(P), P)
      BY <2>1, <2>2, SumLeq
    <2> HIDE DEF T, D
    <2> QED BY <1>6, <2>3
  <1>9. D(Q) <= D(P)
    <2>1. PairsOff(P, N) /\ PairsOff(Q, N)
      BY <1>1
    <2>2. ASSUME NEW b \in B
          PROVE  /\ IsFiniteSet(inside[b]) /\ z[b] \in Nat
                 /\ z[b] > 0 => 2 * Cardinality({e \in P : e \subseteq inside[b]})
                                   = Cardinality(inside[b]) - 1
      <3>1. inside[b] \in SUBSET N /\ IsFiniteSet(N) /\ z[b] \in Int
        BY <1>0, CountTo
      <3>2. IsFiniteSet(inside[b])
        BY <3>1, FS_Subset
      <3>3. /\ z[b] >= 0
            /\ z[b] > 0 => 2 * Cardinality({e \in P : e \subseteq inside[b]})
                              = Cardinality(inside[b]) - 1
        BY <1>0 DEF Certified
      <3> QED BY <3>1, <3>2, <3>3
    <2> HIDE DEF N
    <2> QED BY <2>1, <2>2, DualsAtMost
  <1> HIDE DEF Sum, D, T, Slack
  <1>10. Sum(Q) <= 2 * T(Q) + 2 * D(Q)
    BY <1>4, <1>7
  <1>11. Sum(P) = Sum(Q) /\ Sum(P) \in Int
    BY <1>5
  <1>12. T(P) \in Int /\ D(P) \in Int /\ T(Q) \in Int /\ D(Q) \in Int
    BY <1>6
  <1>13. T(P) <= T(Q)
    BY <1>8, <1>9, <1>10, <1>11, <1>12
  <1> QED BY <1>12, <1>13 DEF T

(* No slots: nothing to match, at no cost. *)
LEMMA NothingToMatch ==
  ASSUME NEW g, Solvable(g, 0), NEW P, Perfect(g, P)
  PROVE  TotalCost(g, P) = 0
  <1>1. /\ UNION P = 1 .. 0
        /\ \A e \in P : \E i, j \in 1 .. 0 : i < j /\ e = {i, j}
    BY PerfectPairs DEF PairsOff
  <1>2. P = {}
    BY <1>1
  <1> DEFINE c == [e \in {} |-> g.cost[Min(e)][Max(e)]]
  <1>3. TotalCost(g, {}) = SumFunctionOnSet(c, DOMAIN c) /\ DOMAIN c = {}
    BY DEF TotalCost, SumFunction
  <1> HIDE DEF c
  <1> QED BY <1>2, <1>3, SumOfNone

(* The linear-programming certificate is sound for pools of every size: a    *)
(* perfect matching that has one costs no more than any other perfect        *)
(* matching of the graph, whatever the blossoms and their duals (verifyOptimum: *)
(* "the linear-programming certificate that the matching is optimal").        *)
THEOREM CertifiedCheapest ==
  ASSUME NEW l, IsLeague(l), NEW g, g = BuildGraph(l.players, l.history, l.cfg),
         NEW B, IsFiniteSet(B),
         NEW dual \in [DOMAIN g.slots -> Int],
         NEW inside \in [B -> SUBSET DOMAIN g.slots], NEW z \in [B -> Int],
         NEW matched, Perfect(g, matched), Certified(g, Weights(g), dual, inside, z, matched),
         NEW other, Perfect(g, other)
  PROVE  TotalCost(g, matched) <= TotalCost(g, other)
  <1>1. PICK n : Solvable(g, n)
    BY GraphSolvable
  <1>2. n \in Nat /\ DOMAIN g.slots = 1 .. n
    BY <1>1 DEF Solvable
  <1>3. CASE n = 0
    <2>1. TotalCost(g, matched) = 0 /\ TotalCost(g, other) = 0
      BY <1>1, <1>3, NothingToMatch
    <2> QED BY <2>1
  <1>4. CASE n > 0
    <2>1. dual \in [1 .. n -> Int] /\ inside \in [B -> SUBSET (1 .. n)]
      BY <1>2
    <2> QED BY <1>1, <1>4, <2>1, CertifiedLeast
  <1> QED BY <1>2, <1>3, <1>4
=============================================================================
