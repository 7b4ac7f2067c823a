---------------------------- MODULE PortOwners_proofs ----------------------------
(* What the lists of ports, the walk of run() over them and the poll arrays   *)
(* guarantee for any number of services, ports and owners.                    *)
EXTENDS PortOwners, TLAPS, Sequences, FiniteSetTheorems, WellFoundedInduction

(* q is the doubly linked list of n ports from f to l, by the links nx and pv. *)
IsList(q, f, l, n, nx, pv) ==
    /\ q \in Seq(Ports) /\ Len(q) = n
    /\ \A i, j \in 1 .. n : q[i] = q[j] => i = j
    /\ IF n = 0 THEN f = Null /\ l = Null ELSE f = q[1] /\ l = q[n]
    /\ \A i \in 1 .. n : pv[q[i]] = IF i = 1 THEN Null ELSE q[i - 1]
    /\ \A i \in 1 .. n : nx[q[i]] = IF i = n THEN Null ELSE q[i + 1]

(* A set of natural numbers that is not empty has a least member. *)
LEMMA LeastOf ==
    ASSUME NEW I \in SUBSET Nat, I # {}
    PROVE  \E n \in I : \A j \in I : n <= j
<1> DEFINE R == OpToRel(<, Nat)
<1>1. \A j, k \in Nat : j < k => <<j, k>> \in R
  BY DEF OpToRel
<1>2. IsWellFoundedOn(R, Nat)
  BY NatLessThanWellFounded
<1> HIDE DEF R
<1>3. PICK n \in I : \A j \in I : <<j, n>> \notin R
  BY <1>2, WFMin
<1>4. ASSUME NEW j \in I PROVE n <= j
  <2>1. j \in Nat /\ n \in Nat /\ ~(j < n)
    BY <1>1, <1>3
  <2> QED BY <2>1
<1> QED BY <1>4

(* A list has no more members than there are ports, and as many as its count. *)
LEMMA ListSize ==
    ASSUME NEW q, NEW f, NEW l, NEW n \in Nat, NEW nx, NEW pv, IsList(q, f, l, n, nx, pv)
    PROVE  /\ IsFiniteSet(Range(q)) /\ Cardinality(Range(q)) = n
           /\ n <= Cardinality(Ports) /\ Cardinality(Ports) \in Nat
<1>1. DOMAIN q = 1 .. n /\ \A i \in 1 .. n : q[i] \in Ports
  BY DEF IsList
<1>2. q \in [1 .. n -> Range(q)] /\ q \in Bijection(1 .. n, Range(q))
  <2>1. q \in [1 .. n -> Range(q)]
    BY <1>1 DEF Range, IsList
  <2>2. q \in Injection(1 .. n, Range(q))
    BY <2>1 DEF Injection, IsInjective, IsList
  <2>3. q \in Surjection(1 .. n, Range(q))
    BY <1>1, <2>1 DEF Surjection, Range
  <2> QED BY <2>1, <2>2, <2>3 DEF Bijection
<1>3. IsFiniteSet(1 .. n) /\ Cardinality(1 .. n) = n
  BY FS_Interval
<1>4. Range(q) \subseteq Ports
  BY <1>1 DEF Range
<1>5. IsFiniteSet(Range(q)) /\ Cardinality(Range(q)) = n
  BY <1>2, <1>3, <1>4, FS_Bijection, PortsFinite, FS_Subset DEF ExistsBijection
<1> QED BY <1>4, <1>5, PortsFinite, FS_Subset, FS_CardinalityType

(* What run() meets from first on is what is in the list. *)
LEMMA ChainIs ==
    ASSUME NEW s \in Services, NEW q, NEW l, NEW n \in Nat, NEW pv,
           IsList(q, first[s], l, n, next, pv)
    PROVE  Chain(s) = Range(q)
<1> DEFINE C == Cardinality(Ports)
           E(g) == [m \in 0 .. C |-> IF m = 0 THEN first[s]
                                     ELSE IF g[m - 1] = Null THEN Null ELSE next[g[m - 1]]]
           w == [m \in 0 .. C |-> IF m < n THEN q[m + 1] ELSE Null]
           at == CHOOSE g : g = E(g)
<1>1. n <= C /\ C \in Nat
  BY ListSize
<1>2. \A i \in 1 .. n : q[i] \in Ports /\ q[i] # Null
  BY NullIsNone DEF IsList
<1>3. w = E(w)
  <2>1. \A m \in 0 .. C : w[m] = E(w)[m]
    <3> TAKE m \in 0 .. C
    <3>1. CASE m = 0
      BY <1>1, <3>1 DEF IsList
    <3>2. CASE m # 0
      <4>1. m - 1 \in 0 .. C
        BY <1>1, <3>2
      <4>2. w[m - 1] = IF m - 1 < n THEN q[m] ELSE Null
        BY <4>1, <3>2
      <4>3. CASE m <= n
        <5>1. next[q[m]] = IF m = n THEN Null ELSE q[m + 1]
          BY <1>1, <3>2, <4>3 DEF IsList
        <5> QED BY <1>1, <1>2, <3>2, <4>1, <4>2, <4>3, <5>1
      <4>4. CASE m > n
        BY <1>1, <3>2, <4>1, <4>2, <4>4
      <4> QED BY <1>1, <4>3, <4>4
    <3> QED BY <3>1, <3>2
  <2> QED BY <2>1
<1>4. at = E(at)
  <2> HIDE DEF E, w
  <2> QED BY <1>3
<1>5. \A m \in 0 .. C : at[m] = w[m]
  <2> DEFINE I == {m \in 0 .. C : at[m] # w[m]}
  <2>1. SUFFICES ASSUME I # {} PROVE FALSE
    OBVIOUS
  <2>2. I \subseteq Nat
    BY <1>1
  <2>3. PICK m \in I : \A k \in I : m <= k
    BY <2>1, <2>2, LeastOf
  <2>4. m \in 0 .. C /\ at[m] # w[m]
    BY <2>3
  <2>5. at[m] = E(at)[m] /\ w[m] = E(w)[m]
    <3> HIDE DEF E, w, at
    <3> QED BY <1>3, <1>4
  <2>6. m # 0
    <3> HIDE DEF w, at
    <3> QED BY <2>4, <2>5
  <2>7. m - 1 \in 0 .. C /\ at[m - 1] = w[m - 1]
    <3>1. m - 1 \in 0 .. C /\ ~(m <= m - 1)
      BY <1>1, <2>4, <2>6
    <3> QED BY <2>3, <3>1
  <2> HIDE DEF w, at
  <2> QED BY <2>4, <2>5, <2>6, <2>7
<1>6. Chain(s) = Range(at) \ {Null}
  BY DEF Chain
<1>7. DOMAIN at = 0 .. C
  <2> HIDE DEF at
  <2> QED BY <1>4
<1>8. \A p : p \in Range(at) \ {Null} <=> p \in Range(q)
  <2>1. DOMAIN q = 1 .. n
    BY DEF IsList
  <2>2. \A m \in 0 .. C : m < n => m + 1 \in 1 .. n /\ at[m] = q[m + 1]
    BY <1>1, <1>5
  <2>3. \A m \in 0 .. C : ~(m < n) => at[m] = Null
    BY <1>5
  <2>4. \A i \in 1 .. n : i - 1 \in 0 .. C /\ i - 1 < n /\ (i - 1) + 1 = i
    BY <1>1
  <2> HIDE DEF w, at, C
  <2>5. ASSUME NEW p \in Range(at) \ {Null} PROVE p \in Range(q)
    <3>1. PICK m \in 0 .. C : p = at[m]
      BY <1>7 DEF Range
    <3>2. m < n
      BY <2>3, <3>1
    <3> QED BY <2>1, <2>2, <3>1, <3>2 DEF Range
  <2>6. ASSUME NEW p \in Range(q) PROVE p \in Range(at) \ {Null}
    <3>1. PICK i \in 1 .. n : p = q[i]
      BY <2>1 DEF Range
    <3>2. at[i - 1] = q[i] /\ i - 1 \in 0 .. C
      BY <2>2, <2>4
    <3> QED BY <1>2, <1>7, <3>1, <3>2 DEF Range
  <2> QED BY <2>5, <2>6
<1> QED BY <1>6, <1>8

(* A list whose members keep their links is still a list. *)
LEMMA OtherList ==
    ASSUME NEW q, NEW f, NEW l, NEW n \in Nat, NEW nx, NEW pv, IsList(q, f, l, n, nx, pv),
           NEW nx2, NEW pv2, \A p \in Range(q) : nx2[p] = nx[p] /\ pv2[p] = pv[p]
    PROVE  IsList(q, f, l, n, nx2, pv2)
<1>1. DOMAIN q = 1 .. n
  BY DEF IsList
<1>2. \A i \in 1 .. n : nx2[q[i]] = nx[q[i]] /\ pv2[q[i]] = pv[q[i]]
  BY <1>1 DEF Range
<1> QED BY <1>2 DEF IsList

(* What attach does to the list: a port without successor comes last. *)
LEMMA LinkList ==
    ASSUME NEW q, NEW f, NEW l, NEW n \in Nat, NEW nx, NEW pv, IsList(q, f, l, n, nx, pv),
           NEW p \in Ports, p \notin Range(q), nx[p] = Null,
           NEW f2, f2 = IF f = Null THEN p ELSE f,
           NEW nx2, \A y \in Ports : nx2[y] = IF y = l THEN p ELSE nx[y],
           NEW pv2, \A y \in Ports : pv2[y] = IF y = p THEN l ELSE pv[y]
    PROVE  /\ IsList(Append(q, p), f2, p, n + 1, nx2, pv2)
           /\ Range(Append(q, p)) = Range(q) \cup {p}
<1> DEFINE r == Append(q, p)
<1>1. /\ DOMAIN q = 1 .. n /\ q \in Seq(Ports) /\ Len(q) = n
      /\ \A i \in 1 .. n : q[i] \in Ports /\ q[i] # Null /\ q[i] # p
  BY NullIsNone DEF IsList, Range
<1>2. /\ r \in Seq(Ports) /\ Len(r) = n + 1 /\ DOMAIN r = 1 .. n + 1
      /\ r[n + 1] = p /\ \A i \in 1 .. n : r[i] = q[i]
  BY <1>1
<1>3. \A i, j \in 1 .. n + 1 : r[i] = r[j] => i = j
  BY <1>1, <1>2 DEF IsList
<1>4. n = 0 => f = Null /\ l = Null
  BY DEF IsList
<1>5. n # 0 => f = q[1] /\ f # Null /\ l = q[n] /\ l \in Ports /\ l # Null
  BY <1>1 DEF IsList
<1>6. f2 = r[1]
  BY <1>2, <1>4, <1>5
<1>7. \A y \in Ports : y # l => nx2[y] = nx[y]
  OBVIOUS
<1>8. n # 0 => nx2[l] = p
  BY <1>5
<1>9. pv2[p] = l /\ \A y \in Ports : y # p => pv2[y] = pv[y]
  OBVIOUS
<1>10. p # l
  BY <1>1, <1>4, <1>5, NullIsNone
<1> HIDE DEF r
<1>11. \A i \in 1 .. n + 1 : pv2[r[i]] = IF i = 1 THEN Null ELSE r[i - 1]
  <2> TAKE i \in 1 .. n + 1
  <2>1. CASE i = n + 1
    <3>1. n # 0 => n \in 1 .. n /\ r[n] = l
      BY <1>2, <1>5
    <3> QED BY <1>2, <1>4, <1>9, <2>1, <3>1
  <2>2. CASE i # n + 1
    <3>1. i \in 1 .. n /\ r[i] = q[i] /\ pv[q[i]] = IF i = 1 THEN Null ELSE q[i - 1]
      BY <1>2, <2>2 DEF IsList
    <3>2. i # 1 => i - 1 \in 1 .. n
      BY <3>1
    <3> QED BY <1>1, <1>2, <1>9, <3>1, <3>2
  <2> QED BY <2>1, <2>2
<1>12. \A i \in 1 .. n + 1 : nx2[r[i]] = IF i = n + 1 THEN Null ELSE r[i + 1]
  <2> TAKE i \in 1 .. n + 1
  <2>1. CASE i = n + 1
    BY <1>2, <1>7, <1>10, <2>1
  <2>2. CASE i = n /\ n # 0
    BY <1>2, <1>5, <1>8, <2>2
  <2>3. CASE i < n
    <3>1. i \in 1 .. n /\ i + 1 \in 1 .. n /\ n \in 1 .. n /\ i # n
      BY <2>3
    <3>2. q[i] # l
      BY <1>5, <3>1 DEF IsList
    <3>3. nx[q[i]] = q[i + 1]
      BY <3>1 DEF IsList
    <3> QED BY <1>1, <1>2, <1>7, <2>3, <3>1, <3>2, <3>3
  <2> QED BY <2>1, <2>2, <2>3
<1>13. Range(r) = Range(q) \cup {p}
  <2>1. n + 1 \in 1 .. n + 1 /\ \A i \in 1 .. n + 1 : i = n + 1 \/ i \in 1 .. n
    OBVIOUS
  <2>2. \A i \in 1 .. n : i \in 1 .. n + 1
    OBVIOUS
  <2> QED BY <1>1, <1>2, <2>1, <2>2 DEF Range
<1>14. IsList(r, f2, p, n + 1, nx2, pv2)
  BY <1>2, <1>3, <1>6, <1>11, <1>12 DEF IsList
<1> QED BY <1>13, <1>14 DEF r

Without(q, i) == [j \in 1 .. Len(q) - 1 |-> IF j < i THEN q[j] ELSE q[j + 1]]

(* p is the i-th port of the list, and the second list variables are what     *)
(* detach makes of the first.                                                  *)
Bypassed(q, f, l, n, nx, pv, i, p, f2, l2, nx2, pv2) ==
    /\ n \in Nat /\ IsList(q, f, l, n, nx, pv) /\ i \in 1 .. n /\ p = q[i]
    /\ f2 = IF pv[p] = Null THEN nx[p] ELSE f
    /\ l2 = IF nx[p] = Null THEN pv[p] ELSE l
    /\ \A y \in Ports : nx2[y] = IF y = pv[p] THEN nx[p] ELSE nx[y]
    /\ \A y \in Ports : pv2[y] = IF y = nx[p] THEN pv[p] ELSE pv[y]

(* What detach does to the list: the neighbours of the port become neighbours. *)
LEMMA UnlinkList ==
    ASSUME NEW q, NEW f, NEW l, NEW n, NEW nx, NEW pv, NEW i, NEW p,
           NEW f2, NEW l2, NEW nx2, NEW pv2, Bypassed(q, f, l, n, nx, pv, i, p, f2, l2, nx2, pv2)
    PROVE  IsList(Without(q, i), f2, l2, n - 1, nx2, pv2) /\ Range(Without(q, i)) = Range(q) \ {p}
<1> USE DEF Bypassed
<1> DEFINE r == Without(q, i)
<1>1. /\ DOMAIN q = 1 .. n /\ Len(q) = n
      /\ \A j \in 1 .. n : q[j] \in Ports /\ q[j] # Null
      /\ \A j, k \in 1 .. n : q[j] = q[k] => j = k
  BY NullIsNone DEF IsList
<1>2. /\ n - 1 \in Nat /\ DOMAIN r = 1 .. n - 1 /\ r \in Seq(Ports) /\ Len(r) = n - 1
      /\ \A j \in 1 .. n - 1 : r[j] = IF j < i THEN q[j] ELSE q[j + 1]
  <2>1. n - 1 \in Nat /\ r \in [1 .. n - 1 -> Ports]
    BY <1>1 DEF Without
  <2> QED BY <1>1, <2>1 DEF Without
<1>3. /\ pv[p] = IF i = 1 THEN Null ELSE q[i - 1]
      /\ nx[p] = IF i = n THEN Null ELSE q[i + 1]
      /\ f = q[1] /\ l = q[n]
  BY DEF IsList
<1>4. /\ i = 1 => pv[p] = Null
      /\ i # 1 => pv[p] = q[i - 1] /\ pv[p] # Null /\ i - 1 \in 1 .. n
      /\ i = n => nx[p] = Null
      /\ i # n => nx[p] = q[i + 1] /\ nx[p] # Null /\ i + 1 \in 1 .. n
  BY <1>1, <1>3
<1>5. \A y \in Ports : nx2[y] = IF i # 1 /\ y = q[i - 1] THEN nx[p] ELSE nx[y]
  BY <1>1, <1>4, NullIsNone
<1>6. \A y \in Ports : pv2[y] = IF i # n /\ y = q[i + 1] THEN pv[p] ELSE pv[y]
  BY <1>1, <1>4, NullIsNone
<1>7. f2 = (IF i = 1 THEN nx[p] ELSE q[1]) /\ l2 = (IF i = n THEN pv[p] ELSE q[n])
  BY <1>3, <1>4
<1> HIDE DEF r
<1>8. \A j, k \in 1 .. n - 1 : r[j] = r[k] => j = k
  <2> TAKE j, k \in 1 .. n - 1
  <2>1. j \in 1 .. n /\ j + 1 \in 1 .. n /\ k \in 1 .. n /\ k + 1 \in 1 .. n
    OBVIOUS
  <2> QED BY <1>1, <1>2, <2>1
<1>9. IF n - 1 = 0 THEN f2 = Null /\ l2 = Null ELSE f2 = r[1] /\ l2 = r[n - 1]
  <2>1. CASE n = 1
    BY <1>4, <1>7, <2>1
  <2>2. CASE n # 1
    <3>1. 1 \in 1 .. n - 1 /\ n - 1 \in 1 .. n - 1 /\ (n - 1) + 1 = n /\ 1 + 1 = 2 /\ n - 1 # 0
      BY <2>2
    <3>2. r[1] = (IF i = 1 THEN q[2] ELSE q[1]) /\ r[n - 1] = (IF i = n THEN q[n - 1] ELSE q[n])
      BY <1>2, <3>1
    <3> QED BY <1>4, <1>7, <2>2, <3>1, <3>2
  <2> QED BY <2>1, <2>2
<1>10. \A j \in 1 .. n - 1 : pv2[r[j]] = IF j = 1 THEN Null ELSE r[j - 1]
  <2> TAKE j \in 1 .. n - 1
  <2>0. \A k \in 1 .. n : pv[q[k]] = IF k = 1 THEN Null ELSE q[k - 1]
    BY DEF IsList
  <2>1. CASE j < i
    <3>1. j \in 1 .. n /\ r[j] = q[j] /\ (i # n => q[j] # q[i + 1])
      BY <1>1, <1>2, <1>4, <2>1
    <3>2. j # 1 => j - 1 \in 1 .. n - 1 /\ r[j - 1] = q[j - 1]
      BY <1>2, <2>1
    <3> QED BY <1>1, <1>6, <2>0, <3>1, <3>2
  <2>2. CASE j = i
    <3>1. i # n /\ r[j] = q[i + 1] /\ q[i + 1] \in Ports
      BY <1>1, <1>2, <1>4, <2>2
    <3>2. j # 1 => j - 1 \in 1 .. n - 1 /\ r[j - 1] = q[i - 1]
      BY <1>2, <2>2
    <3> QED BY <1>3, <1>6, <2>2, <3>1, <3>2
  <2>3. CASE j > i
    <3>1. j + 1 \in 1 .. n /\ r[j] = q[j + 1] /\ (i # n => q[j + 1] # q[i + 1]) /\ q[j + 1] \in Ports
      BY <1>1, <1>2, <1>4, <2>3
    <3>2. j # 1 /\ j - 1 \in 1 .. n - 1 /\ ~(j - 1 < i) /\ (j - 1) + 1 = j /\ j + 1 # 1 /\ (j + 1) - 1 = j
      BY <2>3
    <3>3. r[j - 1] = q[j] /\ pv[q[j + 1]] = q[j]
      BY <1>2, <2>0, <3>1, <3>2
    <3> QED BY <1>6, <3>1, <3>2, <3>3
  <2> QED BY <2>1, <2>2, <2>3
<1>11. \A j \in 1 .. n - 1 : nx2[r[j]] = IF j = n - 1 THEN Null ELSE r[j + 1]
  <2> TAKE j \in 1 .. n - 1
  <2>0. \A k \in 1 .. n : nx[q[k]] = IF k = n THEN Null ELSE q[k + 1]
    BY DEF IsList
  <2>1. CASE j < i - 1
    <3>1. /\ j \in 1 .. n /\ r[j] = q[j] /\ q[j] \in Ports /\ (i # 1 => q[j] # q[i - 1])
          /\ j # n /\ j # n - 1
      BY <1>1, <1>2, <1>4, <2>1
    <3>2. j + 1 \in 1 .. n - 1 /\ r[j + 1] = q[j + 1]
      BY <1>2, <2>1
    <3> QED BY <1>5, <2>0, <3>1, <3>2
  <2>2. CASE j = i - 1
    <3>1. i # 1 /\ r[j] = q[i - 1] /\ q[i - 1] \in Ports /\ (j = n - 1 <=> i = n)
      BY <1>1, <1>2, <1>4, <2>2
    <3>2. i # n => j + 1 \in 1 .. n - 1 /\ r[j + 1] = q[i + 1]
      BY <1>2, <2>2
    <3> QED BY <1>3, <1>5, <3>1, <3>2
  <2>3. CASE j >= i
    <3>1. /\ j + 1 \in 1 .. n /\ r[j] = q[j + 1] /\ q[j + 1] \in Ports
          /\ (i # 1 => q[j + 1] # q[i - 1]) /\ (j + 1 = n <=> j = n - 1)
      BY <1>1, <1>2, <1>4, <2>3
    <3>2. j # n - 1 => j + 1 \in 1 .. n - 1 /\ ~(j + 1 < i)
      BY <2>3
    <3>3. j # n - 1 => r[j + 1] = q[(j + 1) + 1]
      BY <1>2, <3>2
    <3> QED BY <1>5, <2>0, <3>1, <3>3
  <2> QED BY <2>1, <2>2, <2>3
<1>12. Range(r) = Range(q) \ {p}
  <2>1. ASSUME NEW y \in Range(r) PROVE y \in Range(q) \ {p}
    <3>1. PICK j \in 1 .. n - 1 : y = r[j]
      BY <1>2 DEF Range
    <3>2. j \in 1 .. n /\ j + 1 \in 1 .. n
      OBVIOUS
    <3>3. PICK k \in 1 .. n : y = q[k] /\ k # i
      BY <1>2, <3>1, <3>2
    <3> QED BY <1>1, <3>3 DEF Range
  <2>2. ASSUME NEW y \in Range(q) \ {p} PROVE y \in Range(r)
    <3>1. PICK k \in 1 .. n : y = q[k] /\ k # i
      BY <1>1 DEF Range
    <3>2. CASE k < i
      <4>1. k \in 1 .. n - 1 /\ y = r[k]
        BY <1>2, <3>1, <3>2
      <4> QED BY <1>2, <4>1 DEF Range
    <3>3. CASE k > i
      <4>1. k - 1 \in 1 .. n - 1 /\ ~(k - 1 < i) /\ (k - 1) + 1 = k
        BY <3>3
      <4>2. y = r[k - 1]
        BY <1>2, <3>1, <4>1
      <4> QED BY <1>2, <4>1, <4>2 DEF Range
    <3> QED BY <3>1, <3>2, <3>3
  <2> QED BY <2>1, <2>2
<1>13. IsList(r, f2, l2, n - 1, nx2, pv2)
  BY <1>2, <1>8, <1>9, <1>10, <1>11 DEF IsList
<1> QED BY <1>12, <1>13 DEF r
--------------------------------------------------------------------------------
(* A port on its way to a list: it has its service and waits to be linked.     *)
Coming(p) == \E u \in Owners : opc[u] = "attach" /\ oport[u] = p

Attached(s) == {p \in Ports : service[p] = s /\ ~Coming(p)}

(* The links of a service make a list of the ports attached to it, all alive.  *)
Listed(q, s) ==
    IsList(q, first[s], last[s], count[s], next, prev) /\ Range(q) = Attached(s)

Lists ==
    /\ \A s \in Services : \E q \in [1 .. count[s] -> Ports] : Listed(q, s)
    /\ \A p \in Ports : service[p] # Null => life[p] = "live"

(* The places of an owner that works on a port that is in no list.             *)
Carrying == {"move", "attach"}

(* A port that was not linked yet, or that an owner moves from a list to       *)
(* another: nobody but that owner knows it.                                    *)
Unlinked(p) == life[p] = "none" \/ \E u \in Owners : opc[u] \in Carrying /\ oport[u] = p

OwnerAt(u) ==
    /\ IF opc[u] = "idle" THEN osvc[u] = Null ELSE osvc[u] \in Services
    /\ opc[u] \in Carrying => oport[u] \in Ports /\ life[oport[u]] = "live"
    /\ opc[u] = "move" => service[oport[u]] = Null

Apart(u, v) == opc[u] \in Carrying /\ opc[v] \in Carrying /\ oport[u] = oport[v] => u = v

Untouched(p) ==
    Unlinked(p) => /\ life[p] = "none" => service[p] = Null
                   /\ next[p] = Null
                   /\ \A s \in Services : cur[s] # p /\ called[s] # p

OwnersInv ==
    /\ \A u \in Owners : OwnerAt(u)
    /\ \A u, v \in Owners : Apart(u, v)
    /\ \A p \in Ports : Untouched(p)

(* The walk of run() is at a port of the list, or at one that has deleted      *)
(* itself in a callback, whose successor is in the list.                       *)
Visiting == {"visit", "timer", "due"}

AtPort(s) ==
    \/ cur[s] \in Attached(s)
    \/ /\ ~(Deleting \subseteq {"disconnect"})
       /\ cur[s] \in Ports /\ life[cur[s]] = "freed" /\ next[cur[s]] \in Attached(s) \cup {Null}

WalkAt(s) ==
    /\ locked[s] <=> rpc[s] \in Visiting \cup Callbacks
    /\ ~locked[s] => cur[s] = Null
    /\ rpc[s] \in {"visit", "disconnect"} => cur[s] \in Attached(s) \cup {Null}
    /\ rpc[s] \in {"timer", "due", "pending", "expired"} => AtPort(s)
    /\ rpc[s] \in {"pending", "expired"} => called[s] = cur[s]
    /\ rpc[s] = "disconnect" => called[s] \in Ports /\ service[called[s]] = Null /\ wake[s]
    /\ rpc[s] \notin Callbacks => called[s] = Null

(* The poll array: a port that points into it is in it.                        *)
ArrayAt(s) ==
    /\ rpc[s] \in {"off", "init"} => lastcount[s] = 0
    /\ IF lastcount[s] = 0 THEN polled[s] = {} ELSE lastcount[s] = Cardinality(polled[s]) + 1
    /\ \A p \in Attached(s) : ufd[p] \in {Null, s} /\ (ufd[p] = s => p \in polled[s])
    /\ rpc[s] \in {"timer", "due", "pending", "expired"} /\ cur[s] \in Attached(s) /\ ufd[cur[s]] = Null
          => rebuild[s]

(* Unless the thread is going to be woken, the ports that it has passed on its *)
(* walk make it rebuild the array and limit its sleep.  (An owner that starts  *)
(* the thread linked its port before the thread ran.)                          *)
Linking == {"attach", "start", "create"}

Quiet(s) == ~wake[s] /\ \A u \in Owners : osvc[u] = s => opc[u] \in Linking

Passed(p, s) == (ufd[p] = Null => rebuild[s]) /\ (timer[p] # "off" => timed[s])

Reached(q, k, s) ==
    /\ Listed(q, s)
    /\ cur[s] = IF k = count[s] + 1 THEN Null ELSE q[k]
    /\ \A i \in 1 .. k - 1 : Passed(q[i], s)

SleepAt(s) ==
    Quiet(s) =>
        /\ rpc[s] \in {"visit", "timer", "due", "pending", "expired"} =>
              \E q \in [1 .. count[s] -> Ports] : \E k \in 1 .. count[s] + 1 : Reached(q, k, s)
        /\ rpc[s] = "poll" =>
              /\ polled[s] = Attached(s)
              /\ \A p \in Attached(s) : ufd[p] = s /\ (timer[p] # "off" => timed[s])

ServiceAt(s) == WalkAt(s) /\ ArrayAt(s) /\ SleepAt(s)

PortInv == TypeOK /\ Lists /\ OwnersInv /\ \A s \in Services : ServiceAt(s)
--------------------------------------------------------------------------------
(* The list of a service is its chain, and what its members point to.          *)
LEMMA ListAt ==
    ASSUME TypeOK, NEW s \in Services, NEW q, Listed(q, s)
    PROVE  /\ count[s] \in Nat /\ q \in [1 .. count[s] -> Ports]
           /\ \A i \in 1 .. count[s] : q[i] \in Attached(s) /\ q[i] \in Ports /\ q[i] # Null
           /\ \A p \in Attached(s) : \E i \in 1 .. count[s] : p = q[i]
           /\ Chain(s) = Attached(s)
           /\ IsFiniteSet(Attached(s)) /\ Cardinality(Attached(s)) = count[s]
           /\ first[s] = IF count[s] = 0 THEN Null ELSE q[1]
           /\ first[s] \in Attached(s) \cup {Null} /\ last[s] \in Attached(s) \cup {Null}
           /\ \A p \in Attached(s) : /\ next[p] \in Attached(s) \cup {Null} /\ next[p] # p
                                     /\ prev[p] \in Attached(s) \cup {Null} /\ prev[p] # p
           /\ first[s] = Null <=> last[s] = Null
           /\ last[s] # Null => next[last[s]] = Null
           /\ \A p \in Attached(s) : IF prev[p] = Null THEN p = first[s] ELSE next[prev[p]] = p
           /\ first[s] # Null => prev[first[s]] = Null
<1> DEFINE n == count[s]
<1>0. n \in Nat
  BY DEF TypeOK, SvcTypeOK
<1>1. IsList(q, first[s], last[s], n, next, prev) /\ Range(q) = Attached(s)
  BY DEF Listed
<1>2. /\ q \in Seq(Ports) /\ Len(q) = n /\ DOMAIN q = 1 .. n /\ q \in [1 .. n -> Ports]
      /\ \A i \in 1 .. n : q[i] \in Ports /\ q[i] # Null
  BY <1>1, NullIsNone DEF IsList
<1>3. /\ \A i \in 1 .. n : q[i] \in Attached(s)
      /\ \A p \in Attached(s) : \E i \in 1 .. n : p = q[i]
  BY <1>1, <1>2 DEF Range
<1>4. Chain(s) = Attached(s)
  BY <1>0, <1>1, ChainIs
<1>5. IsFiniteSet(Attached(s)) /\ Cardinality(Attached(s)) = n
  BY <1>0, <1>1, ListSize
<1>6. IF n = 0 THEN first[s] = Null /\ last[s] = Null ELSE first[s] = q[1] /\ last[s] = q[n]
  BY <1>1 DEF IsList
<1>7. /\ \A i \in 1 .. n : prev[q[i]] = IF i = 1 THEN Null ELSE q[i - 1]
      /\ \A i \in 1 .. n : next[q[i]] = IF i = n THEN Null ELSE q[i + 1]
      /\ \A i, j \in 1 .. n : q[i] = q[j] => i = j
  BY <1>1 DEF IsList
<1>8. n # 0 => 1 \in 1 .. n /\ n \in 1 .. n
  BY <1>0
<1>9. \A i \in 1 .. n : (i # 1 => i - 1 \in 1 .. n /\ i - 1 # i /\ (i - 1) + 1 = i /\ i - 1 # n)
                        /\ (i # n => i + 1 \in 1 .. n /\ i + 1 # i)
  BY <1>0
<1> HIDE DEF n
<1>10. ASSUME NEW p \in Attached(s)
       PROVE  /\ next[p] \in Attached(s) \cup {Null} /\ next[p] # p
              /\ prev[p] \in Attached(s) \cup {Null} /\ prev[p] # p
              /\ IF prev[p] = Null THEN p = first[s] ELSE next[prev[p]] = p
  <2>1. PICK i \in 1 .. n : p = q[i]
    BY <1>3
  <2>2. next[p] \in Attached(s) \cup {Null} /\ next[p] # p
    BY <1>2, <1>3, <1>7, <1>9, <2>1
  <2>3. prev[p] \in Attached(s) \cup {Null} /\ prev[p] # p
    BY <1>2, <1>3, <1>7, <1>9, <2>1
  <2>4. IF prev[p] = Null THEN p = first[s] ELSE next[prev[p]] = p
    <3>1. CASE i = 1
      <4>1. n # 0 /\ 1 \in 1 .. n /\ prev[q[1]] = Null
        BY <1>0, <1>7, <3>1
      <4> QED BY <1>6, <2>1, <3>1, <4>1
    <3>2. CASE i # 1
      <4>1. prev[p] = q[i - 1] /\ q[i - 1] # Null /\ next[q[i - 1]] = q[i]
        BY <1>2, <1>7, <1>9, <2>1, <3>2
      <4> QED BY <2>1, <4>1
    <3> QED BY <3>1, <3>2
  <2> QED BY <2>2, <2>3, <2>4
<1>11. /\ first[s] = Null <=> last[s] = Null
       /\ last[s] # Null => next[last[s]] = Null
       /\ first[s] # Null => prev[first[s]] = Null
       /\ first[s] \in Attached(s) \cup {Null} /\ last[s] \in Attached(s) \cup {Null}
       /\ first[s] = IF n = 0 THEN Null ELSE q[1]
  BY <1>2, <1>3, <1>6, <1>7, <1>8
<1> QED BY <1>0, <1>2, <1>3, <1>4, <1>5, <1>10, <1>11 DEF n

(* Ports come and go only by what the owners do and by their field service.    *)
LEMMA AttachedKept ==
    ASSUME service' = service, \A y \in Ports : Coming(y)' <=> Coming(y), NEW r
    PROVE  Attached(r)' = Attached(r)
BY DEF Attached

\* A step that leaves the owners and the field service alone.
LEMMA AttachedSame ==
    ASSUME UNCHANGED <<service, opc, oport>>, NEW r
    PROVE  Attached(r)' = Attached(r)
BY AttachedKept DEF Coming

(* A port that nobody but its owner knows is in no list.                       *)
LEMMA UnlinkedOut ==
    ASSUME OwnersInv, NEW p \in Ports, Unlinked(p), NEW r \in Services
    PROVE  p \notin Attached(r)
<1>1. CASE life[p] = "none"
  BY <1>1, NullIsNone DEF OwnersInv, Untouched, Attached
<1>2. CASE \E u \in Owners : opc[u] \in Carrying /\ oport[u] = p
  <2>1. PICK u \in Owners : opc[u] \in Carrying /\ oport[u] = p
    BY <1>2
  <2>2. CASE opc[u] = "move"
    BY <2>1, <2>2, NullIsNone DEF OwnersInv, OwnerAt, Attached
  <2>3. CASE opc[u] = "attach"
    BY <2>1, <2>3 DEF Coming, Attached
  <2> QED BY <2>1, <2>2, <2>3 DEF Carrying
<1> QED BY <1>1, <1>2 DEF Unlinked

ListTypes ==
    /\ first \in [Services -> Ports \cup {Null}] /\ last \in [Services -> Ports \cup {Null}]
    /\ next \in [Ports -> Ports \cup {Null}] /\ prev \in [Ports -> Ports \cup {Null}]
    /\ service \in [Ports -> Services \cup {Null}] /\ count \in [Services -> Nat]

(* Unlink keeps the types.                                                     *)
LEMMA UnlinkTypes ==
    ASSUME TypeOK, Lists, NEW s \in Services, NEW p \in Attached(s), Unlink(s, p)
    PROVE  ListTypes'
<1>1. PICK q \in [1 .. count[s] -> Ports] : Listed(q, s)
  BY DEF Lists
<1>2. /\ p \in Ports /\ next[p] \in Ports \cup {Null} /\ prev[p] \in Ports \cup {Null}
      /\ count[s] \in Nat /\ count[s] # 0
  <2>1. count[s] \in Nat /\ \E i \in 1 .. count[s] : p = q[i]
    BY <1>1, ListAt
  <2>2. p \in Ports
    BY DEF Attached
  <2> QED BY <2>1, <2>2 DEF TypeOK, SvcTypeOK
<1>3. first' \in [Services -> Ports \cup {Null}]
  BY <1>2 DEF TypeOK, SvcTypeOK, Unlink
<1>4. last' \in [Services -> Ports \cup {Null}]
  BY <1>2 DEF TypeOK, SvcTypeOK, Unlink
<1>5. next' \in [Ports -> Ports \cup {Null}]
  BY <1>2 DEF TypeOK, SvcTypeOK, Unlink
<1>6. prev' \in [Ports -> Ports \cup {Null}]
  BY <1>2 DEF TypeOK, SvcTypeOK, Unlink
<1>7. service' \in [Ports -> Services \cup {Null}]
  BY <1>2 DEF TypeOK, SvcTypeOK, Unlink
<1>8. count' \in [Services -> Nat]
  BY <1>2 DEF TypeOK, SvcTypeOK, Unlink
<1> QED BY <1>3, <1>4, <1>5, <1>6, <1>7, <1>8 DEF ListTypes

(* A service whose own list variables and members a step leaves alone keeps    *)
(* its list.                                                                   *)
LEMMA ListKept ==
    ASSUME TypeOK, NEW r \in Services, NEW q, Listed(q, r),
           first'[r] = first[r], last'[r] = last[r], count'[r] = count[r],
           Attached(r)' = Attached(r),
           \A p \in Attached(r) : next'[p] = next[p] /\ prev'[p] = prev[p]
    PROVE  Listed(q, r)'
<1>1. IsList(q, first[r], last[r], count[r], next, prev) /\ Range(q) = Attached(r)
  BY DEF Listed
<1>2. count[r] \in Nat
  BY DEF TypeOK, SvcTypeOK
<1>3. IsList(q, first[r], last[r], count[r], next', prev')
  BY <1>1, <1>2, OtherList
<1> QED BY <1>1, <1>3 DEF Listed

(* Link puts a port that is in no list, and has no successor, into the list    *)
(* of s.                                                                       *)
LEMMA LinkStep ==
    ASSUME TypeOK, Lists, NEW s \in Services, NEW p \in Ports,
           next[p] = Null, life[p] = "live", life' = life, Link(s, p),
           \A r \in Services : p \notin Attached(r),
           ~Coming(p)', \A y \in Ports : y # p => (Coming(y)' <=> Coming(y))
    PROVE  /\ Lists'
           /\ Attached(s)' = Attached(s) \cup {p}
           /\ \A r \in Services \ {s} : Attached(r)' = Attached(r) /\ count'[r] = count[r]
           /\ \A r \in Services \ {s} : \A q : Listed(q, r) => Listed(q, r)'
           /\ \A y \in Ports : y \notin Attached(s) => next'[y] = next[y]
           /\ count'[s] = count[s] + 1
           /\ \A y \in Ports : y # p => service'[y] = service[y] /\ ufd'[y] = ufd[y]
           /\ service'[p] = s /\ ufd'[p] = Null
<1>1. PICK q \in [1 .. count[s] -> Ports] : Listed(q, s)
  BY DEF Lists
<1>2. /\ count[s] \in Nat /\ first[s] \in Ports \cup {Null} /\ last[s] \in Attached(s) \cup {Null}
      /\ next \in [Ports -> Ports \cup {Null}] /\ prev \in [Ports -> Ports \cup {Null}]
      /\ IsList(q, first[s], last[s], count[s], next, prev) /\ Range(q) = Attached(s)
  BY <1>1, ListAt DEF TypeOK, SvcTypeOK, Listed
<1>3. s # Null /\ p # Null
  BY NullIsNone
<1>4. /\ first' = [first EXCEPT ![s] = IF first[s] = Null THEN p ELSE first[s]]
      /\ last' = [last EXCEPT ![s] = p] /\ count' = [count EXCEPT ![s] = @ + 1]
      /\ next' = (IF last[s] = Null THEN next ELSE [next EXCEPT ![last[s]] = p])
      /\ prev' = [prev EXCEPT ![p] = last[s]]
      /\ service' = [service EXCEPT ![p] = s] /\ ufd' = [ufd EXCEPT ![p] = Null]
  <2>1. first' = [first EXCEPT ![s] = IF first[s] = Null THEN p ELSE first[s]]
    BY DEF Link, TypeOK, SvcTypeOK
  <2> QED BY <2>1 DEF Link
<1>5. \A y \in Ports : y # p => service'[y] = service[y] /\ ufd'[y] = ufd[y]
  BY <1>4 DEF TypeOK, SvcTypeOK
<1>6. service'[p] = s /\ ufd'[p] = Null
  BY <1>4 DEF TypeOK, SvcTypeOK
<1>7. Attached(s)' = Attached(s) \cup {p}
  <2>1. \A y \in Ports : y \in Attached(s)' <=> y \in Attached(s) \cup {p}
    BY <1>5, <1>6 DEF Attached
  <2> QED BY <2>1 DEF Attached
<1>8. ASSUME NEW r \in Services \ {s} PROVE Attached(r)' = Attached(r) /\ p \notin Attached(r)
  <2>1. \A y \in Ports : y \in Attached(r)' <=> y \in Attached(r)
    BY <1>5, <1>6 DEF Attached
  <2> QED BY <2>1 DEF Attached
<1>9. \A y \in Ports : y \notin Attached(s) => next'[y] = next[y]
  BY <1>2, <1>4, NullIsNone
<1>10. \A y \in Ports : y # p => prev'[y] = prev[y]
  BY <1>4 DEF TypeOK, SvcTypeOK
<1>11. \A r \in Services \ {s} : first'[r] = first[r] /\ last'[r] = last[r] /\ count'[r] = count[r]
  BY <1>4 DEF TypeOK, SvcTypeOK
<1>12. \A r \in Services \ {s} : \A x : Listed(x, r) => Listed(x, r)'
  <2> TAKE r \in Services \ {s}
  <2>1. \A y \in Attached(r) : y \in Ports /\ y \notin Attached(s) /\ y # p
    BY <1>8 DEF Attached
  <2> QED BY <1>8, <1>9, <1>10, <1>11, <2>1, ListKept
<1>13. first'[s] = (IF first[s] = Null THEN p ELSE first[s]) /\ last'[s] = p /\ count'[s] = count[s] + 1
  BY <1>4 DEF TypeOK, SvcTypeOK
<1>14. Listed(Append(q, p), s)'
  <2>1. p \notin Range(q)
    BY <1>2, <1>3 DEF Attached
  <2>2. PICK f, l, n, nx, pv, f2, nx2, pv2 :
          /\ f = first[s] /\ l = last[s] /\ n = count[s] /\ nx = next /\ pv = prev
          /\ f2 = first'[s] /\ nx2 = next' /\ pv2 = prev'
    OBVIOUS
  <2>3. IsList(Append(q, p), f2, p, n + 1, nx2, pv2) /\ Range(Append(q, p)) = Range(q) \cup {p}
    <3>1. /\ n \in Nat /\ IsList(q, f, l, n, nx, pv) /\ nx[p] = Null
          /\ f2 = (IF f = Null THEN p ELSE f)
      BY <1>2, <1>13, <2>2
    <3>2. \A y \in Ports : nx2[y] = IF y = l THEN p ELSE nx[y]
      BY <1>2, <1>4, <2>2, NullIsNone
    <3>3. \A y \in Ports : pv2[y] = IF y = p THEN l ELSE pv[y]
      BY <1>2, <1>4, <2>2
    <3> QED BY <2>1, <3>1, <3>2, <3>3, LinkList
  <2>4. IsList(Append(q, p), first'[s], last'[s], count'[s], next', prev')
    BY <1>13, <2>2, <2>3
  <2> QED BY <1>2, <1>7, <2>3, <2>4 DEF Listed
<1>15. \A r \in Services : \E x \in [1 .. count'[r] -> Ports] : Listed(x, r)'
  <2>1. ASSUME NEW r \in Services \ {s} PROVE \E x \in [1 .. count'[r] -> Ports] : Listed(x, r)'
    <3>1. PICK x \in [1 .. count[r] -> Ports] : Listed(x, r)
      BY DEF Lists
    <3> QED BY <1>11, <1>12, <3>1
  <2>2. Append(q, p) \in [1 .. count'[s] -> Ports]
    <3>1. q \in Seq(Ports) /\ Len(q) = count[s]
      BY <1>2 DEF IsList
    <3>2. Append(q, p) \in Seq(Ports) /\ Len(Append(q, p)) = count'[s]
      BY <1>13, <3>1
    <3>3. \A x \in Seq(Ports) : x \in [1 .. Len(x) -> Ports]
      OBVIOUS
    <3> QED BY <3>2, <3>3, Zenon
  <2> QED BY <1>14, <2>1, <2>2
<1>16. Lists'
  BY <1>15, <1>5 DEF Lists
<1> QED BY <1>5, <1>6, <1>7, <1>8, <1>9, <1>11, <1>12, <1>13, <1>16

(* Unlink takes an attached port out of the list of its service.               *)
LEMMA UnlinkStep ==
    ASSUME TypeOK, Lists, NEW s \in Services, NEW p \in Attached(s), Unlink(s, p),
           \A y \in Ports : y # p => life'[y] = life[y],
           \A y \in Ports : Coming(y)' <=> Coming(y)
    PROVE  /\ Lists'
           /\ Attached(s)' = Attached(s) \ {p}
           /\ \A r \in Services \ {s} : Attached(r)' = Attached(r) /\ count'[r] = count[r]
           /\ \A r \in Services \ {s} : \A q : Listed(q, r) => Listed(q, r)'
           /\ \A y \in Ports : y \notin Attached(s) => next'[y] = next[y]
           /\ next'[p] = next[p]
           /\ \A y \in Ports : y # p => service'[y] = service[y]
           /\ service'[p] = Null
           /\ count'[s] = count[s] - 1 /\ count[s] # 0
<1>1. PICK q \in [1 .. count[s] -> Ports] : Listed(q, s)
  BY DEF Lists
<1>2. /\ count[s] \in Nat /\ first[s] \in Ports \cup {Null} /\ last[s] \in Attached(s) \cup {Null}
      /\ next \in [Ports -> Ports \cup {Null}] /\ prev \in [Ports -> Ports \cup {Null}]
      /\ IsList(q, first[s], last[s], count[s], next, prev) /\ Range(q) = Attached(s)
      /\ p \in Ports /\ service[p] = s
      /\ prev[p] \in Attached(s) \cup {Null} /\ next[p] \in Attached(s) \cup {Null}
      /\ prev[p] # p
      /\ \E i \in 1 .. count[s] : p = q[i]
  <2>1. /\ prev[p] \in Attached(s) \cup {Null} /\ next[p] \in Attached(s) \cup {Null} /\ prev[p] # p
        /\ \E i \in 1 .. count[s] : p = q[i]
    BY <1>1, ListAt
  <2>2. /\ count[s] \in Nat /\ first[s] \in Ports \cup {Null}
        /\ next \in [Ports -> Ports \cup {Null}] /\ prev \in [Ports -> Ports \cup {Null}]
    BY DEF TypeOK, SvcTypeOK
  <2>3. IsList(q, first[s], last[s], count[s], next, prev) /\ Range(q) = Attached(s)
    BY <1>1 DEF Listed
  <2>4. p \in Ports /\ service[p] = s
    BY DEF Attached
  <2>5. last[s] \in Attached(s) \cup {Null}
    BY <1>1, ListAt
  <2> QED BY <2>1, <2>2, <2>3, <2>4, <2>5
<1>3. s # Null
  BY NullIsNone
<1>4. /\ first' = [first EXCEPT ![s] = IF prev[p] = Null THEN next[p] ELSE first[s]]
      /\ last' = [last EXCEPT ![s] = IF next[p] = Null THEN prev[p] ELSE last[s]]
      /\ count' = [count EXCEPT ![s] = @ - 1]
      /\ next' = (IF prev[p] = Null THEN next ELSE [next EXCEPT ![prev[p]] = next[p]])
      /\ prev' = (IF next[p] = Null THEN prev ELSE [prev EXCEPT ![next[p]] = prev[p]])
      /\ service' = [service EXCEPT ![p] = Null]
  <2>1. first' = [first EXCEPT ![s] = IF prev[p] = Null THEN next[p] ELSE first[s]]
    BY DEF Unlink, TypeOK, SvcTypeOK
  <2>2. last' = [last EXCEPT ![s] = IF next[p] = Null THEN prev[p] ELSE last[s]]
    BY DEF Unlink, TypeOK, SvcTypeOK
  <2> QED BY <2>1, <2>2 DEF Unlink
<1>5. \A y \in Ports : y # p => service'[y] = service[y]
  BY <1>4 DEF TypeOK, SvcTypeOK
<1>6. service'[p] = Null
  BY <1>2, <1>4 DEF TypeOK, SvcTypeOK
<1>7. Attached(s)' = Attached(s) \ {p}
  <2>1. \A y \in Ports : y \in Attached(s)' <=> y \in Attached(s) \ {p}
    BY <1>3, <1>5, <1>6 DEF Attached
  <2> QED BY <2>1 DEF Attached
<1>8. ASSUME NEW r \in Services \ {s} PROVE Attached(r)' = Attached(r) /\ p \notin Attached(r)
  <2>1. \A y \in Ports : y \in Attached(r)' <=> y \in Attached(r)
    BY <1>2, <1>5, <1>6, NullIsNone DEF Attached
  <2> QED BY <1>2, <2>1 DEF Attached
<1>9. \A y \in Ports : y \notin Attached(s) => next'[y] = next[y] /\ prev'[y] = prev[y]
  BY <1>2, <1>4, NullIsNone
<1>10. next'[p] = next[p]
  BY <1>2, <1>4
<1>11. \A r \in Services \ {s} : first'[r] = first[r] /\ last'[r] = last[r] /\ count'[r] = count[r]
  BY <1>4 DEF TypeOK, SvcTypeOK
<1>12. \A r \in Services \ {s} : \A x : Listed(x, r) => Listed(x, r)'
  <2> TAKE r \in Services \ {s}
  <2>1. \A y \in Attached(r) : y \in Ports /\ y \notin Attached(s)
    BY DEF Attached
  <2> QED BY <1>8, <1>9, <1>11, <2>1, ListKept
<1>13. /\ first'[s] = (IF prev[p] = Null THEN next[p] ELSE first[s])
       /\ last'[s] = (IF next[p] = Null THEN prev[p] ELSE last[s]) /\ count'[s] = count[s] - 1
  BY <1>4 DEF TypeOK, SvcTypeOK
<1>14. PICK i \in 1 .. count[s] : p = q[i]
  BY <1>2
<1>15. Listed(Without(q, i), s)'
  <2>1. PICK f, l, n, nx, pv, f2, l2, nx2, pv2 :
          /\ f = first[s] /\ l = last[s] /\ n = count[s] /\ nx = next /\ pv = prev
          /\ f2 = first'[s] /\ l2 = last'[s] /\ nx2 = next' /\ pv2 = prev'
    OBVIOUS
  <2>2. IsList(Without(q, i), f2, l2, n - 1, nx2, pv2) /\ Range(Without(q, i)) = Range(q) \ {p}
    <3>1. /\ n \in Nat /\ IsList(q, f, l, n, nx, pv) /\ i \in 1 .. n /\ p = q[i] /\ p \in Ports
          /\ f2 = (IF pv[p] = Null THEN nx[p] ELSE f) /\ l2 = (IF nx[p] = Null THEN pv[p] ELSE l)
      BY <1>2, <1>13, <1>14, <2>1
    <3>2. \A y \in Ports : nx2[y] = IF y = pv[p] THEN nx[p] ELSE nx[y]
      BY <1>2, <1>4, <2>1, NullIsNone
    <3>3. \A y \in Ports : pv2[y] = IF y = nx[p] THEN pv[p] ELSE pv[y]
      BY <1>2, <1>4, <2>1, NullIsNone
    <3>4. Bypassed(q, f, l, n, nx, pv, i, p, f2, l2, nx2, pv2)
      BY <3>1, <3>2, <3>3 DEF Bypassed
    <3> QED BY <3>4, UnlinkList
  <2>3. IsList(Without(q, i), first'[s], last'[s], count'[s], next', prev')
    BY <1>13, <2>1, <2>2
  <2> QED BY <1>2, <1>7, <2>2, <2>3 DEF Listed
<1>16. \A r \in Services : \E x \in [1 .. count'[r] -> Ports] : Listed(x, r)'
  <2>1. ASSUME NEW r \in Services \ {s} PROVE \E x \in [1 .. count'[r] -> Ports] : Listed(x, r)'
    <3>1. PICK x \in [1 .. count[r] -> Ports] : Listed(x, r)
      BY DEF Lists
    <3> QED BY <1>11, <1>12, <3>1
  <2>2. Without(q, i) \in [1 .. count'[s] -> Ports]
    <3>1. IsList(Without(q, i), first'[s], last'[s], count'[s], next', prev')
      BY <1>15 DEF Listed
    <3>2. Without(q, i) \in Seq(Ports) /\ Len(Without(q, i)) = count'[s]
      BY <3>1 DEF IsList
    <3> QED BY <3>2
  <2> QED BY <1>15, <2>1, <2>2
<1>17. Lists'
  BY <1>16, <1>5, <1>6 DEF Lists
<1>18. count[s] # 0
  BY <1>2, <1>14
<1> QED BY <1>5, <1>6, <1>7, <1>8, <1>9, <1>10, <1>11, <1>12, <1>13, <1>17, <1>18
--------------------------------------------------------------------------------
(* A step that leaves service r as it was, or only makes it wake up.           *)
Bystander(r) ==
    /\ Attached(r)' = Attached(r) /\ count'[r] = count[r]
    /\ \A q : Listed(q, r) => Listed(q, r)'
    /\ rpc'[r] = rpc[r] /\ locked'[r] = locked[r] /\ cur'[r] = cur[r] /\ called'[r] = called[r]
    /\ rebuild'[r] = rebuild[r] /\ timed'[r] = timed[r]
    /\ polled'[r] = polled[r] /\ lastcount'[r] = lastcount[r]
    /\ wake[r] => wake'[r]
    /\ Quiet(r)' => Quiet(r)
    /\ \A p \in Attached(r) : ufd'[p] = ufd[p] /\ (timer'[p] # "off" => timer[p] # "off")
    /\ called[r] \in Ports /\ service[called[r]] = Null => service'[called[r]] = Null
    /\ \A p \in Ports : life[p] = "freed" => life'[p] = "freed" /\ next'[p] = next[p]

\* A step of others leaves a service's loop as it is.
LEMMA BystanderStep ==
    ASSUME TypeOK, NEW r \in Services, ServiceAt(r), Bystander(r)
    PROVE  ServiceAt(r)'
<1>1. WalkAt(r)'
  <2>1. AtPort(r) => AtPort(r)'
    BY DEF AtPort, Bystander
  <2> QED BY <2>1 DEF ServiceAt, WalkAt, Bystander
<1>2. ArrayAt(r)'
  BY DEF ServiceAt, ArrayAt, Bystander
<1>3. SleepAt(r)'
  <2>1. SUFFICES ASSUME Quiet(r)' PROVE SleepAt(r)'
    BY DEF SleepAt
  <2>2. Quiet(r) /\ SleepAt(r)
    BY <2>1 DEF Bystander, ServiceAt
  <2>3. ASSUME rpc'[r] \in {"visit", "timer", "due", "pending", "expired"}
        PROVE  \E q \in [1 .. count'[r] -> Ports] : \E k \in 1 .. count'[r] + 1 : Reached(q, k, r)'
    <3>1. PICK q \in [1 .. count[r] -> Ports], k \in 1 .. count[r] + 1 : Reached(q, k, r)
      BY <2>2, <2>3 DEF SleepAt, Bystander
    <3>2. count[r] \in Nat /\ \A i \in 1 .. count[r] : q[i] \in Attached(r)
      BY <3>1, ListAt DEF Reached
    <3>3. \A i \in 1 .. k - 1 : i \in 1 .. count[r]
      BY <3>2
    <3>4. Reached(q, k, r)'
      BY <3>1, <3>2, <3>3 DEF Reached, Passed, Bystander
    <3> QED BY <3>1, <3>4 DEF Bystander
  <2>4. ASSUME rpc'[r] = "poll"
        PROVE  /\ polled'[r] = Attached(r)'
               /\ \A p \in Attached(r)' : ufd'[p] = r /\ (timer'[p] # "off" => timed'[r])
    BY <2>2, <2>4 DEF SleepAt, Bystander
  <2> QED BY <2>3, <2>4 DEF SleepAt
<1> QED BY <1>1, <1>2, <1>3 DEF ServiceAt

(* What the owners know is not disturbed by a step of the thread of a service. *)
LEMMA OwnersKept ==
    ASSUME OwnersInv, UNCHANGED <<opc, oport, osvc>>,
           \A p \in Ports : life'[p] = life[p] \/ (~Unlinked(p) /\ life'[p] = "freed"),
           \A p \in Ports : Unlinked(p) =>
               /\ service'[p] = service[p] /\ next'[p] = next[p]
               /\ \A r \in Services : cur'[r] # p /\ called'[r] # p
    PROVE  OwnersInv'
<1>1. ASSUME NEW p \in Ports PROVE Unlinked(p)' => Unlinked(p)
  BY <1>1 DEF Unlinked
<1>2. \A u \in Owners : OwnerAt(u)'
  <2> TAKE u \in Owners
  <2>1. OwnerAt(u)
    BY DEF OwnersInv
  <2>2. opc[u] \in Carrying => Unlinked(oport[u])
    BY DEF Unlinked
  <2>3. opc[u] \in Carrying =>
          /\ oport[u] \in Ports /\ life'[oport[u]] = "live"
          /\ service'[oport[u]] = service[oport[u]]
    BY <2>1, <2>2 DEF OwnerAt
  <2> QED BY <2>1, <2>3 DEF OwnerAt, Carrying
<1>3. \A u, v \in Owners : Apart(u, v)'
  BY DEF OwnersInv, Apart
<1>4. \A p \in Ports : Untouched(p)'
  BY <1>1 DEF OwnersInv, Untouched
<1> QED BY <1>2, <1>3, <1>4 DEF OwnersInv

(* What a step of the thread of s leaves alone: the owners, and what the other *)
(* services know.                                                              *)
OthersKept(s) ==
    /\ UNCHANGED <<opc, oport, osvc>>
    /\ rpc[s] # "off"
    /\ \A r \in Services \ {s} :
          /\ rpc'[r] = rpc[r] /\ locked'[r] = locked[r] /\ cur'[r] = cur[r] /\ called'[r] = called[r]
          /\ rebuild'[r] = rebuild[r] /\ timed'[r] = timed[r]
          /\ polled'[r] = polled[r] /\ lastcount'[r] = lastcount[r] /\ wake'[r] = wake[r]
          /\ \A p \in Attached(r) : ufd'[p] = ufd[p] /\ (timer'[p] # "off" => timer[p] # "off")
    /\ cur'[s] \in Attached(s) \cup {Null, cur[s]}
    /\ called'[s] \in {Null, cur[s], called[s]}

(* A port that some service knows is not one that an owner has yet to attach.  *)
LEMMA Known ==
    ASSUME PortInv, NEW s \in Services, OthersKept(s), NEW p \in Ports, Unlinked(p)
    PROVE  /\ next[p] = Null /\ p \notin Attached(s)
           /\ \A r \in Services : cur[r] # p /\ called[r] # p /\ cur'[r] # p /\ called'[r] # p
<1>1. next[p] = Null /\ \A r \in Services : cur[r] # p /\ called[r] # p
  BY DEF PortInv, OwnersInv, Untouched
<1>2. p \notin Attached(s) /\ p # Null
  BY UnlinkedOut, NullIsNone DEF PortInv
<1> QED BY <1>1, <1>2 DEF OthersKept

(* A step of the thread of s that does not change the lists: what remains to   *)
(* be shown is about s.                                                        *)
LoopStep(s) ==
    /\ UNCHANGED list /\ OthersKept(s)
    /\ \A p \in Ports : \/ life'[p] = life[p]
                        \/ life'[p] = "freed" /\ p = called[s] /\ service[p] = Null

\* A step of run() that keeps its service's part keeps the invariant.
LEMMA LoopKeeps ==
    ASSUME PortInv, NEW s \in Services, LoopStep(s), TypeOK', ServiceAt(s)'
    PROVE  PortInv'
<1>1. Lists' /\ \A r \in Services : Attached(r)' = Attached(r) /\ count'[r] = count[r]
                                    /\ \A q : Listed(q, r) => Listed(q, r)'
  <2>1. UNCHANGED <<first, last, count, next, prev, service, opc, oport>>
    BY DEF LoopStep, OthersKept, list
  <2>2. \A r : Attached(r)' = Attached(r)
    BY <2>1, AttachedSame
  <2>3. \A r \in Services : \A q : Listed(q, r)' <=> Listed(q, r)
    BY <2>1, <2>2 DEF Listed
  <2>4. \A p \in Ports : service'[p] # Null => life'[p] = "live"
    BY <2>1 DEF PortInv, Lists, LoopStep
  <2> QED BY <2>1, <2>2, <2>3, <2>4 DEF PortInv, Lists
<1>2. OwnersInv'
  <2>2. \A p \in Ports : Unlinked(p) =>
            /\ service'[p] = service[p] /\ next'[p] = next[p]
            /\ \A r \in Services : cur'[r] # p /\ called'[r] # p
    BY Known DEF LoopStep, OthersKept, list
  <2>3. \A p \in Ports : life'[p] = life[p] \/ (~Unlinked(p) /\ life'[p] = "freed")
    BY Known DEF LoopStep
  <2> QED BY <2>2, <2>3, OwnersKept DEF PortInv, LoopStep, OthersKept
<1>3. ASSUME NEW r \in Services \ {s} PROVE ServiceAt(r)'
  <2>1. Quiet(r)' => Quiet(r)
    BY DEF Quiet, LoopStep, OthersKept
  <2>2. Bystander(r)
    BY <1>1, <2>1 DEF Bystander, LoopStep, OthersKept, list
  <2> QED BY <2>2, BystanderStep DEF PortInv
<1> QED BY <1>1, <1>2, <1>3 DEF PortInv

(* A step of the thread of s that takes a port out of its list.                *)
UnlinkLoop(s, p) ==
    /\ Unlink(s, p) /\ OthersKept(s)
    /\ \A y \in Ports : life'[y] = life[y] \/ (y = p /\ life'[y] = "freed")

\* The same for the steps in which run() detaches a port.
LEMMA UnlinkKeeps ==
    ASSUME PortInv, NEW s \in Services, NEW p \in Attached(s), UnlinkLoop(s, p), TypeOK', ServiceAt(s)'
    PROVE  PortInv'
<1>1. /\ Lists' /\ Attached(s)' = Attached(s) \ {p}
      /\ \A r \in Services \ {s} : Attached(r)' = Attached(r) /\ count'[r] = count[r]
      /\ \A r \in Services \ {s} : \A q : Listed(q, r) => Listed(q, r)'
      /\ \A y \in Ports : y \notin Attached(s) => next'[y] = next[y]
      /\ \A y \in Ports : y # p => service'[y] = service[y]
      /\ service'[p] = Null /\ p \in Ports /\ life[p] = "live"
  <2>1. p \in Ports /\ life[p] = "live"
    BY NullIsNone DEF PortInv, Lists, Attached
  <2>2. \A y \in Ports : y # p => life'[y] = life[y]
    BY DEF UnlinkLoop
  <2>3. \A y \in Ports : Coming(y)' <=> Coming(y)
    BY DEF UnlinkLoop, OthersKept, Coming
  <2> QED BY <2>1, <2>2, <2>3, UnlinkStep DEF PortInv, UnlinkLoop
<1>2. OwnersInv'
  <2>2. \A y \in Ports : Unlinked(y) =>
            /\ service'[y] = service[y] /\ next'[y] = next[y] /\ y # p
            /\ \A r \in Services : cur'[r] # y /\ called'[r] # y
    BY <1>1, Known DEF UnlinkLoop
  <2>3. \A y \in Ports : life'[y] = life[y] \/ (~Unlinked(y) /\ life'[y] = "freed")
    BY <2>2 DEF UnlinkLoop
  <2> QED BY <2>2, <2>3, OwnersKept DEF PortInv, UnlinkLoop, OthersKept
<1>3. ASSUME NEW r \in Services \ {s} PROVE ServiceAt(r)'
  <2>1. Quiet(r)' => Quiet(r)
    BY DEF Quiet, UnlinkLoop, OthersKept
  <2>2. called[r] \in Ports /\ service[called[r]] = Null => service'[called[r]] = Null
    BY <1>1
  <2>3. \A y \in Ports : life[y] = "freed" => life'[y] = "freed" /\ next'[y] = next[y]
    <3>1. \A y \in Attached(s) : life[y] = "live"
      BY NullIsNone DEF PortInv, Lists, Attached
    <3> QED BY <1>1, <3>1 DEF UnlinkLoop
  <2>4. Bystander(r)
    BY <1>1, <2>1, <2>2, <2>3 DEF Bystander, UnlinkLoop, OthersKept
  <2> QED BY <2>4, BystanderStep DEF PortInv
<1> QED BY <1>1, <1>2, <1>3 DEF PortInv
--------------------------------------------------------------------------------
(* The steps of run().                                                         *)
LEMMA KnownService ==
    ASSUME PortInv, NEW s \in Services
    PROVE  /\ WalkAt(s) /\ ArrayAt(s) /\ SleepAt(s) /\ TypeOK /\ Chain(s) = Attached(s)
           /\ Attached(s) \subseteq Ports /\ Null \notin Attached(s)
           /\ first[s] \in Attached(s) \cup {Null}
           /\ \A p \in Attached(s) : next[p] \in Attached(s) \cup {Null}
           /\ \A r \in Services \ {s} : Attached(r) \cap Attached(s) = {}
<1>1. \E q \in [1 .. count[s] -> Ports] : Listed(q, s)
  BY DEF PortInv, Lists
<1>2. TypeOK /\ WalkAt(s) /\ ArrayAt(s) /\ SleepAt(s)
  BY DEF PortInv, ServiceAt
<1>3. /\ Chain(s) = Attached(s) /\ first[s] \in Attached(s) \cup {Null}
      /\ \A p \in Attached(s) : next[p] \in Attached(s) \cup {Null}
  BY <1>1, <1>2, ListAt
<1>4. /\ Attached(s) \subseteq Ports /\ Null \notin Attached(s)
      /\ \A r \in Services \ {s} : Attached(r) \cap Attached(s) = {}
  BY NullIsNone DEF Attached
<1> QED BY <1>2, <1>3, <1>4

(* A service that does not walk, and does not sleep, has little to keep.       *)
LEMMA NotWalking ==
    ASSUME PortInv, NEW s \in Services, UNCHANGED <<list, opc, oport>>,
           rpc'[s] \in {"drain", "lock"}, rpc[s] \in {"init", "drain", "poll"},
           locked'[s] = locked[s], cur'[s] = cur[s], called'[s] = called[s],
           polled'[s] = polled[s], lastcount'[s] = lastcount[s],
           \A p \in Attached(s) : ufd'[p] \in {Null, ufd[p]}
    PROVE  ServiceAt(s)'
<1>1. WalkAt(s) /\ ArrayAt(s) /\ TypeOK /\ Attached(s)' = Attached(s)
  BY KnownService, AttachedSame DEF list
<1>2. WalkAt(s)'
  BY <1>1 DEF WalkAt, Visiting, Callbacks
<1>3. ArrayAt(s)'
  BY <1>1, NullIsNone DEF ArrayAt
<1>4. SleepAt(s)'
  BY DEF SleepAt
<1> QED BY <1>2, <1>3, <1>4 DEF ServiceAt

\* run() initialises the ports it finds.
LEMMA RunInitStep ==
    ASSUME PortInv, NEW s \in Services, RunInit(s), UNCHANGED envVars
    PROVE  PortInv'
<1>1. TypeOK /\ Chain(s) = Attached(s) /\ \A r \in Services \ {s} : Attached(r) \cap Attached(s) = {}
  BY KnownService
<1>2. TypeOK'
  BY <1>1 DEF TypeOK, SvcTypeOK, RunInit, envVars, list, Callbacks
<1>3. ServiceAt(s)'
  BY <1>1, <1>2, NotWalking DEF RunInit, TypeOK, SvcTypeOK, Attached, envVars
<1>4. LoopStep(s)
  BY <1>1 DEF LoopStep, OthersKept, RunInit, TypeOK, SvcTypeOK, envVars, Attached
<1> QED BY <1>2, <1>3, <1>4, LoopKeeps

\* run() empties the pipe.
LEMMA RunDrainStep ==
    ASSUME PortInv, NEW s \in Services, RunDrain(s), UNCHANGED envVars
    PROVE  PortInv'
<1>1. TypeOK
  BY KnownService
<1>2. TypeOK'
  BY <1>1 DEF TypeOK, SvcTypeOK, RunDrain, envVars, list, array, Callbacks
<1>3. ServiceAt(s)'
  BY <1>1, NotWalking DEF RunDrain, TypeOK, SvcTypeOK, Attached, array, envVars
<1>4. LoopStep(s)
  BY <1>1 DEF LoopStep, OthersKept, RunDrain, TypeOK, SvcTypeOK, envVars, Attached, array
<1> QED BY <1>2, <1>3, <1>4, LoopKeeps

\* run() wakes up.
LEMMA PollStep ==
    ASSUME PortInv, NEW s \in Services, Poll(s)
    PROVE  PortInv'
<1>1. TypeOK
  BY KnownService
<1>2. TypeOK'
  BY <1>1 DEF TypeOK, SvcTypeOK, Poll, RunPoll, envVars, list, Callbacks
<1>3. ServiceAt(s)'
  BY <1>1, NotWalking DEF Poll, RunPoll, TypeOK, SvcTypeOK, Attached, envVars
<1>4. LoopStep(s)
  BY <1>1 DEF LoopStep, OthersKept, Poll, RunPoll, TypeOK, SvcTypeOK, envVars, Attached
<1> QED BY <1>2, <1>3, <1>4, LoopKeeps

\* run() takes the mutex and looks at the list.
LEMMA RunLockStep ==
    ASSUME PortInv, NEW s \in Services, RunLock(s), UNCHANGED envVars
    PROVE  PortInv'
<1>1. WalkAt(s) /\ ArrayAt(s) /\ TypeOK /\ first[s] \in Attached(s) \cup {Null}
  BY KnownService
<1>2. TypeOK'
  BY <1>1 DEF TypeOK, SvcTypeOK, RunLock, envVars, list, array, Callbacks
<1>3. /\ rpc[s] = "lock" /\ rpc'[s] = "visit" /\ locked'[s] = TRUE /\ cur'[s] = first[s]
      /\ called' = called /\ Attached(s)' = Attached(s) /\ rebuild' = rebuild /\ timed' = timed
      /\ UNCHANGED <<list, array, life, timer, wake>>
  BY <1>1, AttachedSame DEF RunLock, TypeOK, SvcTypeOK, list, envVars
<1>4. WalkAt(s)'
  BY <1>1, <1>3 DEF WalkAt, Visiting, Callbacks
<1>5. ArrayAt(s)'
  BY <1>1, <1>3 DEF ArrayAt, array
<1>6. SleepAt(s)'
  <2>1. PICK q \in [1 .. count[s] -> Ports] : Listed(q, s)
    BY DEF PortInv, Lists
  <2>2. count[s] \in Nat /\ first[s] = IF count[s] = 0 THEN Null ELSE q[1]
    BY <1>1, <2>1, ListAt
  <2>3. 1 \in 1 .. count[s] + 1 /\ (1 = count[s] + 1 <=> count[s] = 0)
    BY <2>2
  <2>4. Listed(q, s)'
    BY <1>3, <2>1 DEF Listed, list
  <2>5. Reached(q, 1, s)'
    BY <1>3, <2>2, <2>3, <2>4 DEF Reached, list
  <2>6. count' = count
    BY <1>3 DEF list
  <2>7. \E k \in 1 .. count'[s] + 1 : Reached(q, k, s)'
    BY <2>3, <2>5, <2>6
  <2> QED BY <1>3, <2>1, <2>6, <2>7 DEF SleepAt
<1>7. LoopStep(s)
  BY <1>1 DEF LoopStep, OthersKept, RunLock, TypeOK, SvcTypeOK, envVars, array
<1> QED BY <1>2, <1>4, <1>5, <1>6, <1>7, LoopKeeps DEF ServiceAt

(* run() stays at the port it looks at.                                        *)
LEMMA StaysThere ==
    ASSUME PortInv, NEW s \in Services,
           UNCHANGED <<list, ufd, opc, oport, osvc>>, \A p \in Ports : life[p] = "freed" => life'[p] = "freed",
           polled'[s] = polled[s], lastcount'[s] = lastcount[s],
           locked'[s] = locked[s], cur'[s] = cur[s], cur[s] # Null,
           rpc[s] \in {"visit", "timer", "due", "pending", "expired"},
           rpc'[s] \in {"timer", "due", "pending", "expired"},
           called'[s] = IF rpc'[s] \in Callbacks THEN cur[s] ELSE Null,
           rebuild[s] => rebuild'[s], timed'[s] = timed[s], wake[s] => wake'[s],
           rpc[s] = "visit" /\ ufd[cur[s]] = Null => rebuild'[s],
           Quiet(s)' => \A p \in Attached(s) : timer'[p] # "off" => timer[p] # "off"
    PROVE  ServiceAt(s)'
<1>1. WalkAt(s) /\ ArrayAt(s) /\ SleepAt(s) /\ TypeOK /\ Attached(s)' = Attached(s)
  BY KnownService, AttachedSame DEF list
<1>2. AtPort(s)
  BY <1>1 DEF WalkAt, AtPort
<1>3. AtPort(s)'
  BY <1>1, <1>2 DEF AtPort, list
<1>4. WalkAt(s)'
  BY <1>1, <1>3 DEF WalkAt, Visiting, Callbacks
<1>5. ArrayAt(s)'
  BY <1>1 DEF ArrayAt
<1>6. SleepAt(s)'
  <2>1. SUFFICES ASSUME Quiet(s)' PROVE SleepAt(s)'
    BY DEF SleepAt
  <2>2. Quiet(s) /\ count' = count
    BY <2>1 DEF Quiet, list
  <2>3. PICK q \in [1 .. count[s] -> Ports], k \in 1 .. count[s] + 1 : Reached(q, k, s)
    BY <1>1, <2>2 DEF SleepAt
  <2>4. count[s] \in Nat /\ \A i \in 1 .. count[s] : q[i] \in Attached(s)
    BY <1>1, <2>3, ListAt DEF Reached
  <2>5. \A i \in 1 .. k - 1 : i \in 1 .. count[s]
    BY <2>4
  <2>6. Listed(q, s)'
    BY <1>1, <2>3 DEF Reached, Listed, list
  <2>7. \A i \in 1 .. k - 1 : Passed(q[i], s)'
    BY <2>1, <2>3, <2>4, <2>5 DEF Reached, Passed
  <2>8. Reached(q, k, s)'
    BY <2>2, <2>3, <2>6, <2>7 DEF Reached
  <2> QED BY <2>2, <2>3, <2>8 DEF SleepAt
<1> QED BY <1>4, <1>5, <1>6 DEF ServiceAt

\* run() finds input.
LEMMA RunInStep ==
    ASSUME PortInv, NEW s \in Services, RunIn(s), UNCHANGED envVars
    PROVE  PortInv'
<1>1. TypeOK
  BY KnownService
<1>2. TypeOK'
  BY <1>1 DEF TypeOK, SvcTypeOK, RunIn, envVars, list, array, Callbacks
<1>3. ServiceAt(s)'
  BY <1>1, StaysThere DEF RunIn, HasIn, TypeOK, SvcTypeOK, Attached, array, envVars, Callbacks
<1>4. LoopStep(s)
  BY <1>1 DEF LoopStep, OthersKept, RunIn, TypeOK, SvcTypeOK, envVars, array
<1> QED BY <1>2, <1>3, <1>4, LoopKeeps

\* run() finds nothing on a port.
LEMMA RunQuietStep ==
    ASSUME PortInv, NEW s \in Services, RunQuiet(s), UNCHANGED envVars
    PROVE  PortInv'
<1>1. TypeOK /\ WalkAt(s)
  BY KnownService
<1>2. TypeOK'
  BY <1>1 DEF TypeOK, SvcTypeOK, RunQuiet, envVars, list, array, Callbacks
<1>3. ServiceAt(s)'
  BY <1>1, StaysThere DEF RunQuiet, WalkAt, TypeOK, SvcTypeOK, array, envVars, Callbacks
<1>4. LoopStep(s)
  BY <1>1 DEF LoopStep, OthersKept, RunQuiet, TypeOK, SvcTypeOK, envVars, array
<1> QED BY <1>2, <1>3, <1>4, LoopKeeps

\* run() finds a timer that is due.
LEMMA RunDueStep ==
    ASSUME PortInv, NEW s \in Services, RunDue(s), UNCHANGED envVars
    PROVE  PortInv'
<1>1. TypeOK /\ WalkAt(s) /\ cur[s] # Null
  BY KnownService, NullIsNone DEF WalkAt, AtPort, RunDue
<1>2. TypeOK'
  BY <1>1 DEF TypeOK, SvcTypeOK, RunDue, envVars, list, array, Callbacks
<1>3. ServiceAt(s)'
  BY <1>1, StaysThere DEF RunDue, WalkAt, TypeOK, SvcTypeOK, array, envVars, Callbacks
<1>4. LoopStep(s)
  BY <1>1 DEF LoopStep, OthersKept, RunDue, TypeOK, SvcTypeOK, envVars, array
<1> QED BY <1>2, <1>3, <1>4, LoopKeeps

\* run() calls expired().
LEMMA RunExpiredStep ==
    ASSUME PortInv, NEW s \in Services, RunExpired(s), UNCHANGED envVars
    PROVE  PortInv'
<1>1. TypeOK /\ WalkAt(s) /\ cur[s] # Null /\ cur[s] \in Ports
  BY KnownService, NullIsNone DEF WalkAt, AtPort, RunExpired
<1>2. TypeOK'
  BY <1>1 DEF TypeOK, SvcTypeOK, RunExpired, envVars, list, array, Callbacks
<1>3. \A p \in Ports : timer'[p] # "off" => timer[p] # "off"
  BY <1>1 DEF RunExpired, TypeOK, SvcTypeOK
<1>4. ServiceAt(s)'
  BY <1>1, <1>3, StaysThere
     DEF RunExpired, WalkAt, TypeOK, SvcTypeOK, array, envVars, Callbacks, Attached
<1>5. LoopStep(s)
  BY <1>1, <1>3 DEF LoopStep, OthersKept, RunExpired, TypeOK, SvcTypeOK, envVars, array, Attached
<1> QED BY <1>2, <1>4, <1>5, LoopKeeps

\* run() goes to the next port.
LEMMA RunNextStep ==
    ASSUME PortInv, NEW s \in Services, RunNext(s), UNCHANGED envVars
    PROVE  PortInv'
<1>1. /\ WalkAt(s) /\ ArrayAt(s) /\ SleepAt(s) /\ TypeOK
      /\ \A p \in Attached(s) : p \in Ports /\ next[p] \in Attached(s) \cup {Null}
  BY KnownService
<1>2. TypeOK'
  <2>1. cur[s] \in Ports
    BY <1>1 DEF RunNext, WalkAt, AtPort, Attached
  <2> QED BY <1>1, <2>1 DEF TypeOK, SvcTypeOK, RunNext, envVars, list, array, Callbacks
<1>3. /\ rpc[s] = "timer" /\ rpc'[s] = "visit" /\ cur'[s] = next[cur[s]]
      /\ timed'[s] = (timed[s] \/ timer[cur[s]] = "armed") /\ timer[cur[s]] # "due"
      /\ Attached(s)' = Attached(s)
      /\ UNCHANGED <<list, locked, called, rebuild, array, life, timer, wake, opc, osvc>>
  BY <1>1, AttachedSame DEF RunNext, TypeOK, SvcTypeOK, list, envVars
<1>4. cur[s] \in Attached(s) \/ next[cur[s]] \in Attached(s) \cup {Null}
  BY <1>1, <1>3 DEF WalkAt, AtPort
<1>5. cur'[s] \in Attached(s) \cup {Null}
  BY <1>1, <1>3, <1>4
<1>6. WalkAt(s)'
  BY <1>1, <1>3, <1>5 DEF WalkAt, Visiting, Callbacks
<1>7. ArrayAt(s)'
  BY <1>1, <1>3 DEF ArrayAt, array
<1>8. SleepAt(s)'
  <2>1. SUFFICES ASSUME Quiet(s)' PROVE SleepAt(s)'
    BY DEF SleepAt
  <2>2. Quiet(s) /\ count' = count
    BY <1>3, <2>1 DEF Quiet, list
  <2>3. PICK q \in [1 .. count[s] -> Ports], k \in 1 .. count[s] + 1 : Reached(q, k, s)
    BY <1>1, <1>3, <2>2 DEF SleepAt
  <2>4. /\ count[s] \in Nat /\ \A i \in 1 .. count[s] : q[i] \in Attached(s)
        /\ IsList(q, first[s], last[s], count[s], next, prev)
    BY <1>1, <2>3, ListAt DEF Reached, Listed
  <2>5. cur[s] # Null
    BY <1>1, <1>3, NullIsNone DEF WalkAt, AtPort, Attached
  <2>6. k \in 1 .. count[s] /\ cur[s] = q[k] /\ cur[s] \in Attached(s)
    BY <2>3, <2>4, <2>5 DEF Reached
  <2>7. k + 1 \in 1 .. count[s] + 1 /\ (k + 1 = count[s] + 1 <=> k = count[s])
    BY <2>4, <2>6
  <2>8. next[q[k]] = IF k = count[s] THEN Null ELSE q[k + 1]
    BY <2>4, <2>6 DEF IsList
  <2>9. Listed(q, s)'
    BY <1>3, <2>3 DEF Reached, Listed, list
  <2>10. Passed(q[k], s)'
    <3>1. ufd[q[k]] = Null => rebuild[s]
      BY <1>1, <1>3, <2>6 DEF ArrayAt
    <3>2. timer[q[k]] \in {"off", "armed"}
      BY <1>1, <1>3, <2>6 DEF TypeOK, SvcTypeOK
    <3> QED BY <1>3, <2>6, <3>1, <3>2 DEF Passed, array
  <2>11. \A i \in 1 .. k - 1 : Passed(q[i], s)'
    BY <1>3, <2>3 DEF Reached, Passed, array
  <2>12. \A i \in 1 .. (k + 1) - 1 : i = k \/ i \in 1 .. k - 1
    BY <2>6
  <2>13. Reached(q, k + 1, s)'
    BY <1>3, <2>2, <2>6, <2>7, <2>8, <2>9, <2>10, <2>11, <2>12 DEF Reached
  <2>14. \E j \in 1 .. count'[s] + 1 : Reached(q, j, s)'
    BY <2>2, <2>7, <2>13
  <2> QED BY <1>3, <2>2, <2>3, <2>14 DEF SleepAt
<1>9. LoopStep(s)
  BY <1>1, <1>5 DEF LoopStep, OthersKept, RunNext, TypeOK, SvcTypeOK, envVars, array
<1> QED BY <1>2, <1>6, <1>7, <1>8, <1>9, LoopKeeps DEF ServiceAt

(* The array is rebuilt unless nothing has changed: then it holds the attached *)
(* ports already, for it holds as many.                                        *)
LEMMA RunRebuildStep ==
    ASSUME PortInv, NEW s \in Services, RunRebuild(s), UNCHANGED envVars
    PROVE  PortInv'
<1> DEFINE A == Attached(s)
           Rebuilt == rebuild[s] \/ count[s] + 1 # lastcount[s]
<1>1. /\ WalkAt(s) /\ ArrayAt(s) /\ SleepAt(s) /\ TypeOK /\ Chain(s) = A
      /\ A \subseteq Ports /\ \A r \in Services \ {s} : Attached(r) \cap A = {}
  BY KnownService
<1>2. IsFiniteSet(A) /\ Cardinality(A) = count[s] /\ count[s] \in Nat
  <2>1. \E q \in [1 .. count[s] -> Ports] : Listed(q, s)
    BY DEF PortInv, Lists
  <2> QED BY <1>1, <2>1, ListAt
<1>3. /\ rpc[s] = "visit" /\ cur[s] = Null /\ rpc'[s] = "poll" /\ locked'[s] = FALSE
      /\ UNCHANGED <<list, cur, called, rebuild, timed, life, timer, wake, opc, osvc>>
      /\ Attached(s)' = A
  BY <1>1, AttachedSame DEF RunRebuild, TypeOK, SvcTypeOK, list, envVars
<1>4. Rebuilt => /\ lastcount' = [lastcount EXCEPT ![s] = count[s] + 1]
                 /\ polled' = [polled EXCEPT ![s] = A]
                 /\ ufd' = [p \in Ports |-> IF p \in A THEN s ELSE ufd[p]]
  BY <1>1 DEF RunRebuild
<1>5. ~Rebuilt => UNCHANGED <<lastcount, polled, ufd>>
  BY DEF RunRebuild
<1> HIDE DEF A
<1>6. TypeOK'
  <2>1. lastcount' \in [Services -> Nat]
    BY <1>1, <1>2, <1>4, <1>5 DEF TypeOK, SvcTypeOK
  <2>2. polled' \in [Services -> SUBSET Ports]
    <3>1. polled \in [Services -> SUBSET Ports] /\ A \in SUBSET Ports
      BY <1>1 DEF TypeOK, SvcTypeOK
    <3>2. [polled EXCEPT ![s] = A] \in [Services -> SUBSET Ports]
      BY <3>1
    <3> QED BY <1>4, <1>5, <3>1, <3>2
  <2>3. ufd' \in [Ports -> Services \cup {Null}]
    <3>1. ufd \in [Ports -> Services \cup {Null}]
      BY <1>1 DEF TypeOK, SvcTypeOK
    <3>2. [p \in Ports |-> IF p \in A THEN s ELSE ufd[p]] \in [Ports -> Services \cup {Null}]
      BY <3>1
    <3> QED BY <1>4, <1>5, <3>1, <3>2
  <2>4. /\ rpc' = [rpc EXCEPT ![s] = "poll"] /\ locked' = [locked EXCEPT ![s] = FALSE]
        /\ UNCHANGED <<in, hup, oport, twice, input, dead>>
    BY DEF RunRebuild, envVars
  <2>5. /\ rpc' \in [Services -> {"off", "init", "drain", "lock", "visit",
                                 "timer", "due", "poll"} \cup Callbacks]
        /\ locked' \in [Services -> BOOLEAN]
    BY <1>1, <2>4 DEF TypeOK, SvcTypeOK
  <2>6. SvcTypeOK'
    BY <1>1, <1>3, <2>1, <2>2, <2>3, <2>4, <2>5 DEF TypeOK, SvcTypeOK, list
  <2> QED BY <1>1, <1>3, <2>4, <2>6 DEF TypeOK
<1>7. \A r \in Services \ {s} : polled'[r] = polled[r] /\ lastcount'[r] = lastcount[r]
                                /\ \A p \in Attached(r) : ufd'[p] = ufd[p]
  <2>1. \A r \in Services \ {s} : \A p \in Attached(r) : p \in Ports /\ p \notin A
    BY <1>1 DEF Attached
  <2> QED BY <1>1, <1>4, <1>5, <2>1 DEF TypeOK, SvcTypeOK
<1>8. Rebuilt => /\ lastcount'[s] = count[s] + 1 /\ polled'[s] = A
                 /\ \A p \in A : ufd'[p] = s
  BY <1>1, <1>4 DEF TypeOK, SvcTypeOK
<1>9. WalkAt(s)'
  BY <1>1, <1>3 DEF WalkAt, Visiting, Callbacks
<1>10. ArrayAt(s)'
  <2>1. CASE Rebuilt
    BY <1>1, <1>2, <1>3, <1>8, <2>1 DEF ArrayAt
  <2>2. CASE ~Rebuilt
    BY <1>1, <1>3, <1>5, <2>2 DEF ArrayAt, A
  <2> QED BY <2>1, <2>2
<1>11. SleepAt(s)'
  <2>1. SUFFICES ASSUME Quiet(s)' PROVE SleepAt(s)'
    BY DEF SleepAt
  <2>2. Quiet(s)
    BY <1>3, <2>1 DEF Quiet
  <2>3. PICK q \in [1 .. count[s] -> Ports], k \in 1 .. count[s] + 1 : Reached(q, k, s)
    BY <1>1, <1>3, <2>2 DEF SleepAt
  <2>4. /\ \A i \in 1 .. count[s] : q[i] \in A /\ q[i] # Null
        /\ \A p \in A : \E i \in 1 .. count[s] : p = q[i]
    BY <1>1, <2>3, ListAt DEF Reached, A
  <2>5. k = count[s] + 1
    BY <1>2, <1>3, <2>3, <2>4 DEF Reached
  <2>6. \A i \in 1 .. count[s] : i \in 1 .. k - 1
    BY <1>2, <2>5
  <2>7. \A p \in A : Passed(p, s)
    BY <2>3, <2>4, <2>6 DEF Reached
  <2>8. CASE Rebuilt
    BY <1>3, <1>8, <2>7, <2>8 DEF SleepAt, Passed
  <2>9. CASE ~Rebuilt
    <3>1. \A p \in A : ufd[p] = s /\ p \in polled[s]
      BY <1>1, <2>7, <2>9 DEF Passed, ArrayAt, A
    <3>2. Cardinality(polled[s]) = count[s]
      <4>1. lastcount[s] # 0 /\ lastcount[s] = Cardinality(polled[s]) + 1
        BY <1>1, <1>2, <2>9 DEF ArrayAt
      <4>2. polled[s] \subseteq Ports
        BY <1>1 DEF TypeOK, SvcTypeOK
      <4>3. Cardinality(polled[s]) \in Nat
        BY <4>2, PortsFinite, FS_Subset, FS_CardinalityType
      <4> QED BY <1>2, <2>9, <4>1, <4>3
    <3>3. polled[s] = A
      <4>1. polled[s] \subseteq Ports
        BY <1>1 DEF TypeOK, SvcTypeOK
      <4>2. IsFiniteSet(polled[s]) /\ A \subseteq polled[s]
        BY <3>1, <4>1, PortsFinite, FS_Subset
      <4> QED BY <1>2, <3>2, <4>2, FS_Subset
    <3> QED BY <1>3, <1>5, <2>7, <2>9, <3>1, <3>3 DEF SleepAt, Passed
  <2> QED BY <2>8, <2>9
<1>12. LoopStep(s)
  <2>1. \A r \in Services \ {s} : locked'[r] = locked[r] /\ rpc'[r] = rpc[r]
    BY <1>1 DEF RunRebuild, TypeOK, SvcTypeOK
  <2>2. oport' = oport
    BY DEF envVars
  <2> QED BY <1>3, <1>7, <2>1, <2>2 DEF LoopStep, OthersKept
<1> QED BY <1>6, <1>9, <1>10, <1>11, <1>12, LoopKeeps DEF ServiceAt

(* POLLHUP: the port leaves the list of its service.                           *)
LEMMA RunHupStep ==
    ASSUME PortInv, NEW s \in Services, RunHup(s), UNCHANGED envVars
    PROVE  PortInv'
<1> DEFINE p == cur[s]
<1>1. /\ WalkAt(s) /\ ArrayAt(s) /\ TypeOK /\ Lists /\ p \in Attached(s) /\ p \in Ports
      /\ next[p] \in Attached(s) \cup {Null} /\ next[p] # p
      /\ prev[p] \in Attached(s) \cup {Null} /\ service[p] = s
      /\ \A r \in Services \ {s} : Attached(r) \cap Attached(s) = {}
  <2>1. WalkAt(s) /\ ArrayAt(s) /\ TypeOK /\ Lists
    BY KnownService DEF PortInv
  <2>2. p \in Attached(s)
    BY <2>1 DEF RunHup, WalkAt
  <2>3. PICK q \in [1 .. count[s] -> Ports] : Listed(q, s)
    BY <2>1 DEF Lists
  <2>4. /\ next[p] \in Attached(s) \cup {Null} /\ next[p] # p
        /\ prev[p] \in Attached(s) \cup {Null}
    BY <2>1, <2>2, <2>3, ListAt
  <2>5. p \in Ports /\ service[p] = s /\ \A r \in Services \ {s} : Attached(r) \cap Attached(s) = {}
    BY <2>2 DEF Attached
  <2> QED BY <2>1, <2>2, <2>4, <2>5
<1>2. Unlink(s, p) /\ life' = life
  BY DEF RunHup
<1> HIDE DEF p
<1>3. /\ Lists' /\ Attached(s)' = Attached(s) \ {p}
      /\ \A r \in Services \ {s} : Attached(r)' = Attached(r) /\ count'[r] = count[r]
      /\ \A r \in Services \ {s} : \A q : Listed(q, r) => Listed(q, r)'
      /\ \A y \in Ports : y \notin Attached(s) => next'[y] = next[y]
      /\ \A y \in Ports : y # p => service'[y] = service[y]
      /\ service'[p] = Null /\ count'[s] = count[s] - 1 /\ count[s] # 0
  <2>1. \A y \in Ports : Coming(y)' <=> Coming(y)
    BY DEF Coming, envVars
  <2> QED BY <1>1, <1>2, <2>1, UnlinkStep
<1>4. TypeOK'
  <2>2. ListTypes'
    BY <1>1, <1>2, UnlinkTypes
  <2>3. /\ cur' \in [Services -> Ports \cup {Null}] /\ called' \in [Services -> Ports \cup {Null}]
        /\ rpc' \in [Services -> {"off", "init", "drain", "lock", "visit", "timer", "due", "poll"}
                                  \cup Callbacks]
        /\ wake' \in [Services -> BOOLEAN] /\ rebuild' \in [Services -> BOOLEAN]
    BY <1>1 DEF RunHup, Update, TypeOK, SvcTypeOK, Callbacks
  <2> QED BY <1>1, <2>2, <2>3 DEF TypeOK, SvcTypeOK, ListTypes, RunHup, envVars, array
<1>5. /\ rpc[s] = "visit" /\ rpc'[s] = "disconnect" /\ cur'[s] = next[p] /\ called'[s] = p
      /\ wake'[s] = TRUE /\ locked' = locked /\ array' = array /\ timer' = timer /\ timed' = timed
      /\ opc' = opc /\ osvc' = osvc /\ oport' = oport
      /\ \A r \in Services \ {s} :
            /\ rpc'[r] = rpc[r] /\ cur'[r] = cur[r] /\ called'[r] = called[r]
            /\ rebuild'[r] = rebuild[r] /\ wake'[r] = wake[r]
  BY <1>1 DEF RunHup, Update, TypeOK, SvcTypeOK, array, envVars, p
<1>6. WalkAt(s)'
  <2>1. next[p] \in Attached(s)' \cup {Null}
    BY <1>1, <1>3
  <2> QED BY <1>1, <1>3, <1>5, <2>1 DEF WalkAt, Visiting, Callbacks
<1>7. ArrayAt(s)'
  BY <1>1, <1>3, <1>5 DEF ArrayAt, array
<1>8. SleepAt(s)'
  BY <1>5 DEF SleepAt, Quiet
<1>9. UnlinkLoop(s, p)
  BY <1>1, <1>2, <1>5 DEF UnlinkLoop, OthersKept, array, p
<1> QED BY <1>1, <1>4, <1>6, <1>7, <1>8, <1>9, UnlinkKeeps DEF ServiceAt

(* A callback that leaves the list alone.                                      *)
LEMMA CallbackKeeps ==
    ASSUME PortInv, NEW s \in Services, Callback(s), UNCHANGED list,
           \/ UNCHANGED <<life, timer, wake>>
           \/ service[called[s]] # Null /\ Update(s) /\ UNCHANGED life
              /\ \E set \in {"armed", "off"} : timer' = [timer EXCEPT ![called[s]] = set]
           \/ service[called[s]] = Null /\ life' = [life EXCEPT ![called[s]] = "freed"]
              /\ UNCHANGED <<timer, wake>>
    PROVE  PortInv'
<1>1. /\ WalkAt(s) /\ ArrayAt(s) /\ TypeOK /\ Null \notin Attached(s) /\ Attached(s) \subseteq Ports
      /\ \A r \in Services \ {s} : Attached(r) \cap Attached(s) = {}
      /\ \A p \in Ports : service[p] # Null => life[p] = "live"
  BY KnownService DEF PortInv, Lists
<1>2. called[s] \in Ports /\ rpc[s] \in Callbacks
  <2>1. rpc[s] \in Callbacks
    BY DEF Callback
  <2> QED BY <1>1, <2>1 DEF WalkAt, AtPort, Callbacks, Attached
<1>3. /\ rpc'[s] = (IF rpc[s] = "disconnect" THEN "visit" ELSE "timer")
      /\ called'[s] = Null
      /\ UNCHANGED <<locked, cur, rebuild, timed, array, opc, oport, osvc, twice, dead>>
      /\ \A r \in Services \ {s} : rpc'[r] = rpc[r] /\ called'[r] = called[r]
  BY <1>1 DEF Callback, RunReturn, TypeOK, SvcTypeOK
<1>4. wake[s] => wake'[s]
  BY <1>1 DEF Update, TypeOK, SvcTypeOK
<1>5. \A r \in Services \ {s} : wake'[r] = wake[r]
  BY <1>1 DEF Update, TypeOK, SvcTypeOK
<1>6. UNCHANGED timer \/ /\ service[called[s]] # Null /\ wake'[s] = TRUE
                         /\ \A p \in Ports : p # called[s] => timer'[p] = timer[p]
  BY <1>1 DEF Update, TypeOK, SvcTypeOK
<1>7. \A p \in Ports : \/ life'[p] = life[p]
                       \/ life'[p] = "freed" /\ p = called[s] /\ service[p] = Null
  BY <1>1, <1>2 DEF TypeOK, SvcTypeOK
<1>8. service[called[s]] # Null => called[s] \in Attached(s)
  BY <1>1, <1>2 DEF WalkAt, AtPort, Callbacks
<1>9. TypeOK'
  <2>1. /\ timer' \in [Ports -> {"off", "armed", "due"}] /\ life' \in [Ports -> {"none", "live", "freed"}]
        /\ wake' \in [Services -> BOOLEAN]
    <3>1. /\ timer \in [Ports -> {"off", "armed", "due"}] /\ wake \in [Services -> BOOLEAN]
          /\ life \in [Ports -> {"none", "live", "freed"}]
      BY <1>1 DEF TypeOK, SvcTypeOK
    <3>2. timer' \in [Ports -> {"off", "armed", "due"}]
      BY <1>2, <3>1
    <3>3. life' \in [Ports -> {"none", "live", "freed"}]
      BY <1>2, <3>1
    <3>4. wake' \in [Services -> BOOLEAN]
      BY <3>1 DEF Update
    <3> QED BY <3>2, <3>3, <3>4
  <2>2. /\ called' \in [Services -> Ports \cup {Null}] /\ input' \subseteq Ports
        /\ rpc' \in [Services -> {"off", "init", "drain", "lock", "visit", "timer", "due", "poll"}
                                  \cup Callbacks]
    BY <1>1 DEF Callback, RunReturn, TypeOK, SvcTypeOK, Callbacks
  <2> QED BY <1>1, <1>3, <2>1, <2>2 DEF TypeOK, SvcTypeOK, list, array
<1>10. OthersKept(s)
  <2>1. \A r \in Services \ {s} : \A p \in Attached(r) : timer'[p] = timer[p]
    BY <1>1, <1>6, <1>8 DEF Attached
  <2>2. rpc[s] # "off"
    BY <1>2 DEF Callbacks
  <2> QED BY <1>3, <1>5, <2>1, <2>2 DEF OthersKept, array
<1>11. LoopStep(s)
  BY <1>7, <1>10 DEF LoopStep
<1>12. ServiceAt(s)'
  <2>1. CASE rpc[s] = "disconnect"
    <3>1. rpc'[s] = "visit" /\ wake'[s] /\ Attached(s)' = Attached(s) /\ ufd' = ufd
      BY <1>1, <1>3, <1>4, <2>1, AttachedSame DEF WalkAt, list, array
    <3>2. WalkAt(s)'
      BY <1>1, <1>3, <2>1, <3>1 DEF WalkAt, Visiting, Callbacks
    <3>3. ArrayAt(s)'
      BY <1>1, <1>3, <2>1, <3>1 DEF ArrayAt, array
    <3>4. SleepAt(s)'
      BY <3>1 DEF SleepAt, Quiet
    <3> QED BY <3>2, <3>3, <3>4 DEF ServiceAt
  <2>2. CASE rpc[s] # "disconnect"
    <3>1. rpc[s] \in {"pending", "expired"} /\ rpc'[s] = "timer" /\ cur[s] # Null
      BY <1>1, <1>2, <1>3, <2>2, NullIsNone DEF Callbacks, WalkAt, AtPort
    <3>2. Quiet(s)' => \A p \in Attached(s) : timer'[p] # "off" => timer[p] # "off"
      BY <1>6 DEF Quiet
    <3> QED BY <1>3, <1>4, <1>7, <3>1, <3>2, StaysThere DEF array, Callbacks
  <2> QED BY <2>1, <2>2
<1> QED BY <1>9, <1>11, <1>12, LoopKeeps

(* A callback other than disconnect deletes its port, which is still attached. *)
LEMMA CallbackDeletes ==
    ASSUME PortInv, NEW s \in Services, Callback(s), rpc[s] \in Deleting,
           service[called[s]] # Null, life' = [life EXCEPT ![called[s]] = "freed"],
           Unlink(s, called[s]), Update(s), UNCHANGED timer
    PROVE  PortInv'
<1> DEFINE p == called[s]
<1>1. /\ WalkAt(s) /\ ArrayAt(s) /\ TypeOK /\ Lists /\ rpc[s] \in {"pending", "expired"}
      /\ p = cur[s] /\ p \in Attached(s) /\ p \in Ports /\ p # Null
      /\ next[p] \in Attached(s) \cup {Null} /\ next[p] # p
      /\ \A r \in Services \ {s} : Attached(r) \cap Attached(s) = {}
  <2>1. WalkAt(s) /\ ArrayAt(s) /\ TypeOK /\ Lists
    BY KnownService DEF PortInv
  <2>2. rpc[s] \in {"pending", "expired"}
    BY <2>1 DEF Callback, Callbacks, WalkAt
  <2>3. p = cur[s] /\ p \in Attached(s)
    BY <2>1, <2>2, NullIsNone DEF WalkAt, AtPort, Lists
  <2>4. PICK q \in [1 .. count[s] -> Ports] : Listed(q, s)
    BY <2>1 DEF Lists
  <2>5. next[p] \in Attached(s) \cup {Null} /\ next[p] # p
    BY <2>1, <2>3, <2>4, ListAt
  <2>6. p \in Ports /\ p # Null /\ \A r \in Services \ {s} : Attached(r) \cap Attached(s) = {}
    BY <2>3, NullIsNone DEF Attached
  <2> QED BY <2>1, <2>2, <2>3, <2>5, <2>6
<1>2. Unlink(s, p) /\ life' = [life EXCEPT ![p] = "freed"]
  OBVIOUS
<1>3. /\ rpc'[s] = "timer" /\ called'[s] = Null /\ wake'[s] = TRUE
      /\ UNCHANGED <<locked, cur, rebuild, timed, array, timer, opc, oport, osvc, twice, dead>>
      /\ \A r \in Services \ {s} : rpc'[r] = rpc[r] /\ called'[r] = called[r] /\ wake'[r] = wake[r]
  BY <1>1 DEF Callback, RunReturn, Update, TypeOK, SvcTypeOK
<1> HIDE DEF p
<1>4. /\ Attached(s)' = Attached(s) \ {p} /\ next'[p] = next[p]
      /\ life'[p] = "freed" /\ \A y \in Ports : y # p => life'[y] = life[y]
  <2>1. life'[p] = "freed" /\ \A y \in Ports : y # p => life'[y] = life[y]
    BY <1>1, <1>2 DEF TypeOK, SvcTypeOK
  <2>2. \A y \in Ports : Coming(y)' <=> Coming(y)
    BY <1>3 DEF Coming
  <2> QED BY <1>1, <1>2, <2>1, <2>2, UnlinkStep
<1>5. TypeOK'
  <2>1. ListTypes'
    BY <1>1, <1>2, UnlinkTypes
  <2>2. life' \in [Ports -> {"none", "live", "freed"}]
    BY <1>1, <1>2 DEF TypeOK, SvcTypeOK
  <2>3. /\ called' \in [Services -> Ports \cup {Null}] /\ input' \subseteq Ports
        /\ rpc' \in [Services -> {"off", "init", "drain", "lock", "visit", "timer", "due", "poll"}
                                  \cup Callbacks]
        /\ wake' \in [Services -> BOOLEAN]
    BY <1>1 DEF Callback, RunReturn, Update, TypeOK, SvcTypeOK, Callbacks
  <2> QED BY <1>1, <1>3, <2>1, <2>2, <2>3 DEF TypeOK, SvcTypeOK, ListTypes, array
<1>6. WalkAt(s)'
  <2>1. ~(Deleting \subseteq {"disconnect"})
    BY <1>1
  <2>2. AtPort(s)'
    BY <1>1, <1>3, <1>4, <2>1 DEF AtPort
  <2> QED BY <1>1, <1>3, <2>2 DEF WalkAt, Visiting, Callbacks
<1>7. ArrayAt(s)'
  BY <1>1, <1>3, <1>4 DEF ArrayAt, array
<1>8. SleepAt(s)'
  BY <1>3 DEF SleepAt, Quiet
<1>9. UnlinkLoop(s, p)
  BY <1>1, <1>2, <1>3, <1>4 DEF UnlinkLoop, OthersKept, array
<1> QED BY <1>1, <1>5, <1>6, <1>7, <1>8, <1>9, UnlinkKeeps DEF ServiceAt

\* A callback of the user of the class.
LEMMA CallbackStep ==
    ASSUME PortInv, NEW s \in Services, Callback(s)
    PROVE  PortInv'
<1>1. CASE UNCHANGED <<list, life, timer, wake>>
  BY <1>1, CallbackKeeps
<1>2. CASE /\ service[called[s]] # Null
           /\ \E set \in {"armed", "off"} : timer' = [timer EXCEPT ![called[s]] = set]
           /\ Update(s) /\ UNCHANGED <<list, life>>
  BY <1>2, CallbackKeeps
<1>3. CASE rpc[s] \in Deleting /\ Destroy(s, called[s]) /\ UNCHANGED timer
  <2>1. CASE service[called[s]] = Null
    BY <1>3, <2>1, CallbackKeeps DEF Destroy
  <2>2. CASE service[called[s]] # Null
    BY <1>3, <2>2, CallbackDeletes DEF Destroy
  <2> QED BY <2>1, <2>2
<1> QED BY <1>1, <1>2, <1>3 DEF Callback
--------------------------------------------------------------------------------
(* The steps of the owners and of the world.                                   *)
LEMMA OwnerFacts ==
    ASSUME PortInv, NEW u \in Owners
    PROVE  /\ TypeOK /\ Lists /\ OwnerAt(u)
           /\ \A v \in Owners : OwnerAt(v) /\ Apart(u, v) /\ Apart(v, u)
           /\ \A p \in Ports : Untouched(p) /\ (service[p] # Null => life[p] = "live")
           /\ \A r \in Services : ServiceAt(r) /\ Null # r
           /\ opc[u] = "idle" => osvc[u] = Null
           /\ opc[u] # "idle" => osvc[u] \in Services
  BY NullIsNone DEF PortInv, OwnersInv, OwnerAt, Lists

\* An owner constructs a port: attach() links it.
LEMMA NewPortStep ==
    ASSUME PortInv, NEW u \in Owners, NEW p \in Ports, NEW s \in Services, NewPort(u, p, s)
    PROVE  PortInv'
<1>1. /\ TypeOK /\ Lists /\ Untouched(p) /\ \A v \in Owners : OwnerAt(v)
      /\ osvc[u] = Null /\ opc[u] = "idle" /\ life[p] = "none"
      /\ UNCHANGED <<list, loop, array, timer, wake>>
  BY OwnerFacts DEF NewPort, Idle
<1>2. /\ life'[p] = "live" /\ \A y \in Ports : y # p => life'[y] = life[y]
      /\ opc'[u] = "attach" /\ oport'[u] = p /\ osvc'[u] = s
      /\ \A v \in Owners : v # u => opc'[v] = opc[v] /\ oport'[v] = oport[v] /\ osvc'[v] = osvc[v]
  BY <1>1 DEF NewPort, Go, TypeOK, SvcTypeOK
<1>3. TypeOK'
  BY <1>1 DEF NewPort, Go, TypeOK, SvcTypeOK, list, loop, array, Callbacks
<1>4. Lists' /\ \A r \in Services : Attached(r)' = Attached(r)
  <2>1. service[p] = Null
    BY <1>1 DEF Untouched, Unlinked
  <2>2. \A y \in Ports : y # p => (Coming(y)' <=> Coming(y))
    BY <1>1, <1>2 DEF Coming
  <2>3. ASSUME NEW r \in Services PROVE Attached(r)' = Attached(r)
    <3>1. \A y \in Ports : y \in Attached(r)' <=> y \in Attached(r)
      BY <1>1, <2>1, <2>2, NullIsNone DEF Attached, list
    <3> QED BY <3>1 DEF Attached
  <2> QED BY <1>1, <1>2, <2>3 DEF Lists, Listed, list
<1>5. OwnersInv'
  <2>1. ASSUME NEW v \in Owners PROVE OwnerAt(v)'
    <3>1. CASE v = u
      BY <1>2, <3>1 DEF OwnerAt
    <3>2. CASE v # u
      <4>1. OwnerAt(v) /\ (opc[v] \in Carrying => oport[v] # p)
        BY <1>1 DEF OwnerAt
      <4> QED BY <1>1, <1>2, <3>2, <4>1 DEF OwnerAt, list, loop
    <3> QED BY <3>1, <3>2
  <2>2. ASSUME NEW v \in Owners, NEW w \in Owners PROVE Apart(v, w)'
    <3>1. /\ Apart(v, w) /\ (opc[v] \in Carrying => oport[v] # p)
          /\ (opc[w] \in Carrying => oport[w] # p)
      BY <1>1 DEF PortInv, OwnersInv, OwnerAt
    <3> QED BY <1>2, <3>1 DEF Apart
  <2>3. ASSUME NEW y \in Ports PROVE Untouched(y)'
    <3>1. Untouched(y) /\ (y = p => Unlinked(y))
      BY <1>1, OwnerFacts DEF Unlinked
    <3>2. Unlinked(y)' => Unlinked(y)
      BY <1>1, <1>2, <3>1 DEF Unlinked
    <3> QED BY <1>1, <1>2, <3>1, <3>2 DEF Untouched, list, loop
  <2> QED BY <2>1, <2>2, <2>3 DEF OwnersInv
<1>6. ASSUME NEW r \in Services PROVE ServiceAt(r)'
  <2>1. Quiet(r)' => Quiet(r)
    BY <1>1, <1>2, NullIsNone DEF Quiet
  <2>2. Bystander(r)
    BY <1>1, <1>2, <1>4, <2>1 DEF Bystander, Listed, list, loop, array
  <2> QED BY <2>2, BystanderStep DEF PortInv
<1> QED BY <1>3, <1>4, <1>5, <1>6 DEF PortInv

(* An owner that does no more than finish, or go on to what it owes service s. *)
LEMMA OwnerGoes ==
    ASSUME PortInv, NEW u \in Owners, NEW label \in {"idle", "create", "update"}, NEW s,
           opc[u] \notin Carrying, s = IF label = "idle" THEN Null ELSE osvc'[u],
           label # "idle" => s \in Services, Go(u, label, Null, s),
           UNCHANGED <<list, cur, called, life>>
    PROVE  /\ OwnersInv' /\ Lists'
           /\ \A r \in Services : Attached(r)' = Attached(r) /\ \A q : Listed(q, r) => Listed(q, r)'
<1>1. TypeOK /\ Lists /\ \A v \in Owners : OwnerAt(v)
  BY OwnerFacts
<1>2. /\ opc'[u] = label /\ oport'[u] = Null /\ osvc'[u] = s
      /\ \A v \in Owners : v # u => opc'[v] = opc[v] /\ oport'[v] = oport[v] /\ osvc'[v] = osvc[v]
  BY <1>1 DEF Go, TypeOK, SvcTypeOK
<1>3. \A v \in Owners : OwnerAt(v)'
  <2> TAKE v \in Owners
  <2>1. CASE v = u
    BY <1>2, <2>1 DEF OwnerAt, Carrying
  <2>2. CASE v # u
    BY <1>1, <1>2, <2>2 DEF OwnerAt, list
  <2> QED BY <2>1, <2>2
<1>4. \A v, w \in Owners : Apart(v, w)'
  BY <1>2 DEF PortInv, OwnersInv, Apart, Carrying
<1>5. \A y \in Ports : Untouched(y)'
  <2> TAKE y \in Ports
  <2>1. Untouched(y) /\ (Unlinked(y)' => Unlinked(y))
    BY <1>2 DEF PortInv, OwnersInv, Unlinked, Carrying
  <2> QED BY <2>1 DEF Untouched, list
<1>6. \A r : Attached(r)' = Attached(r)
  <2>1. \A y \in Ports : Coming(y)' <=> Coming(y)
    BY <1>2 DEF Coming, Carrying
  <2> QED BY <2>1, AttachedKept DEF list
<1>7. Lists' /\ \A r \in Services : \A q : Listed(q, r) => Listed(q, r)'
  BY <1>1, <1>6 DEF Lists, Listed, list
<1> QED BY <1>3, <1>4, <1>5, <1>6, <1>7 DEF OwnersInv

\* Thread::start tests whether the service has a thread.
LEMMA OwnerStartStep ==
    ASSUME PortInv, NEW u \in Owners, OwnerStart(u)
    PROVE  PortInv'
<1>0. PICK s \in Services : s = osvc[u]
  BY OwnerFacts DEF OwnerStart
<1>1. /\ TypeOK /\ opc[u] = "start" /\ s \in Services
      /\ UNCHANGED <<svcVars, twice, input, dead>>
      /\ Go(u, "create", Null, s) \/ Go(u, "idle", Null, Null)
  BY <1>0, OwnerFacts DEF OwnerStart
<1>2. UNCHANGED <<list, loop, array, life, timer, wake>>
  BY <1>1 DEF svcVars
<1>3. \A v \in Owners : v # u => opc'[v] = opc[v] /\ osvc'[v] = osvc[v]
  BY <1>1 DEF Go, TypeOK
<1>4. TypeOK'
  BY <1>1, <1>2 DEF Go, TypeOK, SvcTypeOK, list, loop, array
<1>5. /\ OwnersInv' /\ Lists'
      /\ \A r \in Services : Attached(r)' = Attached(r) /\ \A q : Listed(q, r) => Listed(q, r)'
  <2>1. CASE Go(u, "create", Null, s)
    <3>1. s = osvc'[u]
      BY <1>1, <2>1 DEF Go, TypeOK
    <3> QED BY <1>1, <1>2, <2>1, <3>1, OwnerGoes DEF loop, Carrying
  <2>2. CASE Go(u, "idle", Null, Null)
    BY <1>1, <1>2, <2>2, OwnerGoes DEF loop, Carrying
  <2> QED BY <1>1, <2>1, <2>2
<1>6. ASSUME NEW r \in Services PROVE ServiceAt(r)'
  <2>1. Quiet(r)' => Quiet(r)
    BY <1>0, <1>1, <1>2, <1>3 DEF Quiet, Linking
  <2>2. Bystander(r)
    BY <1>1, <1>2, <1>5, <2>1 DEF Bystander, list, loop, array
  <2> QED BY <2>2, BystanderStep DEF PortInv
<1> QED BY <1>4, <1>5, <1>6 DEF PortInv

\* It creates the thread, which may be the second one.
LEMMA OwnerCreateStep ==
    ASSUME PortInv, NEW u \in Owners, OwnerCreate(u)
    PROVE  PortInv'
<1>0. PICK s \in Services : s = osvc[u]
  BY OwnerFacts DEF OwnerCreate
<1>1. /\ TypeOK /\ opc[u] = "create" /\ s \in Services /\ ServiceAt(s)
      /\ UNCHANGED <<list, locked, cur, called, rebuild, timed, array, life, timer, wake>>
  BY <1>0, OwnerFacts DEF OwnerCreate, OwnerAt
<1>2. /\ Go(u, "idle", Null, Null)
      /\ rpc' = IF rpc[s] = "off" THEN [rpc EXCEPT ![s] = "init"] ELSE rpc
  BY <1>0, <1>1 DEF OwnerCreate, StartThread
<1>3. /\ rpc'[s] = IF rpc[s] = "off" THEN "init" ELSE rpc[s]
      /\ \A r \in Services : r # s => rpc'[r] = rpc[r]
  BY <1>1, <1>2 DEF TypeOK, SvcTypeOK
<1>4. TypeOK'
  BY <1>0, <1>1, <1>2 DEF Go, OwnerCreate, TypeOK, SvcTypeOK, list, array, Callbacks
<1>5. /\ OwnersInv' /\ Lists'
      /\ \A r \in Services : Attached(r)' = Attached(r) /\ \A q : Listed(q, r) => Listed(q, r)'
  BY <1>1, <1>2, OwnerGoes DEF Carrying
<1>6. ASSUME rpc[s] = "off" PROVE ServiceAt(s)'
  <2>1. WalkAt(s)'
    BY <1>1, <1>3, <1>6 DEF ServiceAt, WalkAt, Visiting, Callbacks
  <2>2. ArrayAt(s)'
    BY <1>1, <1>3, <1>5, <1>6 DEF ServiceAt, ArrayAt, array
  <2>3. SleepAt(s)'
    BY <1>3, <1>6 DEF SleepAt
  <2> QED BY <2>1, <2>2, <2>3 DEF ServiceAt
<1>7. ASSUME NEW r \in Services, r # s \/ rpc[s] # "off" PROVE ServiceAt(r)'
  <2>1. Quiet(r)' => Quiet(r)
    BY <1>0, <1>1, <1>2 DEF Quiet, Linking, Go, TypeOK
  <2>2. Bystander(r)
    BY <1>1, <1>3, <1>5, <1>7, <2>1 DEF Bystander, list, array
  <2> QED BY <2>2, BystanderStep DEF PortInv
<1>8. \A r \in Services : ServiceAt(r)'
  BY <1>6, <1>7
<1> QED BY <1>4, <1>5, <1>8 DEF PortInv

\* A later one writes to the pipe.
LEMMA OwnerUpdateStep ==
    ASSUME PortInv, NEW u \in Owners, OwnerUpdate(u)
    PROVE  PortInv'
<1> DEFINE s == osvc[u]
<1>1. /\ TypeOK /\ opc[u] = "update" /\ s \in Services /\ \A v \in Owners : OwnerAt(v)
      /\ UNCHANGED <<list, loop, array, life, timer>>
      /\ Go(u, "idle", Null, Null) /\ wake' = [wake EXCEPT ![s] = TRUE]
  BY OwnerFacts DEF OwnerUpdate, Update
<1> HIDE DEF s
<1>2. wake'[s] = TRUE /\ \A r \in Services : r # s => wake'[r] = wake[r]
  BY <1>1 DEF TypeOK, SvcTypeOK
<1>3. TypeOK'
  BY <1>1 DEF Go, OwnerUpdate, TypeOK, SvcTypeOK, list, loop, array
<1>4. /\ OwnersInv' /\ Lists'
      /\ \A r \in Services : Attached(r)' = Attached(r) /\ \A q : Listed(q, r) => Listed(q, r)'
  BY <1>1, OwnerGoes DEF loop, Carrying
<1>6. ASSUME NEW r \in Services PROVE ServiceAt(r)'
  <2>1. Quiet(r)' => Quiet(r)
    <3>1. CASE r = s
      BY <1>2, <3>1 DEF Quiet
    <3>2. CASE r # s
      BY <1>1, <1>2, <3>2 DEF Quiet, Go, TypeOK, s
    <3> QED BY <3>1, <3>2
  <2>2. wake[r] => wake'[r]
    BY <1>2
  <2>3. Bystander(r)
    BY <1>1, <1>4, <2>1, <2>2 DEF Bystander, list, loop, array
  <2> QED BY <2>3, BystanderStep DEF PortInv
<1> QED BY <1>3, <1>4, <1>6 DEF PortInv

\* An owner sets a timer.
LEMMA SetTimerStep ==
    ASSUME PortInv, NEW u \in Owners, NEW p \in Ports, SetTimer(u, p)
    PROVE  PortInv'
<1>0. PICK s \in Services : s = service[p]
  BY DEF SetTimer, PortInv, TypeOK, SvcTypeOK
<1>1. /\ TypeOK /\ opc[u] = "idle" /\ osvc[u] = Null /\ \A v \in Owners : OwnerAt(v)
      /\ Null \notin Services /\ (\E set \in {"armed", "off"} : timer' = [timer EXCEPT ![p] = set])
      /\ UNCHANGED <<list, loop, array, life, wake>> /\ Go(u, "update", Null, s)
  BY <1>0, OwnerFacts, NullIsNone DEF SetTimer, Idle
<1>2. \A y \in Ports : y # p => timer'[y] = timer[y]
  BY <1>1 DEF TypeOK, SvcTypeOK
<1>3. /\ opc'[u] = "update" /\ osvc'[u] = s
      /\ \A v \in Owners : v # u => opc'[v] = opc[v] /\ osvc'[v] = osvc[v]
  BY <1>1 DEF Go, TypeOK
<1>4. TypeOK'
  <2>1. timer' \in [Ports -> {"off", "armed", "due"}]
    BY <1>1 DEF TypeOK, SvcTypeOK
  <2> QED BY <1>1, <2>1 DEF Go, SetTimer, TypeOK, SvcTypeOK, list, loop, array
<1>5. /\ OwnersInv' /\ Lists'
      /\ \A r \in Services : Attached(r)' = Attached(r) /\ \A q : Listed(q, r) => Listed(q, r)'
  BY <1>1, <1>3, OwnerGoes DEF loop, Carrying
<1>7. WalkAt(s)'
  BY <1>1, <1>5 DEF PortInv, ServiceAt, WalkAt, AtPort, list, loop
<1>8. ArrayAt(s)'
  BY <1>1, <1>5 DEF PortInv, ServiceAt, ArrayAt, array, loop
<1>9. SleepAt(s)'
  BY <1>3 DEF SleepAt, Quiet, Linking
<1>10. ASSUME NEW r \in Services \ {s} PROVE ServiceAt(r)'
  <2>1. Quiet(r)' => Quiet(r)
    BY <1>1, <1>3 DEF Quiet
  <2>2. \A y \in Attached(r) : timer'[y] = timer[y]
    BY <1>0, <1>2 DEF Attached
  <2>3. Bystander(r)
    BY <1>1, <1>5, <2>1, <2>2 DEF Bystander, list, loop, array
  <2> QED BY <2>3, BystanderStep DEF PortInv
<1> QED BY <1>4, <1>5, <1>7, <1>8, <1>9, <1>10 DEF PortInv, ServiceAt

\* attach() of a port that has a service.
LEMMA AttachStep ==
    ASSUME PortInv, NEW u \in Owners, Attach(u)
    PROVE  PortInv'
<1>0. PICK s \in Services, p \in Ports : s = osvc[u] /\ p = oport[u]
  BY OwnerFacts DEF Attach, OwnerAt, Carrying
<1>1. /\ TypeOK /\ Lists /\ opc[u] = "attach" /\ life[p] = "live" /\ Unlinked(p) /\ ~locked[s]
      /\ next[p] = Null /\ \A r \in Services : cur[r] # p /\ called[r] # p
      /\ Link(s, p) /\ life' = life
      /\ UNCHANGED <<loop, polled, lastcount, life, timer, wake>>
      /\ \A v \in Owners : OwnerAt(v) /\ Apart(u, v) /\ Apart(v, u)
  BY <1>0, OwnerFacts DEF Attach, OwnerAt, Unlinked, Untouched, Carrying
<1>3. PICK label \in {"start", "update"} :
          label = (IF FirstPort(s) THEN "start" ELSE "update") /\ Go(u, label, Null, s)
  BY <1>0 DEF Attach
<1>4. /\ opc'[u] = label /\ oport'[u] = Null /\ osvc'[u] = s
      /\ \A v \in Owners : v # u => opc'[v] = opc[v] /\ oport'[v] = oport[v] /\ osvc'[v] = osvc[v]
  BY <1>1, <1>3 DEF Go, TypeOK
<1>10. \A v \in Owners : v # u /\ opc[v] \in Carrying => oport[v] # p
  BY <1>0, <1>1 DEF Apart, Carrying
<1>6. \A r \in Services : \A y \in Ports : Unlinked(y) => y \notin Attached(r)
  BY UnlinkedOut DEF PortInv
<1>2. /\ Lists' /\ Attached(s)' = Attached(s) \cup {p}
      /\ \A r \in Services \ {s} : Attached(r)' = Attached(r) /\ count'[r] = count[r]
      /\ \A r \in Services \ {s} : \A q : Listed(q, r) => Listed(q, r)'
      /\ \A y \in Ports : y \notin Attached(s) => next'[y] = next[y]
      /\ count'[s] = count[s] + 1
      /\ \A y \in Ports : y # p => service'[y] = service[y] /\ ufd'[y] = ufd[y]
      /\ service'[p] = s /\ ufd'[p] = Null
  <2>1. ~Coming(p)'
    BY <1>3, <1>4, <1>10 DEF Coming, Carrying
  <2>2. \A y \in Ports : y # p => (Coming(y)' <=> Coming(y))
    BY <1>0, <1>3, <1>4 DEF Coming
  <2> QED BY <1>1, <1>6, <2>1, <2>2, LinkStep
<1>5. TypeOK'
  <2>1. /\ opc' \in [Owners -> {"idle", "attach", "start", "create", "update", "move"}]
        /\ oport' \in [Owners -> Ports \cup {Null}] /\ osvc' \in [Owners -> Services \cup {Null}]
    BY <1>1, <1>3 DEF Go, TypeOK
  <2>2. count' \in [Services -> Nat] /\ last' \in [Services -> Ports \cup {Null}]
    BY <1>1 DEF Link, TypeOK, SvcTypeOK
  <2>3. first' \in [Services -> Ports \cup {Null}]
    BY <1>1 DEF Link, TypeOK, SvcTypeOK
  <2>4. next' \in [Ports -> Ports \cup {Null}]
    BY <1>1 DEF Link, TypeOK, SvcTypeOK
  <2>5. prev' \in [Ports -> Ports \cup {Null}]
    BY <1>1 DEF Link, TypeOK, SvcTypeOK
  <2>6. service' \in [Ports -> Services \cup {Null}] /\ ufd' \in [Ports -> Services \cup {Null}]
    BY <1>1 DEF Link, TypeOK, SvcTypeOK
  <2> QED BY <1>1, <2>1, <2>2, <2>3, <2>4, <2>5, <2>6 DEF Attach, TypeOK, SvcTypeOK, loop
<1>7. OwnersInv'
  <2>1. ASSUME NEW v \in Owners PROVE OwnerAt(v)'
    <3>1. CASE v = u
      BY <1>3, <1>4, <3>1 DEF OwnerAt, Carrying
    <3>2. CASE v # u
      <4>1. /\ OwnerAt(v) /\ opc'[v] = opc[v] /\ oport'[v] = oport[v] /\ osvc'[v] = osvc[v]
            /\ opc[v] \in Carrying => oport[v] # p
        BY <1>1, <1>4, <1>10, <3>2
      <4> QED BY <1>1, <1>2, <4>1 DEF OwnerAt, Carrying
    <3> QED BY <3>1, <3>2
  <2>2. ASSUME NEW v \in Owners, NEW w \in Owners PROVE Apart(v, w)'
    <3>1. Apart(v, w)
      BY DEF PortInv, OwnersInv
    <3> QED BY <1>3, <1>4, <3>1 DEF Apart, Carrying
  <2>3. ASSUME NEW y \in Ports PROVE Untouched(y)'
    <3>1. Unlinked(y)' => Unlinked(y) /\ y # p
      BY <1>1, <1>3, <1>4, <1>10 DEF Unlinked, Carrying
    <3>2. Untouched(y)
      BY DEF PortInv, OwnersInv
    <3> QED BY <1>1, <1>2, <1>6, <3>1, <3>2 DEF Untouched, loop
  <2> QED BY <2>1, <2>2, <2>3 DEF OwnersInv
<1>8. ServiceAt(s)'
  <2>1. WalkAt(s) /\ ArrayAt(s) /\ rpc[s] \notin Visiting \cup Callbacks
    BY <1>1 DEF PortInv, ServiceAt, WalkAt
  <2>2. WalkAt(s)'
    BY <1>1, <2>1 DEF WalkAt, Visiting, Callbacks, loop
  <2>3. ArrayAt(s)'
    <3>1. \A y \in Attached(s)' : ufd'[y] \in {Null, s} /\ (ufd'[y] = s => y \in polled'[s])
      <4>1. \A y \in Attached(s) : y \in Ports
        BY DEF Attached
      <4> QED BY <1>1, <1>2, <2>1, <4>1, NullIsNone DEF ArrayAt
    <3> QED BY <1>1, <2>1, <3>1 DEF ArrayAt, Visiting, Callbacks, loop
  <2>4. SleepAt(s)'
    <3>1. CASE label = "start"
      BY <1>1, <1>3, <3>1 DEF SleepAt, FirstPort, loop
    <3>2. CASE label = "update"
      BY <1>4, <3>2 DEF SleepAt, Quiet, Linking
    <3> QED BY <1>3, <3>1, <3>2
  <2> QED BY <2>2, <2>3, <2>4 DEF ServiceAt
<1>9. ASSUME NEW r \in Services \ {s} PROVE ServiceAt(r)'
  <2>1. Quiet(r)' => Quiet(r)
    BY <1>0, <1>1, <1>4 DEF Quiet
  <2>2. \A y \in Attached(r) : ufd'[y] = ufd[y]
    BY <1>1, <1>2, NullIsNone DEF Attached
  <2>3. \A y \in Ports : life[y] = "freed" => next'[y] = next[y]
    BY <1>1, <1>2, NullIsNone DEF Lists, Attached
  <2>4. called[r] \in Ports /\ service[called[r]] = Null => service'[called[r]] = Null
    BY <1>1, <1>2
  <2>5. Bystander(r)
    BY <1>1, <1>2, <2>1, <2>2, <2>3, <2>4 DEF Bystander, loop
  <2> QED BY <2>5, BystanderStep DEF PortInv
<1> QED BY <1>2, <1>5, <1>7, <1>8, <1>9 DEF PortInv

(* The last port of a list is detached, to be attached to another service.     *)
LEMMA DetachStep ==
    ASSUME PortInv, NEW u \in Owners, NEW p \in Ports, Detach(u, p), next[p] = Null
    PROVE  PortInv'
<1>0. PICK s \in Services : s = service[p]
  BY DEF Detach, PortInv, TypeOK, SvcTypeOK
<1>1. /\ TypeOK /\ Lists /\ opc[u] = "idle" /\ osvc[u] = Null /\ s # Null /\ life[p] = "live"
      /\ \A v \in Owners : OwnerAt(v) /\ oport[v] # p
      /\ ~locked[s] /\ Unlink(s, p) /\ Go(u, "move", p, s)
      /\ UNCHANGED <<loop, array, life, timer, wake>>
  BY <1>0, OwnerFacts, NullIsNone DEF Detach, Idle, Live
<1>2. p \in Attached(s)
  BY <1>0, <1>1 DEF Attached, Coming
<1>3. /\ opc'[u] = "move" /\ oport'[u] = p /\ osvc'[u] = s
      /\ \A v \in Owners : v # u => opc'[v] = opc[v] /\ oport'[v] = oport[v] /\ osvc'[v] = osvc[v]
  BY <1>1 DEF Go, TypeOK
<1>4. /\ Lists' /\ Attached(s)' = Attached(s) \ {p}
      /\ \A r \in Services \ {s} : Attached(r)' = Attached(r) /\ count'[r] = count[r]
      /\ \A r \in Services \ {s} : \A q : Listed(q, r) => Listed(q, r)'
      /\ \A y \in Ports : y \notin Attached(s) => next'[y] = next[y]
      /\ next'[p] = next[p]
      /\ \A y \in Ports : y # p => service'[y] = service[y]
      /\ service'[p] = Null
  <2>1. \A y \in Ports : Coming(y)' <=> Coming(y)
    BY <1>1, <1>3 DEF Coming
  <2> QED BY <1>1, <1>2, <2>1, UnlinkStep
<1>5. TypeOK'
  <2>1. ListTypes'
    BY <1>1, <1>2, UnlinkTypes
  <2> QED BY <1>1, <2>1 DEF Go, Detach, TypeOK, SvcTypeOK, ListTypes, loop, array
<1>6. \A r \in Services : cur[r] # p /\ called[r] # p
  <2> TAKE r \in Services
  <2>1. WalkAt(r) /\ p # Null
    BY NullIsNone DEF PortInv, ServiceAt
  <2>2. r # s => p \notin Attached(r)
    BY <1>0 DEF Attached
  <2>3. cur[r] # p
    <3>1. CASE r = s
      BY <1>1, <2>1, <3>1 DEF WalkAt
    <3>2. CASE r # s
      BY <1>1, <2>1, <2>2, <3>2 DEF WalkAt, AtPort, Visiting, Callbacks
    <3> QED BY <3>1, <3>2
  <2>4. called[r] # p
    BY <1>0, <1>1, <2>1, <2>3 DEF WalkAt, Callbacks
  <2> QED BY <2>3, <2>4
<1>7. OwnersInv'
  <2>1. ASSUME NEW v \in Owners PROVE OwnerAt(v)'
    <3>1. CASE v = u
      BY <1>1, <1>3, <1>4, <3>1 DEF OwnerAt
    <3>2. CASE v # u
      BY <1>1, <1>3, <1>4, <3>2 DEF OwnerAt, Carrying
    <3> QED BY <3>1, <3>2
  <2>2. \A v, w \in Owners : Apart(v, w)'
    BY <1>1, <1>3 DEF PortInv, OwnersInv, Apart
  <2>3. ASSUME NEW y \in Ports PROVE Untouched(y)'
    <3>1. CASE y = p
      BY <1>1, <1>4, <1>6, <3>1 DEF Untouched, loop
    <3>2. CASE y # p
      <4>1. Unlinked(y)' => Unlinked(y)
        BY <1>1, <1>3, <3>2 DEF Unlinked
      <4>2. Untouched(y) /\ (Unlinked(y) => y \notin Attached(s))
        BY UnlinkedOut DEF PortInv, OwnersInv
      <4> QED BY <1>1, <1>4, <3>2, <4>1, <4>2 DEF Untouched, loop
    <3> QED BY <3>1, <3>2
  <2> QED BY <2>1, <2>2, <2>3 DEF OwnersInv
<1>8. ServiceAt(s)'
  <2>1. WalkAt(s) /\ ArrayAt(s) /\ rpc[s] \notin Visiting \cup Callbacks
    BY <1>1 DEF PortInv, ServiceAt, WalkAt
  <2>2. WalkAt(s)'
    BY <1>1, <2>1 DEF WalkAt, Visiting, Callbacks, loop
  <2>3. ArrayAt(s)'
    BY <1>1, <1>4, <2>1 DEF ArrayAt, Visiting, Callbacks, loop, array
  <2>4. SleepAt(s)'
    BY <1>3 DEF SleepAt, Quiet, Linking
  <2> QED BY <2>2, <2>3, <2>4 DEF ServiceAt
<1>9. ASSUME NEW r \in Services \ {s} PROVE ServiceAt(r)'
  <2>1. Quiet(r)' => Quiet(r)
    BY <1>1, <1>3, NullIsNone DEF Quiet
  <2>2. \A y \in Ports : life[y] = "freed" => next'[y] = next[y]
    BY <1>1, <1>4, NullIsNone DEF Lists, Attached
  <2>3. called[r] \in Ports /\ service[called[r]] = Null => service'[called[r]] = Null
    BY <1>4
  <2>4. Bystander(r)
    BY <1>1, <1>4, <2>1, <2>2, <2>3 DEF Bystander, loop, array
  <2> QED BY <2>4, BystanderStep DEF PortInv
<1> QED BY <1>4, <1>5, <1>7, <1>8, <1>9 DEF PortInv

(* The old service is woken, and the port gets its new service before it is    *)
(* in the list of that service.                                                *)
LEMMA MoveStep ==
    ASSUME PortInv, NEW u \in Owners, NEW s \in Services, Move(u, s)
    PROVE  PortInv'
<1>0. PICK old \in Services, p \in Ports : old = osvc[u] /\ p = oport[u]
  BY OwnerFacts DEF Move, OwnerAt, Carrying
<1>1. /\ TypeOK /\ Lists /\ opc[u] = "move" /\ life[p] = "live" /\ service[p] = Null /\ Unlinked(p)
      /\ \A r \in Services : cur[r] # p /\ called[r] # p
      /\ \A v \in Owners : OwnerAt(v) /\ Apart(u, v) /\ Apart(v, u)
      /\ wake' = [wake EXCEPT ![old] = TRUE] /\ service' = [service EXCEPT ![p] = s]
      /\ Go(u, "attach", p, s)
      /\ UNCHANGED <<first, last, count, next, prev, loop, array, life, timer>>
  BY <1>0, OwnerFacts DEF Move, Update, OwnerAt, Unlinked, Untouched, Carrying
<1>2. /\ service'[p] = s /\ \A y \in Ports : y # p => service'[y] = service[y]
      /\ wake'[old] = TRUE /\ \A r \in Services : r # old => wake'[r] = wake[r]
  BY <1>1 DEF TypeOK, SvcTypeOK
<1>3. /\ opc'[u] = "attach" /\ oport'[u] = p /\ osvc'[u] = s
      /\ \A v \in Owners : v # u => opc'[v] = opc[v] /\ oport'[v] = oport[v] /\ osvc'[v] = osvc[v]
  BY <1>1 DEF Go, TypeOK
<1>4. \A v \in Owners : v # u /\ opc[v] \in Carrying => oport[v] # p
  BY <1>0, <1>1 DEF Apart, Carrying
<1>5. TypeOK'
  BY <1>1 DEF Go, Move, TypeOK, SvcTypeOK, loop, array
<1>6. ASSUME NEW r \in Services PROVE Attached(r)' = Attached(r)
  <2>1. Coming(p)' /\ \A y \in Ports : y # p => (Coming(y)' <=> Coming(y))
    BY <1>1, <1>3 DEF Coming
  <2>2. \A y \in Ports : y \in Attached(r)' <=> y \in Attached(r)
    BY <1>1, <1>2, <2>1, NullIsNone DEF Attached
  <2> QED BY <2>2 DEF Attached
<1>7. Lists' /\ \A r \in Services : \A q : Listed(q, r) => Listed(q, r)'
  BY <1>1, <1>2, <1>6 DEF Lists, Listed
<1>8. OwnersInv'
  <2>1. ASSUME NEW v \in Owners PROVE OwnerAt(v)'
    <3>1. CASE v = u
      BY <1>1, <1>3, <3>1 DEF OwnerAt
    <3>2. CASE v # u
      <4>1. OwnerAt(v) /\ (opc[v] \in Carrying => oport[v] # p)
        BY <1>1, <1>4, <3>2
      <4> QED BY <1>1, <1>2, <1>3, <3>2, <4>1 DEF OwnerAt, Carrying
    <3> QED BY <3>1, <3>2
  <2>2. ASSUME NEW v \in Owners, NEW w \in Owners PROVE Apart(v, w)'
    <3>1. Apart(v, w)
      BY DEF PortInv, OwnersInv
    <3> QED BY <1>0, <1>1, <1>3, <3>1 DEF Apart, Carrying
  <2>3. ASSUME NEW y \in Ports PROVE Untouched(y)'
    <3>1. Unlinked(y)' => Unlinked(y)
      BY <1>1, <1>3 DEF Unlinked
    <3>2. Untouched(y)
      BY DEF PortInv, OwnersInv
    <3> QED BY <1>1, <1>2, <3>1, <3>2 DEF Untouched, loop
  <2> QED BY <2>1, <2>2, <2>3 DEF OwnersInv
<1>9. ASSUME NEW r \in Services PROVE ServiceAt(r)'
  <2>1. Quiet(r)' => Quiet(r)
    BY <1>0, <1>1, <1>2, <1>3 DEF Quiet
  <2>2. called[r] \in Ports /\ service[called[r]] = Null => service'[called[r]] = Null
    BY <1>1, <1>2
  <2>3. wake[r] => wake'[r]
    BY <1>2
  <2>4. Bystander(r)
    BY <1>1, <1>6, <1>7, <2>1, <2>2, <2>3 DEF Bystander, loop, array
  <2> QED BY <2>4, BystanderStep DEF PortInv
<1> QED BY <1>5, <1>7, <1>8, <1>9 DEF PortInv

(* What the world does: data, hangups, time.                                   *)
LEMMA WorldStep ==
    ASSUME PortInv, UNCHANGED <<list, loop, array, life, wake, opc, oport, osvc>>, TypeOK',
           \A p \in Ports : timer'[p] # "off" => timer[p] # "off"
    PROVE  PortInv'
<1>1. /\ Lists' /\ \A r \in Services : Attached(r)' = Attached(r)
      /\ \A r \in Services : \A q : Listed(q, r) => Listed(q, r)'
  <2>1. \A r : Attached(r)' = Attached(r)
    BY AttachedSame DEF list
  <2> QED BY <2>1 DEF PortInv, Lists, Listed, list
<1>2. OwnersInv'
  <2>1. \A v \in Owners : OwnerAt(v)'
    BY DEF PortInv, OwnersInv, OwnerAt, list, loop
  <2>2. \A v, w \in Owners : Apart(v, w)'
    BY DEF PortInv, OwnersInv, Apart
  <2>3. \A y \in Ports : Untouched(y)'
    BY DEF PortInv, OwnersInv, Untouched, Unlinked, list, loop
  <2> QED BY <2>1, <2>2, <2>3 DEF OwnersInv
<1>3. ASSUME NEW r \in Services PROVE ServiceAt(r)'
  <2>1. Quiet(r)' => Quiet(r)
    BY DEF Quiet
  <2>2. \A p \in Attached(r) : p \in Ports
    BY DEF Attached
  <2>3. Bystander(r)
    BY <1>1, <2>1, <2>2 DEF Bystander, list, loop, array
  <2> QED BY <2>3, BystanderStep DEF PortInv
<1> QED BY <1>1, <1>2, <1>3 DEF PortInv

\* A timer becomes due.
LEMMA TimeUpStep ==
    ASSUME PortInv, NEW p \in Ports, TimeUp(p)
    PROVE  PortInv'
<1>1. TypeOK
  BY DEF PortInv
<1>2. timer' \in [Ports -> {"off", "armed", "due"}]
  BY <1>1 DEF TypeOK, SvcTypeOK, TimeUp
<1>3. \A y \in Ports : timer'[y] # "off" => timer[y] # "off"
  BY <1>1 DEF TypeOK, SvcTypeOK, TimeUp
<1>4. TypeOK'
  BY <1>1, <1>2 DEF TypeOK, SvcTypeOK, TimeUp, list, loop, array, envVars
<1> QED BY <1>3, <1>4, WorldStep DEF TimeUp, envVars

\* Input and hangups arrive.
LEMMA DataStep ==
    ASSUME PortInv, NEW p \in Ports, Input(p) \/ Hangup(p)
    PROVE  PortInv'
<1>1. UNCHANGED <<svcVars, opc, oport, osvc, twice>> /\ input' \subseteq Ports /\ dead' \subseteq Ports
  BY DEF Input, Hangup, PortInv, TypeOK
<1>2. TypeOK'
  BY <1>1 DEF PortInv, TypeOK, SvcTypeOK, svcVars, list, loop, array
<1> QED BY <1>1, <1>2, WorldStep DEF svcVars
--------------------------------------------------------------------------------
\* Nothing happens.
LEMMA PortStutter == ASSUME PortInv, UNCHANGED vars PROVE PortInv'
<1>1. UNCHANGED <<list, loop, array, life, timer, wake, envVars>>
  BY DEF vars, svcVars
<1>2. TypeOK'
  BY <1>1 DEF PortInv, TypeOK, SvcTypeOK, list, loop, array, envVars
<1> QED BY <1>1, <1>2, WorldStep DEF envVars

\* No ports, no threads.
LEMMA PortInit == Init => PortInv
<1> SUFFICES ASSUME Init PROVE PortInv
  OBVIOUS
<1> USE DEF Init, SvcInit
<1>1. TypeOK
  BY DEF TypeOK, SvcTypeOK
<1>2. \A s \in Services : Attached(s) = {}
  BY NullIsNone DEF Attached
<1>3. Lists
  <2>1. ASSUME NEW s \in Services PROVE \E q \in [1 .. count[s] -> Ports] : Listed(q, s)
    <3>1. <<>> \in [1 .. count[s] -> Ports] /\ <<>> \in Seq(Ports) /\ Len(<<>>) = 0
      OBVIOUS
    <3>2. Range(<<>>) = {}
      BY DEF Range
    <3>3. IsList(<<>>, first[s], last[s], count[s], next, prev)
      BY <3>1 DEF IsList
    <3> QED BY <1>2, <3>1, <3>2, <3>3 DEF Listed
  <2> QED BY <2>1 DEF Lists
<1>4. OwnersInv
  BY NullIsNone DEF OwnersInv, OwnerAt, Apart, Untouched, Unlinked, Carrying
<1>5. \A s \in Services : ServiceAt(s)
  BY <1>2 DEF ServiceAt, WalkAt, ArrayAt, SleepAt, Visiting, Callbacks
<1> QED BY <1>1, <1>3, <1>4, <1>5 DEF PortInv

(* An owner moves a port only while it is the last of its list.                *)
MovesLast == \A u \in Owners, p \in Ports : Detach(u, p) => next[p] = Null

\* All actions together.
LEMMA PortStep == ASSUME PortInv, [Next]_vars, MovesLast PROVE PortInv'
<1>1. ASSUME NEW s \in Services, Run(s) PROVE PortInv'
  BY <1>1, RunInitStep, RunDrainStep, RunLockStep, RunHupStep, RunInStep, RunQuietStep, RunDueStep,
     RunExpiredStep, RunNextStep, RunRebuildStep, PollStep, CallbackStep DEF Run, RunStep
<1>2. ASSUME NEW u \in Owners, OwnerStep(u) PROVE PortInv'
  BY <1>2, AttachStep, OwnerStartStep, OwnerCreateStep, OwnerUpdateStep, MoveStep DEF OwnerStep
<1>3. ASSUME NEW u \in Owners, NEW p \in Ports, Detach(u, p) \/ SetTimer(u, p) PROVE PortInv'
  BY <1>3, SetTimerStep, DetachStep DEF MovesLast
<1>4. ASSUME NEW u \in Owners, NEW p \in Ports, NEW s \in Services, NewPort(u, p, s) PROVE PortInv'
  BY <1>4, NewPortStep
<1>5. ASSUME NEW p \in Ports, Input(p) \/ Hangup(p) \/ TimeUp(p) PROVE PortInv'
  BY <1>5, DataStep, TimeUpStep
<1>6. CASE UNCHANGED vars
  BY <1>6, PortStutter
<1> QED BY <1>1, <1>2, <1>3, <1>4, <1>5, <1>6 DEF Next

(* PortInv says that the links of a service make one list.                     *)
LEMMA PortInvLists == PortInv => ListWellFormed
<1>1. ASSUME PortInv, NEW s \in Services
      PROVE  /\ Cardinality(Chain(s)) = count[s]
             /\ first[s] = Null <=> last[s] = Null
             /\ last[s] # Null => last[s] \in Chain(s) /\ next[last[s]] = Null
             /\ \A p \in Chain(s) :
                  /\ service[p] = s /\ life[p] = "live"
                  /\ IF p = first[s] THEN prev[p] = Null
                     ELSE prev[p] \in Chain(s) /\ next[prev[p]] = p
  <2>1. PICK q \in [1 .. count[s] -> Ports] : Listed(q, s)
    BY <1>1 DEF PortInv, Lists
  <2>2. TypeOK /\ \A p \in Ports : service[p] # Null => life[p] = "live"
    BY <1>1 DEF PortInv, Lists
  <2>3. /\ Chain(s) = Attached(s) /\ Cardinality(Attached(s)) = count[s]
        /\ first[s] = Null <=> last[s] = Null
        /\ last[s] \in Attached(s) \cup {Null} /\ (last[s] # Null => next[last[s]] = Null)
        /\ first[s] # Null => prev[first[s]] = Null
    BY <2>1, <2>2, ListAt
  <2>4. \A p \in Attached(s) : /\ prev[p] \in Attached(s) \cup {Null}
                               /\ IF prev[p] = Null THEN p = first[s] ELSE next[prev[p]] = p
    BY <2>1, <2>2, ListAt
  <2>5. \A p \in Attached(s) : service[p] = s /\ life[p] = "live" /\ p # Null
    BY <2>2, NullIsNone DEF Attached
  <2>6. \A p \in Attached(s) : IF p = first[s] THEN prev[p] = Null
                               ELSE prev[p] \in Attached(s) /\ next[prev[p]] = p
    BY <2>3, <2>4, <2>5
  <2> QED BY <2>3, <2>5, <2>6
<1> QED BY <1>1 DEF ListWellFormed

(* PortInv says what a service sleeps on.                                      *)
LEMMA PortInvSleep == PortInv => NoMissedUpdate
<1>1. ASSUME PortInv, NEW s \in Services, rpc[s] = "poll", Quiet(s)
      PROVE  /\ polled[s] = Chain(s)
             /\ \A p \in Chain(s) : ufd[p] = s
             /\ (\E p \in Chain(s) : timer[p] # "off") => timed[s]
  <2>1. SleepAt(s) /\ Chain(s) = Attached(s)
    BY <1>1, KnownService
  <2> QED BY <1>1, <2>1 DEF SleepAt
<1> QED BY <1>1 DEF NoMissedUpdate, Quiet, Linking

(* PortInv says what run() looks at, if only disconnect deletes ports.         *)
LEMMA PortInvAlive ==
    ASSUME Deleting \subseteq {"disconnect"}, PortInv
    PROVE  NoUseAfterFree
<1>1. ASSUME NEW s \in Services, rpc[s] \in {"visit", "timer", "due"}, cur[s] # Null
      PROVE  life[cur[s]] = "live"
  <2>1. WalkAt(s) /\ \A p \in Ports : service[p] # Null => life[p] = "live"
    BY KnownService DEF PortInv, Lists
  <2>2. cur[s] \in Attached(s)
    BY <1>1, <2>1 DEF WalkAt, AtPort
  <2> QED BY <2>1, <2>2, NullIsNone DEF Attached
<1> QED BY <1>1 DEF NoUseAfterFree

(* What the theorems below say of every state.                                 *)
PortsCorrect ==
    /\ TypeOK /\ ListWellFormed /\ NoMissedUpdate
    /\ Deleting \subseteq {"disconnect"} => NoUseAfterFree

\* What PortInv is for.
LEMMA PortInvShows == PortInv => PortsCorrect
BY PortInvLists, PortInvSleep, PortInvAlive DEF PortInv, PortsCorrect

(* PortInv holds as long as the owners that call SocketPort::attach on an      *)
(* attached port do it to the last port of a list only: attach leaves           *)
(* port->next as it is (socketport.cpp:424), so that a port moved from the      *)
(* middle of a list would bring its old successors along.                      *)
THEOREM PortsInvariant == Spec /\ [][MovesLast]_vars => []PortInv
<1>1. PortInv /\ [Next]_vars /\ [MovesLast]_vars => PortInv'
  BY PortStep, PortStutter
<1> QED BY <1>1, PortInit, PTL DEF Spec

(* Nobody moves anything, or there is one port: then it is the last.           *)
LEMMA OnePort ==
    ASSUME Reattaching = FALSE \/ (\A p, q \in Ports : p = q), PortInv
    PROVE  MovesLast
<1> SUFFICES ASSUME NEW u \in Owners, NEW p \in Ports, Detach(u, p), next[p] # Null PROVE FALSE
  BY DEF MovesLast
<1>1. PICK s \in Services : s = service[p]
  BY DEF Detach, PortInv, TypeOK, SvcTypeOK
<1>2. p \in Attached(s)
  BY <1>1 DEF Detach, Attached, Coming
<1>3. PICK q \in [1 .. count[s] -> Ports] : Listed(q, s)
  BY DEF PortInv, Lists
<1>4. next[p] \in Attached(s) /\ next[p] # p
  BY <1>2, <1>3, ListAt DEF PortInv
<1>5. next[p] \in Ports
  BY <1>4 DEF Attached
<1> QED BY <1>4, <1>5 DEF Detach

--------------------------------------------------------------------------------
(* One thread for a service, although Thread::start tests and creates without  *)
(* a lock.  If no port moves, the first port that a service gets is the only   *)
(* one that is attached while there is no port and no thread.                  *)
Starting == {"start", "create"}

Sole(u) == \A v \in Owners : opc[v] \in Starting /\ osvc[v] = osvc[u] => v = u

StartAt(u) ==
    /\ opc[u] = "create" => rpc[osvc[u]] = "off"
    /\ ~Reattaching /\ opc[u] \in Starting =>
          rpc[osvc[u]] = "off" /\ count[osvc[u]] > 0 /\ Sole(u)

StartTypes ==
    /\ opc \in [Owners -> {"idle", "attach", "start", "create", "update", "move"}]
    /\ osvc \in [Owners -> Services \cup {Null}]
    /\ rpc \in [Services -> {"off", "init", "drain", "lock", "visit", "timer", "due", "poll"}
                             \cup Callbacks]
    /\ count \in [Services -> Int]
    /\ service \in [Ports -> Services \cup {Null}]
    /\ \A u \in Owners : opc[u] # "idle" => osvc[u] \in Services

StartInv == StartTypes /\ OneThread /\ \A u \in Owners : StartAt(u)

(* Steps that start no thread, attach no port, and detach none from a service  *)
(* without a thread.                                                           *)
LEMMA StartKept ==
    ASSUME StartInv, StartTypes', twice' = twice,
           \A s \in Services : rpc[s] = "off" => rpc'[s] = "off" /\ (~Reattaching => count'[s] >= count[s]),
           \A u \in Owners : opc'[u] \in Starting => opc'[u] = opc[u] /\ osvc'[u] = osvc[u]
    PROVE  StartInv'
<1>1. ASSUME NEW u \in Owners PROVE StartAt(u)'
  <2>1. CASE opc'[u] \in Starting
    <3>1. opc'[u] = opc[u] /\ osvc'[u] = osvc[u] /\ osvc[u] \in Services /\ StartAt(u)
      BY <2>1 DEF StartInv, StartTypes, Starting
    <3>2. Sole(u) => Sole(u)'
      BY <3>1 DEF Sole
    <3>3. count[osvc[u]] \in Int /\ count'[osvc[u]] \in Int
      BY <3>1 DEF StartInv, StartTypes
    <3> QED BY <2>1, <3>1, <3>2, <3>3 DEF StartAt
  <2>2. CASE opc'[u] \notin Starting
    BY <2>2 DEF StartAt, Starting
  <2> QED BY <2>1, <2>2
<1> QED BY <1>1 DEF StartInv, OneThread

\* run() of a service.
LEMMA StartRun ==
    ASSUME StartInv, NEW s \in Services, Run(s)
    PROVE  StartInv'
<1>1. StartTypes /\ UNCHANGED <<opc, osvc, twice>>
  BY DEF StartInv, Run, RunStep, Poll, Callback, envVars
<1>2. rpc[s] # "off" /\ rpc' \in [Services -> {"off", "init", "drain", "lock", "visit", "timer", "due", "poll"}
                                                 \cup Callbacks]
      /\ \A r \in Services : r # s => rpc'[r] = rpc[r]
  <2>1. CASE RunStep(s)
    BY <1>1, <2>1 DEF StartTypes, Callbacks, RunStep, RunInit, RunDrain, RunLock, RunHup, RunIn, RunQuiet,
       RunDue, RunExpired, RunNext, RunRebuild
  <2>2. CASE Poll(s)
    BY <1>1, <2>2 DEF StartTypes, Callbacks, Poll, RunPoll
  <2>3. CASE Callback(s)
    BY <1>1, <2>3 DEF StartTypes, Callbacks, Callback, RunReturn
  <2> QED BY <2>1, <2>2, <2>3 DEF Run
<1>3. /\ count' = count \/ count' = [count EXCEPT ![s] = @ - 1]
      /\ service' = service \/ \E p : service' = [service EXCEPT ![p] = Null]
  <2>1. CASE RunStep(s)
    BY <2>1 DEF RunStep, RunInit, RunDrain, RunLock, RunHup, RunIn, RunQuiet,
       RunDue, RunExpired, RunNext, RunRebuild, Unlink, list
  <2>2. CASE Poll(s)
    BY <2>2 DEF Poll, RunPoll, list
  <2>3. CASE Callback(s)
    BY <2>3 DEF Callback, Destroy, Unlink, list
  <2> QED BY <2>1, <2>2, <2>3 DEF Run
<1>4. count' \in [Services -> Int] /\ \A r \in Services : r # s => count'[r] = count[r]
  BY <1>1, <1>3 DEF StartTypes
<1>5. StartTypes'
  <2>1. service' \in [Ports -> Services \cup {Null}]
    BY <1>1, <1>3 DEF StartTypes
  <2> QED BY <1>1, <1>2, <1>4, <2>1 DEF StartTypes
<1>6. \A r \in Services : rpc[r] = "off" => rpc'[r] = "off" /\ count'[r] >= count[r]
  BY <1>1, <1>2, <1>4 DEF StartTypes
<1> QED BY <1>1, <1>5, <1>6, StartKept

(* An owner that goes elsewhere than to Thread::start.                         *)
LEMMA StartGoes ==
    ASSUME StartInv, NEW u \in Owners, NEW label \in {"idle", "attach", "update", "move"},
           NEW p, NEW s \in Services \cup {Null}, label # "idle" => s \in Services,
           Go(u, label, p, s), UNCHANGED <<rpc, twice>>,
           \/ count' = count
           \/ Reattaching /\ \E r \in Services : count' = [count EXCEPT ![r] = @ - 1],
           \/ service' = service
           \/ \E q : \E r \in Services \cup {Null} : service' = [service EXCEPT ![q] = r]
    PROVE  StartInv'
<1>1. StartTypes
  BY DEF StartInv
<1>2. /\ opc'[u] = label /\ osvc'[u] = s
      /\ \A v \in Owners : v # u => opc'[v] = opc[v] /\ osvc'[v] = osvc[v]
  BY <1>1 DEF StartTypes, Go
<1>3. StartTypes'
  <2>1. service' \in [Ports -> Services \cup {Null}]
    BY <1>1 DEF StartTypes
  <2>2. count' \in [Services -> Int]
    BY <1>1 DEF StartTypes
  <2>3. /\ opc' \in [Owners -> {"idle", "attach", "start", "create", "update", "move"}]
        /\ osvc' \in [Owners -> Services \cup {Null}]
    BY <1>1 DEF StartTypes, Go
  <2> QED BY <1>1, <1>2, <2>1, <2>2, <2>3 DEF StartTypes
<1>4. ~Reattaching => \A r \in Services : count'[r] >= count[r]
  BY <1>1 DEF StartTypes
<1>5. \A v \in Owners : opc'[v] \in Starting => opc'[v] = opc[v] /\ osvc'[v] = osvc[v]
  BY <1>2 DEF Starting
<1> QED BY <1>3, <1>4, <1>5, StartKept

\* attach() decides whether it starts the thread.
LEMMA StartAttach ==
    ASSUME StartInv, NEW u \in Owners, Attach(u)
    PROVE  StartInv'
<1> DEFINE s == osvc[u]
           label == IF FirstPort(s) THEN "start" ELSE "update"
<1>1. StartTypes /\ opc[u] = "attach" /\ s \in Services /\ UNCHANGED <<rpc, twice>>
  BY DEF StartInv, StartTypes, Attach, loop
<1>2. /\ opc'[u] = label /\ osvc'[u] = s
      /\ \A v \in Owners : v # u => opc'[v] = opc[v] /\ osvc'[v] = osvc[v]
  BY <1>1 DEF StartTypes, Attach, Go
<1>3. /\ count' \in [Services -> Int] /\ \A r \in Services : count'[r] >= count[r]
      /\ count'[s] = count[s] + 1
  BY <1>1 DEF StartTypes, Attach, Link
<1>4. StartTypes'
  <2>1. service' \in [Ports -> Services \cup {Null}]
    BY <1>1 DEF StartTypes, Attach, Link
  <2>2. /\ opc' \in [Owners -> {"idle", "attach", "start", "create", "update", "move"}]
        /\ osvc' \in [Owners -> Services \cup {Null}]
    BY <1>1 DEF StartTypes, Attach, Go
  <2> QED BY <1>1, <1>2, <1>3, <2>1, <2>2 DEF StartTypes
<1>5. ASSUME NEW v \in Owners PROVE StartAt(v)'
  <2>1. StartAt(v) /\ (opc[v] \in Starting => osvc[v] \in Services)
    BY <1>1 DEF StartInv, StartTypes, Starting
  <2>2. CASE v # u /\ opc[v] \in Starting
    <3>1. opc'[v] = opc[v] /\ osvc'[v] = osvc[v] /\ osvc[v] \in Services
      BY <1>2, <2>1, <2>2
    <3>2. count[osvc[v]] \in Int /\ count'[osvc[v]] \in Int /\ count'[osvc[v]] >= count[osvc[v]]
      BY <1>1, <1>3, <3>1 DEF StartTypes
    <3>3. ~Reattaching => Sole(v)'
      <4>1. SUFFICES ASSUME ~Reattaching, NEW w \in Owners, opc'[w] \in Starting, osvc'[w] = osvc'[v]
                     PROVE  w = v
        BY DEF Sole
      <4>2. Sole(v) /\ count[osvc[v]] > 0
        BY <2>1, <2>2, <4>1 DEF StartAt
      <4>3. CASE w = u
        BY <1>2, <3>1, <3>2, <4>1, <4>2, <4>3 DEF FirstPort, Starting
      <4>4. CASE w # u
        BY <1>2, <3>1, <4>1, <4>2, <4>4 DEF Sole
      <4> QED BY <4>3, <4>4
    <3> QED BY <1>1, <2>1, <2>2, <3>1, <3>2, <3>3 DEF StartAt
  <2>3. CASE v = u
    <3>1. CASE label = "start" /\ ~Reattaching
      <4>1. rpc'[s] = "off" /\ count[s] = 0 /\ count'[s] > 0
        BY <1>1, <1>3, <3>1 DEF FirstPort
      <4>2. Sole(u)'
        <5>1. SUFFICES ASSUME NEW w \in Owners, opc'[w] \in Starting, osvc'[w] = s, w # u
                       PROVE  FALSE
          BY <1>2 DEF Sole
        <5>2. StartAt(w) /\ opc[w] \in Starting /\ osvc[w] = s
          BY <1>2, <5>1 DEF StartInv
        <5> QED BY <3>1, <4>1, <5>2 DEF StartAt
      <4> QED BY <1>1, <1>2, <2>3, <3>1, <4>1, <4>2 DEF StartAt
    <3>2. CASE label # "start" \/ Reattaching
      BY <1>2, <2>3, <3>2 DEF StartAt, Starting
    <3> QED BY <3>1, <3>2
  <2>4. CASE v # u /\ opc[v] \notin Starting
    BY <1>2, <2>4 DEF StartAt, Starting
  <2> QED BY <2>2, <2>3, <2>4
<1> QED BY <1>1, <1>4, <1>5 DEF StartInv, OneThread

\* The test of Thread::start.
LEMMA StartTest ==
    ASSUME StartInv, NEW u \in Owners, OwnerStart(u)
    PROVE  StartInv'
<1>1. StartTypes /\ opc[u] = "start" /\ osvc[u] \in Services
      /\ UNCHANGED <<rpc, twice, count, service>>
  BY DEF StartInv, StartTypes, OwnerStart, svcVars, list, loop
<1>2. /\ opc'[u] \in {"create", "idle"}
      /\ opc'[u] = "create" => rpc[osvc[u]] = "off" /\ osvc'[u] = osvc[u]
      /\ \A v \in Owners : v # u => opc'[v] = opc[v] /\ osvc'[v] = osvc[v]
  BY <1>1 DEF StartTypes, OwnerStart, Go
<1>3. StartTypes'
  <2>1. /\ opc' \in [Owners -> {"idle", "attach", "start", "create", "update", "move"}]
        /\ osvc' \in [Owners -> Services \cup {Null}]
    BY <1>1 DEF StartTypes, OwnerStart, Go
  <2> QED BY <1>1, <1>2, <2>1 DEF StartTypes
<1>4. \A v \in Owners : opc'[v] \in Starting => opc[v] \in Starting /\ osvc'[v] = osvc[v]
  BY <1>1, <1>2 DEF Starting
<1>5. ASSUME NEW v \in Owners PROVE StartAt(v)'
  <2>1. StartAt(v) /\ (Sole(v) => Sole(v)' \/ opc'[v] \notin Starting)
    BY <1>4 DEF StartInv, Sole
  <2> QED BY <1>1, <1>2, <1>4, <2>1 DEF StartAt, Starting
<1> QED BY <1>1, <1>3, <1>5 DEF StartInv, OneThread

\* pthread_create.
LEMMA StartCreate ==
    ASSUME StartInv, NEW u \in Owners, OwnerCreate(u),
           Reattaching = FALSE \/ (\A v, w \in Owners : v = w)
    PROVE  StartInv'
<1> DEFINE s == osvc[u]
<1>1. StartTypes /\ opc[u] = "create" /\ s \in Services /\ UNCHANGED <<count, service>>
  BY DEF StartInv, StartTypes, OwnerCreate, list
<1>2. rpc[s] = "off"
  BY <1>1 DEF StartInv, StartAt
<1>3. twice' = twice /\ rpc' = [rpc EXCEPT ![s] = "init"]
  BY <1>2 DEF OwnerCreate, StartThread
<1>4. /\ opc'[u] = "idle" /\ osvc'[u] = Null
      /\ \A v \in Owners : v # u => opc'[v] = opc[v] /\ osvc'[v] = osvc[v]
  BY <1>1 DEF StartTypes, OwnerCreate, Go
<1>5. StartTypes'
  <2>1. /\ opc' \in [Owners -> {"idle", "attach", "start", "create", "update", "move"}]
        /\ osvc' \in [Owners -> Services \cup {Null}]
    BY <1>1 DEF StartTypes, OwnerCreate, Go
  <2>2. rpc' \in [Services -> {"off", "init", "drain", "lock", "visit", "timer", "due", "poll"}
                              \cup Callbacks]
    BY <1>1, <1>3 DEF StartTypes
  <2> QED BY <1>1, <1>4, <2>1, <2>2 DEF StartTypes
<1>6. ASSUME NEW v \in Owners, opc'[v] \in Starting PROVE StartAt(v)'
  <2>1. v # u /\ ~Reattaching /\ opc[v] \in Starting /\ opc'[v] = opc[v] /\ osvc'[v] = osvc[v]
    BY <1>4, <1>6 DEF Starting
  <2>2. /\ rpc[osvc[v]] = "off" /\ count[osvc[v]] > 0 /\ Sole(v) /\ osvc[v] \in Services
    BY <1>1, <2>1 DEF StartInv, StartTypes, StartAt, Starting
  <2>3. osvc[v] # s
    BY <1>1, <2>1, <2>2 DEF Sole, Starting
  <2>4. rpc'[osvc[v]] = "off"
    BY <1>1, <1>3, <2>2, <2>3 DEF StartTypes
  <2>5. Sole(v)'
    BY <1>4, <2>1, <2>2 DEF Sole, Starting
  <2> QED BY <1>1, <2>1, <2>2, <2>4, <2>5 DEF StartAt
<1>7. ASSUME NEW v \in Owners, opc'[v] \notin Starting PROVE StartAt(v)'
  BY <1>7 DEF StartAt, Starting
<1> QED BY <1>3, <1>5, <1>6, <1>7 DEF StartInv, OneThread

\* All actions together.
LEMMA StartStep ==
    ASSUME StartInv, [Next]_vars, Reattaching = FALSE \/ (\A u, v \in Owners : u = v)
    PROVE  StartInv'
<1>1. StartTypes
  BY DEF StartInv
<1>2. ASSUME NEW u \in Owners, OwnerStep(u) PROVE StartInv'
  <2>1. CASE OwnerUpdate(u)
    BY <2>1, StartGoes DEF OwnerUpdate, list, loop
  <2>2. ASSUME NEW s \in Services, Move(u, s) PROVE StartInv'
    BY <2>2, StartGoes DEF Move, loop
  <2> QED BY <1>2, <2>1, <2>2, StartAttach, StartTest, StartCreate DEF OwnerStep
<1>3. ASSUME NEW u \in Owners, NEW p \in Ports, Detach(u, p) PROVE StartInv'
  <2>1. service[p] \in Services
    BY <1>1, <1>3 DEF Detach, StartTypes
  <2> QED BY <1>3, <2>1, StartGoes DEF Detach, Unlink, loop
<1>4. ASSUME NEW u \in Owners, NEW p \in Ports, SetTimer(u, p) PROVE StartInv'
  <2>1. service[p] \in Services
    BY <1>1, <1>4 DEF SetTimer, StartTypes
  <2> QED BY <1>4, <2>1, StartGoes DEF SetTimer, list, loop
<1>5. ASSUME NEW u \in Owners, NEW p \in Ports, NEW s \in Services, NewPort(u, p, s) PROVE StartInv'
  BY <1>5, StartGoes DEF NewPort, list, loop
<1>6. CASE UNCHANGED <<opc, osvc, rpc, count, service, twice>>
  BY <1>1, <1>6 DEF StartInv, StartTypes, StartAt, Sole, OneThread
<1>7. ASSUME NEW p \in Ports, Input(p) \/ Hangup(p) \/ TimeUp(p) PROVE StartInv'
  BY <1>6, <1>7 DEF Input, Hangup, TimeUp, svcVars, envVars, list, loop
<1>8. CASE UNCHANGED vars
  BY <1>6, <1>8 DEF vars, svcVars, envVars, list, loop
<1> QED BY <1>2, <1>3, <1>4, <1>5, <1>7, <1>8, StartRun DEF Next

(* A service gets one thread, although Thread::start tests and creates without *)
(* a lock, if no port is moved away from it or one owner does everything.  With *)
(* two owners and moves it may get two.                                        *)
THEOREM StartedOnce ==
    ASSUME Reattaching = FALSE \/ (\A u, v \in Owners : u = v)
    PROVE  Spec => []OneThread
<1>1. Init => StartInv
  BY DEF Init, SvcInit, StartInv, StartTypes, StartAt, OneThread, Starting
<1>2. StartInv /\ [Next]_vars => StartInv'
  BY StartStep
<1>3. StartInv => OneThread
  BY DEF StartInv
<1> QED BY <1>1, <1>2, <1>3, PTL DEF Spec
--------------------------------------------------------------------------------
(* Without moves, any number of owners attach, start and time ports; nothing   *)
(* has to be assumed.                                                          *)
THEOREM FixedPorts ==
    ASSUME Reattaching = FALSE
    PROVE  Spec => [](OneThread /\ PortsCorrect)
<1>1. PortInv /\ [Next]_vars => PortInv'
  BY OnePort, PortStep
<1>2. Spec => []OneThread
  BY StartedOnce
<1> QED BY <1>1, <1>2, PortInvShows, PortInit, PTL DEF Spec

(* One port that is moved from service to service while other threads attach,  *)
(* start and time it, as long as no service gets two threads.                  *)
THEOREM OnePortMoves ==
    ASSUME \A p, q \in Ports : p = q
    PROVE  Spec => [](OneThread => PortsCorrect)
<1>1. PortInv /\ [Next]_vars => PortInv'
  BY OnePort, PortStep
<1> QED BY <1>1, PortInvShows, PortInit, PTL DEF Spec

(* Every variable of the services, the ports and the owners has its type.      *)
THEOREM PortTypesCorrect == Spec /\ [][MovesLast]_vars => []TypeOK
<1>1. PortInv => TypeOK
  BY PortInvShows DEF PortsCorrect
<1> QED BY <1>1, PortsInvariant, PTL

(* The links of the ports of a service make one list, whatever the owners and  *)
(* the callbacks attach, move, detach and delete meanwhile, as long as no      *)
(* service gets two threads.                                                   *)
THEOREM ListsCorrect == Spec /\ [][MovesLast]_vars => [](OneThread => ListWellFormed)
<1>1. PortInv => ListWellFormed
  BY PortInvShows DEF PortsCorrect
<1> QED BY <1>1, PortsInvariant, PTL

(* A service whose pipe is empty, and that nobody is about to wake, sleeps on  *)
(* the ports it has, no longer than the timers that are set.                   *)
THEOREM UpdatesCorrect == Spec /\ [][MovesLast]_vars => [](OneThread => NoMissedUpdate)
<1>1. PortInv => NoMissedUpdate
  BY PortInvShows DEF PortsCorrect
<1> QED BY <1>1, PortsInvariant, PTL

(* If no callback but disconnect deletes its port, run() never looks at a port *)
(* that is gone.  (HTTPSession::pending does delete it: Svc_freed.)            *)
THEOREM NoPortUsedAfterFree ==
    ASSUME Deleting \subseteq {"disconnect"}
    PROVE  Spec /\ [][MovesLast]_vars => [](OneThread => NoUseAfterFree)
<1>1. PortInv => NoUseAfterFree
  BY PortInvShows DEF PortsCorrect
<1> QED BY <1>1, PortsInvariant, PTL
================================================================================
