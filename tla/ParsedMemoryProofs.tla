------------------------ MODULE ParsedMemoryProofs -------------------------
(***************************************************************************)
(* The inductive invariants of what the driver parses: the strings of the  *)
(* firmware, with what the driver knows of the machine from them, and the  *)
(* memory in which it looks for processes; after the induction they rest   *)
(* on.  KernelChecksProofs shows that a step of the driver is a step of one *)
(* of these components and draws the conclusions.                          *)
(***************************************************************************)
EXTENDS ProcessScan, SystemInformation, TLAPS

LOCAL INSTANCE WellFoundedInduction

\* Zenon first: it needs far less time than the translation for SMT.
USE ZenonT(10), SMTT(30)

-----------------------------------------------------------------------------
(* Induction, as a statement about sets, and functions defined by recursion. *)

LEMMA LeastNumber ==
    ASSUME NEW S \in SUBSET Nat, S # {}
    PROVE  /\ Min(S) \in S
           /\ \A n \in S : Min(S) <= n
<1>1. PICK m \in S : \A n \in S : ~ (<<n, m>> \in OpToRel(<, Nat))
  BY WFMin, NatLessThanWellFounded
<1>2. \A n \in S : ~(n < m)
  BY <1>1 DEF OpToRel
<1>3. \A n \in S : m <= n
  BY <1>2
<1> QED
  BY <1>3 DEF Min

LEMMA Induction ==
    ASSUME NEW S \in SUBSET Nat, 0 \in S, \A n \in S : n + 1 \in S
    PROVE  S = Nat
<1> SUFFICES ASSUME Nat \ S # {} PROVE FALSE
  OBVIOUS
<1> DEFINE m == Min(Nat \ S)
<1>1. m \in Nat \ S /\ \A n \in Nat \ S : m <= n
  BY LeastNumber
<1> HIDE DEF m
<1>2. m # 0
  BY <1>1
<1>3. m - 1 \in Nat /\ m - 1 \in S
  BY SMTT(30), <1>1, <1>2
<1> QED
  BY SMTT(30), <1>1, <1>3

Recursion(f, n, init, step) ==
    f[0] = init /\ \A i \in 1..n : f[i] = step[<<f[i - 1], i>>]

\* A function of 0..n defined by its first value and a step exists.
LEMMA RecursionExists ==
    ASSUME NEW T, NEW n \in Nat, NEW init \in T, NEW step \in [T \X (1..n) -> T]
    PROVE  \E f \in [0..n -> T] : Recursion(f, n, init, step)
<1> DEFINE Defines(f, m) == /\ f \in [0..m -> T] /\ f[0] = init
                            /\ \A i \in 1..m : f[i] = step[<<f[i - 1], i>>]
           S == {m \in Nat : m <= n => \E f : Defines(f, m)}
<1>1. 0 \in S
  <2>1. Defines([i \in 0..0 |-> init], 0)
    OBVIOUS
  <2> QED
    BY <2>1
<1>2. ASSUME NEW m \in S PROVE m + 1 \in S
  <2> SUFFICES ASSUME m + 1 <= n PROVE \E f : Defines(f, m + 1)
    BY SMTT(30)
  <2>1. m \in Nat /\ m <= n
    OBVIOUS
  <2>2. PICK f : Defines(f, m)
    BY <2>1
  <2> DEFINE last == step[<<f[m], m + 1>>]
             g == [i \in 0..(m + 1) |-> IF i <= m THEN f[i] ELSE last]
  <2>3. last \in T
    BY SMTT(30), <2>1, <2>2
  <2> HIDE DEF last
  <2>4. g \in [0..(m + 1) -> T]
    BY SMTT(30), <2>1, <2>2, <2>3
  <2>5. g[0] = init
    BY SMTT(30), <2>1, <2>2
  <2>6. ASSUME NEW i \in 1..(m + 1) PROVE g[i] = step[<<g[i - 1], i>>]
    <3>1. CASE i <= m
      <4>1. i \in 1..m /\ g[i] = f[i] /\ g[i - 1] = f[i - 1]
        BY <2>1, <3>1
      <4> HIDE DEF g
      <4> QED
        BY <2>2, <4>1
    <3>2. CASE i = m + 1
      <4>1. g[i] = last /\ g[i - 1] = f[m]
        BY SMTT(30), <2>1, <3>2
      <4> HIDE DEF g
      <4> QED
        BY <3>2, <4>1 DEF last
    <3> QED
      BY SMTT(30), <2>1, <3>1, <3>2
  <2> HIDE DEF g
  <2>7. Defines(g, m + 1)
    BY <2>4, <2>5, <2>6
  <2> QED
    BY <2>7
<1> HIDE DEF S
<1>3. n \in S
  <2>1. S \in SUBSET Nat
    BY DEF S
  <2> QED
    BY <1>1, <1>2, <2>1, Induction
<1>4. PICK f : Defines(f, n)
  BY <1>3 DEF S
<1> QED
  BY <1>4 DEF Recursion

\* count[i] of the first i numbers are not zero.
Counts(count, times) ==
    /\ count \in [Nat -> Nat] /\ count[0] = 0
    /\ \A i \in Nat : count[i + 1] = IF times[i + 1] = 0 THEN count[i] ELSE count[i] + 1

\* A sum of numbers is at least the number of those that are not zero.
LEMMA SumAtLeastCount ==
    ASSUME NEW times \in Seq(Nat), NEW count, Counts(count, times)
    PROVE  LET sum[i \in 0..Len(times)] == IF i = 0 THEN 0 ELSE sum[i - 1] + times[i]
           IN  sum[Len(times)] \in Nat /\ count[Len(times)] <= sum[Len(times)]
<1> DEFINE n == Len(times)
           step == [p \in Nat \X (1..n) |-> p[1] + times[p[2]]]
           Sums(f) == f = [i \in 0..n |-> IF i = 0 THEN 0 ELSE f[i - 1] + times[i]]
           total == CHOOSE f : Sums(f)
           c(i) == count[i]
<1>1. n \in Nat /\ \A i \in 1..n : times[i] \in Nat
  OBVIOUS
<1> HIDE DEF n
<1>2. step \in [Nat \X (1..n) -> Nat]
  BY SMTT(30), <1>1
<1> HIDE DEF step
<1>3. \E f : Sums(f)
  <2>1. PICK f \in [0..n -> Nat] : Recursion(f, n, 0, step)
    BY <1>1, <1>2, RecursionExists, Zenon
  <2>2. ASSUME NEW i \in 1..n PROVE step[<<f[i - 1], i>>] = f[i - 1] + times[i]
    <3>1. i - 1 \in 0..n
      BY SMTT(30), <1>1
    <3>2. f[i - 1] \in Nat
      BY <3>1
    <3> QED
      BY <3>2 DEF step
  <2>3. \A i \in 0..n : i # 0 => i \in 1..n
    BY <1>1
  <2>4. Sums(f)
    BY <2>1, <2>2, <2>3 DEF Recursion
  <2> QED
    BY <2>4
<1>4. Sums(total)
  BY <1>3
<1> HIDE DEF total
<1>0. /\ c(0) = 0 /\ \A i \in Nat : c(i) \in Nat
      /\ \A i \in Nat : times[i + 1] = 0 => c(i + 1) = c(i)
      /\ \A i \in Nat : times[i + 1] # 0 => c(i + 1) = c(i) + 1
  BY Zenon DEF Counts
<1> HIDE DEF c
<1>5. total[0] = 0 /\ \A i \in 1..n : total[i] = total[i - 1] + times[i]
  BY SMTT(30), <1>1, <1>4
<1> DEFINE S == {i \in Nat : i <= n => total[i] \in Nat /\ c(i) <= total[i]}
<1>6. 0 \in S
  <2>1. total[0] \in Nat /\ c(0) <= total[0]
    BY ONLY <1>0, <1>5, SMTT(30)
  <2> QED
    BY <2>1
<1>7. ASSUME NEW i \in S PROVE i + 1 \in S
  <2> SUFFICES ASSUME i + 1 <= n
               PROVE  total[i + 1] \in Nat /\ c(i + 1) <= total[i + 1]
    OBVIOUS
  <2>1. /\ i \in Nat /\ total[i] \in Nat /\ c(i) \in Nat /\ c(i) <= total[i]
        /\ i + 1 \in 1..n /\ (i + 1) - 1 = i
    BY SMTT(30), <1>0, <1>1
  <2>2. total[i + 1] = total[i] + times[i + 1] /\ times[i + 1] \in Nat
    BY <1>1, <1>5, <2>1
  <2> HIDE DEF S
  <2>3. \A a, b, t \in Nat : a <= b =>
            b + t \in Nat /\ a <= b + t /\ (t # 0 => a + 1 <= b + t)
    BY ONLY SMTT(30)
  <2>4. /\ times[i + 1] = 0 => c(i + 1) = c(i)
        /\ times[i + 1] # 0 => c(i + 1) = c(i) + 1
    BY <1>0, <2>1, Zenon
  <2> QED
    BY <2>1, <2>2, <2>3, <2>4, Zenon
<1>8. n \in S
  <2>1. S \in SUBSET Nat
    OBVIOUS
  <2> HIDE DEF S
  <2> QED
    BY <1>1, <1>6, <1>7, <2>1, Induction
<1>9. total[n] \in Nat /\ c(n) <= total[n]
  BY <1>1, <1>8
<1> QED
  BY <1>9, Zenon DEF total, n, c

-----------------------------------------------------------------------------
(* Strings of the firmware.                                                *)

LEMMA SameSequence ==
    ASSUME NEW S, NEW s \in Seq(S), NEW t \in Seq(S), Len(s) = Len(t),
           \A i \in 1..Len(s) : s[i] = t[i]
    PROVE  s = t
  OBVIOUS

LEMMA Concatenation ==
    ASSUME NEW S, NEW s \in Seq(S), NEW t \in Seq(S)
    PROVE  /\ s \o t \in Seq(S) /\ Len(s \o t) = Len(s) + Len(t)
           /\ \A i \in 1..Len(s) : (s \o t)[i] = s[i]
           /\ \A i \in 1..Len(t) : (s \o t)[Len(s) + i] = t[i]
  OBVIOUS

\* `all' as Joined defines it.
JoinedFunction(parts, f) ==
    f = [i \in 0..Len(parts) |-> IF i = 0 THEN <<>> ELSE f[i - 1] \o parts[i]]

LEMMA JoinedDefined ==
    ASSUME NEW V, NEW parts \in Seq(Seq(V))
    PROVE  \E f \in [0..Len(parts) -> Seq(V)] :
               /\ f[0] = <<>> /\ \A i \in 1..Len(parts) : f[i] = f[i - 1] \o parts[i]
               /\ Joined(parts) = f[Len(parts)]
<1> DEFINE n == Len(parts)
           B == Seq(V)
           step == [p \in B \X (1..n) |-> p[1] \o parts[p[2]]]
           all == CHOOSE f : JoinedFunction(parts, f)
<1>1. n \in Nat /\ (\A i \in 1..n : parts[i] \in B) /\ <<>> \in B
  OBVIOUS
<1>2. \A b \in B : \A i \in 1..n : b \o parts[i] \in B
  BY <1>1, Concatenation, Zenon
<1>3. Joined(parts) = all[n]
  BY DEF Joined, JoinedFunction
<1> HIDE DEF n, B
<1>4. step \in [B \X (1..n) -> B]
  BY <1>1, <1>2
<1> HIDE DEF step
<1>5. PICK g \in [0..n -> B] : Recursion(g, n, <<>>, step)
  BY <1>1, <1>4, RecursionExists, Zenon
<1>6. \A i \in 1..n : i - 1 \in 0..n /\ g[i - 1] \in B
  <2>1. \A i \in 1..n : i - 1 \in 0..n
    BY SMTT(30), <1>1
  <2> QED
    BY <2>1
<1>7. \A i \in 1..n : step[<<g[i - 1], i>>] = g[i - 1] \o parts[i]
  BY <1>6 DEF step
<1>8. \A i \in 0..n : i # 0 => i \in 1..n
  BY <1>1
<1>9. g = [i \in 0..n |-> IF i = 0 THEN <<>> ELSE g[i - 1] \o parts[i]]
  BY <1>5, <1>7, <1>8 DEF Recursion
<1>10. JoinedFunction(parts, g)
  BY <1>9 DEF JoinedFunction, n
<1>11. JoinedFunction(parts, all)
  BY <1>10
<1> HIDE DEF all
<1>12. all[0] = <<>> /\ \A i \in 1..n : all[i] = all[i - 1] \o parts[i]
  <2>1. 0 \in 0..n /\ \A i \in 1..n : i \in 0..n /\ i # 0
    BY <1>1
  <2>2. all = [i \in 0..n |-> IF i = 0 THEN <<>> ELSE all[i - 1] \o parts[i]]
    BY <1>11 DEF JoinedFunction, n
  <2> QED
    BY <2>1, <2>2, Zenon
<1>13. \A i \in 0..n : all[i] \in B
  <2> DEFINE S == {i \in Nat : i <= n => all[i] \in B}
  <2>1. 0 \in S
    BY <1>1, <1>12
  <2>2. ASSUME NEW i \in S PROVE i + 1 \in S
    <3> SUFFICES ASSUME i + 1 <= n PROVE all[i + 1] \in B
      OBVIOUS
    <3>1. i \in Nat /\ all[i] \in B /\ i + 1 \in 1..n /\ (i + 1) - 1 = i
      BY <1>1
    <3> QED
      BY <1>2, <1>12, <3>1
  <2>3. S \in SUBSET Nat
    OBVIOUS
  <2> HIDE DEF S
  <2>4. S = Nat
    BY <2>1, <2>2, <2>3, Induction
  <2> QED
    BY <1>1, <2>4 DEF S
<1>14. all = [i \in 0..n |-> all[i]]
  <2>1. all = [i \in 0..n |-> IF i = 0 THEN <<>> ELSE all[i - 1] \o parts[i]]
    BY <1>11 DEF JoinedFunction, n
  <2> QED
    BY <2>1
<1>15. all \in [0..n -> B]
  BY <1>13, <1>14
<1> QED
  BY <1>3, <1>12, <1>15 DEF n, B

\* Where each part is in the whole, and that there is nothing else.
Layout(parts, whole, at) ==
    /\ at \in [1..(Len(parts) + 1) -> Nat] /\ at[1] = 1
    /\ Len(whole) = at[Len(parts) + 1] - 1
    /\ \A k \in 1..Len(parts) :
           /\ at[k + 1] = at[k] + Len(parts[k]) /\ at[k] >= 1
           /\ at[k] + Len(parts[k]) - 1 <= Len(whole)
           /\ \A j \in 1..Len(parts[k]) : whole[at[k] + j - 1] = parts[k][j]
    /\ \A p \in 1..Len(whole) : \E k \in 1..Len(parts) : \E j \in 1..Len(parts[k]) :
           p = at[k] + j - 1

LEMMA JoinedLayout ==
    ASSUME NEW V, NEW parts \in Seq(Seq(V))
    PROVE  Joined(parts) \in Seq(V) /\ \E at : Layout(parts, Joined(parts), at)
<1> DEFINE n == Len(parts)
           B == Seq(V)
           size(i) == Len(parts[i])
<1>1. n \in Nat /\ \A i \in 1..n : parts[i] \in B
  OBVIOUS
<1>2. PICK all \in [0..n -> B] :
          /\ all[0] = <<>> /\ \A i \in 1..n : all[i] = all[i - 1] \o parts[i]
          /\ Joined(parts) = all[n]
  BY JoinedDefined, Zenon
<1> DEFINE end(i) == Len(all[i])
<1>3. \A i \in 1..n : size(i) \in Nat
  BY <1>1
<1>4. \A i \in 0..n : end(i) \in Nat
  OBVIOUS
<1>5. end(0) = 0
  BY <1>2
<1>6. ASSUME NEW i \in 1..n
      PROVE  /\ end(i) = end(i - 1) + size(i)
             /\ \A p \in 1..end(i - 1) : all[i][p] = all[i - 1][p]
             /\ \A j \in 1..size(i) : all[i][end(i - 1) + j] = parts[i][j]
  <2>1. i - 1 \in 0..n
    BY SMTT(30), <1>1
  <2>2. all[i - 1] \in B /\ parts[i] \in B
    BY <1>1, <2>1
  <2>3. LET c == all[i - 1] \o parts[i]
        IN  /\ Len(c) = end(i - 1) + size(i)
            /\ \A p \in 1..end(i - 1) : c[p] = all[i - 1][p]
            /\ \A j \in 1..size(i) : c[end(i - 1) + j] = parts[i][j]
    <3> DEFINE s == all[i - 1]
               t == parts[i]
    <3>1. s \in Seq(V) /\ t \in Seq(V)
      BY <2>2
    <3> HIDE DEF s, t
    <3>2. /\ Len(s \o t) = Len(s) + Len(t)
          /\ \A p \in 1..Len(s) : (s \o t)[p] = s[p]
          /\ \A j \in 1..Len(t) : (s \o t)[Len(s) + j] = t[j]
      BY ONLY <3>1, Concatenation, SMTT(30)
    <3> QED
      BY <3>2 DEF s, t
  <2> QED
    BY <1>2, <2>3
<1>7. all[n] \in B
  BY SMTT(30), <1>1
<1> HIDE DEF n, B, size, end
<1> DEFINE placed(m, k) ==
               /\ end(k - 1) + size(k) <= end(m)
               /\ \A j \in 1..size(k) : all[m][end(k - 1) + j] = parts[k][j]
           covered(m, p) == \E k \in 1..m : \E j \in 1..size(k) : p = end(k - 1) + j
           laid(m) == /\ \A k \in 1..m : placed(m, k)
                      /\ \A p \in 1..end(m) : covered(m, p)
           S == {m \in Nat : m <= n => laid(m)}
<1>8. laid(0)
  <2>1. 1..0 = {}
    OBVIOUS
  <2> QED
    BY <1>5, <2>1
<1>9. ASSUME NEW m \in Nat, m + 1 <= n, laid(m) PROVE laid(m + 1)
  <2>1. /\ m + 1 \in 1..n /\ (m + 1) - 1 = m /\ m \in 0..n
        /\ end(m) \in Nat /\ size(m + 1) \in Nat /\ m + 1 \in 1..(m + 1)
    <3>1. m + 1 \in 1..n /\ (m + 1) - 1 = m /\ m \in 0..n /\ m + 1 \in 1..(m + 1)
      BY SMTT(30), <1>1, <1>9
    <3> QED
      BY <1>3, <1>4, <3>1
  <2>2. /\ end(m + 1) = end(m) + size(m + 1)
        /\ \A p \in 1..end(m) : all[m + 1][p] = all[m][p]
        /\ \A j \in 1..size(m + 1) : all[m + 1][end(m) + j] = parts[m + 1][j]
    BY ONLY <1>6, <2>1, SMTT(30)
  <2>3. ASSUME NEW k \in 1..m PROVE placed(m + 1, k)
    <3>1. k \in 1..n /\ k - 1 \in 0..n
      BY SMTT(30), <1>1, <2>1
    <3>2. end(k - 1) + size(k) <= end(m)
      BY <1>9
    <3>6. \A j \in 1..size(k) : all[m][end(k - 1) + j] = parts[k][j]
      BY <1>9
    <3>3. size(k) \in Nat /\ end(k - 1) \in Nat
      BY <1>3, <1>4, <3>1
    <3>4. \A j \in 1..size(k) : end(k - 1) + j \in 1..end(m)
      BY ONLY <2>1, <3>2, <3>3, SMTT(30)
    <3>5. end(k - 1) + size(k) <= end(m + 1)
      BY ONLY <2>1, <2>2, <3>2, <3>3, SMTT(30)
    <3> QED
      BY <2>2, <3>4, <3>5, <3>6
  <2>4. placed(m + 1, m + 1)
    BY <2>1, <2>2
  <2>5. \A k \in 1..(m + 1) : k \in 1..m \/ k = m + 1
    OBVIOUS
  <2>6. ASSUME NEW p \in 1..end(m + 1) PROVE covered(m + 1, p)
    <3>1. CASE p \in 1..end(m)
      <4>1. PICK k \in 1..m : \E j \in 1..size(k) : p = end(k - 1) + j
        BY <1>9, <3>1
      <4>2. k \in 1..(m + 1)
        OBVIOUS
      <4> QED
        BY <4>1, <4>2
    <3>2. CASE p \notin 1..end(m)
      <4> DEFINE j == p - end(m)
      <4>1. j \in 1..size(m + 1) /\ p = end(m) + j
        BY ONLY <2>1, <2>2, <3>2, p \in 1..end(m + 1), SMTT(30)
      <4> QED
        BY <2>1, <4>1
    <3> QED
      BY <3>1, <3>2
  <2> HIDE DEF placed, covered
  <2> QED
    BY <2>3, <2>4, <2>5, <2>6
<1> HIDE DEF laid
<1>10. laid(n)
  <2>1. 0 \in S
    BY <1>8
  <2>2. ASSUME NEW m \in S PROVE m + 1 \in S
    <3>1. m \in Nat /\ (m <= n => laid(m))
      OBVIOUS
    <3>2. m + 1 <= n => m <= n
      BY <1>1, <3>1
    <3> QED
      BY <1>9, <3>1, <3>2
  <2>3. S \in SUBSET Nat
    OBVIOUS
  <2> HIDE DEF S
  <2>4. n \in S
    BY <1>1, <2>1, <2>2, <2>3, Induction
  <2> QED
    BY <1>1, <2>4 DEF S
<1>12. /\ \A k \in 1..n : placed(n, k)
       /\ \A p \in 1..end(n) : covered(n, p)
  BY <1>10 DEF laid
<1> HIDE DEF placed, covered
<1> DEFINE at == [k \in 1..(n + 1) |-> end(k - 1) + 1]
<1>13. \A k \in 1..(n + 1) : k - 1 \in 0..n
  BY SMTT(30), <1>1
<1>14. at \in [1..(n + 1) -> Nat] /\ at[1] = 1 /\ at[n + 1] = end(n) + 1
  <2>1. 1 \in 1..(n + 1) /\ n + 1 \in 1..(n + 1) /\ (n + 1) - 1 = n /\ 1 - 1 = 0
    BY <1>1
  <2>2. \A k \in 1..(n + 1) : end(k - 1) + 1 \in Nat
    BY <1>4, <1>13
  <2> QED
    BY <1>5, <2>1, <2>2
<1>15. ASSUME NEW k \in 1..n
       PROVE  /\ at[k] = end(k - 1) + 1 /\ at[k + 1] = end(k) + 1
              /\ end(k - 1) \in Nat /\ size(k) \in Nat /\ end(n) \in Nat
  <2>1. k \in 1..(n + 1) /\ k + 1 \in 1..(n + 1) /\ (k + 1) - 1 = k /\ n \in 0..n
    BY SMTT(30), <1>1
  <2> QED
    BY <1>3, <1>4, <1>13, <2>1
<1> HIDE DEF at
<1>16. ASSUME NEW k \in 1..n
       PROVE  /\ at[k + 1] = at[k] + size(k) /\ at[k] >= 1
              /\ at[k] + size(k) - 1 <= end(n)
              /\ \A j \in 1..size(k) : all[n][at[k] + j - 1] = parts[k][j]
  <2>1. /\ end(k - 1) + size(k) <= end(n)
        /\ \A j \in 1..size(k) : all[n][end(k - 1) + j] = parts[k][j]
        /\ end(k) = end(k - 1) + size(k)
    BY <1>6, <1>12 DEF placed
  <2>0. /\ at[k] = end(k - 1) + 1 /\ at[k + 1] = end(k) + 1
        /\ end(k - 1) \in Nat /\ size(k) \in Nat /\ end(n) \in Nat
    BY <1>15
  <2>2. /\ at[k + 1] = at[k] + size(k) /\ at[k] >= 1
        /\ at[k] + size(k) - 1 <= end(n)
    BY ONLY <2>0, <2>1, SMTT(30)
  <2>3. ASSUME NEW j \in 1..size(k) PROVE at[k] + j - 1 = end(k - 1) + j
    BY ONLY <2>0, j \in 1..size(k), SMTT(30)
  <2> QED
    BY <2>1, <2>2, <2>3
<1>17. ASSUME NEW p \in 1..end(n)
       PROVE  \E k \in 1..n : \E j \in 1..size(k) : p = at[k] + j - 1
  <2>1. PICK k \in 1..n : \E j \in 1..size(k) : p = end(k - 1) + j
    BY <1>12 DEF covered
  <2>2. PICK j \in 1..size(k) : p = end(k - 1) + j
    BY <2>1
  <2>3. p = at[k] + j - 1
    BY ONLY <1>15, <2>2, k \in 1..n, j \in 1..size(k), SMTT(30)
  <2> QED
    BY <2>3
<1>18. Layout(parts, all[n], at)
  <2>1. end(n) = at[n + 1] - 1
    <3>1. end(n) \in Nat
      BY SMTT(30), <1>1, <1>4
    <3> QED
      BY <1>14, <3>1
  <2> QED
    BY <1>14, <1>16, <1>17, <2>1 DEF Layout, n, size, end
<1> QED
  BY <1>2, <1>7, <1>18 DEF B

Strings == Seq(Nat \ {NUL}) \ {<<>>}

LEMMA StringFacts ==
    ASSUME NEW strings \in Seq(Strings), NEW i \in 1..Len(strings)
    PROVE  /\ strings[i] \in Seq(Nat) /\ Len(strings[i]) \in Nat \ {0}
           /\ \A j \in 1..Len(strings[i]) : strings[i][j] # NUL
<1> DEFINE s == strings[i]
<1>1. s \in Strings
  OBVIOUS
<1> HIDE DEF s
<1>2. s \in Seq(Nat \ {NUL}) /\ s # <<>>
  BY <1>1 DEF Strings
<1>3. Len(s) \in Nat \ {0} /\ \A j \in 1..Len(s) : s[j] \in Nat /\ s[j] # NUL
  BY <1>2
<1>4. s \in Seq(Nat)
  BY <1>2
<1> QED
  BY <1>3, <1>4 DEF s

\* Where the strings and their terminators are.
StringsAt(strings, at) ==
    LET n == Len(strings)
        bytes == StringsBytes(strings)
    IN  /\ at \in [1..(n + 1) -> Nat] /\ at[1] = 1 /\ Len(bytes) = at[n + 1]
        /\ bytes[at[n + 1]] = NUL
        /\ \A i \in 1..n :
               /\ at[i] >= 1 /\ at[i + 1] = at[i] + Len(strings[i]) + 1
               /\ at[i + 1] <= Len(bytes)
               /\ \A j \in 1..Len(strings[i]) : bytes[at[i] + j - 1] = strings[i][j]
               /\ bytes[at[i] + Len(strings[i])] = NUL
        /\ \A p \in 1..(Len(bytes) - 1) : \E i \in 1..n : \E j \in 1..(Len(strings[i]) + 1) :
               p = at[i] + j - 1

LEMMA StringsLayout ==
    ASSUME NEW strings \in Seq(Strings), strings # <<>>
    PROVE  StringsBytes(strings) \in Seq(Nat) /\ \E at : StringsAt(strings, at)
<1> DEFINE n == Len(strings)
           parts == [i \in 1..n |-> Append(strings[i], NUL)]
           whole == Joined(parts)
           bytes == whole \o <<NUL>>
           size(i) == Len(strings[i])
<1>1. n \in Nat
  OBVIOUS
<1>2. ASSUME NEW i \in 1..n
      PROVE  /\ parts[i] \in Seq(Nat) /\ Len(parts[i]) = size(i) + 1 /\ size(i) \in Nat \ {0}
             /\ \A j \in 1..size(i) : parts[i][j] = strings[i][j]
             /\ parts[i][size(i) + 1] = NUL
  <2> DEFINE s == strings[i]
  <2>1. s \in Seq(Nat) /\ Len(s) \in Nat \ {0}
    BY StringFacts
  <2>2. parts[i] = Append(s, NUL) /\ NUL \in Nat
    BY DEF NUL
  <2> HIDE DEF s, parts
  <2>3. /\ Append(s, NUL) \in Seq(Nat) /\ Len(Append(s, NUL)) = Len(s) + 1
        /\ \A j \in 1..Len(s) : Append(s, NUL)[j] = s[j]
        /\ Append(s, NUL)[Len(s) + 1] = NUL
    BY <2>1, <2>2
  <2> QED
    BY <2>1, <2>2, <2>3 DEF s
<1>3. parts \in Seq(Seq(Nat)) /\ Len(parts) = n
  <2>1. \A i \in 1..n : parts[i] \in Seq(Nat)
    BY <1>2
  <2>2. parts = [i \in 1..n |-> parts[i]]
    OBVIOUS
  <2> HIDE DEF parts, n
  <2>3. parts \in [1..n -> Seq(Nat)]
    BY <2>1, <2>2
  <2> QED
    BY <1>1, <2>3
<1>4. whole \in Seq(Nat)
  BY <1>3, JoinedLayout, Zenon
<1>5. PICK at : Layout(parts, whole, at)
  BY <1>3, JoinedLayout, Zenon
<1>6. StringsBytes(strings) = bytes
  BY DEF StringsBytes
<1> HIDE DEF n, parts, whole
<1>7. /\ bytes \in Seq(Nat) /\ Len(bytes) = Len(whole) + 1 /\ Len(whole) \in Nat
      /\ \A p \in 1..Len(whole) : bytes[p] = whole[p]
      /\ bytes[Len(whole) + 1] = NUL
  BY <1>4 DEF NUL
<1> HIDE DEF bytes, size
<1>8. /\ at \in [1..(n + 1) -> Nat] /\ at[1] = 1 /\ Len(whole) = at[n + 1] - 1
      /\ at[n + 1] \in Nat
  <2>1. n + 1 \in 1..(n + 1)
    BY <1>1
  <2> QED
    BY <1>3, <1>5, <2>1 DEF Layout
<1>9. ASSUME NEW i \in 1..n
      PROVE  /\ at[i] \in Nat /\ at[i + 1] \in Nat /\ size(i) \in Nat
             /\ at[i] >= 1 /\ at[i + 1] = at[i] + (size(i) + 1) /\ at[i + 1] - 1 <= Len(whole)
             /\ \A j \in 1..(size(i) + 1) : whole[at[i] + j - 1] = parts[i][j]
  <2>1. i \in 1..(n + 1) /\ i + 1 \in 1..(n + 1)
    BY <1>1
  <2>2. at[i] \in Nat /\ at[i + 1] \in Nat
    BY <1>8, <2>1
  <2>3. /\ at[i] >= 1 /\ at[i + 1] = at[i] + (size(i) + 1)
        /\ at[i] + (size(i) + 1) - 1 <= Len(whole)
        /\ \A j \in 1..(size(i) + 1) : whole[at[i] + j - 1] = parts[i][j]
    BY <1>2, <1>3, <1>5 DEF Layout
  <2> QED
    BY SMTT(30), <1>2, <2>2, <2>3
<1>10. Len(bytes) = at[n + 1] /\ bytes[at[n + 1]] = NUL
  BY SMTT(30), <1>7, <1>8
<1>11. ASSUME NEW i \in 1..n
       PROVE  /\ at[i] >= 1 /\ at[i + 1] = at[i] + size(i) + 1 /\ at[i + 1] <= Len(bytes)
              /\ \A j \in 1..size(i) : bytes[at[i] + j - 1] = strings[i][j]
              /\ bytes[at[i] + size(i)] = NUL
  <2>1. /\ at[i] \in Nat /\ at[i + 1] \in Nat /\ size(i) \in Nat
        /\ at[i] >= 1 /\ at[i + 1] = at[i] + (size(i) + 1) /\ at[i + 1] - 1 <= Len(whole)
    BY <1>9
  <2>0. Len(bytes) = Len(whole) + 1 /\ Len(whole) \in Nat
    BY <1>7
  <2>2. at[i + 1] = at[i] + size(i) + 1 /\ at[i + 1] <= Len(bytes)
    BY ONLY <2>0, <2>1, SMTT(60)
  <2>3. ASSUME NEW j \in 1..(size(i) + 1)
        PROVE  bytes[at[i] + j - 1] = parts[i][j]
    <3>1. at[i] + j - 1 \in 1..Len(whole)
      BY ONLY <2>0, <2>1, j \in 1..(size(i) + 1), SMTT(60)
    <3> QED
      BY <1>7, <1>9, <3>1
  <2>4. /\ \A j \in 1..size(i) : j \in 1..(size(i) + 1)
        /\ size(i) + 1 \in 1..(size(i) + 1) /\ at[i] + (size(i) + 1) - 1 = at[i] + size(i)
    BY ONLY <2>1, SMTT(30)
  <2>5. \A j \in 1..size(i) : bytes[at[i] + j - 1] = strings[i][j]
    BY <1>2, <2>3, <2>4
  <2>6. bytes[at[i] + (size(i) + 1) - 1] = NUL
    BY <1>2, <2>3, <2>4
  <2> QED
    BY <2>1, <2>2, <2>4, <2>5, <2>6
<1>12. ASSUME NEW p \in 1..(Len(bytes) - 1)
       PROVE  \E i \in 1..n : \E j \in 1..(size(i) + 1) : p = at[i] + j - 1
  <2>1. p \in 1..Len(whole)
    BY <1>7
  <2>2. \E i \in 1..n : \E j \in 1..Len(parts[i]) : p = at[i] + j - 1
    BY <1>3, <1>5, <2>1 DEF Layout
  <2> QED
    BY <1>2, <2>2
<1>13. StringsAt(strings, at)
  BY <1>6, <1>8, <1>10, <1>11, <1>12 DEF StringsAt, n, size
<1> QED
  BY <1>6, <1>7, <1>13

\* The strings end with the only double terminator.
LEMMA OneDoubleNull ==
    ASSUME NEW strings \in Seq(Strings)
    PROVE  LET bytes == StringsBytes(strings)
           IN  /\ bytes \in Seq(Nat) /\ Len(bytes) >= 2
               /\ bytes[Len(bytes) - 1] = NUL /\ bytes[Len(bytes)] = NUL
               /\ \A p \in 1..(Len(bytes) - 2) : ~(bytes[p] = NUL /\ bytes[p + 1] = NUL)
<1> DEFINE n == Len(strings)
           bytes == StringsBytes(strings)
           size(i) == Len(strings[i])
<1>1. CASE strings = <<>>
  <2>1. bytes = <<NUL, NUL>> /\ NUL \in Nat
    BY <1>1 DEF StringsBytes, NUL
  <2> HIDE DEF bytes
  <2>2. bytes \in Seq(Nat) /\ Len(bytes) = 2 /\ bytes[1] = NUL /\ bytes[2] = NUL
    BY <2>1
  <2> QED
    BY <2>2 DEF bytes
<1>2. CASE strings # <<>>
  <2>1. n \in Nat \ {0} /\ \A i \in 1..n : size(i) \in Nat \ {0}
    BY <1>2, StringFacts
  <2>2. PICK at : StringsAt(strings, at)
    BY <1>2, StringsLayout, Zenon
  <2>3. bytes \in Seq(Nat)
    BY <1>2, StringsLayout, Zenon
  <2>4. \A i \in 1..n : \A j \in 1..size(i) : strings[i][j] # NUL
    BY StringFacts
  <2> HIDE DEF bytes, n, size
  <2>5. Len(bytes) \in Nat /\ Len(bytes) = at[n + 1] /\ bytes[Len(bytes)] = NUL
    BY SMTT(30), <2>2, <2>3 DEF StringsAt, bytes, n
  <2>6. ASSUME NEW i \in 1..n
        PROVE  /\ at[i] \in Nat /\ at[i + 1] \in Nat /\ size(i) \in Nat \ {0}
               /\ at[i] >= 1 /\ at[i + 1] = at[i] + size(i) + 1 /\ at[i + 1] <= Len(bytes)
               /\ bytes[at[i] + size(i)] = NUL
               /\ \A j \in 1..size(i) : bytes[at[i] + j - 1] # NUL
    <3>1. i \in 1..(n + 1) /\ i + 1 \in 1..(n + 1)
      BY <2>1
    <3>2. at[i] \in Nat /\ at[i + 1] \in Nat
      BY <2>2, <3>1 DEF StringsAt, n
    <3>3. /\ at[i] >= 1 /\ at[i + 1] = at[i] + size(i) + 1 /\ at[i + 1] <= Len(bytes)
          /\ \A j \in 1..size(i) : bytes[at[i] + j - 1] = strings[i][j]
          /\ bytes[at[i] + size(i)] = NUL
      BY <2>2 DEF StringsAt, bytes, n, size
    <3>4. \A j \in 1..size(i) : strings[i][j] # NUL
      BY <2>4
    <3> QED
      BY <2>1, <3>2, <3>3, <3>4
  <2>7. Len(bytes) >= 2 /\ bytes[Len(bytes) - 1] = NUL
    <3>1. n \in 1..n
      BY <2>1
    <3>2. /\ at[n] \in Nat /\ size(n) \in Nat \ {0} /\ at[n] >= 1
          /\ at[n + 1] = at[n] + size(n) + 1 /\ bytes[at[n] + size(n)] = NUL
      BY <2>6, <3>1
    <3>3. Len(bytes) - 1 = at[n] + size(n) /\ Len(bytes) >= 2
      BY ONLY <2>5, <3>2, SMTT(60)
    <3> QED
      BY <3>2, <3>3
  <2>8. ASSUME NEW p \in 1..(Len(bytes) - 2), bytes[p] = NUL PROVE bytes[p + 1] # NUL
    <3>1. p \in 1..(Len(bytes) - 1)
      BY ONLY <2>5, p \in 1..(Len(bytes) - 2), SMTT(30)
    <3>2. PICK i \in 1..n : \E j \in 1..(size(i) + 1) : p = at[i] + j - 1
      BY <2>2, <3>1 DEF StringsAt, bytes, n, size
    <3>3. PICK j \in 1..(size(i) + 1) : p = at[i] + j - 1
      BY <3>2
    <3>4. /\ at[i] \in Nat /\ at[i + 1] \in Nat /\ size(i) \in Nat \ {0}
          /\ at[i] >= 1 /\ at[i + 1] = at[i] + size(i) + 1
      BY <2>6
    <3>5. j \notin 1..size(i)
      BY <2>6, <2>8, <3>3
    <3>6. p + 1 = at[i + 1]
      BY ONLY <3>3, <3>4, <3>5, j \in 1..(size(i) + 1), SMTT(60)
    <3>7. i # n
      BY ONLY <2>5, <3>4, <3>6, p \in 1..(Len(bytes) - 2), SMTT(30)
    <3>8. i + 1 \in 1..n
      BY <2>1, <3>7
    <3>9. 1 \in 1..size(i + 1)
      BY <2>1, <3>8
    <3>10. bytes[at[i + 1] + 1 - 1] # NUL
      BY <2>6, <3>8, <3>9
    <3>11. at[i + 1] + 1 - 1 = p + 1
      BY ONLY <3>4, <3>6, SMTT(30)
    <3> QED
      BY <3>10, <3>11
  <2> QED
    BY <2>3, <2>5, <2>7, <2>8 DEF bytes
<1> QED
  BY <1>1, <1>2

\* Where the strings of a structure start, and where they end.
SectionOf(s) == 2 + Len(s.formatted)

LEMMA StructureLayout ==
    ASSUME NEW s, IsStructure(s)
    PROVE  LET bytes == StructureBytes(s)
               last == StringsBytes(s.strings)
           IN  /\ bytes \in Seq(Nat) /\ SectionOf(s) \in Nat /\ SectionOf(s) >= 2
               /\ Len(bytes) = SectionOf(s) + Len(last)
               /\ bytes[1] = s.type /\ bytes[2] = SectionOf(s)
               /\ \A p \in 1..Len(last) : bytes[SectionOf(s) + p] = last[p]
<1> DEFINE last == StringsBytes(s.strings)
           f == s.formatted
           t == s.type
           a == <<t, 2 + Len(f)>>
           b == a \o f
<1>1. t \in Nat /\ f \in Seq(Nat)
  BY DEF IsStructure
<1>2. last \in Seq(Nat)
  BY OneDoubleNull DEF IsStructure, Strings
<1>3. StructureBytes(s) = b \o last
  BY DEF StructureBytes
<1>4. SectionOf(s) = 2 + Len(f)
  BY DEF SectionOf
<1> HIDE DEF last, f, t
<1>5. a \in Seq(Nat) /\ Len(a) = 2 /\ a[1] = t /\ a[2] = 2 + Len(f) /\ Len(f) \in Nat
  BY <1>1
<1> HIDE DEF a
<1>6. b \in Seq(Nat) /\ Len(b) = 2 + Len(f) /\ b[1] = t /\ b[2] = 2 + Len(f)
  <2>1. b \in Seq(Nat) /\ Len(b) = Len(a) + Len(f) /\ \A i \in 1..Len(a) : b[i] = a[i]
    BY <1>1, <1>5, Concatenation, Zenon
  <2> QED
    BY SMTT(30), <1>5, <2>1
<1> HIDE DEF b
<1>0. b \in Seq(Nat) /\ last \in Seq(Nat)
  BY <1>2, <1>6
<1>7. /\ b \o last \in Seq(Nat) /\ Len(b \o last) = Len(b) + Len(last)
      /\ \A i \in 1..Len(b) : (b \o last)[i] = b[i]
      /\ \A i \in 1..Len(last) : (b \o last)[Len(b) + i] = last[i]
  BY ONLY <1>0, Concatenation, SMTT(30)
<1>8. 1 \in 1..Len(b) /\ 2 \in 1..Len(b) /\ 2 + Len(f) >= 2 /\ 2 + Len(f) \in Nat
  BY <1>5, <1>6
<1> QED
  BY <1>3, <1>4, <1>6, <1>7, <1>8 DEF last, t

\* Where the structures of a table are.
StructuresAt(table, start) ==
    LET n == Len(table)
        bytes == TableBytes(table)
    IN  /\ start \in [1..(n + 1) -> Nat] /\ start[1] = 1 /\ Len(bytes) = start[n + 1] - 1
        /\ \A k \in 1..n :
               LET size == Len(StructureBytes(table[k]))
               IN  /\ start[k] >= 1 /\ start[k + 1] = start[k] + size
                   /\ start[k] + size - 1 <= Len(bytes)
                   /\ \A j \in 1..size :
                          bytes[start[k] + j - 1] = StructureBytes(table[k])[j]

LEMMA TableLayout ==
    ASSUME NEW table, IsFirmware(table)
    PROVE  TableBytes(table) \in Seq(Nat) /\ \E start : StructuresAt(table, start)
<1> DEFINE n == Len(table)
           parts == [k \in 1..n |-> StructureBytes(table[k])]
           whole == Joined(parts)
<1>1. n \in Nat /\ \A k \in 1..n : StructureBytes(table[k]) \in Seq(Nat)
  <2>1. table \in Seq({table[k] : k \in 1..n})
    BY DEF IsFirmware
  <2>2. n \in Nat
    BY <2>1
  <2> QED
    BY <2>2, StructureLayout DEF IsFirmware
<1>2. parts \in Seq(Seq(Nat)) /\ Len(parts) = n
  <2> HIDE DEF n
  <2>1. parts \in [1..n -> Seq(Nat)]
    BY <1>1
  <2> HIDE DEF parts
  <2> QED
    BY <1>1, <2>1
<1>3. TableBytes(table) = whole
  BY DEF TableBytes
<1>4. \A k \in 1..n : parts[k] = StructureBytes(table[k])
  OBVIOUS
<1> HIDE DEF parts
<1>5. whole \in Seq(Nat) /\ \E start : Layout(parts, whole, start)
  BY <1>2, JoinedLayout, Zenon
<1> HIDE DEF whole
<1>6. PICK start : Layout(parts, whole, start)
  BY <1>5
<1> HIDE DEF n
<1>7. start \in [1..(n + 1) -> Nat] /\ start[1] = 1 /\ Len(whole) = start[n + 1] - 1
  BY <1>2, <1>6 DEF Layout
<1>8. ASSUME NEW k \in 1..n
      PROVE  /\ start[k] >= 1 /\ start[k + 1] = start[k] + Len(StructureBytes(table[k]))
             /\ start[k] + Len(StructureBytes(table[k])) - 1 <= Len(whole)
             /\ \A j \in 1..Len(StructureBytes(table[k])) :
                    whole[start[k] + j - 1] = StructureBytes(table[k])[j]
  <2>1. /\ start[k] >= 1 /\ start[k + 1] = start[k] + Len(parts[k])
        /\ start[k] + Len(parts[k]) - 1 <= Len(whole)
        /\ \A j \in 1..Len(parts[k]) : whole[start[k] + j - 1] = parts[k][j]
    BY <1>2, <1>6 DEF Layout
  <2> QED
    BY <1>4, <2>1
<1>9. StructuresAt(table, start)
  BY <1>3, <1>7, <1>8 DEF StructuresAt, n
<1> QED
  BY <1>3, <1>5, <1>9

\* The structure at its start: its type, its strings, and the structure behind it.
LEMMA StructureInTable ==
    ASSUME NEW table, IsFirmware(table), NEW start, StructuresAt(table, start),
           NEW k \in 1..Len(table)
    PROVE  LET bytes == TableBytes(table)
               last == StringsBytes(table[k].strings)
               section == StringSection(bytes, start[k])
           IN  /\ bytes[start[k]] = table[k].type
               /\ start[k] <= Len(bytes)
               /\ section \in Nat /\ Len(last) \in Nat /\ section >= 1
               /\ \A p \in 1..Len(last) : bytes[section + p - 1] = last[p]
               /\ GetNextSMBIOSStructureInTable(bytes, start[k]) = start[k + 1]
<1> DEFINE n == Len(table)
           s == table[k]
           bytes == TableBytes(table)
           last == StringsBytes(s.strings)
           own == StructureBytes(s)
           size == Len(last)
           off == SectionOf(s)
           at == start[k]
           section == StringSection(bytes, at)
           total == Len(bytes)
<1>1. IsStructure(s)
  BY DEF IsFirmware
<1>2. /\ off \in Nat /\ off >= 2 /\ Len(own) = off + size
      /\ own[1] = s.type /\ own[2] = off
      /\ \A p \in 1..size : own[off + p] = last[p]
  BY <1>1, StructureLayout, Zenon
<1>3. /\ last \in Seq(Nat) /\ size >= 2 /\ last[size - 1] = NUL /\ last[size] = NUL
      /\ \A p \in 1..(size - 2) : ~(last[p] = NUL /\ last[p + 1] = NUL)
  BY <1>1, OneDoubleNull DEF IsStructure, Strings
<1>4. size \in Nat
  BY <1>3
<1>5. bytes \in Seq(Nat)
  BY TableLayout, Zenon
<1>6. total \in Nat
  BY <1>5
<1>7. /\ at >= 1 /\ start[k + 1] = at + Len(own) /\ at + Len(own) - 1 <= total
      /\ \A j \in 1..Len(own) : bytes[at + j - 1] = own[j]
  BY DEF StructuresAt
<1>8. at \in Nat
  <2>1. n \in Nat
    BY DEF IsFirmware
  <2>2. k \in 1..(n + 1)
    BY <2>1
  <2> QED
    BY <2>2 DEF StructuresAt
<1> HIDE DEF s, bytes, last, own, size, off, at, total, n
<1>9. at <= total /\ 1 \in 1..Len(own) /\ 2 \in 1..Len(own) /\ at + 1 - 1 = at /\ at + 2 - 1 = at + 1
  BY SMTT(30), <1>2, <1>4, <1>6, <1>7, <1>8
<1>10. bytes[at] = s.type /\ bytes[at + 1] = off
  BY <1>2, <1>7, <1>9
<1>11. section = at + off /\ section \in Nat /\ section >= 1
  <2>1. section = at + off
    BY <1>10 DEF StringSection
  <2> QED
    BY SMTT(30), <1>2, <1>8, <2>1
<1> HIDE DEF section
<1>12. ASSUME NEW p \in 1..size PROVE bytes[section + p - 1] = last[p]
  <2>1. off + p \in 1..Len(own) /\ at + (off + p) - 1 = section + p - 1
    BY ONLY <1>2, <1>4, <1>8, <1>11, p \in 1..size, SMTT(30)
  <2>2. own[off + p] = last[p]
    BY <1>2
  <2>3. bytes[at + (off + p) - 1] = own[off + p]
    BY <1>7, <2>1
  <2> QED
    BY <2>1, <2>2, <2>3
<1> DEFINE ends == {i \in section..(total - 1) : IsDoubleNull(bytes, i)}
           end == section + size - 2
<1>13. start[k + 1] = section + size /\ section + size - 1 <= total
  BY SMTT(30), <1>2, <1>4, <1>6, <1>7, <1>8, <1>11
<1>14. end \in ends
  <2>1. /\ end \in section..(total - 1) /\ size - 1 \in 1..size /\ size \in 1..size
        /\ section + (size - 1) - 1 = end /\ section + size - 1 = end + 1
    BY SMTT(60), <1>3, <1>4, <1>6, <1>11, <1>13
  <2>2. bytes[end] = NUL /\ bytes[end + 1] = NUL
    BY <1>3, <1>12, <2>1
  <2> QED
    BY <2>1, <2>2 DEF IsDoubleNull
<1>15. ASSUME NEW i \in ends PROVE end <= i
  <2>1. i \in section..(total - 1) /\ bytes[i] = NUL /\ bytes[i + 1] = NUL
    BY DEF IsDoubleNull
  <2> SUFFICES ASSUME ~(end <= i) PROVE FALSE
    OBVIOUS
  <2> DEFINE p == i - section + 1
  <2>2. /\ p \in 1..(size - 2) /\ p \in 1..size /\ p + 1 \in 1..size
        /\ section + p - 1 = i /\ section + (p + 1) - 1 = i + 1
    <3>1. /\ i \in Int /\ section \in Int /\ size \in Int /\ section <= i
          /\ i < section + size - 2
      BY <1>4, <1>6, <1>11, <2>1
    <3> QED
      BY ONLY <3>1, SMTT(30)
  <2> HIDE DEF p
  <2>3. last[p] = NUL /\ last[p + 1] = NUL
    BY <1>12, <2>1, <2>2
  <2> QED
    BY <1>3, <2>2, <2>3
<1>16. EndOfStrings(bytes, at) = Min(ends)
  BY Zenon DEF EndOfStrings, section, total
<1>17. ends \in SUBSET Nat /\ end \in Nat
  BY <1>3, <1>4, <1>6, <1>11
<1> HIDE DEF ends
<1>18. Min(ends) = end
  <2>1. Min(ends) \in ends /\ Min(ends) <= end
    BY <1>14, <1>17, LeastNumber
  <2>2. end <= Min(ends) /\ Min(ends) \in Nat
    BY <1>15, <1>17, <2>1
  <2> HIDE DEF end
  <2> QED
    BY <1>17, <2>1, <2>2
<1>19. GetNextSMBIOSStructureInTable(bytes, at) = start[k + 1]
  <2>1. GetNextSMBIOSStructureInTable(bytes, at) = end + 2
    BY <1>16, <1>18 DEF GetNextSMBIOSStructureInTable
  <2>2. end + 2 = start[k + 1]
    BY <1>4, <1>11, <1>13
  <2> QED
    BY <2>1, <2>2
<1> QED
  BY <1>4, <1>9, <1>10, <1>11, <1>12, <1>19 DEF s, bytes, last, size, at, total, section

\* The byte at a character of a string, or at its terminator.
LEMMA ByteOfString ==
    ASSUME NEW strings \in Seq(Strings), strings # <<>>, NEW at, StringsAt(strings, at),
           NEW c \in 1..Len(strings), NEW j \in 1..(Len(strings[c]) + 1)
    PROVE  LET last == StringsBytes(strings)
               p == at[c] + j - 1
           IN  /\ at[c] \in Nat /\ p \in 1..Len(last) /\ p + 1 \in 1..Len(last)
               /\ j <= Len(strings[c]) => last[p] = strings[c][j] /\ last[p] # NUL
               /\ j = Len(strings[c]) + 1 => last[p] = NUL
               /\ (last[p] = NUL /\ last[p + 1] = NUL)
                      <=> (c = Len(strings) /\ j = Len(strings[c]) + 1)
<1> DEFINE n == Len(strings)
           last == StringsBytes(strings)
           size(i) == Len(strings[i])
           end == Len(last)
           p == at[c] + j - 1
<1>1. n \in Nat \ {0} /\ \A i \in 1..n : size(i) \in Nat \ {0}
  BY StringFacts
<1>2. \A i \in 1..n : \A k \in 1..size(i) : strings[i][k] # NUL
  BY StringFacts
<1>3. /\ last \in Seq(Nat) /\ \A q \in 1..(end - 2) : ~(last[q] = NUL /\ last[q + 1] = NUL)
  BY OneDoubleNull, Zenon
<1>4. end \in Nat
  BY <1>3
<1>5. /\ at \in [1..(n + 1) -> Nat] /\ end = at[n + 1] /\ last[at[n + 1]] = NUL
      /\ \A i \in 1..n : /\ at[i] >= 1 /\ at[i + 1] = at[i] + size(i) + 1
                         /\ at[i + 1] <= end
                         /\ \A k \in 1..size(i) : last[at[i] + k - 1] = strings[i][k]
                         /\ last[at[i] + size(i)] = NUL
  BY DEF StringsAt
<1> HIDE DEF n, last, size, end
<1>6. c \in 1..n /\ j \in 1..(size(c) + 1)
  BY DEF n, size
<1>7. at[c] \in Nat /\ at[c] >= 1 /\ at[c + 1] = at[c] + size(c) + 1 /\ at[c + 1] <= end
  <2>1. c \in 1..(n + 1)
    BY <1>1, <1>6
  <2> QED
    BY <1>5, <1>6, <2>1
<1>8. size(c) \in Nat \ {0}
  BY <1>1, <1>6
<1>9. p \in 1..end /\ p + 1 \in 1..end /\ p \in Nat
  BY ONLY <1>4, <1>6, <1>7, <1>8, SMTT(60)
<1>10. ASSUME j <= size(c) PROVE last[p] = strings[c][j] /\ last[p] # NUL
  <2>1. j \in 1..size(c)
    BY <1>6, <1>8, <1>10
  <2> QED
    BY SMTT(30), <1>2, <1>5, <1>6, <2>1
<1>11. ASSUME j = size(c) + 1 PROVE last[p] = NUL /\ p + 1 = at[c + 1]
  <2>1. p = at[c] + size(c) /\ p + 1 = at[c + 1]
    BY ONLY <1>7, <1>8, <1>11, SMTT(30)
  <2> QED
    BY <1>5, <1>6, <2>1
<1>12. ASSUME c = n, j = size(c) + 1 PROVE last[p] = NUL /\ last[p + 1] = NUL
  BY <1>5, <1>11, <1>12
<1>13. ASSUME last[p] = NUL, last[p + 1] = NUL PROVE c = n /\ j = size(c) + 1
  <2>1. j = size(c) + 1
    <3>1. ~(j <= size(c))
      BY <1>10, <1>13
    <3> QED
      BY ONLY <1>6, <1>8, <3>1, SMTT(30)
  <2>2. p + 1 = at[c + 1]
    BY <1>11, <2>1
  <2>3. ~(p \in 1..(end - 2))
    BY <1>3, <1>13
  <2>4. p + 1 = end
    BY ONLY <1>4, <1>9, <2>3, SMTT(30)
  <2>5. CASE c # n
    <3>1. c + 1 \in 1..n
      BY <1>1, <1>6, <2>5
    <3>2. /\ at[(c + 1) + 1] = at[c + 1] + size(c + 1) + 1 /\ at[(c + 1) + 1] <= end
          /\ size(c + 1) \in Nat
      BY <1>1, <1>5, <3>1
    <3> QED
      BY ONLY <1>4, <2>2, <2>4, <3>2, SMTT(30)
  <2> QED
    BY <2>1, <2>5
<1> QED
  BY <1>7, <1>9, <1>10, <1>11, <1>12, <1>13 DEF n, last, size, end

Marks(strings) == CHOOSE at : StringsAt(strings, at)

\* Between two iterations of GetStringAtIndexFromSMBIOSTable: the character is one
\* of a string no later than the wanted one, and of the wanted one the buffer has
\* what lies before it.
InString(strings, section, index, count, char, buffer) ==
    /\ count \in Nat /\ count + 1 \in 1..Len(strings) /\ count + 1 <= index
    /\ buffer \in Seq(Nat)
    /\ \E j \in 1..(Len(strings[count + 1]) + 1) :
           /\ char = section + Marks(strings)[count + 1] + j - 2
           /\ IF count + 1 = index
              THEN /\ Len(buffer) = j - 1
                   /\ \A p \in 1..(j - 1) : buffer[p] = strings[count + 1][p]
              ELSE buffer = <<>>

\* What an iteration finds at its character, and where it leaves the next one.
LEMMA NextCharacter ==
    ASSUME NEW strings \in Seq(Strings), strings # <<>>,
           NEW section \in Nat, NEW index \in Nat \ {0},
           NEW count, NEW char, NEW buffer,
           InString(strings, section, index, count, char, buffer),
           NEW bytes,
           \A p \in 1..Len(StringsBytes(strings)) :
               bytes[section + p - 1] = StringsBytes(strings)[p]
    PROVE  LET target == count + 1 = index
           IN  /\ Len(strings) \in Nat /\ Len(buffer) \in Nat
               /\ IsDoubleNull(bytes, char) => Len(strings) <= index
               /\ index <= Len(strings) =>
                      Len(strings[index]) \in Nat /\ Len(buffer) <= Len(strings[index])
               /\ ~IsDoubleNull(bytes, char) /\ target /\ bytes[char] = NUL =>
                      index < Len(strings) /\ buffer = strings[index]
               /\ ~IsDoubleNull(bytes, char) /\ ~(target /\ bytes[char] = NUL) =>
                      InString(strings, section, index,
                               IF bytes[char] = NUL THEN count + 1 ELSE count, char + 1,
                               IF target THEN Append(buffer, bytes[char]) ELSE buffer)
<1> DEFINE n == Len(strings)
           last == StringsBytes(strings)
           size(i) == Len(strings[i])
           at == Marks(strings)
           c == count + 1
           target == c = index
<1>1. n \in Nat \ {0} /\ \A i \in 1..n : size(i) \in Nat \ {0} /\ strings[i] \in Seq(Nat)
  BY SMTT(30), StringFacts
<1>2. StringsAt(strings, at)
  BY StringsLayout, Zenon DEF Marks
<1>3. count \in Nat /\ c \in 1..n /\ c <= index /\ buffer \in Seq(Nat) /\ Len(buffer) \in Nat
  BY DEF InString
<1>4. PICK j \in 1..(size(c) + 1) :
          /\ char = section + at[c] + j - 2
          /\ IF target THEN /\ Len(buffer) = j - 1
                            /\ \A p \in 1..(j - 1) : buffer[p] = strings[c][p]
             ELSE buffer = <<>>
  BY DEF InString
<1> DEFINE p == at[c] + j - 1
<1> HIDE DEF c, at
<1>5. /\ at[c] \in Nat /\ p \in 1..Len(last) /\ p + 1 \in 1..Len(last)
      /\ j <= size(c) => last[p] = strings[c][j] /\ last[p] # NUL
      /\ j = size(c) + 1 => last[p] = NUL
      /\ (last[p] = NUL /\ last[p + 1] = NUL) <=> (c = n /\ j = size(c) + 1)
  <2>1. c \in 1..Len(strings) /\ j \in 1..(Len(strings[c]) + 1)
    BY <1>3
  <2> QED
    BY ONLY SMTT(30), <1>2, <2>1, ByteOfString, strings \in Seq(Strings), strings # <<>>,
            ZenonT(10), SMTT(30)
<1>6. c < n => c + 1 \in 1..n /\ at[c + 1] = at[c] + size(c) + 1
  <2>1. \A i \in 1..n : at[i + 1] = at[i] + size(i) + 1
    BY <1>2, Zenon DEF StringsAt
  <2>2. at[c + 1] = at[c] + size(c) + 1
    BY <1>3, <2>1, Zenon
  <2>3. c < n => c + 1 \in 1..n
    BY ONLY <1>1, <1>3, SMTT(30)
  <2> QED
    BY <2>2, <2>3, Zenon
<1>7. \A q \in 1..Len(last) : bytes[section + q - 1] = last[q]
  OBVIOUS
<1> HIDE DEF n, last, size
<1>8. size(c) \in Nat \ {0} /\ strings[c] \in Seq(Nat)
  BY <1>1, <1>3
<1>9. section + p - 1 = char /\ section + (p + 1) - 1 = char + 1 /\ char + 1 = section + at[c] + (j + 1) - 2
  <2>1. at[c] \in Nat /\ j \in Nat /\ char = section + at[c] + j - 2
    BY SMTT(30), <1>4, <1>5, <1>8
  <2> DEFINE a == at[c]
  <2> HIDE DEF a
  <2>2. a \in Nat /\ j \in Nat /\ char = section + a + j - 2
    BY <2>1 DEF a
  <2>3. /\ section + (a + j - 1) - 1 = char /\ section + (a + j - 1 + 1) - 1 = char + 1
        /\ char + 1 = section + a + (j + 1) - 2
    BY ONLY <2>2, section \in Nat, SMTT(30)
  <2> QED
    BY <2>3 DEF a
<1> HIDE DEF p
<1>10. bytes[char] = last[p] /\ bytes[char + 1] = last[p + 1]
  BY <1>5, <1>7, <1>9
<1>11. IsDoubleNull(bytes, char) <=> (c = n /\ j = size(c) + 1)
  BY <1>5, <1>10 DEF IsDoubleNull
<1>12. bytes[char] = NUL <=> j = size(c) + 1
  <2>1. j <= size(c) \/ j = size(c) + 1
    BY ONLY <1>4, <1>8, j \in 1..(size(c) + 1), SMTT(30)
  <2> QED
    BY <1>5, <1>10, <2>1
<1>13. IsDoubleNull(bytes, char) => n <= index
  BY <1>1, <1>3, <1>11
<1>14. ASSUME index <= n PROVE size(index) \in Nat /\ Len(buffer) <= size(index)
  <2>1. index \in 1..n
    BY <1>1, <1>14
  <2>2. size(index) \in Nat
    BY <1>1, <2>1
  <2>3. CASE target
    BY <1>4, <1>8, <2>3
  <2>4. CASE ~target
    BY <1>4, <2>2, <2>4
  <2> QED
    BY <2>2, <2>3, <2>4
<1>15. ASSUME ~IsDoubleNull(bytes, char), target, bytes[char] = NUL
       PROVE  index < n /\ buffer = strings[index]
  <2>1. j = size(c) + 1 /\ c # n
    BY <1>11, <1>12, <1>15
  <2>2. index < n
    BY <1>1, <1>3, <1>15, <2>1
  <2>3. Len(buffer) = size(c) /\ \A q \in 1..size(c) : buffer[q] = strings[c][q]
    <3>1. j - 1 = size(c)
      BY ONLY <1>8, <2>1, SMTT(30)
    <3> QED
      BY <1>4, <1>15, <3>1
  <2>4. buffer = strings[c]
    BY <1>3, <1>8, <2>3, SameSequence DEF size
  <2> QED
    BY <1>15, <2>2, <2>4
<1>16. ASSUME ~IsDoubleNull(bytes, char), ~(target /\ bytes[char] = NUL)
       PROVE  InString(strings, section, index,
                       IF bytes[char] = NUL THEN count + 1 ELSE count, char + 1,
                       IF target THEN Append(buffer, bytes[char]) ELSE buffer)
  <2>1. CASE bytes[char] = NUL
    <3>1. j = size(c) + 1 /\ c # n /\ ~target
      BY <1>11, <1>12, <1>16, <2>1
    <3>2. c \in Nat /\ c + 1 \in 1..n /\ c + 1 <= index /\ at[c + 1] = at[c] + size(c) + 1
      BY SMTT(30), <1>1, <1>3, <1>6, <3>1
    <3>3. size(c + 1) \in Nat
      BY <1>1, <3>2
    <3>4. 1 \in 1..(size(c + 1) + 1) /\ char + 1 = section + at[c + 1] + 1 - 2
      <4>1. at[c] \in Nat /\ size(c) \in Nat /\ j \in Nat
        BY SMTT(30), <1>5, <1>8
      <4>2. section + at[c + 1] + 1 - 2 = section + at[c] + (j + 1) - 2
        BY ONLY <3>1, <3>2, <4>1, section \in Nat, SMTT(60)
      <4> QED
        BY <1>9, <3>3, <4>2
    <3>5. buffer = <<>> /\ Len(<<>>) = 1 - 1 /\ 1..(1 - 1) = {}
      BY <1>4, <3>1
    <3>6. InString(strings, section, index, c, char + 1, buffer)
      BY <1>3, <3>2, <3>4, <3>5, Zenon DEF InString, n, size, at
    <3> QED
      BY <2>1, <3>1, <3>6 DEF c
  <2>2. CASE bytes[char] # NUL /\ target
    <3> DEFINE new == Append(buffer, bytes[char])
    <3>1. j \in 1..size(c) /\ j + 1 \in 1..(size(c) + 1) /\ (j + 1) - 1 = j /\ j \in Nat
      BY ONLY <1>8, <1>12, <2>2, j \in 1..(size(c) + 1), SMTT(30)
    <3>2. bytes[char] = strings[c][j] /\ bytes[char] \in Nat
      BY SMTT(60), <1>5, <1>8, <1>10, <3>1 DEF size
    <3>3. /\ new \in Seq(Nat) /\ Len(new) = j
          /\ \A q \in 1..(j - 1) : new[q] = strings[c][q]
          /\ new[j] = strings[c][j]
      <4>1. Len(buffer) = j - 1 /\ \A q \in 1..(j - 1) : buffer[q] = strings[c][q]
        BY <1>4, <2>2
      <4> QED
        BY ONLY <1>3, <3>1, <3>2, <4>1, SMTT(30)
    <3> HIDE DEF new
    <3>4. \A q \in 1..j : new[q] = strings[c][q]
      <4>1. \A q \in 1..j : q = j \/ q \in 1..(j - 1)
        BY ONLY <3>1, SMTT(30)
      <4> QED
        BY <3>3, <4>1
    <3>5. InString(strings, section, index, count, char + 1, new)
      BY <1>3, <1>9, <2>2, <3>1, <3>3, <3>4, Zenon DEF InString, n, size, at, c
    <3> QED
      BY <2>2, <3>5 DEF new
  <2>3. CASE bytes[char] # NUL /\ ~target
    <3>1. j + 1 \in 1..(size(c) + 1)
      BY ONLY <1>8, <1>12, <2>3, j \in 1..(size(c) + 1), SMTT(30)
    <3>2. buffer = <<>>
      BY <1>4, <2>3
    <3>3. InString(strings, section, index, count, char + 1, buffer)
      BY <1>3, <1>9, <2>3, <3>1, <3>2, Zenon DEF InString, n, size, at, c
    <3> QED
      BY <2>3, <3>3
  <2> QED
    BY <2>1, <2>2, <2>3
<1> QED
  BY <1>1, <1>3, <1>13, <1>14, <1>15, <1>16 DEF n, size, c

Starts(table) == CHOOSE start : StructuresAt(table, start)

IsFirst(table, type, k) ==
    /\ k \in 1..Len(table) /\ table[k].type = type
    /\ \A l \in 1..(k - 1) : table[l].type # type

\* The structures passed have another type.
Passing ==
    /\ sm_string_count = 0 /\ sm_buffer = <<>>
    /\ \E k \in 1..(Len(sm_table) + 1) :
           /\ sm_at = Starts(sm_table)[k]
           /\ \A l \in 1..(k - 1) : sm_table[l].type # sm_request.type

\* The strings read are those of the first structure of the type.
ReadingOf(k) ==
    LET strings == sm_table[k].strings
        section == StringSection(TableBytes(sm_table), Starts(sm_table)[k])
    IN  \/ strings = <<>> /\ sm_char = section
        \/ strings # <<>> /\ InString(strings, section, sm_request.index, sm_string_count,
                                      sm_char, sm_buffer)

Reading == \E k : IsFirst(sm_table, sm_request.type, k) /\ ReadingOf(k)

Present(table, type) == \E k \in 1..Len(table) : table[k].type = type

\* What a search that is done has found.
Result ==
    LET strings == StringsOf(sm_table, sm_request.type)
        i == sm_request.index
    IN  /\ Present(sm_table, sm_request.type) =>
               /\ sm_status # "overrun"
               /\ sm_status = "success" <=>
                      i < Len(strings) /\ Len(strings[i]) < sm_request.size
               /\ sm_status = "success" => sm_buffer = strings[i]
        /\ sm_status = "success" => Present(sm_table, sm_request.type) /\ Len(strings) \in Nat

SmInv ==
    /\ sm_pc \in {"idle", "structure", "string", "done"}
    /\ sm_pc = "idle" => sm_string_count = 0 /\ sm_buffer = <<>> /\ sm_status = "none"
    /\ sm_pc # "idle" => /\ IsFirmware(sm_table) /\ sm_request.index \in Nat \ {0}
                         /\ sm_request.size \in Nat
    /\ sm_pc = "structure" => Passing
    /\ sm_pc = "string" => Reading
    /\ sm_pc = "done" => Result

LEMMA FirstStrings ==
    ASSUME NEW table, IsFirmware(table), NEW type, NEW k, IsFirst(table, type, k)
    PROVE  Present(table, type) /\ StringsOf(table, type) = table[k].strings
<1> DEFINE n == Len(table)
           candidates == {l \in 1..n : table[l].type = type}
<1>1. n \in Nat
  BY DEF IsFirmware
<1> HIDE DEF n
<1>2. k \in candidates /\ candidates \in SUBSET Nat /\ k \in Nat
  BY <1>1 DEF IsFirst, n
<1>3. \A l \in candidates : k <= l
  <2> SUFFICES ASSUME NEW l \in candidates, ~(k <= l) PROVE FALSE
    OBVIOUS
  <2>1. l \in 1..(k - 1)
    BY <1>1, <1>2
  <2> QED
    BY <2>1 DEF IsFirst
<1>4. StringsOf(table, type) = IF candidates = {} THEN <<>> ELSE table[Min(candidates)].strings
  BY Zenon DEF StringsOf, n
<1>5. Present(table, type)
  BY DEF Present, IsFirst
<1> HIDE DEF candidates
<1>6. Min(candidates) \in candidates /\ Min(candidates) <= k
  BY <1>2, LeastNumber
<1>7. Min(candidates) \in Nat /\ k <= Min(candidates)
  BY <1>2, <1>3, <1>6
<1>8. Min(candidates) = k
  BY <1>2, <1>6, <1>7
<1> QED
  BY <1>2, <1>4, <1>5, <1>8

LEMMA StartsFacts ==
    ASSUME NEW table, IsFirmware(table)
    PROVE  /\ Len(table) \in Nat /\ StructuresAt(table, Starts(table))
           /\ Starts(table)[1] = 1 /\ Len(TableBytes(table)) \in Nat
           /\ Starts(table)[Len(table) + 1] = Len(TableBytes(table)) + 1
<1> DEFINE bytes == TableBytes(table)
           start == Starts(table)
           n == Len(table)
<1>1. n \in Nat
  BY DEF IsFirmware
<1>2. bytes \in Seq(Nat) /\ StructuresAt(table, start)
  BY TableLayout, Zenon DEF Starts
<1>3. start \in [1..(n + 1) -> Nat] /\ start[1] = 1 /\ Len(bytes) = start[n + 1] - 1
  BY <1>2 DEF StructuresAt
<1>4. Len(bytes) \in Nat
  BY <1>2
<1> HIDE DEF bytes, start, n
<1>5. start[n + 1] \in Nat
  BY SMTT(30), <1>1, <1>3
<1>6. start[n + 1] = Len(bytes) + 1
  BY <1>3, <1>4, <1>5
<1> QED
  BY <1>1, <1>2, <1>3, <1>4, <1>6 DEF bytes, start, n

LEMMA SmStart == SmbiosInit => SmInv
  BY DEF SmbiosInit, SmInv

LEMMA SmParse ==
    ASSUME SmInv, NEW table, IsFirmware(table), NEW request,
           request.index \in Nat \ {0}, request.size \in Nat,
           ParseSMBIOSTable(table, request)
    PROVE  SmInv'
<1>1. /\ sm_pc = "idle" /\ sm_pc' = "structure" /\ sm_table' = table /\ sm_request' = request
      /\ sm_at' = 1 /\ UNCHANGED <<sm_char, sm_string_count, sm_buffer, sm_status>>
  BY DEF ParseSMBIOSTable
<1>2. sm_string_count' = 0 /\ sm_buffer' = <<>>
  BY <1>1 DEF SmInv
<1>3. Starts(table)[1] = 1 /\ 1 \in 1..(Len(table) + 1) /\ 1..(1 - 1) = {}
  <2>1. Len(table) \in Nat /\ Starts(table)[1] = 1
    BY StartsFacts
  <2> QED
    BY <2>1
<1>4. Passing'
  BY <1>1, <1>2, <1>3 DEF Passing
<1> QED
  BY <1>1, <1>4 DEF SmInv

LEMMA SmReturn == ASSUME SmInv, SmbiosReturn PROVE SmInv'
  BY DEF SmbiosReturn, SmInv

LEMMA SmStructure == ASSUME SmInv, NextStructure PROVE SmInv'
<1> DEFINE table == sm_table
           n == Len(table)
           bytes == TableBytes(table)
           start == Starts(table)
           type == sm_request.type
<1>1. /\ sm_pc = "structure" /\ IsFirmware(table) /\ sm_request.index \in Nat \ {0}
      /\ sm_request.size \in Nat /\ sm_string_count = 0 /\ sm_buffer = <<>>
      /\ UNCHANGED <<sm_table, sm_request, sm_string_count, sm_buffer>>
  BY DEF SmInv, NextStructure, Passing
<1>2. PICK k \in 1..(n + 1) : sm_at = start[k] /\ \A l \in 1..(k - 1) : table[l].type # type
  BY <1>1 DEF SmInv, Passing, NextStructure
<1>3. n \in Nat /\ StructuresAt(table, start) /\ Len(bytes) \in Nat
      /\ start[n + 1] = Len(bytes) + 1
  BY <1>1, StartsFacts, Zenon
<1>4. CASE k = n + 1
  <2>1. ~Present(table, type)
    <3>1. k - 1 = n
      BY <1>3, <1>4
    <3> QED
      BY <1>2, <3>1 DEF Present
  <2>2. sm_at > Len(bytes) /\ ~(sm_at <= Len(bytes))
    <3>1. sm_at = Len(bytes) + 1
      BY <1>2, <1>3, <1>4
    <3> HIDE DEF bytes
    <3> QED
      BY ONLY <1>3, <3>1, SMTT(30)
  <2>3. sm_status' = "overrun" /\ sm_pc' = "done"
    BY <2>2 DEF NextStructure
  <2>4. ~Present(sm_table', sm_request'.type)
    BY <1>1, <2>1
  <2>5. Result'
    BY <2>3, <2>4 DEF Result
  <2> QED
    BY <1>1, <2>3, <2>5 DEF SmInv
<1>5. CASE k # n + 1
  <2>0. k \in 1..n /\ k + 1 \in 1..(n + 1) /\ (k + 1) - 1 = k /\ k \in Nat
    BY <1>3, <1>5
  <2> DEFINE last == StringsBytes(table[k].strings)
             section == StringSection(bytes, start[k])
  <2>1. /\ bytes[start[k]] = table[k].type /\ start[k] <= Len(bytes)
        /\ section \in Nat
        /\ GetNextSMBIOSStructureInTable(bytes, start[k]) = start[k + 1]
    <3>1. IsFirmware(table) /\ StructuresAt(table, start) /\ k \in 1..Len(table)
      BY <1>1, <1>3, <2>0
    <3> QED
      BY ONLY <3>1, StructureInTable, SMTT(30)
  <2>2. ~(sm_at > Len(bytes))
    <3>1. start[k] \in Nat
      BY <1>3 DEF StructuresAt
    <3> HIDE DEF bytes, start
    <3> QED
      BY <1>2, <1>3, <2>1, <3>1
  <2>3. CASE table[k].type # type
    <3>1. sm_at' = start[k + 1] /\ UNCHANGED <<sm_status, sm_pc, sm_char>>
      BY <1>2, <2>1, <2>2, <2>3 DEF NextStructure
    <3>2. \A l \in 1..k : table[l].type # type
      <4>1. \A l \in 1..k : l = k \/ l \in 1..(k - 1)
        BY <2>0
      <4> QED
        BY <1>2, <2>3, <4>1
    <3>3. Passing'
      BY <1>1, <2>0, <3>1, <3>2, Zenon DEF Passing
    <3> QED
      BY <1>1, <3>1, <3>3 DEF SmInv
  <2>4. CASE table[k].type = type
    <3>1. sm_char' = section /\ sm_pc' = "string"
      BY <1>2, <2>1, <2>2, <2>4 DEF NextStructure
    <3>2. IsFirst(table, type, k)
      BY <1>2, <2>0, <2>4 DEF IsFirst
    <3> DEFINE strings == table[k].strings
    <3>3. CASE strings = <<>>
      <4>1. Reading'
        BY <1>1, <3>1, <3>2, <3>3, Zenon DEF Reading, ReadingOf
      <4> QED
        BY <1>1, <3>1, <4>1 DEF SmInv
    <3>4. CASE strings # <<>>
      <4>1. strings \in Seq(Strings)
        BY <1>1, <2>0 DEF IsFirmware, IsStructure, Strings
      <4>2. StringsAt(strings, Marks(strings))
        BY <3>4, <4>1, StringsLayout, Zenon DEF Marks
      <4>3. Marks(strings)[1] = 1
        BY <4>2 DEF StringsAt
      <4> HIDE DEF strings, section
      <4>4. Len(strings) \in Nat \ {0}
        BY <3>4, <4>1
      <4>5. Len(strings[1]) \in Nat
        BY SMTT(30), <4>1, <4>4, StringFacts
      <4>6. /\ 0 \in Nat /\ 0 + 1 = 1 /\ 1 \in 1..Len(strings) /\ 1 <= sm_request.index
            /\ 1 \in 1..(Len(strings[1]) + 1) /\ section = section + 1 + 1 - 2
            /\ Len(<<>>) = 1 - 1 /\ 1..(1 - 1) = {} /\ <<>> \in Seq(Nat)
        BY <1>1, <2>1, <4>4, <4>5
      <4>7. InString(strings, section, sm_request.index, 0, section, <<>>)
        BY <4>3, <4>6, Zenon DEF InString
      <4>8. Reading'
        <5>1. InString(strings, section, sm_request'.index, sm_string_count', sm_char', sm_buffer')
          BY <1>1, <3>1, <4>7
        <5> QED
          BY <1>1, <3>2, <3>4, <5>1, Zenon DEF Reading, ReadingOf, strings, section
      <4> QED
        BY <1>1, <3>1, <4>8 DEF SmInv
    <3> QED
      BY <3>3, <3>4
  <2> QED
    BY <2>3, <2>4
<1> QED
  BY <1>4, <1>5

LEMMA SmString == ASSUME SmInv, GetStringAtIndexFromSMBIOSTable PROVE SmInv'
<1> DEFINE table == sm_table
           bytes == TableBytes(table)
           start == Starts(table)
           type == sm_request.type
           index == sm_request.index
           char == bytes[sm_char]
<1>1. /\ sm_pc = "string" /\ IsFirmware(table) /\ index \in Nat \ {0}
      /\ sm_request.size \in Nat /\ UNCHANGED <<sm_table, sm_request, sm_at>>
  BY DEF SmInv, GetStringAtIndexFromSMBIOSTable
<1>2. PICK k : IsFirst(table, type, k) /\ ReadingOf(k)
  BY <1>1 DEF SmInv, Reading
<1> DEFINE strings == table[k].strings
           section == StringSection(bytes, start[k])
           size(i) == Len(strings[i])
           target == sm_string_count + 1 = index
           twice == IsDoubleNull(bytes, sm_char)
<1>3. Present(table, type) /\ StringsOf(table, type) = strings
  BY <1>1, <1>2, FirstStrings, Zenon
<1>4. k \in 1..Len(table) /\ strings \in Seq(Strings)
  BY <1>1, <1>2 DEF IsFirst, IsFirmware, IsStructure, Strings
<1>5. StructuresAt(table, start)
  BY <1>1, StartsFacts, Zenon
<1>6. /\ section \in Nat
      /\ \A p \in 1..Len(StringsBytes(strings)) :
             bytes[section + p - 1] = StringsBytes(strings)[p]
  <2>1. IsFirmware(table) /\ k \in 1..Len(table)
    BY <1>1, <1>4
  <2> QED
    BY ONLY <1>5, <2>1, StructureInTable, SMTT(30)
<1> DEFINE Return(status) == /\ sm_status' = status /\ sm_pc' = "done"
                             /\ UNCHANGED <<sm_char, sm_string_count, sm_buffer>>
<1>7. /\ twice => Return("not_found")
      /\ ~twice /\ Len(sm_buffer) >= sm_request.size => Return("buffer_too_small")
      /\ ~twice /\ ~(Len(sm_buffer) >= sm_request.size) /\ target /\ char = NUL =>
             Return("success")
      /\ ~twice /\ ~(Len(sm_buffer) >= sm_request.size) /\ ~(target /\ char = NUL) =>
             /\ sm_char' = sm_char + 1 /\ UNCHANGED <<sm_status, sm_pc>>
             /\ sm_buffer' = IF target THEN Append(sm_buffer, char) ELSE sm_buffer
             /\ sm_string_count' = IF char = NUL THEN sm_string_count + 1 ELSE sm_string_count
  BY Zenon DEF GetStringAtIndexFromSMBIOSTable, IsTarget
<1>8. ASSUME NEW status, Return(status),
             status \in {"success", "not_found", "buffer_too_small"},
             status = "success" <=> index < Len(strings) /\ size(index) < sm_request.size,
             status = "success" => sm_buffer = strings[index]
      PROVE  SmInv'
  <2>1. Len(strings) \in Nat
    BY <1>4
  <2>2. Result'
    BY <1>1, <1>3, <1>8, <2>1, Zenon DEF Result
  <2> QED
    BY <1>1, <1>8, <2>2 DEF SmInv
<1>9. CASE strings = <<>>
  <2>1. StringsBytes(strings) = <<NUL, NUL>> /\ sm_char = section
    BY <1>2, <1>9 DEF StringsBytes, ReadingOf
  <2>2. bytes[section] = NUL /\ bytes[section + 1] = NUL
    <3> HIDE DEF bytes, section
    <3>1. Len(<<NUL, NUL>>) = 2 /\ <<NUL, NUL>>[1] = NUL /\ <<NUL, NUL>>[2] = NUL
      OBVIOUS
    <3>2. 1 \in 1..2 /\ 2 \in 1..2 /\ section + 1 - 1 = section /\ section + 2 - 1 = section + 1
      BY <1>6
    <3> QED
      BY <1>6, <2>1, <3>1, <3>2
  <2>3. twice
    BY <2>1, <2>2 DEF IsDoubleNull
  <2>4. ~(index < Len(strings))
    <3>1. Len(strings) = 0
      BY <1>9
    <3> QED
      BY ONLY <1>1, <3>1, SMTT(30)
  <2> QED
    BY <1>7, <1>8, <2>3, <2>4
<1>10. CASE strings # <<>>
  <2>1. InString(strings, section, index, sm_string_count, sm_char, sm_buffer)
    BY <1>2, <1>10 DEF ReadingOf
  <2>2. /\ Len(strings) \in Nat /\ Len(sm_buffer) \in Nat
        /\ twice => Len(strings) <= index
        /\ index <= Len(strings) => size(index) \in Nat /\ Len(sm_buffer) <= size(index)
        /\ ~twice /\ target /\ char = NUL =>
               index < Len(strings) /\ sm_buffer = strings[index]
        /\ ~twice /\ ~(target /\ char = NUL) =>
               InString(strings, section, index,
                        IF char = NUL THEN sm_string_count + 1 ELSE sm_string_count,
                        sm_char + 1, IF target THEN Append(sm_buffer, char) ELSE sm_buffer)
    <3>1. index \in Nat \ {0}
      BY <1>1
    <3> QED
      BY ONLY <1>4, <1>6, <1>10, <2>1, <3>1, NextCharacter, ZenonT(20), SMTT(30)
  <2> HIDE DEF twice, char, target
  <2>3. CASE twice
    <3>1. ~(index < Len(strings))
      BY ONLY <1>1, <2>2, <2>3, SMTT(30)
    <3> QED
      BY <1>7, <1>8, <2>3, <3>1
  <2>4. CASE ~twice /\ Len(sm_buffer) >= sm_request.size
    <3>1. ~(index < Len(strings) /\ size(index) < sm_request.size)
      <4> HIDE DEF size
      <4> QED
        BY ONLY <1>1, <2>2, <2>4, SMTT(30)
    <3> QED
      BY <1>7, <1>8, <2>4, <3>1
  <2>5. CASE ~twice /\ ~(Len(sm_buffer) >= sm_request.size) /\ target /\ char = NUL
    <3>1. index < Len(strings) /\ sm_buffer = strings[index]
      BY <2>2, <2>5
    <3>2. size(index) < sm_request.size
      BY <1>1, <2>2, <2>5, <3>1
    <3> QED
      BY <1>7, <1>8, <2>5, <3>1, <3>2
  <2>6. CASE ~twice /\ ~(Len(sm_buffer) >= sm_request.size) /\ ~(target /\ char = NUL)
    <3>1. /\ sm_char' = sm_char + 1 /\ UNCHANGED <<sm_status, sm_pc>>
          /\ sm_buffer' = IF target THEN Append(sm_buffer, char) ELSE sm_buffer
          /\ sm_string_count' = IF char = NUL THEN sm_string_count + 1 ELSE sm_string_count
      BY <1>7, <2>6
    <3>2. InString(strings, section, index, sm_string_count', sm_char', sm_buffer')
      BY <2>2, <2>6, <3>1, Zenon
    <3>3. Reading'
      BY <1>1, <1>2, <1>10, <3>2, Zenon DEF Reading, ReadingOf
    <3> QED
      BY <1>1, <3>1, <3>3 DEF SmInv
  <2> QED
    BY <2>3, <2>4, <2>5, <2>6
<1> QED
  BY <1>9, <1>10

\* Nothing happens to the search.
LEMMA SmUnchanged == ASSUME SmInv, UNCHANGED sm_vars PROVE SmInv'
  BY Zenon DEF SmInv, sm_vars, Passing, Reading, ReadingOf, Result

\* The invariant says what SmbiosStringExact does.
LEMMA SmExact == ASSUME SmInv PROVE SmbiosStringExact
  BY Zenon DEF SmInv, Result, Present, SmbiosStringExact

-----------------------------------------------------------------------------
(* The machine.                                                            *)

InfoFields == {"virtualised", "processor", "vendor", "environment", "serial", "drive"}

\* What AskFirmware asks for.
Asked == IF si_pc = "vendor" THEN VendorRequest ELSE SerialRequest(si_info.environment)

VendorOf(machine) == StringsOf(machine.table, VendorRequest.type)[VendorRequest.index]

VendorKnown ==
    /\ si_info.vendor = VendorOf(si_machine)
    /\ si_info.environment = EnvironmentOf(VendorOf(si_machine))
    /\ si_info.environment # "VirtualBox"

SerialKnown ==
    LET request == SerialRequest(si_info.environment)
        strings == StringsOf(si_machine.table, request.type)
    IN  request.index <= Len(strings) /\ si_info.serial = strings[request.index]

SiInv ==
    /\ si_pc \in {"aperf", "os", "processor", "vendor", "serial", "drive", "loaded",
                  "ready", "failed"}
    /\ DOMAIN si_info = InfoFields
    /\ si_pc \in {"os", "processor", "vendor", "serial", "drive", "loaded"} =>
           si_machine \in Machines
    /\ sm_pc # "idle" => /\ si_pc \in {"vendor", "serial"}
                         /\ sm_table = si_machine.table /\ sm_request = Asked
    /\ si_pc \in {"serial", "drive", "loaded"} => VendorKnown
    /\ si_pc \in {"drive", "loaded"} => SerialKnown
    /\ si_pc = "loaded" => si_info.drive = si_machine.drive

LEMMA SiStart == SmbiosInit /\ SystemInformationInit => SiInv
<1> SUFFICES ASSUME SmbiosInit, SystemInformationInit PROVE SiInv
  OBVIOUS
<1>1. DOMAIN EmptyInfo = InfoFields
  BY SMTT(30) DEF EmptyInfo, InfoFields
<1> QED
  BY <1>1 DEF SmbiosInit, SystemInformationInit, SiInv

\* The requests are ones the search is made for.
LEMMA AskedFacts ==
    ASSUME NEW environment, NEW request \in {VendorRequest, SerialRequest(environment)}
    PROVE  request.index \in Nat \ {0} /\ request.size \in Nat
<1>1. /\ VENDOR_STRING_MAX_LENGTH \in Nat /\ MOTHERBOARD_SERIAL_CODE_LENGTH \in Nat
  BY SystemInformationAssumption
<1>2. request \in {VendorRequest, NativeSerialRequest, VmwareSerialRequest}
  BY DEF SerialRequest
<1> QED
  BY ONLY <1>1, <1>2, SMTT(30) DEF VendorRequest, NativeSerialRequest, VmwareSerialRequest

\* A field of the record replaced.
LEMMA InfoWith ==
    ASSUME NEW info, DOMAIN info = InfoFields, NEW field \in InfoFields, NEW value
    PROVE  LET new == [info EXCEPT ![field] = value]
           IN  /\ DOMAIN new = InfoFields /\ new[field] = value
               /\ \A other \in InfoFields : other # field => new[other] = info[other]
  OBVIOUS

\* What a search that succeeded has found for the machine.
LEMMA FoundString ==
    ASSUME SmInv, SiInv, sm_pc = "done", sm_status = "success"
    PROVE  LET strings == StringsOf(si_machine.table, Asked.type)
           IN  Asked.index <= Len(strings) /\ sm_buffer = strings[Asked.index]
<1> DEFINE strings == StringsOf(sm_table, sm_request.type)
           index == sm_request.index
<1>1. sm_table = si_machine.table /\ sm_request = Asked /\ index \in Nat
  BY DEF SiInv, SmInv
<1>2. index < Len(strings) /\ Len(strings) \in Nat /\ sm_buffer = strings[index]
  BY Zenon DEF SmInv, Result
<1> HIDE DEF strings, index
<1>3. index <= Len(strings)
  BY ONLY <1>1, <1>2, SMTT(30)
<1> QED
  BY <1>1, <1>2, <1>3, Zenon DEF strings, index

LEMMA SmSteps ==
    ASSUME SmInv, SiInv, SystemInformationStep
    PROVE  SmInv'
<1>1. CASE TestVirtualised \/ GetOsVersionInformation \/ GetSystemProcessorType
           \/ GetHardDiskDriveSerialNumber \/ DriverEntryReturns
  <2>1. UNCHANGED sm_vars
    BY <1>1, Zenon DEF TestVirtualised, GetOsVersionInformation, GetSystemProcessorType,
       GetHardDiskDriveSerialNumber, DriverEntryReturns
  <2> QED
    BY <2>1, SmUnchanged
<1>2. CASE AskFirmware
  <2>1. CASE UNCHANGED sm_vars
    BY <2>1, SmUnchanged
  <2>2. CASE ~UNCHANGED sm_vars
    <3>1. /\ si_pc \in {"vendor", "serial"}
          /\ \E request \in {VendorRequest, SerialRequest(si_info.environment)} :
                 ParseSMBIOSTable(si_machine.table, request)
      BY <1>2, <2>2, Zenon DEF AskFirmware
    <3>2. IsFirmware(si_machine.table)
      BY <3>1, SystemInformationAssumption DEF SiInv
    <3> QED
      BY <3>1, <3>2, AskedFacts, SmParse, Zenon
  <2> QED
    BY <2>1, <2>2
<1>3. CASE SearchFirmware
  BY <1>3, SmStructure, SmString DEF SearchFirmware
<1>4. CASE TakeVendor \/ TakeSerial
  BY <1>4, SmReturn DEF TakeVendor, TakeSerial
<1> QED
  BY <1>1, <1>2, <1>3, <1>4 DEF SystemInformationStep

LEMMA SiTakeVendor == ASSUME SmInv, SiInv, TakeVendor PROVE SiInv'
<1>1. /\ si_pc = "vendor" /\ sm_pc = "done" /\ sm_pc' = "idle" /\ UNCHANGED si_machine
      /\ si_machine \in Machines /\ DOMAIN si_info = InfoFields
  BY DEF TakeVendor, SmbiosReturn, SiInv
<1>2. CASE sm_status # "success"
  <2>1. si_pc' = "failed" /\ UNCHANGED si_info
    BY <1>2, Zenon DEF TakeVendor
  <2> QED
    BY <1>1, <2>1 DEF SiInv
<1>3. CASE sm_status = "success"
  <2> DEFINE vendor == VendorOf(si_machine)
             environment == EnvironmentOf(vendor)
  <2>1. sm_buffer = vendor
    <3>1. Asked = VendorRequest
      BY <1>1 DEF Asked
    <3> QED
      BY <1>1, <1>3, <3>1, FoundString, Zenon DEF VendorOf
  <2>2. /\ si_info' = [[si_info EXCEPT !["vendor"] = vendor] EXCEPT !["environment"] = environment]
        /\ si_pc' = IF environment = "VirtualBox" THEN "failed" ELSE "serial"
    BY <1>3, <2>1, Zenon DEF TakeVendor
  <2> HIDE DEF vendor, environment
  <2> DEFINE first == [si_info EXCEPT !["vendor"] = vendor]
  <2>3. "vendor" \in InfoFields /\ "environment" \in InfoFields
    BY DEF InfoFields
  <2>4. DOMAIN first = InfoFields /\ first["vendor"] = vendor
    BY <1>1, <2>3, InfoWith, Zenon
  <2>5. si_info' = [first EXCEPT !["environment"] = environment]
    BY <2>2
  <2> HIDE DEF first
  <2>6. DOMAIN si_info' = InfoFields /\ si_info'["environment"] = environment
        /\ si_info'["vendor"] = first["vendor"]
    BY <2>3, <2>4, <2>5, InfoWith, Zenon
  <2>7. si_info'.environment = environment /\ si_info'.vendor = vendor
    BY <2>4, <2>6
  <2>8. CASE environment = "VirtualBox"
    BY <1>1, <2>2, <2>6, <2>8 DEF SiInv
  <2>9. CASE environment # "VirtualBox"
    <3>1. VendorKnown'
      BY <1>1, <2>7, <2>9 DEF VendorKnown, vendor, environment, VendorOf
    <3> QED
      BY <1>1, <2>2, <2>6, <2>9, <3>1 DEF SiInv
  <2> QED
    BY <2>8, <2>9
<1> QED
  BY <1>2, <1>3

LEMMA SiTakeSerial == ASSUME SmInv, SiInv, TakeSerial PROVE SiInv'
<1>1. /\ si_pc = "serial" /\ sm_pc = "done" /\ sm_pc' = "idle" /\ UNCHANGED si_machine
      /\ si_machine \in Machines /\ DOMAIN si_info = InfoFields /\ VendorKnown
  BY DEF TakeSerial, SmbiosReturn, SiInv
<1>2. CASE sm_status # "success"
  <2>1. si_pc' = "failed" /\ UNCHANGED si_info
    BY <1>2, Zenon DEF TakeSerial
  <2> QED
    BY <1>1, <2>1 DEF SiInv
<1>3. CASE sm_status = "success"
  <2>1. si_info' = [si_info EXCEPT !["serial"] = sm_buffer] /\ si_pc' = "drive"
    BY <1>3, Zenon DEF TakeSerial
  <2>2. "serial" \in InfoFields /\ "vendor" \in InfoFields /\ "environment" \in InfoFields
    BY DEF InfoFields
  <2>3. /\ DOMAIN si_info' = InfoFields /\ si_info'["serial"] = sm_buffer
        /\ si_info'["vendor"] = si_info["vendor"]
        /\ si_info'["environment"] = si_info["environment"]
    BY <1>1, <2>1, <2>2, InfoWith, Zenon
  <2>4. /\ si_info'.serial = sm_buffer /\ si_info'.vendor = si_info.vendor
        /\ si_info'.environment = si_info.environment
    BY <2>3
  <2>5. VendorKnown'
    BY <1>1, <2>4 DEF VendorKnown
  <2>6. SerialKnown'
    <3>1. Asked = SerialRequest(si_info.environment)
      BY <1>1 DEF Asked
    <3> QED
      BY <1>1, <1>3, <2>4, <3>1, FoundString, Zenon DEF SerialKnown
  <2> QED
    BY <1>1, <2>1, <2>3, <2>5, <2>6 DEF SiInv
<1> QED
  BY <1>2, <1>3

LEMMA SiDrive == ASSUME SiInv, GetHardDiskDriveSerialNumber PROVE SiInv'
<1>1. /\ si_pc = "drive" /\ sm_pc = "idle" /\ UNCHANGED <<si_machine, sm_vars>>
      /\ si_machine \in Machines /\ DOMAIN si_info = InfoFields /\ VendorKnown /\ SerialKnown
  BY DEF GetHardDiskDriveSerialNumber, SiInv
<1>2. CASE si_pc' = "failed" /\ UNCHANGED si_info
  BY <1>1, <1>2 DEF SiInv, sm_vars
<1>3. CASE si_info' = [si_info EXCEPT !.drive = si_machine.drive] /\ si_pc' = "loaded"
  <2>1. /\ "serial" \in InfoFields /\ "vendor" \in InfoFields /\ "environment" \in InfoFields
        /\ "drive" \in InfoFields
    BY DEF InfoFields
  <2>2. /\ DOMAIN si_info' = InfoFields /\ si_info'["drive"] = si_machine.drive
        /\ si_info'["vendor"] = si_info["vendor"] /\ si_info'["serial"] = si_info["serial"]
        /\ si_info'["environment"] = si_info["environment"]
    BY <1>1, <1>3, <2>1, InfoWith, Zenon
  <2>3. /\ si_info'.serial = si_info.serial /\ si_info'.vendor = si_info.vendor
        /\ si_info'.environment = si_info.environment /\ si_info'.drive = si_machine.drive
    BY <2>2
  <2>4. VendorKnown' /\ SerialKnown'
    BY <1>1, <2>3 DEF VendorKnown, SerialKnown
  <2> QED
    BY <1>1, <1>3, <2>2, <2>3, <2>4 DEF SiInv, sm_vars
<1> QED
  BY <1>2, <1>3, Zenon DEF GetHardDiskDriveSerialNumber

LEMMA SiBegin ==
    ASSUME SiInv, TestVirtualised \/ GetOsVersionInformation \/ GetSystemProcessorType
    PROVE  SiInv'
<1>1. /\ sm_pc = "idle" /\ UNCHANGED sm_vars /\ DOMAIN si_info = InfoFields
      /\ si_pc' \in {"os", "processor", "vendor", "failed"} /\ si_machine' \in Machines
  BY DEF SiInv, TestVirtualised, GetOsVersionInformation, GetSystemProcessorType
<1>2. DOMAIN si_info' = InfoFields
  <2>1. "virtualised" \in InfoFields /\ "processor" \in InfoFields
    BY DEF InfoFields
  <2>2. \/ UNCHANGED si_info
        \/ \E value : si_info' = [si_info EXCEPT !["virtualised"] = value]
        \/ \E value : si_info' = [si_info EXCEPT !["processor"] = value]
    BY Zenon DEF TestVirtualised, GetOsVersionInformation, GetSystemProcessorType
  <2> QED
    BY <1>1, <2>1, <2>2, InfoWith, Zenon
<1> QED
  BY <1>1, <1>2 DEF SiInv, sm_vars

LEMMA SiSteps ==
    ASSUME SmInv, SiInv, SystemInformationStep
    PROVE  SiInv'
<1>1. CASE AskFirmware
  <2>1. CASE sm_pc = "idle" /\ si_pc' = "failed" /\ UNCHANGED <<si_machine, si_info, sm_vars>>
    BY <2>1 DEF SiInv, sm_vars
  <2>2. CASE /\ \/ si_pc = "vendor" /\ ParseSMBIOSTable(si_machine.table, VendorRequest)
                \/ /\ si_pc = "serial"
                   /\ ParseSMBIOSTable(si_machine.table, SerialRequest(si_info.environment))
             /\ UNCHANGED si_vars
    <3>1. /\ UNCHANGED <<si_pc, si_machine, si_info>> /\ si_pc \in {"vendor", "serial"}
          /\ sm_table' = si_machine.table /\ sm_request' = Asked
      BY <2>2 DEF si_vars, ParseSMBIOSTable, Asked
    <3> QED
      BY <3>1 DEF SiInv, Asked, VendorKnown
  <2> QED
    BY <1>1, <2>1, <2>2, Zenon DEF AskFirmware
<1>2. CASE SearchFirmware
  <2>1. /\ UNCHANGED <<si_pc, si_machine, si_info, sm_table, sm_request>> /\ sm_pc # "idle"
    BY <1>2, Zenon DEF SearchFirmware, si_vars, NextStructure, GetStringAtIndexFromSMBIOSTable
  <2> QED
    BY <2>1 DEF SiInv, Asked, VendorKnown, SerialKnown
<1>3. CASE DriverEntryReturns
  <2>1. DOMAIN EmptyInfo = InfoFields
    BY SMTT(30) DEF EmptyInfo, InfoFields
  <2> QED
    BY <1>3, <2>1 DEF DriverEntryReturns, SiInv, sm_vars
<1> QED
  BY <1>1, <1>2, <1>3, SiBegin, SiTakeVendor, SiTakeSerial, SiDrive DEF SystemInformationStep

LEMMA SiUnchanged == ASSUME SiInv, UNCHANGED <<sm_vars, si_vars>> PROVE SiInv'
  BY Zenon DEF SiInv, sm_vars, si_vars, Asked, VendorKnown, SerialKnown

LEMMA SiIdentified == ASSUME SiInv PROVE LoadedMeansIdentified
<1> SUFFICES ASSUME si_pc = "loaded" PROVE LoadedMeansIdentified
  BY DEF LoadedMeansIdentified
<1> DEFINE vendor == VendorOf(si_machine)
           vmware == StrStr(vendor, VmwareVendor)
           virtualbox == StrStr(vendor, VirtualBoxVendor)
           request == SerialRequest(si_info.environment)
           strings == StringsOf(si_machine.table, request.type)
<1>1. /\ si_info.vendor = vendor /\ si_info.environment = EnvironmentOf(vendor)
      /\ si_info.environment # "VirtualBox" /\ si_info.drive = si_machine.drive
      /\ request.index <= Len(strings) /\ si_info.serial = strings[request.index]
  BY DEF SiInv, VendorKnown, SerialKnown
<1>2. EnvironmentOf(vendor) =
          IF vmware THEN "Vmware" ELSE IF virtualbox THEN "VirtualBox" ELSE "NativeWindows"
  BY Zenon DEF EnvironmentOf
<1>3. (si_info.environment = "Vmware" <=> vmware) /\ (virtualbox => vmware)
  BY <1>1, <1>2
<1>4. request = IF vmware THEN VmwareSerialRequest ELSE NativeSerialRequest
  BY <1>3 DEF SerialRequest
<1> QED
  BY <1>1, <1>3, <1>4, Zenon DEF LoadedMeansIdentified, VendorOf

-----------------------------------------------------------------------------
(* Processes in memory.                                                    *)

\* Buffer c is b with more slots filled; while a slot is free, with all of S.
Fills(b, c, S) ==
    /\ Len(c) = Len(b)
    /\ \A i \in 1..Len(b) : b[i] # NoProcess => c[i] = b[i]
    /\ (\E i \in 1..Len(c) : c[i] = NoProcess) => \A a \in S : \E i \in 1..Len(c) : c[i] = a

LEMMA FillsMore ==
    ASSUME NEW V, NEW b \in Seq(V), NEW c \in Seq(V), NEW d \in Seq(V), NEW S, NEW T,
           Fills(b, c, S), Fills(c, d, T), NoProcess \notin S
    PROVE  Fills(b, d, S \cup T)
<1>1. Len(c) = Len(b) /\ Len(d) = Len(b)
  BY DEF Fills
<1>2. \A i \in 1..Len(b) : b[i] # NoProcess => d[i] = b[i]
  BY <1>1 DEF Fills
<1>3. ASSUME NEW i \in 1..Len(d), d[i] = NoProcess, NEW a \in S \cup T
      PROVE  \E j \in 1..Len(d) : d[j] = a
  <2>1. CASE a \in T
    BY <1>3, <2>1 DEF Fills
  <2>2. CASE a \in S
    <3>1. c[i] = NoProcess /\ i \in 1..Len(c)
      BY <1>1, <1>3 DEF Fills
    <3>2. PICK j \in 1..Len(c) : c[j] = a
      BY <2>2, <3>1 DEF Fills
    <3>3. d[j] = a /\ j \in 1..Len(d)
      BY <1>1, <2>2, <3>2 DEF Fills
    <3> QED
      BY <3>3
  <2> QED
    BY <2>1, <2>2
<1> QED
  BY <1>1, <1>2, <1>3 DEF Fills

LEMMA AddFills ==
    ASSUME NEW V, NEW buffer \in Seq(V), NEW address \in V, address # NoProcess
    PROVE  /\ AddToBuffer(buffer, address) \in Seq(V)
           /\ Fills(buffer, AddToBuffer(buffer, address), {address})
<1> DEFINE free == {i \in 1..Len(buffer) : buffer[i] = NoProcess}
<1>1. CASE free = {}
  <2>1. AddToBuffer(buffer, address) = buffer
    BY <1>1 DEF AddToBuffer
  <2> QED
    BY <1>1, <2>1 DEF Fills
<1>2. CASE free # {}
  <2>0. free \in SUBSET Nat
    BY SMTT(30)
  <2>1. Min(free) \in free
    BY <1>2, <2>0, LeastNumber, Zenon
  <2>2. AddToBuffer(buffer, address) = [buffer EXCEPT ![Min(free)] = address]
    BY <1>2 DEF AddToBuffer
  <2>3. PICK m \in 1..Len(buffer) : m = Min(free) /\ buffer[m] = NoProcess
    BY <2>1
  <2> DEFINE c == [buffer EXCEPT ![m] = address]
  <2>4. c \in Seq(V) /\ Len(c) = Len(buffer) /\ c[m] = address
    OBVIOUS
  <2>5. \A i \in 1..Len(buffer) : buffer[i] # NoProcess => c[i] = buffer[i]
    BY <2>3
  <2> HIDE DEF c
  <2>6. Fills(buffer, c, {address})
    BY <2>4, <2>5 DEF Fills
  <2> QED
    BY <2>2, <2>3, <2>4, <2>6 DEF c
<1> QED
  BY <1>1, <1>2

LEMMA FillsLess ==
    ASSUME NEW b, NEW c, NEW S, NEW T \in SUBSET S, Fills(b, c, S)
    PROVE  Fills(b, c, T)
  BY DEF Fills

LEMMA FillsNothing ==
    ASSUME NEW V, NEW b \in Seq(V) PROVE Fills(b, b, {})
  BY DEF Fills

\* The addresses of the processes among the first i allocations.
ProcessesUpTo(block, i) ==
    {block[j].address : j \in {k \in 1..i : ValidateIfAddressIsProcessStructure(block[k])}}

\* `process' as the scan defines it.
ProcessFunction(block, f) ==
    f = [i \in 0..Len(block) |->
            IF i = 0 THEN NoProcess
            ELSE IF ValidateIfAddressIsProcessStructure(block[i]) THEN block[i].address
            ELSE f[i - 1]]

LEMMA ProcessDefined ==
    ASSUME NEW V, NoProcess \in V, NEW A, NEW block \in Seq(A), \A a \in A : a.address \in V
    PROVE  \E f \in [0..Len(block) -> V] : ProcessFunction(block, f)
<1> DEFINE n == Len(block)
           step == [p \in V \X (1..n) |->
                       IF ValidateIfAddressIsProcessStructure(block[p[2]])
                       THEN block[p[2]].address ELSE p[1]]
<1>1. n \in Nat /\ \A i \in 1..n : block[i].address \in V
  OBVIOUS
<1> HIDE DEF n
<1>2. step \in [V \X (1..n) -> V]
  BY <1>1
<1> HIDE DEF step
<1>3. PICK f \in [0..n -> V] : Recursion(f, n, NoProcess, step)
  BY <1>1, <1>2, RecursionExists, Zenon
<1>4. ASSUME NEW i \in 1..n
      PROVE  step[<<f[i - 1], i>>] = IF ValidateIfAddressIsProcessStructure(block[i])
                                     THEN block[i].address ELSE f[i - 1]
  <2>1. i - 1 \in 0..n
    BY SMTT(30), <1>1
  <2>2. f[i - 1] \in V
    BY <2>1
  <2> QED
    BY <2>2 DEF step
<1>5. \A i \in 0..n : i # 0 => i \in 1..n
  BY <1>1
<1>6. f = [i \in 0..n |-> IF i = 0 THEN NoProcess
                          ELSE IF ValidateIfAddressIsProcessStructure(block[i])
                          THEN block[i].address ELSE f[i - 1]]
  BY <1>3, <1>4, <1>5 DEF Recursion
<1> QED
  BY <1>6 DEF ProcessFunction, n

\* `scanned' as the scan of a block defines it from `process'.
ScannedFunction(block, buffer, process, f) ==
    f = [i \in 0..Len(block) |->
            IF i = 0 THEN buffer
            ELSE IF process[i] = NoProcess THEN f[i - 1]
            ELSE AddToBuffer(f[i - 1], process[i])]

LEMMA ScannedDefined ==
    ASSUME NEW V, NEW A, NEW block \in Seq(A), NEW buffer \in Seq(V),
           NEW process \in [0..Len(block) -> V]
    PROVE  \E f \in [0..Len(block) -> Seq(V)] : ScannedFunction(block, buffer, process, f)
<1> DEFINE n == Len(block)
           B == Seq(V)
           step == [p \in B \X (1..n) |->
                       IF process[p[2]] = NoProcess THEN p[1]
                       ELSE AddToBuffer(p[1], process[p[2]])]
<1>1. n \in Nat /\ \A i \in 1..n : process[i] \in V
  BY SMTT(30)
<1>2. \A b \in B, i \in 1..n : process[i] # NoProcess => AddToBuffer(b, process[i]) \in B
  BY <1>1, AddFills, Zenon
<1> HIDE DEF n, B
<1>3. step \in [B \X (1..n) -> B]
  BY <1>1, <1>2
<1> HIDE DEF step
<1>4. PICK f \in [0..n -> B] : Recursion(f, n, buffer, step)
  BY <1>1, <1>3, RecursionExists, Zenon DEF B
<1>5. ASSUME NEW i \in 1..n
      PROVE  step[<<f[i - 1], i>>] = IF process[i] = NoProcess THEN f[i - 1]
                                     ELSE AddToBuffer(f[i - 1], process[i])
  <2>1. i - 1 \in 0..n
    BY SMTT(30), <1>1
  <2>2. f[i - 1] \in B
    BY <2>1
  <2> QED
    BY <2>2 DEF step
<1>6. \A i \in 0..n : i # 0 => i \in 1..n
  BY SMTT(30), <1>1
<1>7. f = [i \in 0..n |-> IF i = 0 THEN buffer
                          ELSE IF process[i] = NoProcess THEN f[i - 1]
                          ELSE AddToBuffer(f[i - 1], process[i])]
  BY <1>4, <1>5, <1>6 DEF Recursion
<1> QED
  BY <1>7 DEF ScannedFunction, n, B

\* A block's scan fills the buffer with the block's processes.
LEMMA BlockFills ==
    ASSUME NEW V, NoProcess \in V, NEW A, NEW block \in Seq(A), NEW buffer \in Seq(V),
           \A a \in A : a.address \in V /\ a.address # NoProcess
    PROVE  LET c == ScanPageForKernelObjectAllocation(block, buffer)
           IN  c \in Seq(V) /\ Fills(buffer, c, ProcessesUpTo(block, Len(block)))
<1> DEFINE n == Len(block)
           process == CHOOSE f : ProcessFunction(block, f)
           scanned == CHOOSE f : ScannedFunction(block, buffer, process, f)
<1>1. ScanPageForKernelObjectAllocation(block, buffer) = scanned[n]
  BY DEF ScanPageForKernelObjectAllocation, ProcessFunction, ScannedFunction
<1>2. ProcessFunction(block, process)
  BY ProcessDefined, Zenon
<1> HIDE DEF process
<1>3. n \in Nat /\ \A i \in 1..n : block[i] \in A
  OBVIOUS
<1> HIDE DEF n
<1>4. /\ process[0] = NoProcess
      /\ \A i \in 1..n : process[i] = IF ValidateIfAddressIsProcessStructure(block[i])
                                      THEN block[i].address ELSE process[i - 1]
  BY SMTT(30), <1>2, <1>3 DEF ProcessFunction, n
<1>5. process \in [0..n -> V]
  <2> DEFINE S == {i \in Nat : i <= n => process[i] \in V}
  <2>1. 0 \in S
    BY <1>4
  <2>2. ASSUME NEW i \in S PROVE i + 1 \in S
    <3> SUFFICES ASSUME i + 1 <= n PROVE process[i + 1] \in V
      OBVIOUS
    <3>1. i \in Nat /\ process[i] \in V /\ i + 1 \in 1..n /\ (i + 1) - 1 = i
      BY <1>3
    <3>2. block[i + 1].address \in V
      BY <1>3, <3>1
    <3> QED
      BY <1>4, <3>1, <3>2
  <2>3. S \in SUBSET Nat
    OBVIOUS
  <2> HIDE DEF S
  <2>4. S = Nat
    BY <2>1, <2>2, <2>3, Induction
  <2>5. \A i \in 0..n : process[i] \in V
    BY <1>3, <2>4 DEF S
  <2>6. process = [i \in 0..n |-> process[i]]
    BY <1>2 DEF ProcessFunction, n
  <2> QED
    BY <2>5, <2>6
<1>6. ScannedFunction(block, buffer, process, scanned)
  BY <1>5, ScannedDefined, Zenon DEF n
<1> HIDE DEF scanned
<1>7. /\ scanned[0] = buffer
      /\ \A i \in 1..n : scanned[i] = IF process[i] = NoProcess THEN scanned[i - 1]
                                      ELSE AddToBuffer(scanned[i - 1], process[i])
  <2>1. 0 \in 0..n /\ \A i \in 1..n : i \in 0..n /\ i # 0
    BY <1>3
  <2>2. scanned = [i \in 0..n |-> IF i = 0 THEN buffer
                                 ELSE IF process[i] = NoProcess THEN scanned[i - 1]
                                 ELSE AddToBuffer(scanned[i - 1], process[i])]
    BY <1>6 DEF ScannedFunction, n
  <2> QED
    BY <2>1, <2>2, Zenon
<1> DEFINE S == {i \in Nat : i <= n =>
                     scanned[i] \in Seq(V) /\ Fills(buffer, scanned[i], ProcessesUpTo(block, i))}
<1>8. 0 \in S
  <2>1. ProcessesUpTo(block, 0) = {}
    BY DEF ProcessesUpTo
  <2> QED
    BY <1>7, <2>1, FillsNothing
<1>9. ASSUME NEW i \in S PROVE i + 1 \in S
  <2> SUFFICES ASSUME i + 1 <= n
               PROVE  /\ scanned[i + 1] \in Seq(V)
                      /\ Fills(buffer, scanned[i + 1], ProcessesUpTo(block, i + 1))
    OBVIOUS
  <2>1. /\ i \in Nat /\ scanned[i] \in Seq(V) /\ i + 1 \in 1..n /\ (i + 1) - 1 = i
        /\ Fills(buffer, scanned[i], ProcessesUpTo(block, i))
    BY <1>3
  <2>2. process[i + 1] \in V /\ i \in 0..n
    BY SMTT(30), <1>3, <1>5, <2>1
  <2>3. NoProcess \notin ProcessesUpTo(block, i)
    BY <1>3, <2>1 DEF ProcessesUpTo
  <2>4. \/ ProcessesUpTo(block, i + 1) = ProcessesUpTo(block, i)
        \/ /\ ValidateIfAddressIsProcessStructure(block[i + 1])
           /\ ProcessesUpTo(block, i + 1) = ProcessesUpTo(block, i) \cup {block[i + 1].address}
    <3>1. CASE ValidateIfAddressIsProcessStructure(block[i + 1])
      <4>1. {k \in 1..(i + 1) : ValidateIfAddressIsProcessStructure(block[k])}
                = {k \in 1..i : ValidateIfAddressIsProcessStructure(block[k])} \cup {i + 1}
        BY SMTT(30), <2>1, <3>1
      <4> QED
        BY <3>1, <4>1, ZenonT(30) DEF ProcessesUpTo
    <3>2. CASE ~ValidateIfAddressIsProcessStructure(block[i + 1])
      <4>1. {k \in 1..(i + 1) : ValidateIfAddressIsProcessStructure(block[k])}
                = {k \in 1..i : ValidateIfAddressIsProcessStructure(block[k])}
        BY <2>1, <3>2
      <4> QED
        BY <4>1 DEF ProcessesUpTo
    <3> QED
      BY <3>1, <3>2
  <2>5. CASE process[i + 1] = NoProcess
    <3>1. scanned[i + 1] = scanned[i]
      BY <1>7, <2>1, <2>5
    <3>2. ~ValidateIfAddressIsProcessStructure(block[i + 1])
      BY <1>3, <1>4, <2>1, <2>5
    <3> QED
      BY <2>1, <2>4, <3>1, <3>2
  <2>6. CASE process[i + 1] # NoProcess
    <3> DEFINE d == AddToBuffer(scanned[i], process[i + 1])
    <3>1. scanned[i + 1] = d
      BY <1>7, <2>1, <2>6
    <3>2. d \in Seq(V) /\ Fills(scanned[i], d, {process[i + 1]})
      BY <2>1, <2>2, <2>6, AddFills
    <3> HIDE DEF d
    <3>3. Fills(buffer, d, ProcessesUpTo(block, i) \cup {process[i + 1]})
      BY <2>1, <2>3, <3>2, FillsMore
    <3>4. ValidateIfAddressIsProcessStructure(block[i + 1]) =>
              process[i + 1] = block[i + 1].address
      BY <1>4, <2>1
    <3>5. ProcessesUpTo(block, i + 1) \subseteq ProcessesUpTo(block, i) \cup {process[i + 1]}
      BY <2>4, <3>4
    <3>6. Fills(buffer, d, ProcessesUpTo(block, i + 1))
      BY <3>3, <3>5, FillsLess
    <3> QED
      BY <3>1, <3>2, <3>6
  <2> QED
    BY <2>5, <2>6
<1>10. n \in S
  <2>1. S \in SUBSET Nat
    OBVIOUS
  <2> HIDE DEF S
  <2> QED
    BY <1>3, <1>8, <1>9, <2>1, Induction
<1> QED
  BY <1>1, <1>3, <1>10 DEF n

\* `scanned' as the scan of a page defines it.
BlocksFunction(blocks, buffer, f) ==
    f = [b \in 0..Len(blocks) |->
            IF b = 0 THEN buffer
            ELSE ScanPageForKernelObjectAllocation(blocks[b], f[b - 1])]

\* A page's scan fills the buffer with the page's processes.
LEMMA PageFills ==
    ASSUME NEW V, NoProcess \in V, NEW A, NEW page, page.blocks \in Seq(Seq(A)),
           \A a \in A : a.address \in V /\ a.address # NoProcess, NEW buffer \in Seq(V)
    PROVE  LET c == EnumerateKernelLargePages(page.blocks, buffer)
           IN  c \in Seq(V) /\ Fills(buffer, c, ProcessesOn(page))
<1> DEFINE blocks == page.blocks
           n == Len(blocks)
           B == Seq(V)
           scan(b, c) == ScanPageForKernelObjectAllocation(blocks[b], c)
           on(b) == ProcessesUpTo(blocks[b], Len(blocks[b]))
           step == [p \in B \X (1..n) |-> scan(p[2], p[1])]
           scanned == CHOOSE f : BlocksFunction(blocks, buffer, f)
<1>1. n \in Nat /\ \A b \in 1..n : blocks[b] \in Seq(A)
  OBVIOUS
<1>2. \A b \in 1..n, c \in B : scan(b, c) \in B /\ Fills(c, scan(b, c), on(b))
  BY <1>1, BlockFills, Zenon
<1>3. ASSUME NEW b \in 1..n PROVE NoProcess \notin on(b)
  BY <1>1 DEF ProcessesUpTo
<1>4. buffer \in B
  OBVIOUS
<1> HIDE DEF n, B, scan, on, blocks
<1>5. step \in [B \X (1..n) -> B]
  BY <1>1, <1>2
<1> HIDE DEF step
<1>6. \E f : BlocksFunction(blocks, buffer, f)
  <2>1. PICK f \in [0..n -> B] : Recursion(f, n, buffer, step)
    BY <1>1, <1>4, <1>5, RecursionExists, Zenon
  <2>2. ASSUME NEW b \in 1..n PROVE step[<<f[b - 1], b>>] = scan(b, f[b - 1])
    <3>1. b - 1 \in 0..n
      BY SMTT(30), <1>1
    <3>2. f[b - 1] \in B
      BY <3>1
    <3> QED
      BY <3>2 DEF step
  <2>3. \A b \in 0..n : b # 0 => b \in 1..n
    BY <1>1
  <2>4. f = [b \in 0..n |-> IF b = 0 THEN buffer ELSE scan(b, f[b - 1])]
    BY <2>1, <2>2, <2>3 DEF Recursion
  <2> QED
    BY <2>4 DEF BlocksFunction, n, scan
<1>7. BlocksFunction(blocks, buffer, scanned)
  BY <1>6
<1> HIDE DEF scanned
<1>8. scanned[0] = buffer /\ \A b \in 1..n : scanned[b] = scan(b, scanned[b - 1])
  <2>1. 0 \in 0..n /\ \A b \in 1..n : b \in 0..n /\ b # 0
    BY <1>1
  <2>2. scanned = [b \in 0..n |-> IF b = 0 THEN buffer ELSE scan(b, scanned[b - 1])]
    BY <1>7 DEF BlocksFunction, n, scan
  <2> QED
    BY <2>1, <2>2, Zenon
<1> DEFINE upto(b) == UNION {on(k) : k \in 1..b}
           S == {b \in Nat : b <= n => scanned[b] \in B /\ Fills(buffer, scanned[b], upto(b))}
<1>9. 0 \in S
  <2>1. upto(0) = {}
    OBVIOUS
  <2> QED
    BY <1>4, <1>8, <2>1, FillsNothing DEF B
<1>10. ASSUME NEW b \in S PROVE b + 1 \in S
  <2> SUFFICES ASSUME b + 1 <= n
               PROVE  scanned[b + 1] \in B /\ Fills(buffer, scanned[b + 1], upto(b + 1))
    BY SMTT(30)
  <2>1. /\ b \in Nat /\ scanned[b] \in B /\ b + 1 \in 1..n /\ (b + 1) - 1 = b
        /\ Fills(buffer, scanned[b], upto(b)) /\ 1..b \subseteq 1..n
    BY <1>1
  <2>2. scanned[b + 1] = scan(b + 1, scanned[b])
    BY <1>8, <2>1
  <2>3. scanned[b + 1] \in B /\ Fills(scanned[b], scanned[b + 1], on(b + 1))
    BY <1>2, <2>1, <2>2
  <2>4. NoProcess \notin upto(b)
    BY <1>3, <2>1
  <2>5. 1..(b + 1) = (1..b) \cup {b + 1}
    BY <2>1
  <2>6. upto(b + 1) = upto(b) \cup on(b + 1)
    BY <2>5, Zenon
  <2> HIDE DEF upto
  <2>7. Fills(buffer, scanned[b + 1], upto(b) \cup on(b + 1))
    BY <1>4, <2>1, <2>3, <2>4, FillsMore DEF B
  <2> QED
    BY <2>3, <2>6, <2>7
<1>11. n \in S
  <2>1. S \in SUBSET Nat
    OBVIOUS
  <2> HIDE DEF S
  <2> QED
    BY <1>1, <1>9, <1>10, <2>1, Induction
<1>12. ProcessesOn(page) \subseteq upto(n)
  <2> SUFFICES ASSUME NEW x \in ProcessesOn(page) PROVE x \in upto(n)
    OBVIOUS
  <2>1. PICK a \in AllocationsOn(page) : ValidateIfAddressIsProcessStructure(a) /\ x = a.address
    BY DEF ProcessesOn
  <2>2. PICK b \in 1..n : a \in Range(blocks[b])
    BY DEF AllocationsOn, n, blocks
  <2>3. PICK i \in 1..Len(blocks[b]) : a = blocks[b][i]
    <3>1. DOMAIN blocks[b] = 1..Len(blocks[b])
      BY ONLY <1>1, <2>2, SMTT(30)
    <3> QED
      BY <2>2, <3>1 DEF Range
  <2>4. x \in on(b)
    BY <2>1, <2>3, Zenon DEF on, ProcessesUpTo
  <2> QED
    BY <2>2, <2>4
<1>13. EnumerateKernelLargePages(page.blocks, buffer) = scanned[n]
  BY DEF EnumerateKernelLargePages, BlocksFunction, scanned, n, blocks
<1> HIDE DEF upto
<1>14. Fills(buffer, scanned[n], ProcessesOn(page))
  BY SMTT(30), <1>1, <1>11, <1>12, FillsLess
<1> QED
  BY <1>1, <1>11, <1>13, <1>14 DEF B

-----------------------------------------------------------------------------
\* What is known of a table of each level, and the pages reached from it.
TableAt(level, t) ==
    \/ level = 1 /\ IsPml4(t)
    \/ level = 2 /\ IsPdpt(t)
    \/ level = 3 /\ IsPd(t)
    \/ level = 4 /\ IsPt(t)

PagesFrom(level, t) ==
    IF level = 1 THEN PagesOf(t) ELSE IF level = 2 THEN PdptPages(t)
    ELSE IF level = 3 THEN PdPages(t) ELSE PtPages(t)

\* The pages reached through an entry.
EntryPages(level, e) ==
    IF ~IsPresent(e) THEN {}
    ELSE IF IsLeaf(e, level) THEN IF IsScanned(e) THEN {e} ELSE {}
    ELSE IF e.mapped THEN PagesFrom(level + 1, e.table) ELSE {}

LEMMA PagesOfTable ==
    ASSUME NEW level \in 1..4, NEW t
    PROVE  PagesFrom(level, t) = UNION {EntryPages(level, e) : e \in Range(t)}
<1>1. CASE level = 1
  BY SMTT(30), <1>1 DEF PagesFrom, EntryPages, PagesOf, PagesAt, PagesThrough
<1>2. CASE level = 2
  BY SMTT(30), <1>2 DEF PagesFrom, EntryPages, PdptPages, PagesAt, PagesThrough
<1>3. CASE level = 3
  BY SMTT(30), <1>3 DEF PagesFrom, EntryPages, PdPages, PagesAt, PagesThrough
<1>4. CASE level = 4
  BY SMTT(30), <1>4 DEF PagesFrom, EntryPages, PtPages, PagesAt, PagesThrough, IsLeaf, LEVELS
<1> QED
  BY SMTT(30), <1>1, <1>2, <1>3, <1>4

LEMMA EntriesOfTable ==
    ASSUME NEW level \in 1..4, NEW t, TableAt(level, t)
    PROVE  /\ t \in Seq(Range(t))
           /\ \A e \in Range(t) : IsPresent(e) =>
                  \/ IsLeaf(e, level) /\ IsPageOfBlocks(e)
                  \/ ~IsLeaf(e, level) /\ level < 4 /\ TableAt(level + 1, e.table)
<1>1. CASE level = 1
  BY <1>1 DEF TableAt, IsPml4, IsTable
<1>2. CASE level = 2
  BY <1>2 DEF TableAt, IsPdpt, IsTable
<1>3. CASE level = 3
  BY <1>3 DEF TableAt, IsPd, IsTable
<1>4. CASE level = 4
  BY <1>4 DEF TableAt, IsPt, IsTable, IsLeaf, LEVELS
<1> QED
  BY <1>1, <1>2, <1>3, <1>4

LEMMA TableFrom ==
    ASSUME NEW level \in 1..4, NEW t, NEW u, TableAt(level, t), u \in Seq(Range(u)),
           Range(u) \subseteq Range(t)
    PROVE  TableAt(level, u)
<1>1. CASE level = 1
  BY <1>1 DEF TableAt, IsPml4, IsTable
<1>2. CASE level = 2
  BY <1>2 DEF TableAt, IsPdpt, IsTable
<1>3. CASE level = 3
  BY <1>3 DEF TableAt, IsPd, IsTable
<1>4. CASE level = 4
  BY <1>4 DEF TableAt, IsPt, IsTable, IsLeaf, LEVELS
<1> QED
  BY <1>1, <1>2, <1>3, <1>4

LEMMA RangeOfTail ==
    ASSUME NEW t, t \in Seq(Range(t)), t # <<>>
    PROVE  /\ Head(t) \in Range(t) /\ Range(Tail(t)) \subseteq Range(t)
           /\ Range(t) \subseteq {Head(t)} \cup Range(Tail(t))
           /\ Tail(t) \in Seq(Range(Tail(t)))
<1> DEFINE u == Tail(t)
<1>1. /\ DOMAIN t = 1..Len(t) /\ Len(t) \in Nat \ {0} /\ Head(t) = t[1]
      /\ u \in Seq(Range(t)) /\ Len(u) = Len(t) - 1
      /\ \A i \in 1..Len(u) : u[i] = t[i + 1]
  OBVIOUS
<1>2. DOMAIN u = 1..Len(u)
  BY <1>1
<1> HIDE DEF u
<1>3. Head(t) \in Range(t)
  BY SMTT(30), <1>1 DEF Range
<1>4. Range(u) \subseteq Range(t)
  BY SMTT(30), <1>1, <1>2 DEF Range
<1>5. ASSUME NEW e \in Range(t), e # Head(t) PROVE e \in Range(u)
  <2>1. PICK i \in 1..Len(t) : e = t[i]
    BY <1>1 DEF Range
  <2>2. i - 1 \in 1..Len(u) /\ u[i - 1] = e
    BY SMTT(30), <1>1, <1>5, <2>1
  <2> QED
    BY <1>2, <2>2 DEF Range
<1>6. u \in Seq(Range(u))
  <2>1. \A i \in 1..Len(u) : u[i] \in Range(u)
    BY <1>2 DEF Range
  <2> QED
    BY <1>1, <2>1
<1> QED
  BY <1>3, <1>4, <1>5, <1>6 DEF u

\* Pages reached hold blocks.
LEMMA PagesHoldBlocks ==
    \A level \in 1..4 : \A t :
        TableAt(level, t) => \A p \in PagesFrom(level, t) : IsPageOfBlocks(p)
<1> DEFINE Holds(level) ==
        \A t : TableAt(level, t) => \A p \in PagesFrom(level, t) : IsPageOfBlocks(p)
<1>1. ASSUME NEW level \in 1..4, level < 4 => Holds(level + 1) PROVE Holds(level)
  <2> SUFFICES ASSUME NEW t, TableAt(level, t), NEW p \in PagesFrom(level, t)
               PROVE  IsPageOfBlocks(p)
    OBVIOUS
  <2>1. PICK e \in Range(t) : p \in EntryPages(level, e)
    BY SMTT(30), PagesOfTable
  <2>2. IsPresent(e)
    BY <2>1 DEF EntryPages
  <2>3. \/ IsLeaf(e, level) /\ IsPageOfBlocks(e)
        \/ ~IsLeaf(e, level) /\ level < 4 /\ TableAt(level + 1, e.table)
    BY <2>2, EntriesOfTable, Zenon
  <2>4. CASE IsLeaf(e, level)
    BY <2>1, <2>2, <2>3, <2>4 DEF EntryPages
  <2>5. CASE ~IsLeaf(e, level)
    <3>1. p \in PagesFrom(level + 1, e.table)
      BY <2>1, <2>2, <2>5 DEF EntryPages
    <3> QED
      BY <1>1, <2>3, <2>5, <3>1
  <2> QED
    BY <2>4, <2>5
<1> HIDE DEF Holds
<1>2. Holds(4)
  BY <1>1
<1>3. Holds(3)
  BY <1>1, <1>2
<1>4. Holds(2)
  BY <1>1, <1>3
<1>5. Holds(1)
  BY <1>1, <1>4
<1>6. \A level \in 1..4 : Holds(level)
  BY <1>2, <1>3, <1>4, <1>5
<1> QED
  BY <1>6 DEF Holds

-----------------------------------------------------------------------------
InBuffer(x, b) == \E i \in 1..Len(b) : b[i] = x

\* x is on a page that the walk has still to come to.
Ahead(x, tables) ==
    \E level \in 1..Len(tables) : \E page \in PagesFrom(level, tables[level]) :
        x \in ProcessesOn(page)

Tables(tables) ==
    /\ tables \in Seq(Range(tables)) /\ Len(tables) <= 4
    /\ \A level \in 1..Len(tables) : TableAt(level, tables[level])

LEMMA TablesFacts ==
    ASSUME NEW tables, Tables(tables)
    PROVE  /\ Len(tables) \in 0..4 /\ DOMAIN tables = 1..Len(tables)
           /\ \A level \in 1..Len(tables) : TableAt(level, tables[level])
<1>1. tables \in Seq(Range(tables)) /\ Len(tables) <= 4
  BY DEF Tables
<1>2. Len(tables) \in Nat /\ DOMAIN tables = 1..Len(tables)
  BY <1>1
<1> QED
  BY <1>1, <1>2 DEF Tables

LEMMA FirstElements ==
    ASSUME NEW S, NEW s \in Seq(S), NEW m \in Nat, m <= Len(s)
    PROVE  /\ SubSeq(s, 1, m) \in Seq(S) /\ Len(SubSeq(s, 1, m)) = m
           /\ \A i \in 1..m : SubSeq(s, 1, m)[i] = s[i]
  OBVIOUS

\* At the end of a table the walk goes on in the one before.
LEMMA EndOfTable ==
    ASSUME NEW tables, Tables(tables), Len(tables) > 0, tables[Len(tables)] = <<>>
    PROVE  LET rest == SubSeq(tables, 1, Len(tables) - 1)
           IN  Tables(rest) /\ \A x : Ahead(x, tables) => Ahead(x, rest)
<1> DEFINE n == Len(tables)
           rest == SubSeq(tables, 1, n - 1)
<1>1. n \in 1..4 /\ \A l \in 1..n : TableAt(l, tables[l])
  BY TablesFacts
<1>2. /\ rest \in Seq(Range(tables)) /\ Len(rest) = n - 1 /\ DOMAIN rest = 1..(n - 1)
      /\ \A l \in 1..(n - 1) : rest[l] = tables[l]
  <2>1. tables \in Seq(Range(tables)) /\ n - 1 \in Nat /\ n - 1 <= Len(tables)
    BY <1>1 DEF Tables
  <2> HIDE DEF n
  <2>2. /\ rest \in Seq(Range(tables)) /\ Len(rest) = n - 1
        /\ \A l \in 1..(n - 1) : rest[l] = tables[l]
    BY <2>1, FirstElements, Zenon
  <2> HIDE DEF rest
  <2> QED
    BY <2>1, <2>2
<1> HIDE DEF rest, n
<1>3. rest \in Seq(Range(rest))
  <2>1. \A l \in 1..Len(rest) : rest[l] \in Range(rest)
    BY <1>1, <1>2 DEF Range
  <2> QED
    BY <1>2, <2>1
<1>4. Tables(rest)
  BY <1>1, <1>2, <1>3 DEF Tables
<1>5. PagesFrom(n, <<>>) = {}
  <2>1. Range(<<>>) = {}
    BY DEF Range
  <2> QED
    BY SMTT(30), <1>1, <2>1, PagesOfTable
<1>6. ASSUME NEW x, Ahead(x, tables) PROVE Ahead(x, rest)
  <2>1. PICK l \in 1..n : \E page \in PagesFrom(l, tables[l]) : x \in ProcessesOn(page)
    BY <1>6 DEF Ahead, n
  <2>2. l # n
    BY <1>5, <2>1 DEF n
  <2>3. l \in 1..Len(rest) /\ rest[l] = tables[l]
    BY <1>1, <1>2, <2>2
  <2> QED
    BY <2>1, <2>3 DEF Ahead
<1> QED
  BY <1>4, <1>6 DEF rest, n

\* The walk one entry on: only the pages of the entry are no longer ahead.
LEMMA NextTableEntry ==
    ASSUME NEW tables, Tables(tables), Len(tables) > 0, tables[Len(tables)] # <<>>
    PROVE  LET level == Len(tables)
               entry == Head(tables[level])
               advanced == [tables EXCEPT ![level] = Tail(@)]
           IN  /\ Tables(advanced) /\ Len(advanced) = level
               /\ entry \in Range(tables[level])
               /\ \A x : Ahead(x, tables) =>
                      \/ Ahead(x, advanced)
                      \/ \E page \in EntryPages(level, entry) : x \in ProcessesOn(page)
<1> DEFINE n == Len(tables)
           t == tables[n]
           u == Tail(t)
           entry == Head(t)
           advanced == [tables EXCEPT ![n] = u]
<1>1. n \in 1..4 /\ (\A l \in 1..n : TableAt(l, tables[l])) /\ DOMAIN tables = 1..n
  BY TablesFacts
<1>2. TableAt(n, t) /\ t # <<>>
  BY <1>1
<1>3. t \in Seq(Range(t))
  BY <1>1, <1>2, EntriesOfTable, Zenon
<1>4. /\ entry \in Range(t) /\ Range(u) \subseteq Range(t)
      /\ Range(t) \subseteq {entry} \cup Range(u) /\ u \in Seq(Range(u))
  BY <1>2, <1>3, RangeOfTail
<1>5. /\ Len(advanced) = n /\ DOMAIN advanced = 1..n /\ advanced[n] = u
      /\ advanced \in Seq(Range(tables) \cup {u})
      /\ \A l \in 1..n : l # n => advanced[l] = tables[l]
  <2>1. tables \in Seq(Range(tables)) /\ n \in 1..Len(tables)
    BY <1>1 DEF Tables
  <2> HIDE DEF u
  <2> QED
    BY ONLY <2>1, SMTT(30)
<1>6. advanced \in Seq(Range(advanced)) /\ Len(advanced) = n
  <2>1. \A l \in 1..n : advanced[l] \in Range(advanced)
    BY <1>5 DEF Range
  <2> HIDE DEF advanced, n
  <2> QED
    BY SMTT(30), <1>5, <2>1
<1> HIDE DEF advanced, u, entry, n
<1>7. TableAt(n, u)
  BY <1>1, <1>2, <1>4, TableFrom, Zenon
<1>8. Tables(advanced)
  BY <1>1, <1>5, <1>6, <1>7 DEF Tables
<1>9. PagesFrom(n, t) \subseteq EntryPages(n, entry) \cup PagesFrom(n, u)
  BY SMTT(30), <1>1, <1>4, PagesOfTable
<1>10. ASSUME NEW x, Ahead(x, tables),
              ~\E page \in EntryPages(n, entry) : x \in ProcessesOn(page)
       PROVE  Ahead(x, advanced)
  <2>1. PICK l \in 1..n : \E page \in PagesFrom(l, tables[l]) : x \in ProcessesOn(page)
    BY <1>10 DEF Ahead, n
  <2>2. \E page \in PagesFrom(l, advanced[l]) : x \in ProcessesOn(page)
    <3>1. CASE l = n
      BY <1>5, <1>9, <1>10, <2>1, <3>1
    <3>2. CASE l # n
      BY <1>5, <2>1, <3>2
    <3> QED
      BY <3>1, <3>2
  <2> QED
    BY <1>6, <2>2 DEF Ahead
<1> QED
  BY <1>4, <1>6, <1>8, <1>10 DEF advanced, u, entry, n

\* A table that is walked next is ahead with all its pages.
LEMMA NextTable ==
    ASSUME NEW tables, Tables(tables), Len(tables) < 4, NEW t, TableAt(Len(tables) + 1, t)
    PROVE  LET longer == Append(tables, t)
           IN  /\ Tables(longer)
               /\ \A x : Ahead(x, tables) => Ahead(x, longer)
               /\ \A x : (\E page \in PagesFrom(Len(tables) + 1, t) : x \in ProcessesOn(page))
                             => Ahead(x, longer)
<1> DEFINE n == Len(tables)
           longer == Append(tables, t)
<1>1. n \in Nat /\ n < 4 /\ \A l \in 1..n : TableAt(l, tables[l])
  BY DEF Tables
<1>2. /\ longer \in Seq(Range(tables) \cup {t}) /\ Len(longer) = n + 1 /\ longer[n + 1] = t
      /\ \A l \in 1..n : longer[l] = tables[l]
  BY DEF Tables
<1>3. DOMAIN longer = 1..(n + 1)
  BY <1>1, <1>2
<1> HIDE DEF longer, n
<1>4. longer \in Seq(Range(longer))
  <2>1. \A l \in 1..Len(longer) : longer[l] \in Range(longer)
    BY <1>2, <1>3 DEF Range
  <2> QED
    BY SMTT(30), <1>2, <2>1
<1>5. \A l \in 1..(n + 1) : l \in 1..n \/ l = n + 1
  BY <1>1
<1>6. Tables(longer)
  BY <1>1, <1>2, <1>4, <1>5 DEF Tables, n
<1>7. 1..n \subseteq 1..(n + 1) /\ n + 1 \in 1..(n + 1)
  BY <1>1
<1>8. \A x : Ahead(x, tables) => Ahead(x, longer)
  BY <1>2, <1>7 DEF Ahead, n
<1>9. \A x : (\E page \in PagesFrom(n + 1, t) : x \in ProcessesOn(page)) => Ahead(x, longer)
  BY <1>2, <1>7 DEF Ahead
<1> QED
  BY <1>6, <1>8, <1>9 DEF longer, n

-----------------------------------------------------------------------------
PsNext ==
    \/ \E memory \in Memories : \E processes :
           Cardinality(processes) \in Nat /\ FindUnlinkedProcesses(memory, processes)
    \/ ProcessScanStep
    \/ \E a \in Addresses : ProcessListChanges(a)

PsTypes ==
    /\ ps_pc \in {"idle", "allocate", "walk", "check", "report"}
    /\ ps_count \in Nat /\ ps_index \in Nat \ {0}
    /\ ps_buffer \in Seq(Range(ps_buffer))
    /\ ps_pc \in {"walk", "check", "report"} => Len(ps_buffer) = ps_count
    /\ Tables(ps_tables)
    /\ NoProcess \notin ps_found

\* The buffer is full for good, and nothing is reported before the list was read.
PsFull ==
    /\ ps_pc \in {"idle", "allocate"} => ~ps_full
    /\ ps_pc = "walk" /\ ps_full => \A i \in 1..Len(ps_buffer) : ps_buffer[i] # NoProcess
    /\ ps_pc # "report" => ps_reports = {}

\* A process that was found is in the buffer, or on a page still to be scanned.
PsWalking ==
    /\ ps_pc = "allocate" => \A x \in ps_found : Ahead(x, ps_tables)
    /\ ps_pc = "walk" /\ ~ps_full =>
           \A x \in ps_found : InBuffer(x, ps_buffer) \/ Ahead(x, ps_tables)
    /\ ps_pc = "check" /\ ~ps_full => \A x \in ps_found : InBuffer(x, ps_buffer)

\* What is left in the buffer is not in the list, and the slots that were looked at
\* are reported or dropped.
PsReporting ==
    ps_pc = "report" =>
        /\ \A i \in 1..Len(ps_buffer) : ps_buffer[i] # NoProcess => ps_buffer[i] \notin ps_listed
        /\ ~ps_full => \A x \in ps_found \ ps_listed : InBuffer(x, ps_buffer)
        /\ \A i \in 1..Len(ps_buffer) : i < ps_index /\ ps_buffer[i] # NoProcess =>
               ps_buffer[i] \in ps_reports \cup ps_dropped
        /\ ps_reports \cap ps_listed = {}

PsInv == PsTypes /\ PsFull /\ PsWalking /\ PsReporting

LEMMA NoPageTables == Tables(<<>>)
<1>1. <<>> \in Seq(Range(<<>>)) /\ Len(<<>>) = 0
  OBVIOUS
<1> QED
  BY <1>1 DEF Tables

LEMMA EmptyIsSeq == <<>> \in Seq(Range(<<>>))
  OBVIOUS

LEMMA PsStart == ProcessScanInit => PsInv
<1> SUFFICES ASSUME ProcessScanInit PROVE PsInv
  OBVIOUS
<1>1. PsTypes
  BY NoPageTables, EmptyIsSeq DEF ProcessScanInit, PsTypes
<1>2. PsFull /\ PsWalking /\ PsReporting
  BY DEF ProcessScanInit, PsFull, PsWalking, PsReporting
<1> QED
  BY <1>1, <1>2 DEF PsInv

\* The walk begins at the top table, with every process ahead of it.
LEMMA FindKeeps ==
    ASSUME PsInv, NEW memory \in Memories, NEW processes, Cardinality(processes) \in Nat,
           FindUnlinkedProcesses(memory, processes)
    PROVE  PsInv'
<1>1. TableAt(1, memory)
  BY ProcessScanAssumption DEF TableAt
<1>2. Tables(<<memory>>)
  <2>1. <<memory>> \in Seq(Range(<<memory>>)) /\ Len(<<memory>>) = 1 /\ <<memory>>[1] = memory
    BY SMTT(30) DEF Range
  <2> QED
    BY <1>1, <2>1 DEF Tables
<1>3. ASSUME NEW x \in ProcessesIn(memory) PROVE x # NoProcess /\ Ahead(x, <<memory>>)
  <2>1. PICK page \in PagesOf(memory) : x \in ProcessesOn(page)
    BY DEF ProcessesIn
  <2>2. page \in PagesFrom(1, memory)
    BY DEF PagesFrom
  <2>3. IsPageOfBlocks(page)
    BY <1>1, <2>2, PagesHoldBlocks
  <2>4. x # NoProcess
    BY <2>1, <2>3 DEF ProcessesOn, IsPageOfBlocks
  <2>5. 1 \in 1..Len(<<memory>>) /\ <<memory>>[1] = memory
    OBVIOUS
  <2> QED
    BY <2>1, <2>2, <2>4, <2>5 DEF Ahead
<1>4. /\ ps_pc' = "allocate" /\ ps_pc = "idle" /\ ps_tables' = <<memory>>
      /\ ps_found' = ProcessesIn(memory) /\ ps_count' = Cardinality(processes)
      /\ UNCHANGED <<ps_buffer, ps_full, ps_listed, ps_index, ps_reports, ps_dropped>>
  BY DEF FindUnlinkedProcesses
<1>5. PsTypes'
  BY <1>2, <1>3, <1>4 DEF PsInv, PsTypes
<1>6. PsFull' /\ PsReporting'
  BY <1>4 DEF PsInv, PsFull, PsReporting
<1>7. PsWalking'
  BY <1>3, <1>4 DEF PsWalking
<1> QED
  BY <1>5, <1>6, <1>7 DEF PsInv

LEMMA AllocateKeeps == ASSUME PsInv, AllocateProcessBuffer PROVE PsInv'
<1> DEFINE empty == [i \in 1..ps_count |-> NoProcess]
<1>1. ps_count \in Nat /\ Tables(ps_tables) /\ ps_index \in Nat \ {0} /\ NoProcess \notin ps_found
      /\ ps_buffer \in Seq(Range(ps_buffer))
  BY DEF PsInv, PsTypes
<1>2. empty \in Seq({NoProcess}) /\ Len(empty) = ps_count /\ DOMAIN empty = 1..ps_count
  BY <1>1, SMTT(30)
<1>3. empty \in Seq(Range(empty))
  <2>1. \A i \in 1..ps_count : empty[i] \in Range(empty)
    BY <1>2 DEF Range
  <2> HIDE DEF empty
  <2> QED
    BY <1>2, <2>1, SMTT(30)
<1>4. /\ ps_pc = "allocate" /\ ~ps_full /\ ps_reports = {}
      /\ \A x \in ps_found : Ahead(x, ps_tables)
  BY DEF AllocateProcessBuffer, PsInv, PsFull, PsWalking
<1>5. /\ UNCHANGED <<ps_full, ps_listed, ps_index, ps_reports, ps_dropped>>
      /\ \/ /\ ps_buffer' = empty /\ ps_pc' = "walk"
            /\ UNCHANGED <<ps_tables, ps_found, ps_count>>
         \/ /\ ps_buffer' = empty /\ ps_pc' = "check" /\ ps_tables' = <<>> /\ ps_found' = {}
            /\ UNCHANGED ps_count
         \/ /\ ps_pc' = "idle" /\ ps_tables' = <<>> /\ ps_found' = {} /\ ps_count' = 0
            /\ UNCHANGED ps_buffer
  BY DEF AllocateProcessBuffer
<1> HIDE DEF empty
<1>6. PsTypes'
  BY <1>1, <1>2, <1>3, <1>5, NoPageTables DEF PsTypes
<1>7. PsFull' /\ PsWalking' /\ PsReporting'
  BY <1>4, <1>5 DEF PsFull, PsWalking, PsReporting
<1> QED
  BY <1>6, <1>7 DEF PsInv

\* Scanning a page: what is on it is in the buffer afterwards, or the buffer is full.
LEMMA PageIsScanned ==
    ASSUME NEW buffer, buffer \in Seq(Range(buffer)), NEW page, IsPageOfBlocks(page)
    PROVE  LET c == EnumerateKernelLargePages(page.blocks, buffer)
           IN  c \in Seq(Range(c)) /\ Fills(buffer, c, ProcessesOn(page))
<1> DEFINE A == AllocationsOn(page)
           V == Range(buffer) \cup {NoProcess} \cup {a.address : a \in A}
           c == EnumerateKernelLargePages(page.blocks, buffer)
<1>1. NoProcess \in V /\ Range(buffer) \subseteq V
  OBVIOUS
<1>2. buffer \in Seq(V)
  <2> HIDE DEF V
  <2> QED BY <1>1, SMTT(30)
<1>3. \A a \in A : a.address \in V /\ a.address # NoProcess
  BY DEF IsPageOfBlocks
<1>4. page.blocks \in Seq(Seq(A))
  BY DEF IsPageOfBlocks
<1> HIDE DEF V, A, c
<1>5. c \in Seq(V) /\ Fills(buffer, c, ProcessesOn(page))
  BY <1>1, <1>2, <1>3, <1>4, PageFills DEF c
<1>6. c \in Seq(Range(c))
  <2>1. DOMAIN c = 1..Len(c) /\ Len(c) \in Nat
    BY <1>5, SMTT(30)
  <2>2. \A i \in 1..Len(c) : c[i] \in Range(c)
    BY <2>1 DEF Range
  <2> QED
    BY <1>5, <2>1, <2>2, SMTT(30)
<1> QED
  BY <1>5, <1>6 DEF c

LEMMA StillInBuffer ==
    ASSUME NEW b, NEW c, NEW S, Fills(b, c, S), NEW x, x # NoProcess, InBuffer(x, b)
    PROVE  InBuffer(x, c)
  BY DEF Fills, InBuffer

\* One entry of the table, or its end.
LEMMA WalkKeeps == ASSUME PsInv, WalkKernelPageTables PROVE PsInv'
<1> DEFINE entry == Head(Rest)
<1>1. /\ ps_pc = "walk" /\ Len(ps_tables) > 0
      /\ UNCHANGED <<ps_pc, ps_count, ps_found, ps_listed, ps_index, ps_reports, ps_dropped>>
  BY DEF WalkKernelPageTables, Level
<1>2. /\ ps_count \in Nat /\ ps_index \in Nat \ {0} /\ NoProcess \notin ps_found
      /\ ps_buffer \in Seq(Range(ps_buffer)) /\ Len(ps_buffer) = ps_count /\ Tables(ps_tables)
      /\ ps_reports = {}
  BY <1>1 DEF PsInv, PsTypes, PsFull
<1>3. /\ ps_full => \A i \in 1..Len(ps_buffer) : ps_buffer[i] # NoProcess
      /\ ~ps_full => \A x \in ps_found : InBuffer(x, ps_buffer) \/ Ahead(x, ps_tables)
  BY <1>1 DEF PsInv, PsFull, PsWalking
<1>4. SUFFICES /\ ps_buffer' \in Seq(Range(ps_buffer')) /\ Len(ps_buffer') = ps_count
               /\ Tables(ps_tables')
               /\ ps_full' => \A i \in 1..Len(ps_buffer') : ps_buffer'[i] # NoProcess
               /\ ~ps_full' => \A x \in ps_found : InBuffer(x, ps_buffer') \/ Ahead(x, ps_tables')
  <2>1. PsTypes'
    BY <1>1, <1>2, <1>4 DEF PsTypes
  <2>2. PsFull' /\ PsWalking' /\ PsReporting'
    BY <1>1, <1>2, <1>4 DEF PsFull, PsWalking, PsReporting
  <2> QED
    BY <2>1, <2>2 DEF PsInv
<1>5. CASE Rest = <<>>
  <2>1. ps_tables' = SubSeq(ps_tables, 1, Len(ps_tables) - 1) /\ UNCHANGED <<ps_buffer, ps_full>>
    BY <1>5 DEF WalkKernelPageTables, Level
  <2>2. Tables(ps_tables') /\ \A x : Ahead(x, ps_tables) => Ahead(x, ps_tables')
    BY <1>1, <1>2, <1>5, <2>1, EndOfTable DEF Rest, Level
  <2> QED
    BY <1>2, <1>3, <2>1, <2>2
<1>6. CASE Rest # <<>>
  <2>1. /\ Tables(Advanced) /\ Len(Advanced) = Level /\ entry \in Range(Rest)
        /\ \A x : Ahead(x, ps_tables) =>
               \/ Ahead(x, Advanced)
               \/ \E page \in EntryPages(Level, entry) : x \in ProcessesOn(page)
    BY <1>1, <1>2, <1>6, NextTableEntry DEF Rest, Level, Advanced
  <2>2. Level \in 1..4 /\ TableAt(Level, Rest)
    BY <1>1, <1>2, TablesFacts DEF Rest, Level
  <2>3. IsPresent(entry) =>
            \/ IsLeaf(entry, Level) /\ IsPageOfBlocks(entry)
            \/ ~IsLeaf(entry, Level) /\ Level < 4 /\ TableAt(Level + 1, entry.table)
    BY <2>1, <2>2, EntriesOfTable
  <2>4. CASE IsPresent(entry) /\ IsPage(entry) /\ IsScanned(entry)
    <3>1. /\ ps_buffer' = EnumerateKernelLargePages(entry.blocks, ps_buffer)
          /\ ps_full' = (\A i \in 1..ps_count : ps_buffer'[i] # NoProcess)
          /\ ps_tables' = Advanced
      BY <1>6, <2>4 DEF WalkKernelPageTables
    <3>2. IsPageOfBlocks(entry) /\ EntryPages(Level, entry) = {entry}
      BY <2>3, <2>4 DEF IsPage, EntryPages
    <3>3. ps_buffer' \in Seq(Range(ps_buffer')) /\ Fills(ps_buffer, ps_buffer', ProcessesOn(entry))
      BY <1>2, <3>1, <3>2, PageIsScanned
    <3>4. Len(ps_buffer') = ps_count
      BY <1>2, <3>3 DEF Fills
    <3>5. ps_full' => \A i \in 1..Len(ps_buffer') : ps_buffer'[i] # NoProcess
      BY <3>1, <3>4
    <3>6. ASSUME ~ps_full', NEW x \in ps_found
          PROVE  InBuffer(x, ps_buffer') \/ Ahead(x, ps_tables')
      <4>1. PICK i \in 1..Len(ps_buffer') : ps_buffer'[i] = NoProcess
        BY <3>1, <3>4, <3>6
      <4>2. ~ps_full
        BY <1>2, <1>3, <3>3, <3>4, <4>1 DEF Fills
      <4>3. InBuffer(x, ps_buffer) \/ Ahead(x, Advanced) \/ x \in ProcessesOn(entry)
        BY <1>3, <2>1, <3>2, <4>2
      <4>4. x \in ProcessesOn(entry) => InBuffer(x, ps_buffer')
        BY <3>3, <4>1 DEF Fills, InBuffer
      <4>5. InBuffer(x, ps_buffer) => InBuffer(x, ps_buffer')
        BY <1>2, <3>3, StillInBuffer
      <4> QED
        BY <3>1, <4>3, <4>4, <4>5
    <3> QED
      BY <2>1, <3>1, <3>3, <3>4, <3>5, <3>6
  <2>5. CASE IsPresent(entry) /\ ~IsPage(entry) /\ entry.mapped
    <3>1. ps_tables' = Append(Advanced, entry.table) /\ UNCHANGED <<ps_buffer, ps_full>>
      BY <1>6, <2>5 DEF WalkKernelPageTables
    <3>2. /\ Len(Advanced) < 4 /\ TableAt(Len(Advanced) + 1, entry.table)
          /\ EntryPages(Level, entry) = PagesFrom(Len(Advanced) + 1, entry.table)
      BY <2>1, <2>3, <2>5 DEF IsPage, EntryPages
    <3>3. /\ Tables(ps_tables')
          /\ \A x : Ahead(x, Advanced) => Ahead(x, ps_tables')
          /\ \A x : (\E page \in EntryPages(Level, entry) : x \in ProcessesOn(page))
                        => Ahead(x, ps_tables')
      BY <2>1, <3>1, <3>2, NextTable
    <3> QED
      BY <1>2, <1>3, <2>1, <3>1, <3>3
  <2>6. CASE ~(IsPresent(entry) /\ IsPage(entry) /\ IsScanned(entry))
             /\ ~(IsPresent(entry) /\ ~IsPage(entry) /\ entry.mapped)
    <3>1. ps_tables' = Advanced /\ UNCHANGED <<ps_buffer, ps_full>>
      BY <1>6, <2>6 DEF WalkKernelPageTables
    <3>2. EntryPages(Level, entry) = {}
      BY <2>6 DEF IsPage, EntryPages
    <3> QED
      BY <1>2, <1>3, <2>1, <3>1, <3>2
  <2> QED
    BY <2>4, <2>5, <2>6
<1> QED
  BY <1>5, <1>6

LEMMA WalkEndsKeeps == ASSUME PsInv, WalkEnds PROVE PsInv'
<1>1. /\ ps_pc = "walk" /\ Len(ps_tables) = 0 /\ ps_pc' = "check"
      /\ UNCHANGED <<ps_tables, ps_count, ps_buffer, ps_found, ps_full, ps_listed, ps_index,
                     ps_reports, ps_dropped>>
  BY DEF WalkEnds, Level
<1>2. \A x : ~Ahead(x, ps_tables)
  BY <1>1 DEF Ahead
<1>3. PsTypes'
  BY <1>1 DEF PsInv, PsTypes
<1>4. PsFull' /\ PsWalking' /\ PsReporting'
  BY <1>1, <1>2 DEF PsInv, PsFull, PsWalking, PsReporting
<1> QED
  BY <1>3, <1>4 DEF PsInv

\* A listed process has its slot freed, any other process stays where it is.
LEMMA ClearKeeps == ASSUME PsInv, ClearListedProcesses PROVE PsInv'
<1> DEFINE cleared == [i \in 1..Len(ps_buffer) |->
               IF ps_buffer[i] \in ps_processes THEN NoProcess ELSE ps_buffer[i]]
<1>1. /\ ps_pc = "check" /\ ps_pc' = "report" /\ ps_index' = 1 /\ ps_listed' = ps_processes
      /\ UNCHANGED <<ps_tables, ps_count, ps_found, ps_full, ps_reports, ps_dropped>>
      /\ ps_buffer' = cleared
  BY DEF ClearListedProcesses, CheckIfProcessAllocationIsInProcessList
<1>2. /\ ps_count \in Nat /\ Tables(ps_tables) /\ NoProcess \notin ps_found
      /\ ps_buffer \in Seq(Range(ps_buffer)) /\ Len(ps_buffer) = ps_count
      /\ ps_reports = {}
  BY <1>1 DEF PsInv, PsTypes, PsFull
<1>3. /\ DOMAIN cleared = 1..ps_count
      /\ \A i \in 1..ps_count : cleared[i] = IF ps_buffer[i] \in ps_processes THEN NoProcess
                                             ELSE ps_buffer[i]
  BY <1>2
<1>4. cleared \in Seq(Range(cleared)) /\ Len(cleared) = ps_count
  <2>1. \A i \in 1..ps_count : cleared[i] \in Range(cleared)
    BY <1>3 DEF Range
  <2>2. cleared = [i \in 1..ps_count |-> cleared[i]]
    BY <1>2
  <2> HIDE DEF cleared
  <2> QED
    BY <1>2, <1>3, <2>1, <2>2, SMTT(30)
<1> HIDE DEF cleared
<1>5. PsTypes'
  BY <1>1, <1>2, <1>4 DEF PsTypes
<1>6. PsFull' /\ PsWalking'
  BY <1>1 DEF PsFull, PsWalking
<1>7. ASSUME ~ps_full, NEW x \in ps_found \ ps_processes PROVE InBuffer(x, cleared)
  <2>1. PICK i \in 1..Len(ps_buffer) : ps_buffer[i] = x
    BY <1>1, <1>7 DEF PsInv, PsWalking, InBuffer
  <2>2. cleared[i] = x
    BY <1>2, <1>3, <2>1
  <2> QED
    BY <1>2, <1>4, <2>1, <2>2 DEF InBuffer
<1>8. \A i \in 1..Len(cleared) : cleared[i] # NoProcess => cleared[i] \notin ps_processes
  BY <1>3, <1>4
<1>9. \A i \in 1..Len(cleared) : ~(i < 1)
  BY <1>2, <1>4
<1>10. PsReporting'
  BY <1>1, <1>2, <1>7, <1>8, <1>9 DEF PsReporting
<1> QED
  BY <1>5, <1>6, <1>10 DEF PsInv

LEMMA ReportProcessKeeps == ASSUME PsInv, ReportUnlinkedProcess PROVE PsInv'
<1>1. /\ ps_pc = "report" /\ ps_index <= ps_count /\ ps_index' = ps_index + 1
      /\ UNCHANGED <<ps_pc, ps_tables, ps_count, ps_buffer, ps_found, ps_full, ps_listed>>
      /\ \/ ps_buffer[ps_index] = NoProcess /\ UNCHANGED <<ps_reports, ps_dropped>>
         \/ /\ ps_buffer[ps_index] # NoProcess
            /\ ps_reports' = ps_reports \cup {ps_buffer[ps_index]} /\ UNCHANGED ps_dropped
         \/ /\ ps_buffer[ps_index] # NoProcess
            /\ ps_dropped' = ps_dropped \cup {ps_buffer[ps_index]} /\ UNCHANGED ps_reports
  BY DEF ReportUnlinkedProcess
<1>2. ps_count \in Nat /\ ps_index \in 1..Len(ps_buffer) /\ Len(ps_buffer) = ps_count
  BY <1>1 DEF PsInv, PsTypes
<1>3. PsTypes'
  <2>1. ps_index + 1 \in Nat \ {0}
    BY <1>2
  <2> QED
    BY <1>1, <2>1 DEF PsInv, PsTypes
<1>4. PsFull' /\ PsWalking'
  BY <1>1 DEF PsFull, PsWalking
<1>5. \A i \in 1..Len(ps_buffer) : i < ps_index + 1 => i < ps_index \/ i = ps_index
  BY <1>2
<1>6. /\ \A i \in 1..Len(ps_buffer) : ps_buffer[i] # NoProcess => ps_buffer[i] \notin ps_listed
      /\ ~ps_full => \A x \in ps_found \ ps_listed : InBuffer(x, ps_buffer)
      /\ \A i \in 1..Len(ps_buffer) : i < ps_index /\ ps_buffer[i] # NoProcess =>
             ps_buffer[i] \in ps_reports \cup ps_dropped
      /\ ps_reports \cap ps_listed = {}
  BY <1>1 DEF PsInv, PsReporting
<1>7. \A i \in 1..Len(ps_buffer) : i < ps_index + 1 /\ ps_buffer[i] # NoProcess =>
          ps_buffer[i] \in ps_reports' \cup ps_dropped'
  BY <1>1, <1>5, <1>6
<1>8. ps_reports' \cap ps_listed = {}
  BY <1>1, <1>2, <1>6
<1>9. PsReporting'
  BY <1>1, <1>6, <1>7, <1>8 DEF PsReporting
<1> QED
  BY <1>3, <1>4, <1>9 DEF PsInv

LEMMA PsReturnKeeps == ASSUME PsInv, ProcessScanReturn PROVE PsInv'
<1>1. /\ ps_pc' = "idle" /\ ps_tables' = <<>> /\ ps_count' = 0 /\ ps_buffer' = <<>>
      /\ ps_found' = {} /\ ps_full' = FALSE /\ ps_index' = 1 /\ ps_reports' = {}
  BY DEF ProcessScanReturn
<1>2. PsTypes'
  BY <1>1, NoPageTables, EmptyIsSeq DEF PsTypes
<1>3. PsFull' /\ PsWalking' /\ PsReporting'
  BY <1>1 DEF PsFull, PsWalking, PsReporting
<1> QED
  BY <1>2, <1>3 DEF PsInv

\* The list itself matters only when it is compared with the buffer.
LEMMA PsStutterKeeps ==
    ASSUME PsInv,
           UNCHANGED <<ps_pc, ps_tables, ps_count, ps_buffer, ps_found, ps_full, ps_listed,
                       ps_index, ps_reports, ps_dropped>>
    PROVE  PsInv'
<1>1. PsTypes'
  BY DEF PsInv, PsTypes
<1>2. PsFull' /\ PsWalking'
  BY DEF PsInv, PsFull, PsWalking
<1>3. PsReporting'
  BY DEF PsInv, PsReporting
<1> QED
  BY <1>1, <1>2, <1>3 DEF PsInv

LEMMA PsStepInv == PsInv /\ [PsNext]_ps_vars => PsInv'
<1> SUFFICES ASSUME PsInv, [PsNext]_ps_vars PROVE PsInv'
  OBVIOUS
<1>1. ASSUME NEW memory \in Memories, NEW processes, Cardinality(processes) \in Nat,
             FindUnlinkedProcesses(memory, processes)
      PROVE  PsInv'
  BY <1>1, FindKeeps
<1>2. CASE ProcessScanStep
  BY <1>2, AllocateKeeps, WalkKeeps, WalkEndsKeeps, ClearKeeps, ReportProcessKeeps, PsReturnKeeps
     DEF ProcessScanStep
<1>3. ASSUME NEW a \in Addresses, ProcessListChanges(a) PROVE PsInv'
  BY <1>3, PsStutterKeeps DEF ProcessListChanges
<1>4. CASE UNCHANGED ps_vars
  BY <1>4, PsStutterKeeps DEF ps_vars
<1> QED
  BY <1>1, <1>2, <1>3, <1>4 DEF PsNext

LEMMA PsSafe == PsInv => UnlinkedProcessesReported
<1> SUFFICES ASSUME PsInv PROVE UnlinkedProcessesReported
  OBVIOUS
<1>1. ps_reports \cap ps_listed = {}
  BY DEF PsInv, PsFull, PsReporting
<1>2. ASSUME ps_pc = "report", ps_index > ps_count, ~ps_full, NEW x \in ps_found \ ps_listed
      PROVE  x \in ps_reports \cup ps_dropped
  <2>1. PICK i \in 1..Len(ps_buffer) : ps_buffer[i] = x
    BY <1>2 DEF PsInv, PsReporting, InBuffer
  <2>2. x # NoProcess /\ Len(ps_buffer) = ps_count /\ ps_count \in Nat /\ ps_index \in Nat
    BY <1>2 DEF PsInv, PsTypes
  <2>3. i < ps_index
    BY <1>2, <2>1, <2>2
  <2> QED
    BY <1>2, <2>1, <2>2, <2>3 DEF PsInv, PsReporting
<1> QED
  BY <1>1, <1>2 DEF UnlinkedProcessesReported

=============================================================================
