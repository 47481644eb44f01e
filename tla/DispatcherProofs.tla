--------------------------- MODULE DispatcherProofs ---------------------------
(***************************************************************************)
(* The review dispatcher, for all builds, bounds and lags: the winners of  *)
(* the arbitration stay, and what receipts say of the comments.            *)
(***************************************************************************)
EXTENDS ReviewDispatcher, FixedReview, FiniteSetTheorems, TLAPS

(* Least and greatest elements.                                            *)
LEMMA LeastNatural ==
    ASSUME NEW S \in SUBSET Nat, S # {} PROVE \E n \in S : \A m \in S : n <= m
<1>1. PICK n \in S : \A m \in S : <<m, n>> \notin OpToRel(<, Nat)
  BY WFMin, NatLessThanWellFounded
<1>2. \A m \in S : ~ (m < n)
  BY <1>1 DEF OpToRel
<1> QED BY <1>2

LEMMA MinIsLeast ==
    ASSUME NEW S \in SUBSET Nat, S # {}
    PROVE  Min(S) \in S /\ \A m \in S : Min(S) <= m
  BY LeastNatural DEF Min

LEMMA MaxIsGreatest ==
    ASSUME NEW n \in Nat, NEW S \in SUBSET (0..n), S # {}
    PROVE  Max(S) \in S /\ \A m \in S : m <= Max(S)
<1> DEFINE U == {u \in Nat : \A m \in S : m <= u}
<1>1. n \in U
  OBVIOUS
<1>2. PICK u \in U : \A v \in U : u <= v
  BY <1>1, LeastNatural
<1>3. u \in S
  <2>1. SUFFICES ASSUME u \notin S PROVE FALSE
    OBVIOUS
  <2>2. PICK m \in S : TRUE
    OBVIOUS
  <2>3. u \in Nat /\ \A k \in S : k \in Nat /\ k <= u /\ k # u
    BY <2>1
  <2>4. u - 1 \in U
    BY <2>2, <2>3
  <2> QED BY <1>2, <2>3, <2>4
<1> QED BY <1>3 DEF Max

Thread(s) ==
    /\ s \in Seq(Comment)
    /\ \A i \in DOMAIN s : s[i].ref \in 0..(i - 1) /\ s[i].pass \in 0..(i - 1)

(* w says of the requests up to the m-th of s whether they win.            *)
Tells(w, s, lane, m) ==
    w = [i \in 0..m |-> \/ i = 0
                        \/ /\ i \in Requests(s, lane)
                           /\ w[s[i].ref]
                           /\ i = Chosen(Generation(s, lane, s[i].ref))]

LEMMA WinnersTold ==
    ASSUME NEW s, NEW lane, \E w : Tells(w, s, lane, Len(s))
    PROVE  \E w : Tells(w, s, lane, Len(s)) /\ Winners(s, lane) = {i \in DOMAIN s : w[i]}
<1> DEFINE w == CHOOSE v : v = [i \in 0..Len(s) |-> \/ i = 0
                        \/ /\ i \in Requests(s, lane)
                           /\ v[s[i].ref]
                           /\ i = Chosen(Generation(s, lane, s[i].ref))]
<1>1. Tells(w, s, lane, Len(s))
  BY DEF Tells
<1>2. Winners(s, lane) = {i \in DOMAIN s : w[i]}
  BY DEF Winners
<1> QED BY <1>1, <1>2

-----------------------------------------------------------------------------
(* The arbitration: winners are defined along the references, which go     *)
(* back, and are the same for whoever has seen more.                       *)
LEMMA RefersBack ==
    ASSUME NEW s, Thread(s), NEW lane, NEW i \in Requests(s, lane)
    PROVE  i \in 1..Len(s) /\ s[i].ref \in 0..(i - 1)
  BY DEF Thread, Requests, All

LEMMA Told ==
    ASSUME NEW s, Thread(s), NEW lane, NEW n \in 0..Len(s)
    PROVE  \E w : Tells(w, s, lane, n)
<1> DEFINE S == {m \in Nat : m <= Len(s) /\ ~ \E w : Tells(w, s, lane, m)}
<1>0. Len(s) \in Nat
  BY DEF Thread
<1>1. SUFFICES ASSUME S # {} PROVE FALSE
  BY <1>0
<1>2. PICK m \in S : \A k \in S : m <= k
  BY <1>1, LeastNatural
<1>3. CASE m = 0
  <2>1. PICK w : w = [i \in 0..0 |-> TRUE]
    OBVIOUS
  <2>2. Tells(w, s, lane, 0)
    BY <2>1 DEF Tells
  <2> QED BY <1>3, <2>2
<1>4. CASE m # 0
  <2>1. m \in Nat /\ m - 1 \in Nat /\ m - 1 <= Len(s) /\ m - 1 \notin S
    BY <1>0, <1>2, <1>4
  <2>2. PICK w : Tells(w, s, lane, m - 1)
    BY <2>1
  <2>3. PICK v : v = [i \in 0..m |-> IF i < m THEN w[i]
                                     ELSE /\ m \in Requests(s, lane)
                                          /\ w[s[m].ref]
                                          /\ m = Chosen(Generation(s, lane, s[m].ref))]
    OBVIOUS
  <2>4. ASSUME NEW i \in 0..m
        PROVE  v[i] = (\/ i = 0
                       \/ /\ i \in Requests(s, lane)
                          /\ v[s[i].ref]
                          /\ i = Chosen(Generation(s, lane, s[i].ref)))
    <3>1. ASSUME i \in Requests(s, lane)
          PROVE  v[s[i].ref] = w[s[i].ref]
      <4>1. PICK p : p = s[i].ref
        OBVIOUS
      <4>2. i \in 1..Len(s) /\ p \in 0..(i - 1)
        BY <3>1, <4>1, RefersBack
      <4>3. p \in 0..m /\ p < m
        BY <1>0, <2>1, <4>2
      <4> QED BY <2>3, <4>1, <4>3
    <3>2. CASE i < m
      <4>1. i \in 0..(m - 1) /\ v[i] = w[i]
        BY <2>1, <2>3, <3>2
      <4>2. w[i] = (\/ i = 0
                    \/ /\ i \in Requests(s, lane)
                       /\ w[s[i].ref]
                       /\ i = Chosen(Generation(s, lane, s[i].ref)))
        BY <2>2, <4>1, Zenon DEF Tells
      <4>3. CASE i \in Requests(s, lane)
        <5>1. v[s[i].ref] = w[s[i].ref]
          BY <3>1, <4>3
        <5> QED BY <4>1, <4>2, <5>1, Zenon
      <4>4. CASE i \notin Requests(s, lane)
        <5>1. v[i] = (i = 0)
          BY <4>1, <4>2, <4>4, Zenon
        <5> QED BY <4>4, <5>1, Zenon
      <4> QED BY <4>3, <4>4
    <3>3. CASE ~ (i < m)
      <4>1. i = m /\ i # 0
        BY <1>4, <2>1, <3>3
      <4>2. v[i] = (/\ i \in Requests(s, lane)
                    /\ w[s[i].ref]
                    /\ i = Chosen(Generation(s, lane, s[i].ref)))
        BY <2>3, <3>3, <4>1, Zenon
      <4> QED BY <3>1, <4>1, <4>2, Zenon
    <3> QED BY <3>2, <3>3
  <2>5. Tells(v, s, lane, m)
    BY <2>3, <2>4, Zenon DEF Tells
  <2> QED BY <1>2, <2>5
<1> QED BY <1>3, <1>4

Extends(s, t) == Len(s) <= Len(t) /\ \A i \in 1..Len(s) : t[i] = s[i]

LEMMA SameRequests ==
    ASSUME NEW s, Thread(s), NEW t, Thread(t), Extends(s, t), NEW lane, NEW p
    PROVE  /\ \A i \in 1..Len(s) : i \in Requests(s, lane) <=> i \in Requests(t, lane)
           /\ \A i \in 1..Len(s) : i \in Generation(s, lane, p) <=> i \in Generation(t, lane, p)
           /\ Generation(s, lane, p) \subseteq 1..Len(s) /\ Generation(t, lane, p) \subseteq 1..Len(t)
  BY DEF Thread, Extends, Requests, Generation, All

LEMMA SameChoice ==
    ASSUME NEW s, Thread(s), NEW t, Thread(t), Extends(s, t), NEW lane, NEW p,
           NEW i \in Generation(s, lane, p)
    PROVE  i = Chosen(Generation(s, lane, p)) <=> i = Chosen(Generation(t, lane, p))
<1>0. PICK G, H : G = Generation(s, lane, p) /\ H = Generation(t, lane, p)
  OBVIOUS
<1>1. /\ Len(s) \in Nat /\ Len(t) \in Nat /\ Len(s) <= Len(t)
      /\ G \subseteq 1..Len(s) /\ H \subseteq 1..Len(t) /\ i \in G /\ i \in H
      /\ \A j \in 1..Len(s) : j \in G <=> j \in H
  <2>1. Len(s) \in Nat /\ Len(t) \in Nat /\ Len(s) <= Len(t)
    BY DEF Thread, Extends
  <2>2. G \subseteq 1..Len(s) /\ H \subseteq 1..Len(t) /\ i \in G
    BY <1>0, SameRequests
  <2>3. \A j \in 1..Len(s) : j \in G <=> j \in H
    BY <1>0, SameRequests
  <2> QED BY <2>1, <2>2, <2>3
<1>2. G \in SUBSET Nat /\ H \in SUBSET Nat /\ G # {} /\ H # {}
  BY <1>1
<1>3. PICK g, h : g = Min(G) /\ h = Min(H)
  OBVIOUS
<1>4. g \in G /\ h \in H /\ (\A j \in G : g <= j) /\ \A j \in H : h <= j
  BY <1>2, <1>3, MinIsLeast
<1>5. i = g <=> i = h
  BY <1>1, <1>4
<1> QED BY <1>0, <1>3, <1>5 DEF Chosen

LEMMA ToldAlike ==
    ASSUME NEW s, Thread(s), NEW t, Thread(t), Extends(s, t), NEW lane,
           NEW w, Tells(w, s, lane, Len(s)), NEW v, Tells(v, t, lane, Len(t)), NEW n \in 0..Len(s)
    PROVE  w[n] <=> v[n]
<1> DEFINE S == {m \in 0..Len(s) : ~ (w[m] <=> v[m])}
<1>0. Len(s) \in Nat /\ Len(t) \in Nat /\ Len(s) <= Len(t)
  BY DEF Thread, Extends
<1>1. SUFFICES ASSUME S # {} PROVE FALSE
  OBVIOUS
<1>2. PICK m \in S : \A k \in S : m <= k
  <2>1. S \in SUBSET Nat
    BY <1>0
  <2> QED BY <1>1, <2>1, LeastNatural
<1>3. m \in 0..Len(s) /\ m \in 0..Len(t) /\ m \in Nat /\ ~ (w[m] <=> v[m])
  BY <1>0, <1>2
<1>4. /\ w[m] = (\/ m = 0
                 \/ /\ m \in Requests(s, lane)
                    /\ w[s[m].ref]
                    /\ m = Chosen(Generation(s, lane, s[m].ref)))
      /\ v[m] = (\/ m = 0
                 \/ /\ m \in Requests(t, lane)
                    /\ v[t[m].ref]
                    /\ m = Chosen(Generation(t, lane, t[m].ref)))
  BY <1>3, Zenon DEF Tells
<1>5. m # 0
  BY <1>3, <1>4, Zenon
<1>6. m \in 1..Len(s) /\ t[m] = s[m]
  BY <1>3, <1>5 DEF Extends
<1>7. m \in Requests(s, lane) <=> m \in Requests(t, lane)
  BY <1>6, SameRequests
<1>8. m \in Requests(s, lane)
  BY <1>3, <1>4, <1>5, <1>7, Zenon
<1>9. PICK p : p = s[m].ref
  OBVIOUS
<1>10. p \in 0..(m - 1) /\ t[m].ref = p
  BY <1>6, <1>8, <1>9, RefersBack
<1>11. p \in 0..Len(s) /\ ~ (m <= p)
  BY <1>0, <1>3, <1>10
<1>12. w[p] <=> v[p]
  BY <1>2, <1>11
<1>13. m \in Generation(s, lane, p)
  BY <1>8, <1>9 DEF Generation
<1>14. m = Chosen(Generation(s, lane, p)) <=> m = Chosen(Generation(t, lane, p))
  BY <1>13, SameChoice
<1> QED BY <1>3, <1>4, <1>5, <1>7, <1>9, <1>10, <1>12, <1>14, Zenon

LEMMA WinnersTell ==
    ASSUME NEW s, Thread(s), NEW lane
    PROVE  /\ \E w : Tells(w, s, lane, Len(s)) /\ Winners(s, lane) = {i \in DOMAIN s : w[i]}
           /\ Winners(s, lane) \subseteq Requests(s, lane)
<1>1. Len(s) \in Nat /\ DOMAIN s = 1..Len(s)
  BY DEF Thread
<1>2. PICK w : Tells(w, s, lane, Len(s)) /\ Winners(s, lane) = {i \in DOMAIN s : w[i]}
  BY <1>1, Told, WinnersTold
<1>3. ASSUME NEW i \in Winners(s, lane) PROVE i \in Requests(s, lane)
  <2>1. i \in 1..Len(s) /\ w[i]
    BY <1>1, <1>2
  <2>2. i \in 0..Len(s) /\ i # 0
    BY <1>1, <2>1
  <2> QED BY <1>2, <2>1, <2>2, Zenon DEF Tells
<1> QED BY <1>2, <1>3

LEMMA SameWinners ==
    ASSUME NEW s, Thread(s), NEW t, Thread(t), Extends(s, t), NEW lane, NEW i \in 1..Len(s)
    PROVE  i \in Winners(s, lane) <=> i \in Winners(t, lane)
<1>1. PICK w : Tells(w, s, lane, Len(s)) /\ Winners(s, lane) = {j \in DOMAIN s : w[j]}
  BY WinnersTell
<1>2. PICK v : Tells(v, t, lane, Len(t)) /\ Winners(t, lane) = {j \in DOMAIN t : v[j]}
  BY WinnersTell
<1>3. i \in 0..Len(s) /\ i \in DOMAIN s /\ i \in DOMAIN t
  BY DEF Thread, Extends
<1>4. w[i] <=> v[i]
  BY <1>1, <1>2, <1>3, ToldAlike
<1> QED BY <1>1, <1>2, <1>3, <1>4

LEMMA WinnerIs ==
    ASSUME NEW s, Thread(s), NEW lane, NEW i \in Requests(s, lane),
           s[i].ref = 0 \/ s[i].ref \in Winners(s, lane),
           i = Chosen(Generation(s, lane, s[i].ref))
    PROVE  i \in Winners(s, lane)
<1>1. PICK w : Tells(w, s, lane, Len(s)) /\ Winners(s, lane) = {j \in DOMAIN s : w[j]}
  BY WinnersTell
<1>2. Len(s) \in Nat /\ DOMAIN s = 1..Len(s)
  BY DEF Thread
<1>3. PICK p : p = s[i].ref
  OBVIOUS
<1>4. i \in 1..Len(s) /\ p \in 0..(i - 1)
  BY <1>3, RefersBack
<1>5. i \in 0..Len(s) /\ p \in 0..Len(s)
  BY <1>2, <1>4
<1>6. w[p]
  <2>1. CASE p = 0
    BY <1>1, <1>5, <2>1, Zenon DEF Tells
  <2>2. CASE p \in Winners(s, lane)
    BY <1>1, <2>2
  <2> QED BY <1>3, <2>1, <2>2
<1>7. w[i]
  BY <1>1, <1>3, <1>5, <1>6, Zenon DEF Tells
<1> QED BY <1>1, <1>2, <1>4, <1>7

(* The latest request of a lane is a request, a valid one that won, and no *)
(* valid winner is later.                                                  *)
LEMMA LatestIs ==
    ASSUME NEW s, Thread(s), NEW lane, Latest(s, lane) # 0
    PROVE  /\ Sound(s, lane, Winners(s, lane))
           /\ Latest(s, lane) \in Winners(s, lane) /\ s[Latest(s, lane)].valid
           /\ Latest(s, lane) \in Requests(s, lane)
           /\ \A i \in Winners(s, lane) : s[i].valid => i <= Latest(s, lane)
<1> DEFINE A == {i \in Winners(s, lane) : s[i].valid}
<1>1. /\ Sound(s, lane, Winners(s, lane)) /\ A # {} /\ Latest(s, lane) = Max(A)
  BY Zenon DEF Latest
<1>2. Winners(s, lane) \subseteq Requests(s, lane)
  BY WinnersTell
<1>3. Len(s) \in Nat /\ A \in SUBSET (0..Len(s))
  BY <1>2, RefersBack DEF Thread
<1>4. Max(A) \in A /\ \A i \in A : i <= Max(A)
  <2> HIDE DEF A
  <2> QED BY <1>1, <1>3, MaxIsGreatest
<1> QED BY <1>1, <1>2, <1>4

LEMMA LatestOf ==
    ASSUME NEW s, Thread(s), NEW lane, NEW q \in Winners(s, lane), s[q].valid,
           Sound(s, lane, Winners(s, lane)),
           \A i \in Winners(s, lane) : s[i].valid => i <= q
    PROVE  Latest(s, lane) = q
<1> DEFINE A == {i \in Winners(s, lane) : s[i].valid}
<1>1. q \in A
  OBVIOUS
<1>2. Latest(s, lane) = Max(A)
  BY <1>1, Zenon DEF Latest
<1>3. Winners(s, lane) \subseteq Requests(s, lane)
  BY WinnersTell
<1>4. Len(s) \in Nat /\ A \in SUBSET (0..Len(s))
  BY <1>3, RefersBack DEF Thread
<1>5. Max(A) \in A /\ \A i \in A : i <= Max(A)
  <2> HIDE DEF A
  <2> QED BY <1>1, <1>4, MaxIsGreatest
<1>6. \A i \in A : i <= q
  OBVIOUS
<1>7. PICK m : m = Max(A)
  OBVIOUS
<1>8. m \in 0..Len(s) /\ q \in 0..Len(s) /\ m <= q /\ q <= m
  <2> HIDE DEF A
  <2> QED BY <1>1, <1>4, <1>5, <1>6, <1>7
<1> QED BY <1>2, <1>4, <1>7, <1>8

(* A request that is the current one for a reader was the current one as   *)
(* soon as it was there: whoever posts in between saw it current.          *)
LEMMA LatestBack ==
    ASSUME NEW s, Thread(s), NEW t, Thread(t), Extends(s, t), NEW lane,
           Latest(t, lane) # 0, Latest(t, lane) <= Len(s)
    PROVE  Latest(s, lane) = Latest(t, lane)
<1>0. PICK q, W, V : q = Latest(t, lane) /\ W = Winners(s, lane) /\ V = Winners(t, lane)
  OBVIOUS
<1>1. /\ Sound(t, lane, V) /\ q \in V /\ t[q].valid /\ q \in Requests(t, lane)
      /\ \A i \in V : t[i].valid => i <= q
  BY <1>0, LatestIs, Zenon
<1>2. /\ Len(s) \in Nat /\ Len(t) \in Nat /\ Len(s) <= Len(t)
      /\ \A i \in 1..Len(s) : t[i] = s[i]
  BY DEF Thread, Extends
<1>3. q \in 1..Len(s)
  BY <1>0, <1>1, <1>2, RefersBack
<1>4. \A i \in 1..Len(s) : i \in W <=> i \in V
  BY <1>0, SameWinners
<1>5. W \subseteq 1..Len(s)
  BY <1>0, WinnersTell, RefersBack
<1>6. q \in W /\ s[q].valid
  BY <1>1, <1>2, <1>3, <1>4
<1>7. \A i \in W : s[i].valid => i <= q
  BY <1>1, <1>2, <1>4, <1>5
<1>8. ASSUME NEW i \in Requests(s, lane) PROVE s[i].ref \in {0} \cup W
  <2>1. i \in 1..Len(s) /\ s[i].ref \in 0..(i - 1) /\ i \in Requests(t, lane) /\ t[i] = s[i]
    BY <1>2, RefersBack, SameRequests
  <2>2. t[i].ref \in {0} \cup V
    BY <1>1, <2>1 DEF Sound
  <2> QED BY <1>2, <1>4, <2>1, <2>2
<1>9. ASSUME NEW i \in Requests(s, lane), ~ s[i].valid
      PROVE  \E j \in DOMAIN s : Generation(s, lane, i) = {j} /\ s[j].valid
  <2>1. i \in 1..Len(s) /\ i \in Requests(t, lane) /\ t[i] = s[i]
    BY <1>2, RefersBack, SameRequests
  <2>2. PICK j \in DOMAIN t : Generation(t, lane, i) = {j} /\ t[j].valid
    BY <1>1, <1>9, <2>1 DEF Sound
  <2>3. j \in Requests(t, lane) /\ t[j].ref = i
    BY <2>2 DEF Generation
  <2>4. i \in V
    BY <1>1, <2>1, <2>3 DEF Sound
  <2>5. j = Chosen(Generation(t, lane, t[j].ref))
    <3>1. {j} \in SUBSET Nat
      BY <2>3, RefersBack
    <3>2. Min({j}) \in {j}
      BY <3>1, MinIsLeast
    <3> QED BY <2>2, <2>3, <3>2 DEF Chosen
  <2>6. j \in V
    BY <1>0, <2>3, <2>4, <2>5, WinnerIs
  <2>7. j \in 1..Len(s)
    BY <1>1, <1>2, <1>3, <2>2, <2>3, <2>6, RefersBack
  <2>8. s[j].valid /\ j \in DOMAIN s
    BY <1>2, <2>2, <2>7 DEF Thread
  <2>9. Generation(s, lane, i) = {j}
    <3>1. /\ \A k \in 1..Len(s) : k \in Generation(s, lane, i) <=> k \in Generation(t, lane, i)
          /\ Generation(s, lane, i) \subseteq 1..Len(s)
      BY SameRequests
    <3> QED BY <2>2, <2>7, <3>1
  <2> QED BY <2>8, <2>9
<1>10. Sound(s, lane, W)
  BY <1>8, <1>9 DEF Sound
<1> QED BY <1>0, <1>6, <1>7, <1>10, LatestOf

-----------------------------------------------------------------------------
(* What somebody read of a log, and what is appended to it.                *)
LEMMA Prefix ==
    ASSUME NEW s, Thread(s), NEW n \in 0..Len(s)
    PROVE  /\ Thread(SubSeq(s, 1, n)) /\ Extends(SubSeq(s, 1, n), s) /\ Len(SubSeq(s, 1, n)) = n
           /\ \A i \in 1..n : SubSeq(s, 1, n)[i] = s[i]
<1>1. s \in Seq(Comment) /\ Len(s) \in Nat /\ DOMAIN s = 1..Len(s)
  BY DEF Thread
<1>2. PICK v : v = SubSeq(s, 1, n)
  OBVIOUS
<1>3. v \in Seq(Comment) /\ Len(v) = n /\ \A i \in 1..n : v[i] = s[i]
  BY <1>1, <1>2
<1>4. DOMAIN v = 1..n
  BY <1>3
<1>5. \A i \in 1..n : s[i].ref \in 0..(i - 1) /\ s[i].pass \in 0..(i - 1)
  BY <1>1 DEF Thread
<1>6. Thread(v)
  BY <1>3, <1>4, <1>5 DEF Thread
<1>7. Extends(v, s)
  BY <1>1, <1>3 DEF Extends
<1> QED BY <1>2, <1>3, <1>6, <1>7

LEMMA SamePrefix ==
    ASSUME NEW s, Thread(s), NEW t, Thread(t), Extends(s, t), NEW n \in 0..Len(s)
    PROVE  SubSeq(t, 1, n) = SubSeq(s, 1, n) /\ n \in 0..Len(t)
<1>1. /\ s \in Seq(Comment) /\ t \in Seq(Comment) /\ Len(s) \in Nat /\ Len(t) \in Nat
      /\ Len(s) <= Len(t) /\ \A i \in 1..Len(s) : t[i] = s[i]
  BY DEF Thread, Extends
<1>2. n \in 0..Len(t)
  BY <1>1
<1>3. PICK v, w : v = SubSeq(s, 1, n) /\ w = SubSeq(t, 1, n)
  OBVIOUS
<1>4. /\ v \in Seq(Comment) /\ Len(v) = n /\ w \in Seq(Comment) /\ Len(w) = n
      /\ (\A i \in 1..n : v[i] = s[i]) /\ \A i \in 1..n : w[i] = t[i]
  BY <1>1, <1>2, <1>3
<1>5. \A i \in 1..n : v[i] = w[i]
  BY <1>1, <1>4
<1>6. v = w
  BY <1>4, <1>5
<1> QED BY <1>2, <1>3, <1>6

LEMMA Appended ==
    ASSUME NEW s, Thread(s), NEW c \in Comment, c.ref \in 0..Len(s), c.pass \in 0..Len(s)
    PROVE  /\ Thread(Append(s, c)) /\ Extends(s, Append(s, c))
           /\ Len(Append(s, c)) = Len(s) + 1 /\ Append(s, c)[Len(s) + 1] = c
<1>1. s \in Seq(Comment) /\ Len(s) \in Nat /\ DOMAIN s = 1..Len(s)
  BY DEF Thread
<1>2. PICK t : t = Append(s, c)
  OBVIOUS
<1>3. /\ t \in Seq(Comment) /\ Len(t) = Len(s) + 1 /\ t[Len(s) + 1] = c
      /\ \A i \in 1..Len(s) : t[i] = s[i]
  BY <1>1, <1>2
<1>4. DOMAIN t = 1..(Len(s) + 1)
  BY <1>1, <1>3
<1>5. \A i \in 1..Len(s) : s[i].ref \in 0..(i - 1) /\ s[i].pass \in 0..(i - 1)
  BY <1>1 DEF Thread
<1>6. \A i \in 1..(Len(s) + 1) : t[i].ref \in 0..(i - 1) /\ t[i].pass \in 0..(i - 1)
  BY <1>1, <1>3, <1>5
<1>7. Thread(t) /\ Extends(s, t)
  BY <1>1, <1>3, <1>4, <1>6 DEF Thread, Extends
<1> QED BY <1>2, <1>3, <1>7

(* The answers of a request, as a prefix shows them.                       *)
LEMMA SameAll ==
    ASSUME NEW s, Thread(s), NEW t, Thread(t), Extends(s, t)
    PROVE  /\ \A kind, lane : All(s, kind, lane) \subseteq All(t, kind, lane)
           /\ \A q : Results(s, q) \subseteq Results(t, q)
           /\ \A q, r : T2s(s, q, r) \subseteq T2s(t, q, r)
           /\ \A q : \A i \in 1..Len(s) : i \in Results(t, q) => i \in Results(s, q)
           /\ \A q, r : \A i \in 1..Len(s) : i \in T2s(t, q, r) => i \in T2s(s, q, r)
           /\ \A q : Results(t, q) \subseteq 1..Len(t)
           /\ \A q, r : T2s(t, q, r) \subseteq 1..Len(t)
<1>1. /\ Len(s) \in Nat /\ Len(t) \in Nat /\ Len(s) <= Len(t)
      /\ DOMAIN s = 1..Len(s) /\ DOMAIN t = 1..Len(t)
      /\ \A i \in 1..Len(s) : t[i] = s[i]
  BY DEF Thread, Extends
<1>2. \A i \in DOMAIN s : i \in DOMAIN t /\ t[i] = s[i]
  BY <1>1
<1>3. \A kind, lane : All(s, kind, lane) \subseteq All(t, kind, lane)
  BY <1>2 DEF All
<1>4. \A q : Results(s, q) \subseteq Results(t, q)
  BY <1>2 DEF Results
<1>5. \A q, r : T2s(s, q, r) \subseteq T2s(t, q, r)
  BY <1>2 DEF T2s
<1>6. \A q : \A i \in 1..Len(s) : i \in Results(t, q) => i \in Results(s, q)
  BY <1>1 DEF Results
<1>7. \A q, r : \A i \in 1..Len(s) : i \in T2s(t, q, r) => i \in T2s(s, q, r)
  BY <1>1 DEF T2s
<1>8. (\A q : Results(t, q) \subseteq 1..Len(t)) /\ \A q, r : T2s(t, q, r) \subseteq 1..Len(t)
  BY <1>1 DEF Results, T2s
<1> QED BY <1>3, <1>4, <1>5, <1>6, <1>7, <1>8

LEMMA FirstKept ==
    ASSUME NEW n \in Nat, NEW m \in Nat, n <= m, NEW A \in SUBSET (1..n), NEW B \in SUBSET (1..m),
           A # {}, A \subseteq B, \A i \in 1..n : i \in B => i \in A
    PROVE  Min(A) = Min(B) /\ Min(A) \in A
<1>1. A \in SUBSET Nat /\ B \in SUBSET Nat /\ B # {}
  <2>1. \A i \in 1..n : i \in Nat
    OBVIOUS
  <2>2. \A i \in 1..m : i \in Nat
    OBVIOUS
  <2> QED BY <2>1, <2>2
<1>2. PICK a, b : a = Min(A) /\ b = Min(B)
  OBVIOUS
<1>3. a \in A /\ b \in B /\ (\A i \in A : a <= i) /\ \A i \in B : b <= i
  BY <1>1, <1>2, MinIsLeast
<1>4. a <= n /\ b <= a /\ b \in 1..m
  BY <1>3
<1>5. b \in A
  BY <1>3, <1>4
<1>6. a = b
  BY <1>3, <1>4, <1>5
<1> QED BY <1>2, <1>3, <1>6

LEMMA CanonicalKept ==
    ASSUME NEW s, Thread(s), NEW t, Thread(t), Extends(s, t)
    PROVE  /\ \A q : Results(s, q) # {} => /\ Min(Results(s, q)) = Min(Results(t, q))
                                           /\ Min(Results(s, q)) \in Results(s, q)
           /\ \A q, r : T2s(s, q, r) # {} => /\ Min(T2s(s, q, r)) = Min(T2s(t, q, r))
                                             /\ Min(T2s(s, q, r)) \in T2s(s, q, r)
<1>1. Len(s) \in Nat /\ Len(t) \in Nat /\ Len(s) <= Len(t)
  BY DEF Thread, Extends
<1>2. /\ \A q : Results(s, q) \in SUBSET (1..Len(s))
      /\ \A q, r : T2s(s, q, r) \in SUBSET (1..Len(s))
  BY DEF Thread, Results, T2s
<1>3. /\ \A q : \A i \in 1..Len(s) : i \in Results(t, q) => i \in Results(s, q)
      /\ \A q, r : \A i \in 1..Len(s) : i \in T2s(t, q, r) => i \in T2s(s, q, r)
  BY SameAll, Zenon
<1>4. ASSUME NEW q, Results(s, q) # {}
      PROVE  Min(Results(s, q)) = Min(Results(t, q)) /\ Min(Results(s, q)) \in Results(s, q)
  <2>1. PICK A, B : A = Results(s, q) /\ B = Results(t, q)
    OBVIOUS
  <2>2. A \in SUBSET (1..Len(s)) /\ B \in SUBSET (1..Len(t)) /\ A # {} /\ A \subseteq B
    BY <1>2, <1>4, <2>1, SameAll
  <2>3. \A i \in 1..Len(s) : i \in B => i \in A
    <3>1. \A i \in 1..Len(s) : i \in Results(t, q) => i \in Results(s, q)
      BY <1>3
    <3> QED BY <2>1, <3>1
  <2>4. PICK n, m : n = Len(s) /\ m = Len(t)
    OBVIOUS
  <2>5. n \in Nat /\ m \in Nat /\ n <= m
    BY <1>1, <2>4
  <2>6. A \in SUBSET (1..n) /\ B \in SUBSET (1..m) /\ \A i \in 1..n : i \in B => i \in A
    BY <2>2, <2>3, <2>4
  <2>7. Min(A) = Min(B) /\ Min(A) \in A
    BY <2>2, <2>5, <2>6, FirstKept
  <2> QED BY <2>1, <2>7
<1>5. ASSUME NEW q, NEW r, T2s(s, q, r) # {}
      PROVE  Min(T2s(s, q, r)) = Min(T2s(t, q, r)) /\ Min(T2s(s, q, r)) \in T2s(s, q, r)
  <2>1. PICK A, B : A = T2s(s, q, r) /\ B = T2s(t, q, r)
    OBVIOUS
  <2>2. A \in SUBSET (1..Len(s)) /\ B \in SUBSET (1..Len(t)) /\ A # {} /\ A \subseteq B
    BY <1>2, <1>5, <2>1, SameAll
  <2>3. \A i \in 1..Len(s) : i \in B => i \in A
    <3>1. \A i \in 1..Len(s) : i \in T2s(t, q, r) => i \in T2s(s, q, r)
      BY <1>3
    <3> QED BY <2>1, <3>1
  <2>4. PICK n, m : n = Len(s) /\ m = Len(t)
    OBVIOUS
  <2>5. n \in Nat /\ m \in Nat /\ n <= m
    BY <1>1, <2>4
  <2>6. A \in SUBSET (1..n) /\ B \in SUBSET (1..m) /\ \A i \in 1..n : i \in B => i \in A
    BY <2>2, <2>3, <2>4
  <2>7. Min(A) = Min(B) /\ Min(A) \in A
    BY <2>2, <2>5, <2>6, FirstKept
  <2> QED BY <2>1, <2>7
<1> QED BY <1>4, <1>5

-----------------------------------------------------------------------------
(* The inductive invariant.  What a comment refers to is there: a result's *)
(* request, the result a T1 names with its request, an Auditor request's   *)
(* T1.                                                                     *)
T1Of(s, q) == s[q].pass
PassOf(s, q) == s[T1Of(s, q)].pass
LabOf(s, q) == s[T1Of(s, q)].ref

Linked(s) ==
    \A i \in DOMAIN s :
        /\ s[i].kind = "result" => s[i].ref \in Requests(s, s[i].lane)
        /\ s[i].kind = "t1" => /\ s[i].pass \in All(s, "result", "LAB")
                               /\ s[i].ref = s[s[i].pass].ref
        /\ s[i].kind = "request" /\ s[i].lane = "AUDITOR" => s[i].pass \in All(s, "t1", "LAB")

(* The read v of the log s shows the Lab request that request q rests on   *)
(* to be the current one, and the result its T1 names to be canonical.     *)
Binds(v, s, q) ==
    /\ Latest(v, "LAB") = LabOf(s, q)
    /\ Results(v, LabOf(s, q)) # {}
    /\ Min(Results(v, LabOf(s, q))) = PassOf(s, q)

(* What a receipt says of the log s, R being the receipts.                 *)
Vouched(s, R, r) ==
    /\ r.by \in Build
    /\ r.comment \in 1..Len(s)
    /\ s[r.comment].ref = r.job
    /\ s[r.comment].kind \in {"result", "t2"}
    /\ s[r.comment].kind = "result" =>
         /\ r.comment = Min(Results(s, r.job))
         /\ Latest(SubSeq(s, 1, r.comment), LaneOf(r.by)) = r.job
    /\ s[r.comment].kind = "t2" =>
         /\ r.job \in Requests(s, "AUDITOR")
         /\ r.comment = Min(T2s(s, r.job, s[r.comment].pass))
         /\ \E x \in R : x.job = r.job /\ x.comment = s[r.comment].pass
         /\ Binds(SubSeq(s, 1, r.comment), s, r.job) 

(* A build before the publisher has a result, and in the T2 step.          *)
Early == {"new", "review", "publish", "check", "race", "post", "await", "rejected"}
Late == {"t2", "t2check", "t2race", "t2post", "t2await"}

(* What a build d of b has to do with the log s.                           *)
InOrder(s, R, b, d) ==
    /\ d.job \in {0} \cup Requests(s, LaneOf(b))
    /\ d.pc # "new" => d.job # 0
    /\ d.result # 0 => d.result \in Results(s, d.job)
    /\ d.pc \in Early => d.result = 0
    /\ d.pc \in Late => /\ LaneOf(b) = "AUDITOR"
                        /\ d.result # 0
                        /\ \E x \in R : x.job = d.job /\ x.comment = d.result
    /\ d.pc = "t2race" => \E n \in 0..Len(s) : /\ Binds(SubSeq(s, 1, n), s, d.job)
                                               /\ T2s(SubSeq(s, 1, n), d.job, d.result) # {}

Cell == [pc : Early \cup Late \cup {"done"}, job : Nat, own : Nat, result : Nat,
         reads : 0..(MaxReads - 1)]

DispatcherInv ==
    /\ Thread(log) /\ Len(log) <= MaxLog /\ Linked(log)
    /\ build \in [Build -> Cell]
    /\ \A b \in Build : InOrder(log, receipts, b, build[b])
    /\ \A r \in receipts : Vouched(log, receipts, r)
    /\ faults \in 0..MaxFault

-----------------------------------------------------------------------------
(* What a longer log keeps. *)

(* An Auditor request's T1, Lab result and Lab request are earlier.        *)
LEMMA UpLinked ==
    ASSUME NEW s, Thread(s), Linked(s), NEW q \in Requests(s, "AUDITOR")
    PROVE  /\ q \in 1..Len(s) /\ T1Of(s, q) \in 1..(q - 1)
           /\ PassOf(s, q) \in 1..(q - 1) /\ LabOf(s, q) \in 1..(q - 1)
           /\ PassOf(s, q) \in Results(s, LabOf(s, q))
<1>1. Len(s) \in Nat /\ DOMAIN s = 1..Len(s)
  BY DEF Thread
<1>2. PICK t, p, l : t = T1Of(s, q) /\ p = PassOf(s, q) /\ l = LabOf(s, q)
  OBVIOUS
<1>3. q \in 1..Len(s) /\ s[q].kind = "request" /\ s[q].lane = "AUDITOR" /\ s[q].pass \in 0..(q - 1)
  BY <1>1 DEF Requests, All, Thread
<1>4. t \in 1..Len(s) /\ t <= q - 1 /\ s[t].kind = "t1" /\ s[t].pass \in 0..(t - 1)
  <2>1. s[q].pass \in All(s, "t1", "LAB")
    BY <1>1, <1>3 DEF Linked
  <2>2. t \in 1..Len(s) /\ s[t].kind = "t1"
    BY <1>1, <1>2, <2>1 DEF All, T1Of
  <2> QED BY <1>1, <1>2, <1>3, <2>2 DEF Thread, T1Of
<1>5. p \in 1..Len(s) /\ p <= t - 1 /\ s[p].kind = "result" /\ l = s[p].ref /\ s[p].ref \in 0..(p - 1)
  <2>1. s[t].pass \in All(s, "result", "LAB") /\ s[t].ref = s[s[t].pass].ref
    BY <1>1, <1>4 DEF Linked
  <2>2. p = s[t].pass /\ l = s[t].ref
    BY <1>2 DEF PassOf, LabOf, T1Of
  <2>3. p \in 1..Len(s) /\ s[p].kind = "result" /\ l = s[p].ref
    BY <1>1, <2>1, <2>2 DEF All
  <2> QED BY <1>1, <1>4, <2>2, <2>3 DEF Thread
<1>6. l \in 1..Len(s)
  BY <1>1, <1>5 DEF Linked, Requests, All
<1>7. p \in Results(s, l)
  BY <1>1, <1>5 DEF Results
<1>8. t \in 1..(q - 1) /\ p \in 1..(q - 1) /\ l \in 1..(q - 1)
  BY <1>1, <1>3, <1>4, <1>5, <1>6
<1> QED BY <1>2, <1>3, <1>7, <1>8

LEMMA UpKept ==
    ASSUME NEW s, Thread(s), Linked(s), NEW t, Thread(t), Extends(s, t), NEW q \in Requests(s, "AUDITOR")
    PROVE  /\ T1Of(t, q) = T1Of(s, q) /\ PassOf(t, q) = PassOf(s, q) /\ LabOf(t, q) = LabOf(s, q)
           /\ q \in Requests(t, "AUDITOR")
<1>1. PICK a, p, l : a = T1Of(s, q) /\ p = PassOf(s, q) /\ l = LabOf(s, q)
  OBVIOUS
<1>2. q \in 1..Len(s) /\ a \in 1..(q - 1) /\ Len(s) \in Nat /\ \A i \in 1..Len(s) : t[i] = s[i]
  BY <1>1, UpLinked DEF Thread, Extends
<1>3. a \in 1..Len(s)
  BY <1>2
<1>4. t[q] = s[q] /\ t[a] = s[a]
  BY <1>2, <1>3
<1>5. q \in Requests(t, "AUDITOR")
  <2>1. PICK x : x = "AUDITOR"
    OBVIOUS
  <2> QED BY <1>2, <2>1, SameRequests
<1> QED BY <1>1, <1>4, <1>5 DEF T1Of, PassOf, LabOf

LEMMA LinkedAppended ==
    ASSUME NEW s, Thread(s), Linked(s), NEW c \in Comment, c.ref \in 0..Len(s), c.pass \in 0..Len(s),
           c.kind = "result" => c.ref \in Requests(s, c.lane),
           c.kind = "t1" => c.pass \in All(s, "result", "LAB") /\ c.ref = s[c.pass].ref,
           c.kind = "request" /\ c.lane = "AUDITOR" => c.pass \in All(s, "t1", "LAB")
    PROVE  Linked(Append(s, c))
<1>1. PICK t : t = Append(s, c)
  OBVIOUS
<1>2. Thread(t) /\ Extends(s, t) /\ Len(t) = Len(s) + 1 /\ t[Len(s) + 1] = c
  BY <1>1, Appended
<1>3. /\ Len(s) \in Nat /\ DOMAIN s = 1..Len(s) /\ DOMAIN t = 1..(Len(s) + 1)
      /\ \A i \in 1..Len(s) : t[i] = s[i]
  BY <1>2 DEF Thread, Extends
<1>4. \A kind, lane : All(s, kind, lane) \subseteq All(t, kind, lane)
  BY <1>2, SameAll
<1>5. \A lane : Requests(s, lane) \subseteq Requests(t, lane)
  BY <1>4 DEF Requests
<1>6. \A i \in All(s, "result", "LAB") : t[i] = s[i]
  BY <1>3 DEF All
<1>7. ASSUME NEW i \in DOMAIN t
      PROVE  /\ t[i].kind = "result" => t[i].ref \in Requests(t, t[i].lane)
             /\ t[i].kind = "t1" => /\ t[i].pass \in All(t, "result", "LAB")
                                    /\ t[i].ref = t[t[i].pass].ref
             /\ t[i].kind = "request" /\ t[i].lane = "AUDITOR" => t[i].pass \in All(t, "t1", "LAB")
  <2>1. CASE i \in 1..Len(s)
    <3>1. i \in DOMAIN s /\ t[i] = s[i]
      BY <1>3, <2>1
    <3>2. t[i].kind = "result" => t[i].ref \in Requests(t, t[i].lane)
      BY <1>5, <3>1 DEF Linked
    <3>3. t[i].kind = "t1" => t[i].pass \in All(t, "result", "LAB") /\ t[i].ref = t[t[i].pass].ref
      BY <1>4, <1>6, <3>1 DEF Linked
    <3>4. t[i].kind = "request" /\ t[i].lane = "AUDITOR" => t[i].pass \in All(t, "t1", "LAB")
      BY <1>4, <3>1 DEF Linked
    <3> QED BY <3>2, <3>3, <3>4
  <2>2. CASE i = Len(s) + 1
    <3>1. t[i] = c
      BY <1>2, <2>2
    <3>2. t[i].kind = "result" => t[i].ref \in Requests(t, t[i].lane)
      BY <1>5, <3>1
    <3>3. t[i].kind = "t1" => t[i].pass \in All(t, "result", "LAB") /\ t[i].ref = t[t[i].pass].ref
      BY <1>4, <1>6, <3>1
    <3>4. t[i].kind = "request" /\ t[i].lane = "AUDITOR" => t[i].pass \in All(t, "t1", "LAB")
      BY <1>4, <3>1
    <3> QED BY <3>2, <3>3, <3>4
  <2> QED BY <1>3, <2>1, <2>2
<1> QED BY <1>1, <1>7 DEF Linked

LEMMA VouchedKept ==
    ASSUME NEW s, Thread(s), Linked(s), NEW t, Thread(t), Extends(s, t),
           NEW R, NEW Q, R \subseteq Q, NEW r, Vouched(s, R, r)
    PROVE  Vouched(t, Q, r)
<1>1. PICK c, q : c = r.comment /\ q = r.job
  OBVIOUS
<1>2. /\ r.by \in Build /\ c \in 1..Len(s) /\ s[c].ref = q /\ s[c].kind \in {"result", "t2"}
      /\ s[c].kind = "result" => /\ c = Min(Results(s, q))
                                 /\ Latest(SubSeq(s, 1, c), LaneOf(r.by)) = q
      /\ s[c].kind = "t2" => /\ q \in Requests(s, "AUDITOR")
                             /\ c = Min(T2s(s, q, s[c].pass))
                             /\ \E x \in R : x.job = q /\ x.comment = s[c].pass
                             /\ Binds(SubSeq(s, 1, c), s, q)
  BY <1>1 DEF Vouched
<1>3. /\ Len(s) \in Nat /\ Len(t) \in Nat /\ c \in 1..Len(t) /\ t[c] = s[c] /\ c \in 0..Len(s)
      /\ DOMAIN s = 1..Len(s)
  BY <1>2 DEF Thread, Extends
<1>4. SubSeq(t, 1, c) = SubSeq(s, 1, c)
  BY <1>3, SamePrefix
<1>5. ASSUME t[c].kind = "result"
      PROVE  c = Min(Results(t, q)) /\ Latest(SubSeq(t, 1, c), LaneOf(r.by)) = q
  <2>1. c \in Results(s, q)
    BY <1>2, <1>3, <1>5 DEF Results
  <2>2. Min(Results(s, q)) = Min(Results(t, q))
    BY <2>1, CanonicalKept
  <2> QED BY <1>2, <1>3, <1>4, <1>5, <2>2
<1>6. ASSUME t[c].kind = "t2"
      PROVE  /\ q \in Requests(t, "AUDITOR")
             /\ c = Min(T2s(t, q, t[c].pass))
             /\ \E x \in Q : x.job = q /\ x.comment = t[c].pass
             /\ Binds(SubSeq(t, 1, c), t, q)
  <2>1. PICK p : p = s[c].pass /\ p = t[c].pass
    BY <1>3
  <2>2. c \in T2s(s, q, p)
    BY <1>2, <1>3, <1>6, <2>1 DEF T2s
  <2>3. Min(T2s(s, q, p)) = Min(T2s(t, q, p))
    BY <2>2, CanonicalKept
  <2>4. q \in Requests(s, "AUDITOR") /\ c = Min(T2s(s, q, p)) /\ Binds(SubSeq(s, 1, c), s, q)
    BY <1>2, <1>3, <1>6, <2>1
  <2>5. \E x \in Q : x.job = q /\ x.comment = t[c].pass
    BY <1>2, <1>3, <1>6
  <2>6. q \in Requests(t, "AUDITOR") /\ LabOf(t, q) = LabOf(s, q) /\ PassOf(t, q) = PassOf(s, q)
    BY <2>4, UpKept
  <2>7. Binds(SubSeq(t, 1, c), t, q)
    BY <1>4, <2>4, <2>6 DEF Binds
  <2> QED BY <2>1, <2>3, <2>4, <2>5, <2>6, <2>7
<1> QED BY <1>1, <1>2, <1>3, <1>5, <1>6 DEF Vouched

LEMMA InOrderKept ==
    ASSUME NEW s, Thread(s), Linked(s), NEW t, Thread(t), Extends(s, t),
           NEW R, NEW Q, R \subseteq Q, NEW b, NEW d, InOrder(s, R, b, d)
    PROVE  InOrder(t, Q, b, d)
<1>1. PICK q, p, lane : q = d.job /\ p = d.result /\ lane = LaneOf(b)
  OBVIOUS
<1>2. /\ q \in {0} \cup Requests(s, lane) /\ (d.pc # "new" => q # 0)
      /\ (p # 0 => p \in Results(s, q)) /\ (d.pc \in Early => p = 0)
      /\ d.pc \in Late => lane = "AUDITOR" /\ p # 0 /\ \E x \in R : x.job = q /\ x.comment = p
      /\ d.pc = "t2race" => \E n \in 0..Len(s) : /\ Binds(SubSeq(s, 1, n), s, q)
                                                 /\ T2s(SubSeq(s, 1, n), q, p) # {}
  BY <1>1 DEF InOrder
<1>3. q \in {0} \cup Requests(t, lane) /\ (p # 0 => p \in Results(t, q))
  BY <1>2, SameAll DEF Requests
<1>4. d.pc \in Late => lane = "AUDITOR" /\ p # 0 /\ \E x \in Q : x.job = q /\ x.comment = p
  BY <1>2
<1>5. ASSUME d.pc = "t2race"
      PROVE  \E n \in 0..Len(t) : Binds(SubSeq(t, 1, n), t, q) /\ T2s(SubSeq(t, 1, n), q, p) # {}
  <2>1. PICK n \in 0..Len(s) : Binds(SubSeq(s, 1, n), s, q) /\ T2s(SubSeq(s, 1, n), q, p) # {}
    BY <1>2, <1>5
  <2>2. SubSeq(t, 1, n) = SubSeq(s, 1, n) /\ n \in 0..Len(t)
    BY SamePrefix
  <2>3. q \in Requests(s, "AUDITOR")
    BY <1>2, <1>5 DEF Late
  <2>4. LabOf(t, q) = LabOf(s, q) /\ PassOf(t, q) = PassOf(s, q)
    BY <2>3, UpKept
  <2>5. Binds(SubSeq(t, 1, n), t, q)
    BY <2>1, <2>2, <2>4 DEF Binds
  <2> QED BY <2>1, <2>2, <2>5
<1> QED BY <1>1, <1>2, <1>3, <1>4, <1>5 DEF InOrder

-----------------------------------------------------------------------------
(* What makes a receipt true. *)
LEMMA Nested ==
    ASSUME NEW s, Thread(s), NEW m \in 0..Len(s), NEW n \in 0..m
    PROVE  Extends(SubSeq(s, 1, n), SubSeq(s, 1, m))
<1>1. Len(s) \in Nat /\ n \in 0..Len(s) /\ n <= m
  BY DEF Thread
<1>2. PICK u, v : u = SubSeq(s, 1, n) /\ v = SubSeq(s, 1, m)
  OBVIOUS
<1>3. Len(u) = n /\ Len(v) = m /\ (\A i \in 1..n : u[i] = s[i]) /\ \A i \in 1..m : v[i] = s[i]
  BY <1>1, <1>2, Prefix
<1>4. Extends(u, v)
  BY <1>1, <1>3 DEF Extends
<1> QED BY <1>2, <1>4

LEMMA ResultVouched ==
    ASSUME NEW s, Thread(s), NEW n \in 0..Len(s), NEW R, NEW b \in Build, NEW q, q # 0,
           Latest(SubSeq(s, 1, n), LaneOf(b)) = q, Results(SubSeq(s, 1, n), q) # {},
           NEW r, r.by = b, r.job = q, r.comment = Min(Results(SubSeq(s, 1, n), q))
    PROVE  Vouched(s, R, r) /\ r.comment \in Results(s, q) /\ s[r.comment].kind = "result"
<1>1. PICK v, c, lane : v = SubSeq(s, 1, n) /\ c = r.comment /\ lane = LaneOf(b)
  OBVIOUS
<1>2. Thread(v) /\ Extends(v, s) /\ Len(v) = n /\ DOMAIN v = 1..n /\ \A i \in 1..n : v[i] = s[i]
  <2>1. Thread(v) /\ Extends(v, s) /\ Len(v) = n /\ \A i \in 1..n : v[i] = s[i]
    BY <1>1, Prefix
  <2> QED BY <2>1 DEF Thread
<1>3. c \in Results(v, q) /\ c = Min(Results(s, q))
  BY <1>1, <1>2, CanonicalKept
<1>4. c \in 1..n /\ s[c].kind = "result" /\ s[c].ref = q
  BY <1>2, <1>3 DEF Results
<1>5. Len(s) \in Nat /\ DOMAIN s = 1..Len(s) /\ c \in 1..Len(s) /\ c \in 0..n
  BY <1>4 DEF Thread
<1>6. q \in 0..(c - 1)
  BY <1>4, <1>5 DEF Thread
<1>7. PICK u : u = SubSeq(s, 1, c)
  OBVIOUS
<1>8. Thread(u) /\ Len(u) = c /\ Extends(u, v)
  BY <1>1, <1>5, <1>7, Prefix, Nested
<1>9. Latest(u, lane) = q
  <2>1. Latest(v, lane) = q /\ q <= Len(u)
    BY <1>1, <1>5, <1>6, <1>8
  <2> QED BY <1>2, <1>8, <2>1, LatestBack
<1>10. c \in Results(s, q)
  BY <1>4, <1>5 DEF Results
<1> QED BY <1>1, <1>3, <1>4, <1>5, <1>7, <1>9, <1>10 DEF Vouched

LEMMA T2Vouched ==
    ASSUME NEW s, Thread(s), Linked(s), NEW n \in 0..Len(s), NEW m \in 0..Len(s), NEW R,
           NEW q \in Requests(s, "AUDITOR"), NEW p, \E x \in R : x.job = q /\ x.comment = p,
           Binds(SubSeq(s, 1, n), s, q), T2s(SubSeq(s, 1, n), q, p) # {},
           T2s(SubSeq(s, 1, m), q, p) # {},
           NEW r, r.by \in Build, r.job = q, r.comment = Min(T2s(SubSeq(s, 1, m), q, p))
    PROVE  Vouched(s, R, r)
<1>1. PICK v, w, c, l, k, x : /\ v = SubSeq(s, 1, n) /\ w = SubSeq(s, 1, m) /\ c = r.comment
                              /\ l = LabOf(s, q) /\ k = PassOf(s, q) /\ x = "LAB"
  OBVIOUS
<1>2. Thread(v) /\ Extends(v, s) /\ Len(v) = n /\ DOMAIN v = 1..n /\ \A i \in 1..n : v[i] = s[i]
  <2>1. Thread(v) /\ Extends(v, s) /\ Len(v) = n /\ \A i \in 1..n : v[i] = s[i]
    BY <1>1, Prefix
  <2> QED BY <2>1 DEF Thread
<1>3. Thread(w) /\ Extends(w, s)
  BY <1>1, Prefix
<1>4. c \in T2s(v, q, p) /\ c = Min(T2s(s, q, p))
  <2>1. Min(T2s(w, q, p)) = Min(T2s(s, q, p))
    BY <1>1, <1>3, CanonicalKept
  <2>2. Min(T2s(v, q, p)) = Min(T2s(s, q, p)) /\ Min(T2s(v, q, p)) \in T2s(v, q, p)
    BY <1>1, <1>2, CanonicalKept
  <2> QED BY <1>1, <2>1, <2>2
<1>5. c \in 1..n /\ s[c].kind = "t2" /\ s[c].ref = q /\ s[c].pass = p
  BY <1>2, <1>4 DEF T2s
<1>6. Len(s) \in Nat /\ DOMAIN s = 1..Len(s) /\ c \in 1..Len(s) /\ c \in 0..n
  BY <1>5 DEF Thread
<1>7. q \in 0..(c - 1)
  BY <1>5, <1>6 DEF Thread
<1>8. q \in 1..Len(s) /\ l \in 1..(q - 1) /\ k \in 1..(q - 1) /\ k \in Results(s, l)
  BY <1>1, UpLinked
<1>9. PICK u : u = SubSeq(s, 1, c)
  OBVIOUS
<1>10. Thread(u) /\ Len(u) = c /\ Extends(u, v) /\ Extends(u, s)
  BY <1>1, <1>6, <1>9, Prefix, Nested
<1>11. Latest(v, x) = l /\ Results(v, l) # {} /\ Min(Results(v, l)) = k
  BY <1>1 DEF Binds
<1>12. Latest(u, x) = l
  <2>1. Latest(v, x) # 0 /\ Latest(v, x) <= Len(u)
    BY <1>6, <1>7, <1>8, <1>10, <1>11
  <2> QED BY <1>2, <1>10, <1>11, <2>1, LatestBack
<1>13. k \in Results(u, l)
  <2>1. k \in 1..Len(u)
    BY <1>6, <1>7, <1>8, <1>10
  <2> QED BY <1>8, <1>10, <2>1, SameAll
<1>14. Min(Results(u, l)) = k
  <2>1. Min(Results(u, l)) = Min(Results(s, l))
    BY <1>10, <1>13, CanonicalKept
  <2>2. Min(Results(v, l)) = Min(Results(s, l))
    BY <1>2, <1>11, CanonicalKept
  <2> QED BY <1>11, <2>1, <2>2
<1>15. Binds(u, s, q)
  BY <1>1, <1>12, <1>13, <1>14 DEF Binds
<1> QED BY <1>1, <1>4, <1>5, <1>6, <1>9, <1>15 DEF Vouched

-----------------------------------------------------------------------------
(* Steps. *)
LEMMA StepKeeps ==
    ASSUME DispatcherInv, Thread(log'), Linked(log'), Len(log') <= MaxLog, Extends(log, log'),
           receipts \subseteq receipts', faults' \in 0..MaxFault, build' \in [Build -> Cell],
           \A b \in Build : build'[b] = build[b] \/ InOrder(log', receipts', b, build'[b]),
           \A r \in receipts' : r \in receipts \/ Vouched(log', receipts', r)
    PROVE  DispatcherInv'
<1>1. Thread(log) /\ Linked(log)
  BY DEF DispatcherInv
<1>2. PICK t, Q : t = log' /\ Q = receipts'
  OBVIOUS
<1>3. Thread(t) /\ Extends(log, t) /\ receipts \subseteq Q
  BY <1>2
<1>4. ASSUME NEW b \in Build PROVE InOrder(t, Q, b, build'[b])
  <2>1. InOrder(log, receipts, b, build[b])
    BY DEF DispatcherInv
  <2>2. InOrder(t, Q, b, build[b])
    BY <1>1, <1>3, <2>1, InOrderKept
  <2>3. build'[b] = build[b] \/ InOrder(t, Q, b, build'[b])
    BY <1>2
  <2> QED BY <2>2, <2>3
<1>5. ASSUME NEW r \in Q PROVE Vouched(t, Q, r)
  <2>1. CASE r \in receipts
    <3>1. Vouched(log, receipts, r)
      BY <2>1 DEF DispatcherInv
    <3> QED BY <1>1, <1>3, <3>1, VouchedKept
  <2>2. CASE r \notin receipts
    BY <1>2, <2>2
  <2> QED BY <2>1, <2>2
<1>6. (\A b \in Build : InOrder(log', receipts', b, build'[b])) /\ \A r \in receipts' : Vouched(log', receipts', r)
  BY <1>2, <1>4, <1>5
<1> QED BY <1>6 DEF DispatcherInv

(* A step of build b leaves the other builds as they are.                  *)
LEMMA Put ==
    ASSUME NEW f \in [Build -> Cell], NEW b \in Build, NEW e \in Cell, NEW g, g = [f EXCEPT ![b] = e]
    PROVE  g \in [Build -> Cell] /\ g[b] = e /\ \A a \in Build : a = b \/ g[a] = f[a]
  OBVIOUS

(* A step of build b that posts nothing.                                   *)
LEMMA BuildStepKeeps ==
    ASSUME DispatcherInv, NEW b \in Build, NEW e \in Cell, build' = [build EXCEPT ![b] = e],
           log' = log, receipts \subseteq receipts', faults' \in 0..MaxFault,
           InOrder(log, receipts', b, e),
           \A r \in receipts' : r \in receipts \/ Vouched(log, receipts', r)
    PROVE  DispatcherInv'
<1>1. Thread(log) /\ Linked(log) /\ Len(log) <= MaxLog /\ build \in [Build -> Cell]
  BY DEF DispatcherInv
<1>2. build' \in [Build -> Cell] /\ build'[b] = e /\ \A a \in Build : a = b \/ build'[a] = build[a]
  BY <1>1, Put
<1>3. Extends(log, log)
  BY <1>1 DEF Extends, Thread
<1>4. \A a \in Build : build'[a] = build[a] \/ InOrder(log', receipts', a, build'[a])
  BY <1>2
<1> QED BY <1>1, <1>2, <1>3, <1>4, StepKeeps

(* A post of build b.                                                      *)
LEMMA PostKeeps ==
    ASSUME DispatcherInv, NEW b \in Build, NEW e \in Cell, build' = [build EXCEPT ![b] = e],
           NEW c \in Comment, Post(c), c.ref \in 0..Len(log), c.pass \in 0..Len(log),
           c.kind = "result" => c.ref \in Requests(log, c.lane),
           c.kind # "t1", c.kind # "request",
           UNCHANGED <<receipts, faults>>, InOrder(log, receipts, b, e),
           ReviewDispatcherAssumption
    PROVE  DispatcherInv'
<1>1. Thread(log) /\ Linked(log) /\ Len(log) <= MaxLog /\ build \in [Build -> Cell] /\ faults \in 0..MaxFault
  BY DEF DispatcherInv
<1>2. build' \in [Build -> Cell] /\ build'[b] = e /\ \A a \in Build : a = b \/ build'[a] = build[a]
  BY <1>1, Put
<1>3. PICK t : t = Append(log, c)
  OBVIOUS
<1>4. Thread(t) /\ Extends(log, t) /\ Len(t) = Len(log) + 1 /\ Linked(t)
  BY <1>1, <1>3, Appended, LinkedAppended
<1>5. t = log' /\ Len(t) <= MaxLog
  BY <1>1, <1>3, <1>4 DEF Post, Thread, ReviewDispatcherAssumption
<1>6. InOrder(t, receipts, b, e)
  BY <1>1, <1>4, InOrderKept
<1>7. \A a \in Build : build'[a] = build[a] \/ InOrder(log', receipts', a, build'[a])
  BY <1>2, <1>5, <1>6
<1> QED BY <1>1, <1>2, <1>4, <1>5, <1>7, StepKeeps

(* A post of the owner.                                                    *)
LEMMA OwnerPostKeeps ==
    ASSUME DispatcherInv, NEW c \in Comment, Post(c), c.ref \in 0..Len(log), c.pass \in 0..Len(log),
           c.kind # "result",
           c.kind = "t1" => c.pass \in All(log, "result", "LAB") /\ c.ref = log[c.pass].ref,
           c.kind = "request" /\ c.lane = "AUDITOR" => c.pass \in All(log, "t1", "LAB"),
           UNCHANGED <<build, receipts, faults>>,
           ReviewDispatcherAssumption
    PROVE  DispatcherInv'
<1>1. Thread(log) /\ Linked(log) /\ Len(log) <= MaxLog /\ build \in [Build -> Cell] /\ faults \in 0..MaxFault
  BY DEF DispatcherInv
<1>2. PICK t : t = Append(log, c)
  OBVIOUS
<1>3. Thread(t) /\ Extends(log, t) /\ Len(t) = Len(log) + 1 /\ Linked(t)
  BY <1>1, <1>2, Appended, LinkedAppended
<1>4. t = log' /\ Len(t) <= MaxLog
  BY <1>1, <1>2, <1>3 DEF Post, Thread, ReviewDispatcherAssumption
<1> QED BY <1>1, <1>3, <1>4, StepKeeps

-----------------------------------------------------------------------------
(* One lemma for each action. *)
LEMMA Facts ==
    ASSUME DispatcherInv
    PROVE  /\ Thread(log) /\ Linked(log) /\ Len(log) <= MaxLog /\ Len(log) \in Nat /\ DOMAIN log = 1..Len(log)
           /\ build \in [Build -> Cell] /\ faults \in 0..MaxFault
           /\ \A b \in Build : build[b] \in Cell /\ InOrder(log, receipts, b, build[b])
           /\ \A s \in Views : \E n \in 0..Len(log) : s = SubSeq(log, 1, n)
           /\ \A b : LaneOf(b) \in {"LAB", "AUDITOR"}
  BY DEF DispatcherInv, Thread, Views, UpTo, LaneOf

LEMMA ToKeeps ==
    ASSUME DispatcherInv, NEW b \in Build, NEW pc \in Early \cup Late \cup {"done"}, To(b, pc), Quiet,
           build[b].pc # "new", pc \in Early => build[b].pc \in Early, pc \in Late => build[b].pc \in Late,
           pc = "t2race" => \E n \in 0..Len(log) :
               /\ Binds(SubSeq(log, 1, n), log, build[b].job)
               /\ T2s(SubSeq(log, 1, n), build[b].job, build[b].result) # {}
    PROVE  DispatcherInv'
<1>1. build[b] \in Cell /\ InOrder(log, receipts, b, build[b]) /\ faults \in 0..MaxFault
  BY Facts
<1>2. PICK d : d = build[b]
  OBVIOUS
<1>3. PICK e : e = [pc |-> pc, job |-> d.job, own |-> d.own, result |-> d.result, reads |-> d.reads]
  OBVIOUS
<1>4. e \in Cell
  BY <1>1, <1>2, <1>3 DEF Cell
<1>5. build' = [build EXCEPT ![b] = e]
  <2>1. e = [d EXCEPT !.pc = pc]
    BY <1>1, <1>2, <1>3 DEF Cell
  <2> QED BY <1>2, <2>1 DEF To
<1>6. InOrder(log, receipts, b, e)
  BY <1>1, <1>2, <1>3 DEF InOrder
<1> QED BY <1>1, <1>4, <1>5, <1>6, BuildStepKeeps DEF Quiet

LEMMA DiscoverKeeps ==
    ASSUME DispatcherInv, NEW b \in Build, Discover(b) PROVE DispatcherInv'
<1>1. build[b] \in Cell /\ InOrder(log, receipts, b, build[b]) /\ faults \in 0..MaxFault /\ Thread(log)
  BY Facts
<1>2. PICK s \in Views : /\ Latest(s, LaneOf(b)) # 0
                         /\ build' = [build EXCEPT ![b] = [@ EXCEPT !.pc = "review", !.job = Latest(s, LaneOf(b))]]
  BY DEF Discover
<1>3. PICK n \in 0..Len(log) : s = SubSeq(log, 1, n)
  BY Facts
<1>4. PICK d, q, lane : d = build[b] /\ q = Latest(s, LaneOf(b)) /\ lane = LaneOf(b)
  OBVIOUS
<1>5. Thread(s) /\ Extends(s, log)
  BY <1>1, <1>3, Prefix
<1>6. q # 0 /\ q \in Requests(s, lane)
  BY <1>2, <1>4, <1>5, LatestIs
<1>7. q \in Requests(log, lane) /\ q \in Nat
  BY <1>1, <1>5, <1>6, SameAll, RefersBack DEF Requests
<1>8. PICK pc : pc = "review"
  OBVIOUS
<1>9. PICK e : e = [d EXCEPT !.pc = pc, !.job = q]
  OBVIOUS
<1>10. e = [pc |-> pc, job |-> q, own |-> d.own, result |-> d.result, reads |-> d.reads]
  BY <1>1, <1>4, <1>9 DEF Cell
<1>11. e \in Cell
  BY <1>8, <1>1, <1>4, <1>7, <1>10 DEF Cell, Early
<1>12. build' = [build EXCEPT ![b] = e]
  BY <1>8, <1>2, <1>4, <1>9
<1>13. d.pc = "new" /\ d.result = 0
  BY <1>1, <1>4 DEF Discover, At, InOrder, Early
<1>14. InOrder(log, receipts, b, e)
  BY <1>8, <1>4, <1>6, <1>7, <1>10, <1>13 DEF InOrder, Early, Late
<1> QED BY <1>1, <1>11, <1>12, <1>14, BuildStepKeeps DEF Discover, Quiet

LEMMA ReviewKeeps ==
    ASSUME DispatcherInv, NEW b \in Build, Review(b) PROVE DispatcherInv'
<1>1. build[b].pc = "review" /\ Quiet
  BY DEF Review, At
<1>2. To(b, "publish") \/ To(b, "rejected")
  BY DEF Review
<1>3. \A x \in {"publish", "rejected"} : /\ x \in Early \cup Late \cup {"done"}
                                         /\ x # "t2race" /\ x \notin Late
  BY DEF Early, Late
<1>4. build[b].pc # "new" /\ build[b].pc \in Early
  BY <1>1 DEF Early
<1>5. PICK x \in {"publish", "rejected"} : To(b, x)
  BY <1>2
<1> QED BY <1>1, <1>3, <1>4, <1>5, ToKeeps

LEMMA PublishedKeeps ==
    ASSUME DispatcherInv, ReviewDispatcherAssumption, NEW b \in Build, NEW s \in Views, Current(b, s),
           Results(s, build[b].job) # {}, NEW c, c = Min(Results(s, build[b].job)), Published(b, c),
           UNCHANGED <<log, faults>>, build[b].pc \in Early, build[b].pc # "new"
    PROVE  DispatcherInv'
<1>1. /\ build[b] \in Cell /\ InOrder(log, receipts, b, build[b]) /\ faults \in 0..MaxFault
      /\ Thread(log) /\ Len(log) \in Nat /\ DOMAIN log = 1..Len(log) /\ LaneOf(b) \in {"LAB", "AUDITOR"}
  BY Facts
<1>2. PICK n \in 0..Len(log) : s = SubSeq(log, 1, n)
  BY Facts
<1>3. PICK d, q, lane, pc : /\ d = build[b] /\ q = build[b].job /\ lane = LaneOf(b)
                            /\ pc = IF LaneOf(b) = "LAB" THEN "done" ELSE "t2"
  OBVIOUS
<1>4. q # 0 /\ q \in Nat /\ q \in Requests(log, lane)
  BY <1>1, <1>3 DEF InOrder, Cell
<1>5. Latest(SubSeq(log, 1, n), lane) = q /\ Results(SubSeq(log, 1, n), q) # {}
      /\ c = Min(Results(SubSeq(log, 1, n), q))
  BY <1>2, <1>3 DEF Current
<1>6. PICK r : r = [kind |-> "result", job |-> q, comment |-> c, by |-> b]
  OBVIOUS
<1>7. receipts' = receipts \cup {r}
  BY <1>3, <1>6 DEF Published, Receipt
<1>8. PICK Q : Q = receipts'
  OBVIOUS
<1>9. Vouched(log, Q, r) /\ c \in Results(log, q)
  <2>1. r.by = b /\ r.job = q /\ r.comment = Min(Results(SubSeq(log, 1, n), q)) /\ r.comment = c
    BY <1>5, <1>6
  <2>2. Latest(SubSeq(log, 1, n), LaneOf(b)) = q
    BY <1>3, <1>5
  <2> HIDE DEF Build
  <2> QED BY <1>1, <1>4, <1>5, <2>1, <2>2, ResultVouched
<1>10. c \in Nat /\ c # 0
  BY <1>1, <1>9 DEF Results
<1>11. PICK e : e = [d EXCEPT !.pc = pc, !.result = c, !.own = 0, !.reads = 0]
  OBVIOUS
<1>12. e = [pc |-> pc, job |-> q, own |-> 0, result |-> c, reads |-> 0]
  BY <1>1, <1>3, <1>11 DEF Cell
<1>13. e \in Cell
  BY <1>3, <1>4, <1>10, <1>12 DEF Cell, Late, ReviewDispatcherAssumption
<1>14. build' = [build EXCEPT ![b] = e]
  BY <1>3, <1>11 DEF Published
<1>15. InOrder(log, Q, b, e)
  <2>1. e.pc \in Late => lane = "AUDITOR"
    BY <1>1, <1>3, <1>12 DEF Late
  <2>2. r \in Q /\ r.job = q /\ r.comment = c
    BY <1>6, <1>7, <1>8
  <2>3. e.pc \notin Early /\ e.pc # "t2race"
    BY <1>3, <1>12 DEF Early
  <2> QED BY <1>3, <1>4, <1>9, <1>10, <1>12, <2>1, <2>2, <2>3 DEF InOrder
<1> QED BY <1>1, <1>7, <1>8, <1>9, <1>13, <1>14, <1>15, BuildStepKeeps

LEMMA RecoverKeeps ==
    ASSUME DispatcherInv, ReviewDispatcherAssumption, NEW b \in Build, NEW s \in Views, Current(b, s),
           Results(s, build[b].job) # {}, Recover(b, s),
           UNCHANGED <<log, faults>>, build[b].pc \in Early, build[b].pc # "new"
    PROVE  DispatcherInv'
<1>1. PICK c : c = Min(Results(s, build[b].job))
  OBVIOUS
<1>2. Published(b, c)
  BY <1>1 DEF Recover
<1> QED BY <1>1, <1>2, PublishedKeeps

LEMMA PublishKeeps ==
    ASSUME DispatcherInv, ReviewDispatcherAssumption, NEW b \in Build, Publish(b) PROVE DispatcherInv'
<1>1. build[b].pc = "publish" /\ UNCHANGED <<log, faults>>
  BY DEF Publish, At
<1>2. build[b].pc \in Early /\ build[b].pc # "new"
  BY <1>1 DEF Early
<1>3. PICK s \in Views : /\ Current(b, s)
                         /\ IF Results(s, build[b].job) # {} THEN Recover(b, s)
                            ELSE To(b, "check") /\ UNCHANGED receipts
  BY DEF Publish
<1>4. CASE Results(s, build[b].job) # {}
  BY <1>1, <1>2, <1>3, <1>4, RecoverKeeps
<1>5. CASE Results(s, build[b].job) = {}
  <2>1. PICK x : x = "check"
    OBVIOUS
  <2>2. x \in Early \cup Late \cup {"done"} /\ x \notin Late /\ x # "t2race"
    BY <2>1 DEF Early, Late
  <2>3. To(b, x) /\ Quiet
    BY <1>1, <1>3, <1>5, <2>1 DEF Quiet
  <2> QED BY <1>2, <2>2, <2>3, ToKeeps
<1> QED BY <1>4, <1>5

LEMMA PublishCheckKeeps ==
    ASSUME DispatcherInv, NEW b \in Build, PublishCheck(b) PROVE DispatcherInv'
<1>1. build[b].pc \in Early /\ build[b].pc # "new" /\ Quiet
  BY DEF PublishCheck, At, Early
<1>2. PICK x \in {"post", "race"} : To(b, x)
  BY DEF PublishCheck
<1>3. x \in Early \cup Late \cup {"done"} /\ x \notin Late /\ x # "t2race"
  BY DEF Early, Late
<1> QED BY <1>1, <1>2, <1>3, ToKeeps

LEMMA PublishRaceKeeps ==
    ASSUME DispatcherInv, ReviewDispatcherAssumption, NEW b \in Build, PublishRace(b) PROVE DispatcherInv'
<1>1. build[b].pc \in Early /\ build[b].pc # "new" /\ UNCHANGED <<log, faults>>
  BY DEF PublishRace, At, Early
<1>2. PICK s \in Views : Current(b, s) /\ Results(s, build[b].job) # {} /\ Recover(b, s)
  BY DEF PublishRace
<1> QED BY <1>1, <1>2, RecoverKeeps

LEMMA PublishPostKeeps ==
    ASSUME DispatcherInv, ReviewDispatcherAssumption, NEW b \in Build, PublishPost(b) PROVE DispatcherInv'
<1>1. /\ build[b] \in Cell /\ InOrder(log, receipts, b, build[b]) /\ Thread(log)
      /\ Len(log) \in Nat /\ Len(log) <= MaxLog /\ LaneOf(b) \in {"LAB", "AUDITOR"}
  BY Facts
<1>2. PICK d, q, lane, pc, n : /\ d = build[b] /\ q = build[b].job /\ lane = LaneOf(b) /\ pc = "await"
                               /\ n = Len(log) + 1
  OBVIOUS
<1>3. d.pc = "post"
  BY <1>2 DEF PublishPost, At
<1>4. q \in Requests(log, lane) /\ d.result = 0
  BY <1>1, <1>2, <1>3 DEF InOrder, Early
<1>5. q \in 0..Len(log)
  BY <1>1, <1>4, RefersBack
<1>6. PICK e : e = [d EXCEPT !.pc = pc, !.own = n]
  OBVIOUS
<1>7. e = [pc |-> pc, job |-> q, own |-> n, result |-> d.result, reads |-> d.reads]
  BY <1>1, <1>2, <1>6 DEF Cell
<1>8. e \in Cell
  BY <1>1, <1>2, <1>7 DEF Cell, Early
<1>9. build' = [build EXCEPT ![b] = e]
  BY <1>2, <1>6 DEF PublishPost
<1>10. InOrder(log, receipts, b, e)
  BY <1>1, <1>2, <1>3, <1>4, <1>7 DEF InOrder, Early, Late
<1>11. PICK c : c = New("result", lane, q, 0, b)
  OBVIOUS
<1>12. c = [kind |-> "result", lane |-> lane, ref |-> q, pass |-> 0, valid |-> TRUE, by |-> b]
  BY <1>11 DEF New
<1>13. c \in Comment
  BY <1>1, <1>2, <1>5, <1>12 DEF Comment, Lane, ReviewDispatcherAssumption
<1>14. c.ref = q /\ c.pass = 0 /\ c.kind = "result" /\ c.lane = lane /\ 0 \in 0..Len(log)
  BY <1>1, <1>12
<1>15. Post(c) /\ UNCHANGED <<receipts, faults>>
  BY <1>2, <1>11 DEF PublishPost
<1> QED BY <1>4, <1>5, <1>8, <1>9, <1>10, <1>13, <1>14, <1>15, PostKeeps

LEMMA ReadAgainKeeps ==
    ASSUME DispatcherInv, ReviewDispatcherAssumption, NEW b \in Build, ReadAgain(b), UNCHANGED <<log, faults>>
    PROVE  DispatcherInv'
<1>1. build[b] \in Cell /\ InOrder(log, receipts, b, build[b]) /\ faults \in 0..MaxFault
  BY Facts
<1>2. PICK d, n : d = build[b] /\ n = build[b].reads + 1
  OBVIOUS
<1>3. n \in 0..(MaxReads - 1)
  BY <1>1, <1>2 DEF ReadAgain, Cell, ReviewDispatcherAssumption
<1>4. PICK e : e = [d EXCEPT !.reads = n]
  OBVIOUS
<1>5. e = [pc |-> d.pc, job |-> d.job, own |-> d.own, result |-> d.result, reads |-> n]
  BY <1>1, <1>2, <1>4 DEF Cell
<1>6. e \in Cell
  BY <1>1, <1>2, <1>3, <1>5 DEF Cell
<1>7. build' = [build EXCEPT ![b] = e] /\ receipts' = receipts
  BY <1>2, <1>4 DEF ReadAgain
<1>8. InOrder(log, receipts, b, e)
  BY <1>1, <1>2, <1>5 DEF InOrder
<1> QED BY <1>1, <1>6, <1>7, <1>8, BuildStepKeeps

LEMMA PublishAwaitKeeps ==
    ASSUME DispatcherInv, ReviewDispatcherAssumption, NEW b \in Build, PublishAwait(b) PROVE DispatcherInv'
<1>1. build[b].pc \in Early /\ build[b].pc # "new" /\ UNCHANGED <<log, faults>>
  BY DEF PublishAwait, At, Early
<1>2. PICK s \in Views :
         /\ Current(b, s)
         /\ \/ Results(s, build[b].job) = {} /\ ReadAgain(b)
            \/ /\ Results(s, build[b].job) # {}
               /\ Canonical(Results(s, build[b].job), build[b].own) = build[b].own
               /\ Published(b, build[b].own)
  BY DEF PublishAwait
<1>3. CASE ReadAgain(b)
  BY <1>1, <1>3, ReadAgainKeeps
<1>4. CASE /\ Results(s, build[b].job) # {}
           /\ Canonical(Results(s, build[b].job), build[b].own) = build[b].own
           /\ Published(b, build[b].own)
  <2>1. PICK c : c = build[b].own
    OBVIOUS
  <2>2. c = Min(Results(s, build[b].job)) /\ Published(b, c)
    BY <1>4, <2>1 DEF Canonical
  <2> QED BY <1>1, <1>2, <1>4, <2>2, PublishedKeeps
<1> QED BY <1>2, <1>3, <1>4

LEMMA ConcludedKeeps ==
    ASSUME DispatcherInv, ReviewDispatcherAssumption, NEW b \in Build, build[b].pc \in Late,
           NEW n \in 0..Len(log), Binds(SubSeq(log, 1, n), log, build[b].job),
           T2s(SubSeq(log, 1, n), build[b].job, build[b].result) # {},
           NEW m \in 0..Len(log), T2s(SubSeq(log, 1, m), build[b].job, build[b].result) # {},
           NEW c, c = Min(T2s(SubSeq(log, 1, m), build[b].job, build[b].result)), Concluded(b, c),
           UNCHANGED <<log, faults>>
    PROVE  DispatcherInv'
<1>1. /\ build[b] \in Cell /\ InOrder(log, receipts, b, build[b]) /\ faults \in 0..MaxFault
      /\ Thread(log) /\ Linked(log)
  BY Facts
<1>2. PICK d, q, p, pc : d = build[b] /\ q = build[b].job /\ p = build[b].result /\ pc = "done"
  OBVIOUS
<1>3. /\ q \in Requests(log, "AUDITOR") /\ q # 0 /\ p # 0 /\ p \in Results(log, q)
      /\ \E x \in receipts : x.job = q /\ x.comment = p
  BY <1>1, <1>2 DEF InOrder, Late
<1>4. PICK r : r = [kind |-> "t2", job |-> q, comment |-> c, by |-> b]
  OBVIOUS
<1>5. receipts' = receipts \cup {r}
  BY <1>2, <1>4 DEF Concluded, Receipt
<1>6. PICK Q : Q = receipts'
  OBVIOUS
<1>7. Vouched(log, Q, r)
  <2>1. \E x \in Q : x.job = q /\ x.comment = p
    BY <1>3, <1>5, <1>6
  <2>2. r.by \in Build /\ r.job = q /\ r.comment = Min(T2s(SubSeq(log, 1, m), q, p))
    BY <1>2, <1>4
  <2>3. /\ Binds(SubSeq(log, 1, n), log, q) /\ T2s(SubSeq(log, 1, n), q, p) # {}
        /\ T2s(SubSeq(log, 1, m), q, p) # {}
    BY <1>2
  <2> HIDE DEF Build
  <2> QED BY <1>1, <1>3, <2>1, <2>2, <2>3, T2Vouched
<1>8. PICK e : e = [d EXCEPT !.pc = pc, !.own = 0, !.reads = 0]
  OBVIOUS
<1>9. e = [pc |-> pc, job |-> q, own |-> 0, result |-> p, reads |-> 0]
  BY <1>1, <1>2, <1>8 DEF Cell
<1>10. e \in Cell
  BY <1>1, <1>2, <1>9 DEF Cell, ReviewDispatcherAssumption
<1>11. build' = [build EXCEPT ![b] = e]
  BY <1>2, <1>8 DEF Concluded
<1>12. InOrder(log, Q, b, e)
  BY <1>1, <1>2, <1>3, <1>9 DEF InOrder, Early, Late
<1> QED BY <1>1, <1>5, <1>6, <1>7, <1>10, <1>11, <1>12, BuildStepKeeps

LEMMA BindingBinds ==
    ASSUME NEW b \in Build, NEW s, LabBinding(b, s) PROVE Binds(s, log, build[b].job)
  BY DEF LabBinding, Binds, UpLab, UpPass, UpT1, LabOf, PassOf, T1Of

LEMMA PublishT2Keeps ==
    ASSUME DispatcherInv, ReviewDispatcherAssumption, NEW b \in Build, PublishT2(b) PROVE DispatcherInv'
<1>1. build[b].pc \in Late /\ build[b].pc # "new" /\ UNCHANGED <<log, faults>>
  BY DEF PublishT2, At, Late
<1>2. PICK s \in Views : /\ LabBinding(b, s)
                         /\ IF T2Of(b, s) # {} THEN Concluded(b, Min(T2Of(b, s)))
                            ELSE To(b, "t2check") /\ UNCHANGED receipts
  BY DEF PublishT2
<1>3. PICK n \in 0..Len(log) : s = SubSeq(log, 1, n)
  BY Facts
<1>4. CASE T2Of(b, s) # {}
  <2>1. PICK c : c = Min(T2Of(b, s))
    OBVIOUS
  <2>2. Concluded(b, c)
    BY <1>2, <1>4, <2>1
  <2>3. Binds(SubSeq(log, 1, n), log, build[b].job)
    BY <1>2, <1>3, BindingBinds
  <2>4. /\ T2s(SubSeq(log, 1, n), build[b].job, build[b].result) # {}
        /\ c = Min(T2s(SubSeq(log, 1, n), build[b].job, build[b].result))
    BY <1>3, <1>4, <2>1 DEF T2Of
  <2> QED BY <1>1, <2>2, <2>3, <2>4, ConcludedKeeps
<1>5. CASE T2Of(b, s) = {}
  <2>1. PICK x : x = "t2check"
    OBVIOUS
  <2>2. x \in Early \cup Late \cup {"done"} /\ x \notin Early /\ x # "t2race"
    BY <2>1 DEF Early, Late
  <2>3. To(b, x) /\ Quiet
    BY <1>1, <1>2, <1>5, <2>1 DEF Quiet
  <2> QED BY <1>1, <2>2, <2>3, ToKeeps
<1> QED BY <1>4, <1>5

LEMMA T2CheckKeeps ==
    ASSUME DispatcherInv, NEW b \in Build, T2Check(b) PROVE DispatcherInv'
<1>1. build[b].pc \in Late /\ build[b].pc # "new" /\ Quiet
  BY DEF T2Check, At, Late
<1>2. PICK s \in Views : LabBinding(b, s) /\ To(b, IF T2Of(b, s) = {} THEN "t2post" ELSE "t2race")
  BY DEF T2Check
<1>3. PICK n \in 0..Len(log) : s = SubSeq(log, 1, n)
  BY Facts
<1>4. PICK x : x = IF T2Of(b, s) = {} THEN "t2post" ELSE "t2race"
  OBVIOUS
<1>5. x \in Early \cup Late \cup {"done"} /\ x \notin Early
  BY <1>4 DEF Early, Late
<1>6. x = "t2race" => \E k \in 0..Len(log) : /\ Binds(SubSeq(log, 1, k), log, build[b].job)
                                             /\ T2s(SubSeq(log, 1, k), build[b].job, build[b].result) # {}
  BY <1>2, <1>3, <1>4, BindingBinds DEF T2Of
<1>7. To(b, x)
  BY <1>2, <1>4
<1> QED BY <1>1, <1>5, <1>6, <1>7, ToKeeps

LEMMA T2RaceKeeps ==
    ASSUME DispatcherInv, ReviewDispatcherAssumption, NEW b \in Build, T2Race(b) PROVE DispatcherInv'
<1>1. build[b].pc \in Late /\ build[b].pc = "t2race" /\ UNCHANGED <<log, faults>>
  BY DEF T2Race, At, Late
<1>2. PICK s \in Views : T2Of(b, s) # {} /\ Concluded(b, Min(T2Of(b, s)))
  BY DEF T2Race
<1>3. PICK m \in 0..Len(log) : s = SubSeq(log, 1, m)
  BY Facts
<1>4. PICK n \in 0..Len(log) : /\ Binds(SubSeq(log, 1, n), log, build[b].job)
                               /\ T2s(SubSeq(log, 1, n), build[b].job, build[b].result) # {}
  BY <1>1, Facts DEF InOrder
<1>5. PICK c : c = Min(T2Of(b, s))
  OBVIOUS
<1>6. Concluded(b, c) /\ T2s(SubSeq(log, 1, m), build[b].job, build[b].result) # {}
      /\ c = Min(T2s(SubSeq(log, 1, m), build[b].job, build[b].result))
  BY <1>2, <1>3, <1>5 DEF T2Of
<1> QED BY <1>1, <1>4, <1>6, ConcludedKeeps

LEMMA T2PostKeeps ==
    ASSUME DispatcherInv, ReviewDispatcherAssumption, NEW b \in Build, T2Post(b) PROVE DispatcherInv'
<1>1. /\ build[b] \in Cell /\ InOrder(log, receipts, b, build[b]) /\ Thread(log)
      /\ Len(log) \in Nat /\ Len(log) <= MaxLog /\ DOMAIN log = 1..Len(log)
  BY Facts
<1>2. PICK d, q, p, pc, n : /\ d = build[b] /\ q = build[b].job /\ p = build[b].result /\ pc = "t2await"
                            /\ n = Len(log) + 1
  OBVIOUS
<1>3. d.pc = "t2post"
  BY <1>2 DEF T2Post, At
<1>4. /\ q \in Requests(log, "AUDITOR") /\ q # 0 /\ p # 0 /\ p \in Results(log, q) /\ LaneOf(b) = "AUDITOR"
      /\ \E x \in receipts : x.job = q /\ x.comment = p
  BY <1>1, <1>2, <1>3 DEF InOrder, Late
<1>5. q \in 0..Len(log) /\ p \in 0..Len(log)
  <2>1. q \in 1..Len(log)
    BY <1>1, <1>4, RefersBack
  <2>2. p \in 1..Len(log)
    BY <1>1, <1>4 DEF Results
  <2> QED BY <1>1, <2>1, <2>2
<1>6. PICK e : e = [d EXCEPT !.pc = pc, !.own = n]
  OBVIOUS
<1>7. e = [pc |-> pc, job |-> q, own |-> n, result |-> p, reads |-> d.reads]
  BY <1>1, <1>2, <1>6 DEF Cell
<1>8. e \in Cell
  BY <1>1, <1>2, <1>7 DEF Cell, Late
<1>9. build' = [build EXCEPT ![b] = e]
  BY <1>2, <1>6 DEF T2Post
<1>10. InOrder(log, receipts, b, e)
  BY <1>1, <1>2, <1>4, <1>7 DEF InOrder, Early, Late
<1>11. PICK c : c = New("t2", "AUDITOR", q, p, b)
  OBVIOUS
<1>12. c = [kind |-> "t2", lane |-> "AUDITOR", ref |-> q, pass |-> p, valid |-> TRUE, by |-> b]
  BY <1>11 DEF New
<1>13. c \in Comment
  BY <1>1, <1>5, <1>12 DEF Comment, Lane, ReviewDispatcherAssumption
<1>14. c.ref \in 0..Len(log) /\ c.pass \in 0..Len(log) /\ c.kind = "t2"
  BY <1>5, <1>12
<1>15. Post(c) /\ UNCHANGED <<receipts, faults>>
  BY <1>2, <1>11 DEF T2Post
<1> QED BY <1>8, <1>9, <1>10, <1>13, <1>14, <1>15, PostKeeps

LEMMA T2AwaitKeeps ==
    ASSUME DispatcherInv, ReviewDispatcherAssumption, NEW b \in Build, T2Await(b) PROVE DispatcherInv'
<1>1. build[b].pc \in Late /\ UNCHANGED <<log, faults>>
  BY DEF T2Await, At, Late
<1>2. PICK s \in Views :
         /\ LabBinding(b, s)
         /\ \/ T2Of(b, s) = {} /\ ReadAgain(b)
            \/ /\ T2Of(b, s) # {}
               /\ Canonical(T2Of(b, s), build[b].own) = build[b].own
               /\ Concluded(b, build[b].own)
  BY DEF T2Await
<1>3. CASE ReadAgain(b)
  BY <1>1, <1>3, ReadAgainKeeps
<1>4. CASE /\ T2Of(b, s) # {}
           /\ Canonical(T2Of(b, s), build[b].own) = build[b].own
           /\ Concluded(b, build[b].own)
  <2>1. PICK n \in 0..Len(log) : s = SubSeq(log, 1, n)
    BY Facts
  <2>2. PICK c : c = build[b].own
    OBVIOUS
  <2>3. /\ Concluded(b, c) /\ T2s(SubSeq(log, 1, n), build[b].job, build[b].result) # {}
        /\ c = Min(T2s(SubSeq(log, 1, n), build[b].job, build[b].result))
    BY <1>4, <2>1, <2>2 DEF Canonical, T2Of
  <2>4. Binds(SubSeq(log, 1, n), log, build[b].job)
    BY <1>2, <2>1, BindingBinds
  <2> QED BY <1>1, <2>3, <2>4, ConcludedKeeps
<1> QED BY <1>2, <1>3, <1>4

LEMMA RestartedKeeps ==
    ASSUME DispatcherInv, ReviewDispatcherAssumption, NEW b \in Build, Restarted(b),
           build[b].pc \notin {"done", "rejected"}, UNCHANGED <<log, receipts>>, faults' \in 0..MaxFault
    PROVE  DispatcherInv'
<1>1. build[b] \in Cell /\ InOrder(log, receipts, b, build[b])
  BY Facts
<1>2. PICK d, pc : d = build[b] /\ pc = Beginning(build[b].pc)
  OBVIOUS
<1>3. d.pc \in (Early \cup Late) \ {"rejected"}
  BY <1>1, <1>2 DEF Cell
<1>4. /\ d.pc \in Early => pc \in {"new", "publish"}
      /\ d.pc \in Late => pc = "t2"
      /\ pc # "new" => d.pc # "new"
  BY <1>2, <1>3 DEF Beginning, Early, Late
<1>5. PICK e : e = [d EXCEPT !.pc = pc, !.own = 0, !.reads = 0]
  OBVIOUS
<1>6. e = [pc |-> pc, job |-> d.job, own |-> 0, result |-> d.result, reads |-> 0]
  BY <1>1, <1>2, <1>5 DEF Cell
<1>7. e \in Cell
  BY <1>1, <1>2, <1>3, <1>4, <1>6 DEF Cell, Early, Late, ReviewDispatcherAssumption
<1>8. build' = [build EXCEPT ![b] = e]
  BY <1>2, <1>5 DEF Restarted
<1>9. InOrder(log, receipts, b, e)
  <2>1. CASE d.pc \in Early
    BY <1>1, <1>2, <1>4, <1>6, <2>1 DEF InOrder, Early, Late
  <2>2. CASE d.pc \in Late
    BY <1>1, <1>2, <1>4, <1>6, <2>2 DEF InOrder, Early, Late
  <2> QED BY <1>3, <2>1, <2>2
<1> QED BY <1>7, <1>8, <1>9, BuildStepKeeps

LEMMA RefusesKeeps ==
    ASSUME DispatcherInv, ReviewDispatcherAssumption, NEW b \in Build, Refuses(b) PROVE DispatcherInv'
<1>1. PICK s \in Views : ~ Accepts(b, s)
  BY DEF Refuses
<1>2. build[b].pc \notin {"done", "rejected"}
  BY <1>1 DEF Accepts, At
<1>3. Restarted(b) /\ UNCHANGED <<log, receipts>> /\ faults' \in 0..MaxFault
  BY Facts DEF Refuses, Quiet
<1> QED BY <1>2, <1>3, RestartedKeeps

LEMMA FailKeeps ==
    ASSUME DispatcherInv, ReviewDispatcherAssumption, NEW b \in Build, Fail(b) PROVE DispatcherInv'
<1>1. faults' \in 0..MaxFault
  BY Facts DEF Fail, ReviewDispatcherAssumption
<1> QED BY <1>1, RestartedKeeps DEF Fail

LEMMA RequestKeeps ==
    ASSUME DispatcherInv, ReviewDispatcherAssumption, NEW lane \in Lane, NEW pass \in 0..Len(log), NEW most,
           Request(lane, pass, most), lane = "AUDITOR" => pass \in All(log, "t1", "LAB")
    PROVE  DispatcherInv'
<1>1. Thread(log) /\ Len(log) \in Nat /\ Len(log) <= MaxLog
  BY Facts
<1>2. PICK p \in {0} \cup Requests(log, lane), v \in BOOLEAN :
         Post([New("request", lane, p, pass, "owner") EXCEPT !.valid = v])
  BY DEF Request
<1>3. p \in 0..Len(log)
  BY <1>1, <1>2, RefersBack
<1>4. PICK c : c = [New("request", lane, p, pass, "owner") EXCEPT !.valid = v]
  OBVIOUS
<1>5. c = [kind |-> "request", lane |-> lane, ref |-> p, pass |-> pass, valid |-> v, by |-> "owner"]
  BY <1>4 DEF New
<1>6. c \in Comment
  BY <1>1, <1>3, <1>5 DEF Comment, ReviewDispatcherAssumption
<1>7. c.ref \in 0..Len(log) /\ c.pass \in 0..Len(log) /\ c.kind = "request" /\ c.lane = lane /\ c.pass = pass
  BY <1>3, <1>5
<1>8. Post(c) /\ UNCHANGED <<build, receipts, faults>>
  BY <1>2, <1>4 DEF Request
<1> QED BY <1>6, <1>7, <1>8, OwnerPostKeeps

LEMMA PostT1Keeps ==
    ASSUME DispatcherInv, ReviewDispatcherAssumption, PostT1 PROVE DispatcherInv'
<1>1. Thread(log) /\ Len(log) \in Nat /\ Len(log) <= MaxLog /\ DOMAIN log = 1..Len(log)
  BY Facts
<1>2. PICK r \in All(log, "result", "LAB") : Post(New("t1", "LAB", log[r].ref, r, "owner"))
  BY DEF PostT1
<1>3. PICK p : p = log[r].ref
  OBVIOUS
<1>4. r \in 1..Len(log) /\ p \in 0..(r - 1)
  BY <1>1, <1>2, <1>3 DEF All, Thread
<1>5. r \in 0..Len(log) /\ p \in 0..Len(log)
  BY <1>1, <1>4
<1>6. PICK c : c = New("t1", "LAB", p, r, "owner")
  OBVIOUS
<1>7. c = [kind |-> "t1", lane |-> "LAB", ref |-> p, pass |-> r, valid |-> TRUE, by |-> "owner"]
  BY <1>6 DEF New
<1>8. c \in Comment
  BY <1>1, <1>5, <1>7 DEF Comment, Lane, ReviewDispatcherAssumption
<1>9. Post(c) /\ UNCHANGED <<build, receipts, faults>>
  BY <1>2, <1>3, <1>6 DEF PostT1
<1> QED BY <1>2, <1>3, <1>5, <1>7, <1>8, <1>9, OwnerPostKeeps

-----------------------------------------------------------------------------
(* The invariant. *)
LEMMA DispatcherInitHolds ==
    ASSUME ReviewDispatcherAssumption, Init PROVE DispatcherInv
<1>1. log = <<>> /\ receipts = {} /\ build = [b \in Build |-> Fresh] /\ faults = 0
  BY DEF Init
<1>2. log \in Seq(Comment) /\ Len(log) = 0 /\ DOMAIN log = {}
  BY <1>1
<1>3. Thread(log) /\ Linked(log) /\ Len(log) <= MaxLog
  BY <1>2 DEF Thread, Linked, ReviewDispatcherAssumption
<1>4. Fresh = [pc |-> "new", job |-> 0, own |-> 0, result |-> 0, reads |-> 0]
  BY DEF Fresh
<1>5. Fresh \in Cell
  BY <1>4 DEF Cell, Early, ReviewDispatcherAssumption
<1>6. build \in [Build -> Cell] /\ \A b \in Build : build[b] = Fresh
  BY <1>1, <1>5
<1>7. \A b \in Build : InOrder(log, receipts, b, Fresh)
  BY <1>4 DEF InOrder, Late
<1> QED BY <1>1, <1>3, <1>6, <1>7 DEF DispatcherInv, ReviewDispatcherAssumption

LEMMA DispatcherNextKeeps ==
    ASSUME ReviewDispatcherAssumption, DispatcherInv, [Next]_vars PROVE DispatcherInv'
<1>1. CASE RequestLab
  <2>1. "LAB" \in Lane /\ "LAB" # "AUDITOR" /\ 0 \in 0..Len(log)
    BY Facts DEF Lane
  <2> QED BY <1>1, <2>1, RequestKeeps DEF RequestLab
<1>2. CASE RequestAuditor
  <2>1. PICK t \in All(log, "t1", "LAB") : Request("AUDITOR", t, MaxAuditorRequest)
    BY <1>2 DEF RequestAuditor
  <2>2. "AUDITOR" \in Lane /\ t \in 0..Len(log)
    BY <2>1, Facts DEF Lane, All
  <2> QED BY <2>1, <2>2, RequestKeeps
<1>3. CASE PostT1
  BY <1>3, PostT1Keeps
<1>4. ASSUME NEW b \in Build, BuildStep(b) PROVE DispatcherInv'
  <2>1. CASE Discover(b)
    BY <2>1, DiscoverKeeps
  <2>2. CASE Review(b)
    BY <2>2, ReviewKeeps
  <2>3. CASE Publisher(b)
    BY <2>3, PublishKeeps, PublishCheckKeeps, PublishRaceKeeps, PublishPostKeeps, PublishAwaitKeeps
       DEF Publisher
  <2>4. CASE T2Step(b)
    BY <2>4, PublishT2Keeps, T2CheckKeeps, T2RaceKeeps, T2PostKeeps, T2AwaitKeeps DEF T2Step
  <2>5. CASE Refuses(b)
    BY <2>5, RefusesKeeps
  <2> QED BY <1>4, <2>1, <2>2, <2>3, <2>4, <2>5 DEF BuildStep
<1>5. ASSUME NEW b \in Build, Fail(b) PROVE DispatcherInv'
  BY <1>5, FailKeeps
<1>6. CASE UNCHANGED vars
  <2>1. log' = log /\ build' = build /\ receipts' = receipts /\ faults' = faults
    BY <1>6 DEF vars
  <2> QED BY <2>1 DEF DispatcherInv
<1> QED BY <1>1, <1>2, <1>3, <1>4, <1>5, <1>6 DEF Next

(* The inductive invariant: the comments refer back to what is there, the  *)
(* builds are where their artifacts say, and the receipts are vouched for. *)
THEOREM DispatcherInvHolds ==
    ASSUME ReviewDispatcherAssumption PROVE Spec => []DispatcherInv
  BY DispatcherInitHolds, DispatcherNextKeeps, PTL DEF Spec

-----------------------------------------------------------------------------
(* The theorems. *)
LEMMA InvGivesReceipts ==
    ASSUME DispatcherInv PROVE ReceiptInvariant
<1>1. /\ Thread(log) /\ Linked(log) /\ Len(log) \in Nat /\ DOMAIN log = 1..Len(log)
      /\ build \in [Build -> Cell] /\ faults \in 0..MaxFault
      /\ \A b \in Build : build[b] \in Cell /\ InOrder(log, receipts, b, build[b])
  BY Facts
<1>2. ASSUME NEW r \in receipts
      PROVE  /\ r.comment \in 1..Len(log) /\ log[r.comment].ref = r.job
             /\ log[r.comment].kind \in {"result", "t2"} /\ Vouched(log, receipts, r)
  BY DEF DispatcherInv, Vouched
<1>3. DispatcherTypeOK
  <2>1. \A i \in 1..Len(log) : log[i] \in Comment /\ {log[i].ref, log[i].pass} \subseteq 0..(i - 1)
    BY <1>1 DEF Thread
  <2>2. ASSUME NEW b \in Build
        PROVE  /\ build[b].reads \in 0..(MaxReads - 1)
               /\ build[b].job \in {0} \cup Requests(log, LaneOf(b))
               /\ build[b].result # 0 => build[b].result \in Results(log, build[b].job)
    BY <1>1 DEF Cell, InOrder
  <2>3. ASSUME NEW r \in receipts
        PROVE  r.comment \in Results(log, r.job) \cup {i \in 1..Len(log) : log[i].kind = "t2" /\ log[i].ref = r.job}
    BY <1>1, <1>2 DEF Results
  <2> QED BY <1>1, <2>1, <2>2, <2>3 DEF DispatcherTypeOK
<1>4. ReceiptCanonical
  <2>1. ASSUME NEW r \in receipts
        PROVE  r.comment = Min(IF log[r.comment].kind = "result" THEN Results(log, r.job)
                               ELSE T2s(log, r.job, log[r.comment].pass))
    <3>1. CASE log[r.comment].kind = "result"
      BY <1>2, <3>1 DEF Vouched
    <3>2. CASE log[r.comment].kind = "t2"
      <4>1. r.comment = Min(T2s(log, r.job, log[r.comment].pass)) /\ log[r.comment].kind # "result"
        BY <1>2, <3>2 DEF Vouched
      <4> QED BY <4>1
    <3> QED BY <1>2, <3>1, <3>2
  <2> QED BY <2>1 DEF ReceiptCanonical
<1>5. ReceiptFresh
  BY <1>2 DEF ReceiptFresh, Vouched, UpTo
<1>6. T2Bound
  <2>1. ASSUME NEW r \in receipts, log[r.comment].kind = "t2"
        PROVE  /\ \E x \in receipts : x.job = r.job /\ x.comment = log[r.comment].pass
               /\ Latest(UpTo(r.comment), "LAB") = UpLab(r.job)
               /\ UpPass(r.job) = Min(Results(log, UpLab(r.job)))
    <3>1. PICK c, q, l, k : /\ c = r.comment /\ q = r.job /\ l = LabOf(log, r.job) /\ k = PassOf(log, r.job)
      OBVIOUS
    <3>2. /\ \E x \in receipts : x.job = q /\ x.comment = log[c].pass
          /\ Binds(SubSeq(log, 1, c), log, q)
      BY <1>2, <2>1, <3>1 DEF Vouched
    <3>3. PICK u : u = SubSeq(log, 1, c)
      OBVIOUS
    <3>4. Latest(u, "LAB") = l /\ Results(u, l) # {} /\ Min(Results(u, l)) = k
      BY <3>1, <3>2, <3>3 DEF Binds
    <3>5. c \in 0..Len(log)
      BY <1>1, <1>2, <3>1
    <3>6. Thread(u) /\ Extends(u, log)
      BY <1>1, <3>3, <3>5, Prefix
    <3>7. Min(Results(log, l)) = k
      BY <1>1, <3>4, <3>6, CanonicalKept
    <3>8. UpLab(q) = l /\ UpPass(q) = k
      BY <3>1 DEF UpLab, UpPass, UpT1, LabOf, PassOf, T1Of
    <3> QED BY <3>1, <3>2, <3>3, <3>4, <3>7, <3>8 DEF UpTo
  <2> QED BY <2>1 DEF T2Bound
<1> QED BY <1>3, <1>4, <1>5, <1>6 DEF ReceiptInvariant

(* However many builds there are, however late they read and whatever      *)
(* dies: every receipt (publish, publish_t2, recover_publish_receipt)      *)
(* names the canonical comment, of a request that was current when the     *)
(* comment was posted, and a T2 concludes a receipted result on the Lab    *)
(* request and result that its T1 named.                                   *)
THEOREM ReceiptInvariantHolds ==
    ASSUME ReviewDispatcherAssumption PROVE Spec => []ReceiptInvariant
  BY DispatcherInvHolds, InvGivesReceipts, PTL

(* The comments only grow.                                                 *)
LEMMA StepExtends ==
    ASSUME DispatcherInv, DispatcherInv', [Next]_vars PROVE Extends(log, log')
<1>1. Thread(log) /\ Thread(log') /\ Len(log) \in Nat
  BY Facts DEF DispatcherInv
<1>2. CASE \E c : log' = Append(log, c)
  <2>1. PICK c : log' = Append(log, c)
    BY <1>2
  <2>2. log \in Seq(Comment) /\ log' \in Seq(Comment)
    BY <1>1 DEF Thread
  <2>3. Len(log') = Len(log) + 1 /\ \A i \in 1..Len(log) : log'[i] = log[i]
    BY <2>1, <2>2
  <2> QED BY <1>1, <2>3 DEF Extends
<1>3. CASE log' = log
  BY <1>1, <1>3 DEF Extends
<1>4. log' = log \/ \E c : log' = Append(log, c)
  <2>1. ASSUME NEW b \in Build, BuildStep(b) \/ Fail(b)
        PROVE  log' = log \/ \E c : log' = Append(log, c)
    BY <2>1 DEF BuildStep, Discover, Review, Publisher, T2Step, Refuses, Fail, Publish, PublishCheck,
                PublishRace, PublishPost, PublishAwait, PublishT2, T2Check, T2Race, T2Post, T2Await,
                Quiet, Post
  <2>2. RequestLab \/ RequestAuditor \/ PostT1 => log' = log \/ \E c : log' = Append(log, c)
    BY DEF RequestLab, RequestAuditor, PostT1, Request, Post
  <2> QED BY <2>1, <2>2 DEF Next, vars
<1> QED BY <1>2, <1>3, <1>4

(* A winner of the arbitration (exact_current_owner_requests_v6) is never  *)
(* displaced by a later comment.                                           *)
THEOREM WinnersStay ==
    ASSUME ReviewDispatcherAssumption PROVE Spec => WinnersStable
<1>1. ASSUME DispatcherInv, DispatcherInv', [Next]_vars
      PROVE  \A l \in Lane : Winners(log, l) \subseteq Winners(log, l)'
  <2>1. Thread(log) /\ Thread(log') /\ Extends(log, log')
    BY <1>1, StepExtends DEF DispatcherInv
  <2>2. PICK t : t = log'
    OBVIOUS
  <2>3. ASSUME NEW l \in Lane, NEW i \in Winners(log, l) PROVE i \in Winners(t, l)
    <3>1. i \in 1..Len(log)
      BY <2>1, WinnersTell, RefersBack
    <3> QED BY <2>1, <2>2, <3>1, SameWinners
  <2> QED BY <2>2, <2>3
<1>2. DispatcherInv /\ DispatcherInv' /\ [Next]_vars
        => [log' # log => \A l \in Lane : Winners(log, l) \subseteq Winners(log, l)']_log
  BY <1>1
<1> QED BY <1>2, DispatcherInvHolds, PTL DEF Spec, WinnersStable
-----------------------------------------------------------------------------
(* One review.                                                             *)

ReviewSteps == {"dispatch", "pr", "main", "bind", "source", "tests", "testing", "validate",
                "validating", "scan", "get", "before", "deny", "verdict", "end"}

ReviewOuts == {"none", "PASS", "DISPATCHER_JOB_BINDING_MISMATCH", "DISPATCHER_CONTRACT_FAILURE",
               "DISPATCHER_EXECUTION_FAILURE", "read", "PRIVATE_OR_SPECIAL_DNS_IP_DENIED",
               "HTTP_REDIRECT_DENIED", "lost", "REVIEW_RECIPE_OR_CANDIDATE_FAILURE",
               "REVIEW_EXECUTION_FAILURE"}

ReviewRecord ==
    [pc : ReviewSteps, as : {"build", "preflight"}, recipe : {"files", "endpoint"},
     captured : BOOLEAN, found : SUBSET Mark, cached : 0..MaxClock, asked : [Subject -> 0..MaxClock],
     read : [Subject -> BOOLEAN], refused : SUBSET Name, findings : SUBSET Name,
     before : Seq(Nat), left : SUBSET Method, try : 0..(Attempts - 1), out : ReviewOuts]

ServiceRecord ==
    [state : Nat, drift : Nat, applied : SUBSET Method, sent : [Method -> Nat],
     reached : SUBSET Public]

WorldShape ==
    /\ clock \in 0..MaxClock /\ moved \in [Subject -> 0..Never]
    /\ {commit, file} \subseteq SUBSET Mark /\ group \in BOOLEAN
    /\ service \in ServiceRecord /\ review \in ReviewRecord

(* What a read says it saw was so within the lifetime of the cache, and no *)
(* later than now.                                                         *)
ReadInTime(r) ==
    /\ r.cached <= clock
    /\ \A x \in Subject :
          /\ r.cached <= moved[x] /\ r.asked[x] <= clock
          /\ r.read[x] => r.asked[x] <= moved[x] + TTL

(* Where a review stands: its recipe, the files before the candidate's     *)
(* processes run, which are the commit's in a build, and the service       *)
(* before a denied method is tried.                                        *)
Placed(r) ==
    /\ r.as = "build" => r.found = commit
    /\ r.pc \in {"source", "tests", "testing", "validate", "validating", "scan"} => r.recipe = "files"
    /\ r.pc \in {"get", "before", "deny"} => r.recipe = "endpoint"
    /\ group => r.pc \in {"testing", "validating"}
    /\ r.pc \in {"dispatch", "pr", "main", "bind", "source", "tests"} => file = r.found
    /\ (r.recipe = "files" \/ r.pc \notin {"deny", "verdict", "end"}) => service.applied = {}
    /\ r.refused \subseteq r.findings

(* What no finding means so far, once the binding was checked.             *)
FilesVouched(r) ==
    r.recipe = "files" =>
        /\ r.pc \notin {"source"} => Token \subseteq r.found
        /\ r.pc \in {"verdict", "end"} => "secret" \notin file

EndpointVouched(r) ==
    /\ r.pc = "deny" =>
          \E n \in Nat : /\ r.before = <<n>> /\ n <= service.state
                         /\ service.applied # {} => n < service.state
    /\ r.pc \in {"verdict", "end"} => service.applied = {}

Speaks(r) == r.pc \notin {"dispatch", "pr", "main", "bind", "end"} \/ r.out = "PASS"

FoundNothing(r) ==
    Speaks(r) /\ r.findings = {} =>
        (\A x \in Subject : r.read[x]) /\ FilesVouched(r) /\ EndpointVouched(r)

PassedAtTheEnd(r) == r.out = "PASS" => r.pc = "end" /\ r.findings = {}

SentOnce(r) ==
    \A m \in Method : service.sent[m] <= 1 /\ (m \in r.left => service.sent[m] = 0 \/ r.pc = "end")

ReviewInv ==
    /\ WorldShape /\ ReadInTime(review) /\ Placed(review) /\ FoundNothing(review)
    /\ PassedAtTheEnd(review) /\ SentOnce(review)

(* The invariant is enough.                                                *)
LEMMA ReviewInvIsEnough == ReviewInv => FixedReviewInvariant
<1> SUFFICES ASSUME ReviewInv PROVE FixedReviewInvariant
  OBVIOUS
<1>1. WorldShape /\ review \in ReviewRecord /\ service \in ServiceRecord
  BY DEF ReviewInv, WorldShape
<1>2. ReviewTypeOK
  BY <1>1 DEF ReviewInv, WorldShape, ReviewTypeOK, ReviewRecord, ServiceRecord, Placed
<1>3. ASSUME review.out = "PASS"
      PROVE  /\ review.pc = "end" /\ \A x \in Subject : review.read[x]
             /\ FilesVouched(review) /\ EndpointVouched(review)
  BY <1>3 DEF ReviewInv, PassedAtTheEnd, FoundNothing, Speaks
<1>4. PassIsOfTheFiles
  BY <1>3 DEF ReviewInv, PassIsOfTheFiles, Passed, FilesVouched, Placed
<1>5. PassIsFresh
  BY <1>3 DEF ReviewInv, PassIsFresh, Passed, ReadInTime
<1>6. PassIsDenied
  BY <1>3 DEF PassIsDenied, Passed, EndpointVouched
<1>7. EndpointRespected
  <2>1. service.reached \subseteq Public
    BY <1>1 DEF ServiceRecord
  <2>2. service.reached \cap Private = {}
    BY <2>1, FixedReviewAssumption DEF FixedReviewAssumption
  <2> QED BY <2>2 DEF ReviewInv, SentOnce, EndpointRespected
<1> QED BY <1>2, <1>4, <1>5, <1>6, <1>7 DEF FixedReviewInvariant

LEMMA ReviewInitHolds == ReviewInit => ReviewInv
<1> SUFFICES ASSUME ReviewInit PROVE ReviewInv
  OBVIOUS
<1>1. PICK as \in {"build", "preflight"}, recipe \in {"files", "endpoint"}, captured \in BOOLEAN :
        review = Job(as, recipe, captured)
  BY DEF ReviewInit
<1>2. /\ commit \in SUBSET Mark /\ file \in SUBSET Mark /\ Untouched
      /\ as = "build" => file = commit
  <2>1. review.as = as /\ Untouched
    BY <1>1 DEF Job, ReviewInit
  <2>2. PICK a \in {"build", "preflight"} :
          \/ /\ commit \in SUBSET Mark /\ file \in SUBSET Mark
             /\ a = "build" => CheckedOut
             /\ review = Job(a, "files", TRUE)
          \/ commit = {} /\ file = {} /\ \E c \in BOOLEAN : review = Job(a, "endpoint", c)
    BY Zenon DEF ReviewInit
  <2>3. review.as = a
    BY <2>2 DEF Job
  <2> QED BY <2>1, <2>2, <2>3 DEF CheckedOut
<1>3. review = [pc |-> "dispatch", as |-> as, recipe |-> recipe, captured |-> captured, found |-> file,
     cached |-> 0, asked |-> [x \in Subject |-> 0], read |-> [x \in Subject |-> TRUE],
     refused |-> {}, findings |-> {}, before |-> <<>>, left |-> Method, try |-> 0, out |-> "none"]
  BY <1>1 DEF Job
<1>4. MaxClock \in Nat /\ Attempts \in Nat \ {0} /\ TTL \in Nat /\ Never \in Nat /\ 0 \in 0..MaxClock /\ 0 \in 0..(Attempts - 1)
  BY FixedReviewAssumption DEF FixedReviewAssumption, Never
<1>5. review \in ReviewRecord
  <2>1. <<>> \in Seq(Nat) /\ "dispatch" \in ReviewSteps
    BY DEF ReviewSteps
  <2>2. [x \in Subject |-> 0] \in [Subject -> 0..MaxClock] /\ [x \in Subject |-> TRUE] \in [Subject -> BOOLEAN]
    BY <1>4
  <2>3. {} \in SUBSET Name /\ Method \in SUBSET Method
    BY Zenon
  <2>4. "none" \in ReviewOuts
    BY DEF ReviewOuts
  <2> QED BY <1>2, <1>3, <1>4, <2>1, <2>2, <2>3, <2>4 DEF ReviewRecord
<1>6. service \in ServiceRecord
  <2>1. [m \in Method |-> 0] \in [Method -> Nat] /\ {} \in SUBSET Method /\ {} \in SUBSET Public
    OBVIOUS
  <2> QED BY <1>2, <2>1 DEF Untouched, ServiceRecord
<1>7. WorldShape
  <2>1. [x \in Subject |-> Never] \in [Subject -> 0..Never]
    BY <1>4
  <2>2. clock \in 0..MaxClock /\ moved \in [Subject -> 0..Never] /\ group \in BOOLEAN
    BY <1>2, <1>4, <2>1 DEF Untouched
  <2>3. {commit, file} \subseteq SUBSET Mark
    BY <1>2
  <2> QED BY <1>5, <1>6, <2>2, <2>3 DEF WorldShape
<1>8. ReadInTime(review)
  BY <1>2, <1>3, <1>4 DEF ReadInTime, Untouched
<1>9. Placed(review) /\ PassedAtTheEnd(review)
  BY <1>2, <1>3 DEF Placed, Untouched, PassedAtTheEnd
<1>10. FoundNothing(review)
  BY <1>3 DEF FoundNothing, Speaks
<1>11. SentOnce(review)
  BY <1>2 DEF SentOnce, Untouched
<1> QED BY <1>7, <1>8, <1>9, <1>10, <1>11 DEF ReviewInv
(* What the steps of one review leave as it is.                            *)
SameJob(r, q) ==
    /\ q.as = r.as /\ q.recipe = r.recipe /\ q.captured = r.captured /\ q.found = r.found
    /\ q.cached = r.cached /\ q.asked = r.asked /\ q.read = r.read

LEMMA Checked ==
    ASSUME NEW r \in ReviewRecord, NEW n \in Name, NEW ok \in BOOLEAN
    PROVE  LET q == Check(r, n, ok)
           IN  /\ q \in ReviewRecord /\ SameJob(r, q)
               /\ q.pc = r.pc /\ q.before = r.before /\ q.left = r.left /\ q.try = r.try /\ q.out = r.out
               /\ r.refused \subseteq r.findings => q.refused \subseteq q.findings
               /\ q.findings = {} => ok /\ r.findings = {}
<1> DEFINE q == Check(r, n, ok)
<1> DEFINE refused == IF ok THEN r.refused \ {n} ELSE r.refused \cup {n}
           findings == IF ok THEN r.findings ELSE r.findings \cup {n}
<1>1. /\ refused \in SUBSET Name /\ findings \in SUBSET Name
      /\ q = [r EXCEPT !.refused = refused, !.findings = findings]
      /\ r.refused \subseteq r.findings => refused \subseteq findings
      /\ findings = {} => ok /\ r.findings = {}
  <2>1. r.refused \in SUBSET Name /\ r.findings \in SUBSET Name
    BY DEF ReviewRecord
  <2>2. q = [r EXCEPT !.refused = refused, !.findings = findings]
    BY DEF Check
  <2> QED BY <2>1, <2>2
<1> HIDE DEF q, refused, findings
<1>2. q \in ReviewRecord /\ q.refused = refused /\ q.findings = findings
  BY <1>1 DEF ReviewRecord
<1>3. SameJob(r, q) /\ q.pc = r.pc /\ q.before = r.before /\ q.left = r.left /\ q.try = r.try /\ q.out = r.out
  BY <1>1 DEF ReviewRecord, SameJob
<1> QED BY <1>1, <1>2, <1>3 DEF q

(* Steps of the world.                                                     *)
LEMMA WorldMovesKeeps ==
    ASSUME ReviewInv, Tick \/ (\E x \in Subject : Move(x)) \/ Touch \/ Drift PROVE ReviewInv'
<1>0. WorldShape /\ ReadInTime(review) /\ Placed(review) /\ FoundNothing(review) /\ PassedAtTheEnd(review)
      /\ SentOnce(review) /\ MaxClock \in Nat /\ TTL \in Nat /\ Never \in Nat /\ Never = MaxClock + 1
  BY FixedReviewAssumption DEF ReviewInv, FixedReviewAssumption, Never
<1>1. CASE Tick
  <2>1. clock' \in 0..MaxClock /\ clock <= clock' /\ clock \in Nat
    BY <1>0, <1>1 DEF Tick, WorldShape
  <2>2. UNCHANGED <<moved, commit, file, group, service, review>>
    BY <1>1 DEF Tick
  <2>3. WorldShape'
    BY <1>0, <2>1, <2>2 DEF WorldShape
  <2>4. ReadInTime(review)'
    <3>1. review.cached \in Nat /\ \A x \in Subject : review.asked[x] \in Nat
      BY <1>0 DEF WorldShape, ReviewRecord
    <3> QED BY <1>0, <2>1, <2>2, <3>1 DEF ReadInTime
  <2> QED BY <1>0, <2>2, <2>3, <2>4
     DEF ReviewInv, ReadInTime, Placed, FoundNothing, Speaks, FilesVouched, EndpointVouched, PassedAtTheEnd, SentOnce
<1>2. ASSUME NEW y \in Subject, Move(y) PROVE ReviewInv'
  <2>1. moved' = [moved EXCEPT ![y] = clock] /\ moved[y] = Never /\ clock \in 0..MaxClock
    BY <1>0, <1>2 DEF Move, WorldShape
  <2>2. UNCHANGED <<clock, commit, file, group, service, review>>
    BY <1>2 DEF Move
  <2>3. moved \in [Subject -> 0..Never] /\ clock \in 0..Never
    BY <1>0, <2>1 DEF WorldShape
  <2>4. moved' \in [Subject -> 0..Never] /\ \A x \in Subject : moved'[x] = moved[x] \/ moved'[x] = clock
    BY <2>1, <2>3
  <2>5. WorldShape'
    BY <1>0, <2>2, <2>4 DEF WorldShape
  <2>6. ReadInTime(review)'
    <3>1. review.cached \in Nat /\ \A x \in Subject : review.asked[x] \in Nat
      BY <1>0 DEF WorldShape, ReviewRecord
    <3>2. clock <= clock + TTL
      BY <1>0, <2>1
    <3>3. ASSUME NEW x \in Subject
          PROVE  /\ review.cached <= moved'[x] /\ review.asked[x] <= clock
                 /\ review.read[x] => review.asked[x] <= moved'[x] + TTL
      <4>1. review.cached <= clock /\ review.cached <= moved[x] /\ review.asked[x] <= clock
            /\ (review.read[x] => review.asked[x] <= moved[x] + TTL)
        BY <1>0 DEF ReadInTime
      <4>2. review.asked[x] <= clock + TTL
        BY <1>0, <2>1, <3>1, <3>2, <4>1
      <4> QED BY <2>4, <4>1, <4>2
    <3> QED BY <1>0, <2>2, <3>3 DEF ReadInTime
  <2> QED BY <1>0, <2>2, <2>5, <2>6
     DEF ReviewInv, ReadInTime, Placed, FoundNothing, Speaks, FilesVouched, EndpointVouched, PassedAtTheEnd, SentOnce
<1>3. CASE Touch
  <2>1. PICK f \in SUBSET Mark : file' = f
    BY <1>3 DEF Touch
  <2>2. UNCHANGED <<clock, moved, commit, group, service, review>> /\ group
    BY <1>3 DEF Touch
  <2>3. review.pc \in {"testing", "validating"}
    BY <1>0, <2>2 DEF Placed
  <2>4. WorldShape'
    BY <1>0, <2>1, <2>2 DEF WorldShape
  <2>5. FoundNothing(review)'
    BY <1>0, <2>2, <2>3 DEF FoundNothing, Speaks, FilesVouched, EndpointVouched
  <2>6. Placed(review)'
    BY <1>0, <2>2, <2>3 DEF Placed
  <2> QED BY <1>0, <2>2, <2>4, <2>5, <2>6
     DEF ReviewInv, ReadInTime, PassedAtTheEnd, SentOnce
<1>4. CASE Drift
  <2>1. service' = [service EXCEPT !.drift = service.drift + 1, !.state = service.state + 1]
    BY <1>4 DEF Drift
  <2>2. UNCHANGED <<clock, moved, commit, file, group, review>> /\ service \in ServiceRecord
    BY <1>0, <1>4 DEF Drift, WorldShape
  <2>3. /\ service' \in ServiceRecord /\ service'.applied = service.applied /\ service'.sent = service.sent
        /\ service'.state = service.state + 1 /\ service.state \in Nat
    <3>1. service.state \in Nat /\ service.drift \in Nat
      BY <2>2 DEF ServiceRecord
    <3>2. service.state + 1 \in Nat /\ service.drift + 1 \in Nat
      BY <3>1
    <3> QED BY <2>1, <2>2, <3>1, <3>2 DEF ServiceRecord
  <2>4. WorldShape'
    BY <1>0, <2>2, <2>3 DEF WorldShape
  <2>5. \A n \in Nat : n <= service.state => n < service'.state
    BY <2>3
  <2>6. FoundNothing(review)'
    <3>1. Speaks(review)' = Speaks(review) /\ FilesVouched(review)' = FilesVouched(review)
      BY <2>2 DEF Speaks, FilesVouched
    <3>2. EndpointVouched(review) => EndpointVouched(review)'
      BY <2>2, <2>3, <2>5 DEF EndpointVouched
    <3> QED BY <1>0, <2>2, <3>1, <3>2 DEF FoundNothing
  <2>7. Placed(review)' /\ SentOnce(review)' /\ PassedAtTheEnd(review)' /\ ReadInTime(review)'
    BY <1>0, <2>2, <2>3 DEF Placed, SentOnce, PassedAtTheEnd, ReadInTime
  <2> QED BY <2>4, <2>6, <2>7 DEF ReviewInv
<1> QED BY <1>1, <1>2, <1>3, <1>4
(* A step that raises ends the review without a PASS.                      *)
LEMMA RaiseKeeps ==
    ASSUME ReviewInv, NEW why \in ReviewOuts \ {"PASS"}, Raise(why), ~group,
           UNCHANGED <<clock, moved, commit, file, group>>, service' \in ServiceRecord,
           review.recipe = "files" => service'.applied = {},
           \A m \in Method : service'.sent[m] <= 1
    PROVE  ReviewInv'
<1>1. WorldShape /\ ReadInTime(review) /\ Placed(review) /\ review \in ReviewRecord
  BY DEF ReviewInv, WorldShape
<1>2. review' = [review EXCEPT !.pc = "end", !.out = why]
  BY DEF Raise
<1>3. review' \in ReviewRecord
  <2>1. "end" \in ReviewSteps
    BY DEF ReviewSteps
  <2> QED BY <1>1, <1>2, <2>1 DEF ReviewRecord
<1>4. /\ SameJob(review, review') /\ review'.pc = "end" /\ review'.out # "PASS"
      /\ review'.refused = review.refused /\ review'.findings = review.findings
  BY <1>1, <1>2 DEF ReviewRecord, SameJob
<1>5. WorldShape'
  BY <1>1, <1>3 DEF WorldShape
<1>6. ReadInTime(review)'
  BY <1>1, <1>4 DEF ReadInTime, SameJob
<1>7. Placed(review)'
  BY <1>1, <1>4 DEF Placed, SameJob
<1>8. FoundNothing(review)' /\ PassedAtTheEnd(review)' /\ SentOnce(review)'
  BY <1>4 DEF FoundNothing, Speaks, PassedAtTheEnd, SentOnce
<1> QED BY <1>5, <1>6, <1>7, <1>8 DEF ReviewInv

(* The same, with the world as it was.                                     *)
LEMMA RaiseAtRestKeeps ==
    ASSUME ReviewInv, NEW why \in ReviewOuts \ {"PASS"}, Raise(why), World,
           review.pc \notin {"testing", "validating"}
    PROVE  ReviewInv'
<1>1. UNCHANGED <<clock, moved, commit, file, group, service>>
  BY DEF World
<1>2. service \in ServiceRecord /\ ~group /\ (review.recipe = "files" => service.applied = {})
      /\ \A m \in Method : service.sent[m] <= 1
  BY DEF ReviewInv, WorldShape, Placed, SentOnce
<1>3. service' \in ServiceRecord /\ (review.recipe = "files" => service'.applied = {})
      /\ \A m \in Method : service'.sent[m] <= 1
  BY <1>1, <1>2
<1> QED BY <1>1, <1>2, <1>3, RaiseKeeps

LEMMA DispatchKeeps == ASSUME ReviewInv, Dispatch PROVE ReviewInv'
<1>1. World /\ review.pc = "dispatch"
  BY DEF Dispatch, OnStep
<1>2. CASE \/ Raise("DISPATCHER_JOB_BINDING_MISMATCH") \/ Raise("DISPATCHER_CONTRACT_FAILURE")
           \/ Raise("DISPATCHER_EXECUTION_FAILURE")
  BY <1>1, <1>2, RaiseAtRestKeeps DEF ReviewOuts
<1>3. CASE /\ moved = [x \in Subject |-> Never]
           /\ review' = [review EXCEPT !.pc = "pr", !.cached = clock]
  <2>1. UNCHANGED <<clock, moved, commit, file, group, service>>
    BY <1>1 DEF World
  <2>2. /\ WorldShape /\ ReadInTime(review) /\ Placed(review) /\ PassedAtTheEnd(review) /\ SentOnce(review)
        /\ review \in ReviewRecord /\ clock \in 0..MaxClock
    BY DEF ReviewInv, WorldShape
  <2>3. review' \in ReviewRecord
    <3>1. "pr" \in ReviewSteps
      BY DEF ReviewSteps
    <3> QED BY <1>3, <2>2, <3>1 DEF ReviewRecord
  <2>4. /\ review'.pc = "pr" /\ review'.cached = clock /\ review'.asked = review.asked
        /\ review'.read = review.read /\ review'.recipe = review.recipe /\ review'.out = review.out
        /\ review'.refused = review.refused /\ review'.findings = review.findings
        /\ review'.left = review.left /\ review'.as = review.as /\ review'.found = review.found
    BY <1>3, <2>2 DEF ReviewRecord
  <2>5. MaxClock \in Nat /\ Never = MaxClock + 1
    BY FixedReviewAssumption DEF FixedReviewAssumption, Never
  <2>6. clock <= clock /\ \A x \in Subject : clock <= moved[x]
    BY <1>3, <2>2, <2>5
  <2>7. WorldShape'
    BY <2>1, <2>2, <2>3 DEF WorldShape
  <2>8. ReadInTime(review)'
    BY <2>1, <2>2, <2>4, <2>6 DEF ReadInTime
  <2>9. Placed(review)'
    BY <1>1, <2>1, <2>2, <2>4 DEF Placed
  <2>10. FoundNothing(review)' /\ PassedAtTheEnd(review)' /\ SentOnce(review)'
    BY <1>1, <2>1, <2>2, <2>4 DEF FoundNothing, Speaks, PassedAtTheEnd, SentOnce
  <2> QED BY <2>7, <2>8, <2>9, <2>10 DEF ReviewInv
<1> QED BY <1>2, <1>3 DEF Dispatch

LEMMA ReadKeeps ==
    ASSUME ReviewInv, NEW y \in Subject, NEW next \in {"main", "bind"}, Read(y, next),
           review.pc \in {"pr", "main"}
    PROVE  ReviewInv'
<1>1. World
  BY DEF Read
<1>2. CASE Raise("read")
  BY <1>1, <1>2, RaiseAtRestKeeps DEF ReviewOuts
<1>3. CASE review' = [review EXCEPT !.pc = next, !.asked[y] = clock,
                                    !.read[y] = Cached \/ moved[y] = Never]
  <2>1. UNCHANGED <<clock, moved, commit, file, group, service>>
    BY <1>1 DEF World
  <2>2. /\ WorldShape /\ ReadInTime(review) /\ Placed(review) /\ PassedAtTheEnd(review) /\ SentOnce(review)
        /\ review \in ReviewRecord /\ clock \in 0..MaxClock /\ moved \in [Subject -> 0..Never]
    BY DEF ReviewInv, WorldShape
  <2> DEFINE asked == [review.asked EXCEPT ![y] = clock]
             read == [review.read EXCEPT ![y] = (Cached \/ moved[y] = Never)]
  <2>3. /\ review' = [review EXCEPT !.pc = next, !.asked = asked, !.read = read]
        /\ asked \in [Subject -> 0..MaxClock] /\ read \in [Subject -> BOOLEAN]
        /\ \A x \in Subject :
              /\ asked[x] = IF x = y THEN clock ELSE review.asked[x]
              /\ read[x] = IF x = y THEN (Cached \/ moved[y] = Never) ELSE review.read[x]
    <3>1. review.asked \in [Subject -> 0..MaxClock] /\ review.read \in [Subject -> BOOLEAN]
      BY <2>2 DEF ReviewRecord
    <3>2. asked \in [Subject -> 0..MaxClock] /\ read \in [Subject -> BOOLEAN]
      BY <2>2, <3>1
    <3>3. \A x \in Subject :
              /\ asked[x] = IF x = y THEN clock ELSE review.asked[x]
              /\ read[x] = IF x = y THEN (Cached \/ moved[y] = Never) ELSE review.read[x]
      BY <3>1
    <3>4. review' = [review EXCEPT !.pc = next, !.asked = asked, !.read = read]
      BY <1>3, Zenon
    <3> QED BY <3>2, <3>3, <3>4
  <2> HIDE DEF asked, read
  <2>4. review' \in ReviewRecord
    <3>1. next \in ReviewSteps
      BY DEF ReviewSteps
    <3> QED BY <2>2, <2>3, <3>1 DEF ReviewRecord
  <2>5. /\ review'.pc = next /\ review'.cached = review.cached /\ review'.asked = asked
        /\ review'.read = read /\ review'.recipe = review.recipe /\ review'.out = review.out
        /\ review'.refused = review.refused /\ review'.findings = review.findings
        /\ review'.left = review.left /\ review'.as = review.as /\ review'.found = review.found
    BY <2>2, <2>3 DEF ReviewRecord
  <2>6. MaxClock \in Nat /\ Never = MaxClock + 1 /\ TTL \in Nat /\ review.cached \in Nat
    BY <2>2, FixedReviewAssumption DEF FixedReviewAssumption, Never, ReviewRecord
  <2>7. ASSUME NEW x \in Subject
        PROVE  asked[x] <= clock /\ (read[x] => asked[x] <= moved[x] + TTL)
    <3>1. review.cached <= moved[x] /\ review.asked[x] <= clock
          /\ (review.read[x] => review.asked[x] <= moved[x] + TTL)
      BY <2>2 DEF ReadInTime
    <3>2. CASE x # y
      <4>1. asked[x] = review.asked[x] /\ read[x] = review.read[x]
        BY <2>2, <2>3, <3>2 DEF ReviewRecord
      <4> QED BY <3>1, <4>1
    <3>3. CASE x = y
      <4>1. asked[x] = clock /\ (read[x] => clock <= review.cached + TTL \/ moved[x] = Never)
        BY <2>2, <2>3, <3>3 DEF ReviewRecord, Cached
      <4>2. moved[x] \in 0..Never
        BY <2>2
      <4>3. clock <= review.cached + TTL => clock <= moved[x] + TTL
        BY <2>2, <2>6, <3>1, <4>2
      <4>4. moved[x] = Never => clock <= moved[x] + TTL
        BY <2>2, <2>6
      <4>5. clock <= clock
        BY <2>2, <2>6
      <4> QED BY <4>1, <4>3, <4>4, <4>5
    <3> QED BY <3>2, <3>3
  <2>8. WorldShape'
    BY <2>1, <2>2, <2>4 DEF WorldShape
  <2>9. ReadInTime(review)'
    BY <2>1, <2>2, <2>5, <2>7 DEF ReadInTime
  <2>10. Placed(review)'
    BY <2>1, <2>2, <2>5 DEF Placed
  <2>11. FoundNothing(review)' /\ PassedAtTheEnd(review)' /\ SentOnce(review)'
    BY <2>1, <2>2, <2>5 DEF FoundNothing, Speaks, PassedAtTheEnd, SentOnce
  <2> QED BY <2>8, <2>9, <2>10, <2>11 DEF ReviewInv
<1> QED BY <1>2, <1>3 DEF Read

(* A step of a review after its job was bound.                             *)
LEMMA AdvanceKeeps ==
    ASSUME ReviewInv, review' \in ReviewRecord, SameJob(review, review'),
           UNCHANGED <<clock, moved, commit>>, file' \in SUBSET Mark, group' \in BOOLEAN,
           service' \in ServiceRecord,
           Placed(review)', FoundNothing(review)', PassedAtTheEnd(review)', SentOnce(review)'
    PROVE  ReviewInv'
<1>1. WorldShape /\ ReadInTime(review)
  BY DEF ReviewInv
<1>2. WorldShape'
  BY <1>1 DEF WorldShape
<1>3. ReadInTime(review)'
  BY <1>1 DEF ReadInTime, SameJob
<1> QED BY <1>2, <1>3 DEF ReviewInv

(* A step that notes checks and goes on; q is the review with its checks.  *)
LEMMA NotedKeeps ==
    ASSUME ReviewInv, NEW q \in ReviewRecord,
           NEW pc \in {"source", "tests", "testing", "validate", "validating", "scan", "verdict", "get", "before"},
           review.pc \in {"bind", "source", "tests", "testing", "validate", "validating", "scan"},
           SameJob(review, q), q.left = review.left, q.out = review.out, q.refused \subseteq q.findings,
           review' = [q EXCEPT !.pc = pc],
           UNCHANGED <<clock, moved, commit, service>>, file' \in SUBSET Mark, group' \in BOOLEAN,
           pc \in {"get", "before"} <=> review.recipe = "endpoint",
           group' => pc \in {"testing", "validating"},
           pc \in {"source", "tests"} => file' = review.found,
           q.findings = {} => /\ \A x \in Subject : review.read[x]
                              /\ review.recipe = "files" =>
                                     /\ pc # "source" => Token \subseteq review.found
                                     /\ pc = "verdict" => "secret" \notin file'
    PROVE  ReviewInv'
<1>1. /\ WorldShape /\ Placed(review) /\ PassedAtTheEnd(review) /\ SentOnce(review)
      /\ service \in ServiceRecord /\ review \in ReviewRecord
  BY DEF ReviewInv, WorldShape
<1>10. review' \in ReviewRecord
  <2>1. pc \in ReviewSteps
    BY DEF ReviewSteps
  <2> QED BY <2>1 DEF ReviewRecord
<1>11. /\ review'.pc = pc /\ review'.out = q.out /\ review'.left = q.left
       /\ review'.refused = q.refused /\ review'.findings = q.findings
  BY DEF ReviewRecord
<1>12. /\ review'.as = q.as /\ review'.recipe = q.recipe /\ review'.captured = q.captured /\ review'.found = q.found
       /\ review'.cached = q.cached /\ review'.asked = q.asked /\ review'.read = q.read
  BY DEF ReviewRecord
<1>2. /\ review' \in ReviewRecord /\ review'.pc = pc /\ review'.recipe = review.recipe
      /\ review'.out = review.out /\ review'.left = review.left /\ review'.refused = q.refused
      /\ review'.findings = q.findings /\ review'.read = review.read
      /\ review'.as = review.as /\ review'.found = review.found
  BY <1>10, <1>11, <1>12 DEF SameJob
<1>3. SameJob(review, review')
  BY <1>12 DEF SameJob
<1>7. service.applied = {} /\ review.recipe \in {"files", "endpoint"}
      /\ (review.as = "build" => review.found = commit)
  BY <1>1 DEF Placed, ReviewRecord
<1>4. Placed(review)'
  BY <1>2, <1>7 DEF Placed
<1>5. FoundNothing(review)'
  <2>1. FilesVouched(review)' \/ review'.findings # {}
    BY <1>2 DEF FilesVouched
  <2>3. EndpointVouched(review)'
    BY <1>2, <1>7 DEF EndpointVouched
  <2> QED BY <1>2, <2>1, <2>3 DEF FoundNothing
<1>6. PassedAtTheEnd(review)'
  BY <1>1, <1>2 DEF PassedAtTheEnd
<1>8. SentOnce(review)'
  BY <1>1, <1>2 DEF SentOnce
<1>9. service' \in ServiceRecord
  BY <1>1
<1> QED BY <1>2, <1>3, <1>4, <1>5, <1>6, <1>8, <1>9, AdvanceKeeps

(* What is known of a review that has not ended.                           *)
LEMMA Underway ==
    ASSUME ReviewInv, review.pc \notin {"dispatch", "pr", "main", "bind", "end"}, review.findings = {}
    PROVE  (\A x \in Subject : review.read[x]) /\ FilesVouched(review) /\ EndpointVouched(review)
  BY DEF ReviewInv, FoundNothing, Speaks

LEMMA ReviewShape ==
    ASSUME ReviewInv
    PROVE  /\ review \in ReviewRecord /\ service \in ServiceRecord /\ review.refused \subseteq review.findings
           /\ file \in SUBSET Mark /\ group \in BOOLEAN /\ review.recipe \in {"files", "endpoint"}
  BY DEF ReviewInv, WorldShape, Placed, ReviewRecord

LEMMA BindKeeps == ASSUME ReviewInv, Bind PROVE ReviewInv'
<1>1. review.pc = "bind" /\ World
  BY DEF Bind, OnStep
<1>2. PICK rest \in BOOLEAN :
        review' = [Check(review, "bound", rest /\ review.read["pr"] /\ review.read["main"])
                   EXCEPT !.pc = IF review.recipe = "files" THEN "source" ELSE "get"]
  BY DEF Bind
<1>3. PICK bound, pc, q :
        /\ bound = (rest /\ review.read["pr"] /\ review.read["main"])
        /\ pc = (IF review.recipe = "files" THEN "source" ELSE "get")
        /\ q = Check(review, "bound", bound)
  OBVIOUS
<1>4. review.read["pr"] \in BOOLEAN /\ review.read["main"] \in BOOLEAN
  BY ReviewShape DEF ReviewRecord, Subject
<1>5. bound \in BOOLEAN /\ "bound" \in Name
  BY <1>3, <1>4 DEF Name
<1>11. q = Check(review, "bound", bound)
  BY <1>3
<1>6. /\ q \in ReviewRecord /\ SameJob(review, q) /\ q.left = review.left /\ q.out = review.out
      /\ q.refused \subseteq q.findings /\ (q.findings = {} => bound)
  BY <1>5, <1>11, Checked, ReviewShape
<1>7. review' = [q EXCEPT !.pc = pc]
  BY <1>2, <1>3
<1>8. q.findings = {} => \A x \in Subject : review.read[x]
  BY <1>3, <1>6 DEF Subject
<1>9. /\ pc \in {"source", "get"} /\ review.recipe \in {"files", "endpoint"}
      /\ pc = "get" <=> review.recipe = "endpoint"
  BY <1>3, ReviewShape
<1>10. UNCHANGED <<clock, moved, commit, file, group, service>> /\ ~group /\ file = review.found
       /\ file \in SUBSET Mark /\ group \in BOOLEAN
  BY <1>1, ReviewShape DEF World, ReviewInv, Placed
<1> QED BY <1>1, <1>6, <1>7, <1>8, <1>9, <1>10, NotedKeeps

LEMMA SourceKeeps == ASSUME ReviewInv, Source PROVE ReviewInv'
<1>1. review.pc = "source" /\ World
  BY DEF Source, OnStep
<1>2. PICK last \in Token :
        review' = [Check(Check(review, "source", Token \ {last} \subseteq file), "source", last \in file)
                   EXCEPT !.pc = "tests"]
  BY DEF Source
<1>13. PICK others \in BOOLEAN : others = (Token \ {last} \subseteq file)
  OBVIOUS
<1>14. PICK found \in BOOLEAN : found = (last \in file)
  <2>1. (last \in file) \in BOOLEAN
    OBVIOUS
  <2> QED BY <2>1, Zenon
<1>3. others = (Token \ {last} \subseteq file) /\ found = (last \in file)
  BY <1>13, <1>14
<1>4. PICK noted : noted = Check(review, "source", others)
  OBVIOUS
<1>11. PICK q : q = Check(noted, "source", found)
  OBVIOUS
<1>12. "source" \in Name
  BY DEF Name
<1>5. /\ noted \in ReviewRecord /\ SameJob(review, noted) /\ noted.left = review.left
      /\ noted.out = review.out /\ noted.refused \subseteq noted.findings
      /\ (noted.findings = {} => others /\ review.findings = {})
  BY <1>4, <1>12, Checked, ReviewShape
<1>6. /\ q \in ReviewRecord /\ SameJob(noted, q) /\ q.left = noted.left
      /\ q.out = noted.out /\ q.refused \subseteq q.findings
      /\ (q.findings = {} => found /\ noted.findings = {})
  BY <1>5, <1>11, <1>12, Checked
<1>7. review' = [q EXCEPT !.pc = "tests"]
  BY <1>2, <1>3, <1>4, <1>11
<1>8. SameJob(review, q)
  BY <1>5, <1>6 DEF SameJob
<1>9. UNCHANGED <<clock, moved, commit, file, group, service>> /\ ~group /\ file = review.found
      /\ review.recipe = "files"
  BY <1>1 DEF World, ReviewInv, Placed
<1>10. q.findings = {} => (\A x \in Subject : review.read[x]) /\ Token \subseteq review.found
  BY <1>1, <1>3, <1>5, <1>6, <1>9, Underway
<1> QED BY <1>1, <1>5, <1>6, <1>7, <1>8, <1>9, <1>10, ReviewShape, NotedKeeps

(* A process of the candidate is started.                                  *)
LEMMA StartKeeps ==
    ASSUME ReviewInv, NEW at, NEW pc, <<at, pc>> \in {<<"tests", "testing">>, <<"validate", "validating">>},
           Start(at, pc)
    PROVE  ReviewInv'
<1>1. review.pc = at /\ group' = TRUE /\ UNCHANGED <<clock, moved, commit, file, service>>
      /\ review' = [review EXCEPT !.pc = pc]
  BY DEF Start, OnStep
<1>2. at \in {"tests", "validate"} /\ pc \in {"testing", "validating"}
  OBVIOUS
<1>3. review.recipe = "files"
  BY <1>1, <1>2 DEF ReviewInv, Placed
<1>4. review.findings = {} => (\A x \in Subject : review.read[x]) /\ Token \subseteq review.found
  BY <1>1, <1>2, <1>3, Underway DEF FilesVouched
<1>5. SameJob(review, review)
  BY DEF SameJob
<1> QED BY <1>1, <1>2, <1>3, <1>4, <1>5, ReviewShape, NotedKeeps

(* It ended, or it was killed, and its check is noted.                     *)
LEMMA ReapedKeeps ==
    ASSUME ReviewInv, NEW n \in Name, NEW ok \in BOOLEAN, NEW pc \in {"validate", "scan"},
           review.pc \in {"testing", "validating"},
           group' = FALSE, UNCHANGED <<clock, moved, commit, file, service>>,
           review' = [Check(review, n, ok) EXCEPT !.pc = pc]
    PROVE  ReviewInv'
<1>1. PICK q : q = Check(review, n, ok)
  OBVIOUS
<1>2. /\ q \in ReviewRecord /\ SameJob(review, q) /\ q.left = review.left /\ q.out = review.out
      /\ q.refused \subseteq q.findings /\ (q.findings = {} => review.findings = {})
  BY <1>1, Checked, ReviewShape
<1>3. review.recipe = "files"
  BY DEF ReviewInv, Placed
<1>4. q.findings = {} => (\A x \in Subject : review.read[x]) /\ Token \subseteq review.found
  BY <1>2, <1>3, Underway DEF FilesVouched
<1>5. review' = [q EXCEPT !.pc = pc]
  BY <1>1
<1> QED BY <1>2, <1>3, <1>4, <1>5, ReviewShape, NotedKeeps

LEMMA TestsKeeps == ASSUME ReviewInv, Tests PROVE ReviewInv'
<1>1. PICK exit \in BOOLEAN, late \in BOOLEAN, counted \in BOOLEAN :
        /\ group' = FALSE
        /\ review' = [Check(review, "tests", exit /\ ~late /\ counted) EXCEPT !.pc = "validate"]
  BY DEF Tests, Reap
<1>2. review.pc = "testing" /\ UNCHANGED <<clock, moved, commit, file, service>> /\ "tests" \in Name
  BY DEF Tests, OnStep, Name
<1>3. PICK ok \in BOOLEAN : ok = (exit /\ ~late /\ counted)
  OBVIOUS
<1>4. group' = FALSE /\ review' = [Check(review, "tests", ok) EXCEPT !.pc = "validate"]
  BY <1>1, <1>3
<1> QED BY <1>2, <1>4, ReapedKeeps

LEMMA ValidateKeeps == ASSUME ReviewInv, Validate PROVE ReviewInv'
<1>1. PICK exit \in BOOLEAN, late \in BOOLEAN, expected \in BOOLEAN :
        /\ group' = FALSE
        /\ review' = [Check(review, "validator", exit /\ ~late /\ expected) EXCEPT !.pc = "scan"]
  BY DEF Validate, Reap
<1>2. review.pc = "validating" /\ UNCHANGED <<clock, moved, commit, file, service>> /\ "validator" \in Name
  BY DEF Validate, OnStep, Name
<1>3. PICK ok \in BOOLEAN : ok = (exit /\ ~late /\ expected)
  OBVIOUS
<1>4. group' = FALSE /\ review' = [Check(review, "validator", ok) EXCEPT !.pc = "scan"]
  BY <1>1, <1>3
<1> QED BY <1>2, <1>4, ReapedKeeps

LEMMA ScanKeeps == ASSUME ReviewInv, Scan PROVE ReviewInv'
<1>1. /\ review.pc = "scan" /\ World
      /\ review' = [Check(review, "scan", "secret" \notin file) EXCEPT !.pc = "verdict"]
  BY DEF Scan, OnStep
<1>9. PICK clean \in BOOLEAN : clean = ("secret" \notin file)
  OBVIOUS
<1>2. PICK q : q = Check(review, "scan", clean)
  OBVIOUS
<1>3. "scan" \in Name
  BY DEF Name
<1>4. /\ q \in ReviewRecord /\ SameJob(review, q) /\ q.left = review.left /\ q.out = review.out
      /\ q.refused \subseteq q.findings /\ (q.findings = {} => clean /\ review.findings = {})
  BY <1>2, <1>3, Checked, ReviewShape
<1>5. review.recipe = "files" /\ ~group
  BY <1>1 DEF ReviewInv, Placed
<1>6. UNCHANGED <<clock, moved, commit, file, group, service>>
  BY <1>1 DEF World
<1>7. q.findings = {} => (\A x \in Subject : review.read[x]) /\ Token \subseteq review.found /\ "secret" \notin file
  BY <1>1, <1>4, <1>5, <1>9, Underway DEF FilesVouched
<1>8. review' = [q EXCEPT !.pc = "verdict"]
  BY <1>1, <1>2, <1>9
<1> QED BY <1>1, <1>4, <1>5, <1>6, <1>7, <1>8, ReviewShape, NotedKeeps

LEMMA JudgeKeeps == ASSUME ReviewInv, Judge PROVE ReviewInv'
<1>1. review.pc = "verdict" /\ UNCHANGED <<clock, moved, commit, file, group, service>>
  BY DEF Judge, World, OnStep
<1>2. PICK why \in {"REVIEW_RECIPE_OR_CANDIDATE_FAILURE", "REVIEW_EXECUTION_FAILURE", "PASS"} :
        /\ review' = [review EXCEPT !.pc = "end", !.out = why]
        /\ why = "PASS" => review.findings = {}
  BY DEF Judge, Verdict
<1>3. review \in ReviewRecord /\ service \in ServiceRecord
  BY ReviewShape
<1>4. review' \in ReviewRecord
  <2>1. "end" \in ReviewSteps /\ why \in ReviewOuts
    BY DEF ReviewSteps, ReviewOuts
  <2> QED BY <1>2, <1>3, <2>1 DEF ReviewRecord
<1>5. /\ review'.pc = "end" /\ review'.out = why /\ review'.refused = review.refused
      /\ review'.findings = review.findings /\ review'.left = review.left
  BY <1>2, <1>3 DEF ReviewRecord
<1>6. /\ review'.as = review.as /\ review'.recipe = review.recipe /\ review'.captured = review.captured /\ review'.found = review.found
      /\ review'.cached = review.cached /\ review'.asked = review.asked /\ review'.read = review.read
  BY <1>2, <1>3 DEF ReviewRecord
<1>7. SameJob(review, review')
  BY <1>6 DEF SameJob
<1>8. Placed(review)'
  BY <1>1, <1>5, <1>6 DEF ReviewInv, Placed
<1>9. FoundNothing(review)'
  <2> SUFFICES ASSUME review.findings = {}
               PROVE  /\ \A x \in Subject : review'.read[x]
                      /\ FilesVouched(review)' /\ EndpointVouched(review)'
    BY <1>5 DEF FoundNothing
  <2>1. (\A x \in Subject : review.read[x]) /\ FilesVouched(review) /\ EndpointVouched(review)
    BY <1>1, Underway
  <2> QED BY <1>1, <1>5, <1>6, <2>1 DEF FilesVouched, EndpointVouched
<1>10. PassedAtTheEnd(review)'
  BY <1>2, <1>5 DEF PassedAtTheEnd
<1>11. SentOnce(review)'
  BY <1>1, <1>5 DEF ReviewInv, SentOnce
<1> QED BY <1>1, <1>3, <1>4, <1>7, <1>8, <1>9, <1>10, <1>11, AdvanceKeeps, ReviewShape

(* A request reaches a public address, and s is what the service is then.  *)
LEMMA ExchangeShape ==
    ASSUME NEW s \in ServiceRecord, Exchange(s)
    PROVE  /\ service' \in ServiceRecord /\ service'.state = s.state
           /\ service'.applied = s.applied /\ service'.sent = s.sent
           /\ UNCHANGED <<clock, moved, commit, file, group>>
<1>1. PICK a \in Public : service' = [s EXCEPT !.reached = @ \cup {a}]
  BY DEF Exchange, Connect
<1>2. PICK reached \in SUBSET Public : reached = s.reached \cup {a}
  BY DEF ServiceRecord
<1>3. service' = [s EXCEPT !.reached = reached]
  BY <1>1, <1>2
<1>4. service' \in ServiceRecord
  BY <1>3 DEF ServiceRecord
<1>5. service'.state = s.state /\ service'.applied = s.applied /\ service'.sent = s.sent
  BY <1>3 DEF ServiceRecord
<1> QED BY <1>4, <1>5 DEF Exchange

(* The review is about the endpoint.                                       *)
LEMMA AtTheEndpoint ==
    ASSUME ReviewInv, review.pc \in {"get", "before", "deny"}
    PROVE  /\ review.recipe = "endpoint" /\ ~group /\ group \in BOOLEAN
           /\ \A m \in Method : service.sent[m] <= 1
           /\ review.pc # "deny" => service.applied = {}
           /\ review.as = "build" => review.found = commit
  BY DEF ReviewInv, WorldShape, Placed, SentOnce

(* A request after which the review ends without a verdict.                *)
LEMMA BrokenOffKeeps ==
    ASSUME ReviewInv, review.pc \in {"get", "before", "deny"}, NEW s \in ServiceRecord, Exchange(s),
           \A m \in Method : s.sent[m] <= 1, NEW why \in ReviewOuts \ {"PASS"}, Raise(why)
    PROVE  ReviewInv'
  BY ExchangeShape, AtTheEndpoint, RaiseKeeps

LEMMA UnansweredKeeps ==
    ASSUME ReviewInv, review.pc \in {"get", "before", "deny"}, Unanswered(service, Attempts)
    PROVE  ReviewInv'
<1>1. service \in ServiceRecord /\ review \in ReviewRecord /\ \A m \in Method : service.sent[m] <= 1
  BY ReviewShape, AtTheEndpoint
<1>2. CASE Raise("PRIVATE_OR_SPECIAL_DNS_IP_DENIED") /\ World
  BY <1>2, RaiseAtRestKeeps DEF ReviewOuts
<1>3. CASE Exchange(service) /\ (Raise("HTTP_REDIRECT_DENIED") \/ Raise("lost"))
  BY <1>1, <1>3, BrokenOffKeeps DEF ReviewOuts
<1>4. CASE Exchange(service) /\ review.try + 1 < Attempts /\ review' = [review EXCEPT !.try = @ + 1]
  <2>1. PICK try \in 0..(Attempts - 1) : try = review.try + 1
    BY <1>1, <1>4, FixedReviewAssumption DEF FixedReviewAssumption, ReviewRecord
  <2>2. review' = [review EXCEPT !.try = try]
    BY <1>4, <2>1
  <2>3. review' \in ReviewRecord
    BY <1>1, <2>2 DEF ReviewRecord
  <2>4. /\ review'.pc = review.pc /\ review'.out = review.out /\ review'.refused = review.refused
        /\ review'.findings = review.findings /\ review'.left = review.left /\ review'.before = review.before
    BY <1>1, <2>2 DEF ReviewRecord
  <2>5. /\ review'.as = review.as /\ review'.recipe = review.recipe /\ review'.captured = review.captured /\ review'.found = review.found
        /\ review'.cached = review.cached /\ review'.asked = review.asked /\ review'.read = review.read
    BY <1>1, <2>2 DEF ReviewRecord
  <2>6. SameJob(review, review')
    BY <2>5 DEF SameJob
  <2>7. /\ service' \in ServiceRecord /\ service'.state = service.state
        /\ service'.applied = service.applied /\ service'.sent = service.sent
        /\ UNCHANGED <<clock, moved, commit, file, group>>
    BY <1>1, <1>4, ExchangeShape
  <2>8. Placed(review)' /\ PassedAtTheEnd(review)' /\ SentOnce(review)'
    BY <2>4, <2>5, <2>7 DEF ReviewInv, Placed, PassedAtTheEnd, SentOnce
  <2>9. FoundNothing(review)'
    <3>1. Speaks(review)' = Speaks(review)
      BY <2>4 DEF Speaks
    <3>2. FilesVouched(review) => FilesVouched(review)'
      BY <2>4, <2>5, <2>7 DEF FilesVouched
    <3>3. EndpointVouched(review) => EndpointVouched(review)'
      BY <2>4, <2>7 DEF EndpointVouched
    <3> QED BY <2>4, <2>5, <3>1, <3>2, <3>3 DEF ReviewInv, FoundNothing
  <2> QED BY <2>3, <2>6, <2>7, <2>8, <2>9, AdvanceKeeps, ReviewShape
<1> QED BY <1>2, <1>3, <1>4 DEF Unanswered

(* An answer of the service before a denied method is tried; q is the      *)
(* review with the check of the answer.                                    *)
LEMMA BodyKeeps ==
    ASSUME ReviewInv, review.pc \in {"get", "before"}, Exchange(service),
           NEW q \in ReviewRecord, SameJob(review, q), q.left = review.left, q.out = review.out,
           q.refused \subseteq q.findings, q.findings = {} => review.findings = {},
           NEW pc \in {"before", "deny"}, NEW body \in Seq(Nat),
           review' = [q EXCEPT !.try = 0, !.before = body, !.pc = pc],
           pc = "deny" /\ q.findings = {} => body = <<service.state>>
    PROVE  ReviewInv'
<1>1. 0 \in 0..(Attempts - 1) /\ pc \in ReviewSteps
  BY FixedReviewAssumption DEF FixedReviewAssumption, ReviewSteps
<1>2. review' \in ReviewRecord
  BY <1>1 DEF ReviewRecord
<1>3. /\ review'.pc = pc /\ review'.out = q.out /\ review'.refused = q.refused
      /\ review'.findings = q.findings /\ review'.left = q.left /\ review'.before = body
  BY DEF ReviewRecord
<1>4. /\ review'.as = q.as /\ review'.recipe = q.recipe /\ review'.captured = q.captured /\ review'.found = q.found
      /\ review'.cached = q.cached /\ review'.asked = q.asked /\ review'.read = q.read
  BY DEF ReviewRecord
<1>5. SameJob(review, review')
  BY <1>4 DEF SameJob
<1>6. service \in ServiceRecord /\ service.state \in Nat
  BY ReviewShape DEF ServiceRecord
<1>7. /\ service' \in ServiceRecord /\ service'.state = service.state
      /\ service'.applied = service.applied /\ service'.sent = service.sent
      /\ UNCHANGED <<clock, moved, commit, file, group>>
  BY <1>6, ExchangeShape
<1>8. review.recipe = "endpoint" /\ ~group /\ service.applied = {}
      /\ (review.as = "build" => review.found = commit)
  BY AtTheEndpoint
<1>9. Placed(review)'
  BY <1>3, <1>5, <1>7, <1>8 DEF Placed, SameJob
<1>10. FoundNothing(review)'
  <2> SUFFICES ASSUME q.findings = {}
               PROVE  /\ \A x \in Subject : review.read[x]
                      /\ FilesVouched(review)' /\ EndpointVouched(review)'
    BY <1>3, <1>5 DEF FoundNothing, SameJob
  <2>1. \A x \in Subject : review.read[x]
    BY Underway
  <2>2. FilesVouched(review)'
    BY <1>5, <1>8 DEF FilesVouched, SameJob
  <2>3. pc = "deny" => \E n \in Nat : body = <<n>> /\ n <= service.state
    BY <1>6
  <2>4. EndpointVouched(review)'
    BY <1>3, <1>7, <1>8, <2>3 DEF EndpointVouched
  <2> QED BY <2>1, <2>2, <2>4
<1>11. PassedAtTheEnd(review)'
  BY <1>3 DEF ReviewInv, PassedAtTheEnd
<1>12. SentOnce(review)'
  BY <1>3, <1>7 DEF ReviewInv, SentOnce
<1>13. file' \in SUBSET Mark /\ group' \in BOOLEAN
  BY <1>7, ReviewShape
<1> QED BY <1>2, <1>5, <1>7, <1>9, <1>10, <1>11, <1>12, <1>13, AdvanceKeeps

LEMMA BodyShape ==
    ASSUME ReviewInv, NEW status \in Status
    PROVE  /\ Body(status, service) \in Seq(Nat)
           /\ status = "200" => Body(status, service) = <<service.state>>
<1>1. service.state \in Nat
  BY ReviewShape DEF ServiceRecord
<1>2. <<service.state>> \in Seq(Nat) /\ <<>> \in Seq(Nat)
  BY <1>1
<1> QED BY <1>2 DEF Body

LEMMA GetKeeps == ASSUME ReviewInv, Get PROVE ReviewInv'
<1>4. review.pc = "get"
  BY Zenon DEF Get, OnStep
<1>1. review.pc = "get" /\ review \in ReviewRecord
  BY <1>4, ReviewShape
<1>2. CASE Unanswered(service, Attempts)
  BY <1>1, <1>2, UnansweredKeeps
<1>3. ASSUME NEW status \in Status, NEW equal \in BOOLEAN, Replied(service, Attempts, status),
             review' = [Check(review, "get", status = "200" /\ equal) EXCEPT !.try = 0,
                                !.before = IF review.captured THEN Body(status, service) ELSE @,
                                !.pc = IF review.captured THEN "deny" ELSE "before"]
      PROVE  ReviewInv'
  <2>1. PICK ok \in BOOLEAN : ok = (status = "200" /\ equal)
    OBVIOUS
  <2>2. PICK q : q = Check(review, "get", ok)
    OBVIOUS
  <2>3. "get" \in Name
    BY DEF Name
  <2>4. /\ q \in ReviewRecord /\ SameJob(review, q) /\ q.left = review.left /\ q.out = review.out
        /\ q.refused \subseteq q.findings /\ (q.findings = {} => ok /\ review.findings = {})
    BY <2>2, <2>3, Checked, ReviewShape
  <2>5. PICK pc \in {"before", "deny"} :
          pc = (IF review.captured THEN "deny" ELSE "before")
    OBVIOUS
  <2>6. PICK body : body = (IF review.captured THEN Body(status, service) ELSE q.before)
    OBVIOUS
  <2>7. body \in Seq(Nat)
    BY <2>4, <2>6, BodyShape DEF ReviewRecord
  <2>8. review' = [q EXCEPT !.try = 0, !.before = body, !.pc = pc]
    BY <1>3, <2>1, <2>2, <2>5, <2>6
  <2>9. pc = "deny" /\ q.findings = {} => body = <<service.state>>
    BY <2>1, <2>4, <2>5, <2>6, BodyShape
  <2>10. Exchange(service)
    BY <1>3 DEF Replied
  <2>11. review.pc \in {"get", "before"}
    BY <1>1
  <2> QED BY <2>4, <2>7, <2>8, <2>9, <2>10, <2>11, BodyKeeps, Zenon
<1> QED BY <1>2, <1>3, Zenon DEF Get

LEMMA BeforeKeeps == ASSUME ReviewInv, Before PROVE ReviewInv'
<1>4. review.pc = "before"
  BY Zenon DEF Before, OnStep
<1>1. review.pc = "before" /\ review \in ReviewRecord
  BY <1>4, ReviewShape
<1>2. CASE Unanswered(service, Attempts)
  BY <1>1, <1>2, UnansweredKeeps
<1>3. ASSUME NEW status \in Status, Replied(service, Attempts, status),
             review' = [Check(review, "before", status = "200") EXCEPT !.try = 0, !.pc = "deny",
                                          !.before = Body(status, service)]
      PROVE  ReviewInv'
  <2>1. PICK ok \in BOOLEAN : ok = (status = "200")
    OBVIOUS
  <2>2. PICK q : q = Check(review, "before", ok)
    OBVIOUS
  <2>3. "before" \in Name
    BY DEF Name
  <2>4. /\ q \in ReviewRecord /\ SameJob(review, q) /\ q.left = review.left /\ q.out = review.out
        /\ q.refused \subseteq q.findings /\ (q.findings = {} => ok /\ review.findings = {})
    BY <2>2, <2>3, Checked, ReviewShape
  <2>6. PICK body \in Seq(Nat) : body = Body(status, service)
    BY BodyShape
  <2>8. review' = [q EXCEPT !.try = 0, !.before = body, !.pc = "deny"]
    BY <1>3, <2>1, <2>2, <2>6
  <2>9. q.findings = {} => body = <<service.state>>
    BY <2>1, <2>4, <2>6, BodyShape
  <2>10. Exchange(service)
    BY <1>3 DEF Replied
  <2>11. review.pc \in {"get", "before"} /\ "deny" \in {"before", "deny"}
    BY <1>1
  <2> QED BY <2>4, <2>8, <2>9, <2>10, <2>11, BodyKeeps, Zenon
<1> QED BY <1>2, <1>3, Zenon DEF Before

(* A denied method is tried once, and s is what it makes of the service.   *)
LEMMA TriedShape ==
    ASSUME ReviewInv, review.pc = "deny", NEW m \in review.left,
           NEW s \in {Deliver(service, m), Effect(service, m)}
    PROVE  /\ s \in ServiceRecord
           /\ \A x \in Method : s.sent[x] = IF x = m THEN 1 ELSE service.sent[x]
           /\ \/ s.state = service.state /\ s.applied = service.applied
              \/ s.state = service.state + 1
<1>1. service \in ServiceRecord /\ m \in Method /\ service.sent[m] = 0
  BY ReviewShape DEF ReviewInv, SentOnce, ReviewRecord
<1> DEFINE sent == [service.sent EXCEPT ![m] = @ + 1]
           state == service.state + 1
           applied == service.applied \cup {m}
<1>2. sent \in [Method -> Nat] /\ \A x \in Method : sent[x] = IF x = m THEN 1 ELSE service.sent[x]
  <2>1. service.sent \in [Method -> Nat]
    BY <1>1 DEF ServiceRecord
  <2> QED BY <1>1, <2>1
<1>3. state \in Nat /\ applied \in SUBSET Method /\ state = service.state + 1
  <2>1. service.state \in Nat /\ service.applied \in SUBSET Method
    BY <1>1 DEF ServiceRecord
  <2> QED BY <1>1, <2>1
<1>4. s = [service EXCEPT !.sent = sent] \/ s = [service EXCEPT !.sent = sent, !.state = state, !.applied = applied]
  <2>1. Deliver(service, m) = [service EXCEPT !.sent = sent]
    BY Zenon DEF Deliver
  <2>2. Effect(service, m) = [service EXCEPT !.sent = sent, !.state = state, !.applied = applied]
    BY Zenon DEF Effect
  <2> QED BY <2>1, <2>2
<1> HIDE DEF sent, state, applied
<1>5. s \in ServiceRecord /\ s.sent = sent
  BY <1>1, <1>2, <1>3, <1>4 DEF ServiceRecord
<1>6. \/ s.state = service.state /\ s.applied = service.applied
      \/ s.state = service.state + 1
  BY <1>1, <1>3, <1>4 DEF ServiceRecord
<1> QED BY <1>2, <1>5, <1>6

LEMMA DenyKeeps == ASSUME ReviewInv, NEW m \in Method, Deny(m) PROVE ReviewInv'
<1>7. review.pc = "deny" /\ m \in review.left
  BY Zenon DEF Deny, OnStep
<1>1. review.pc = "deny" /\ m \in review.left /\ review \in ReviewRecord
  BY <1>7, ReviewShape
<1>2. PICK s \in {Deliver(service, m), Effect(service, m)} :
         \/ Unanswered(s, DenyAttempts)
         \/ \E status \in Status, denied \in BOOLEAN :
              /\ Replied(s, DenyAttempts, status)
              /\ review' = [Check(review, "denied", denied) EXCEPT !.try = 0, !.left = @ \ {m}]
  BY Zenon DEF Deny
<1>3. /\ s \in ServiceRecord
      /\ \A x \in Method : s.sent[x] = IF x = m THEN 1 ELSE service.sent[x]
      /\ \/ s.state = service.state /\ s.applied = service.applied
         \/ s.state = service.state + 1
  BY <1>1, TriedShape
<1>4. \A x \in Method : s.sent[x] <= 1
  BY <1>3 DEF ReviewInv, SentOnce
<1>5. CASE Unanswered(s, DenyAttempts)
  <2>1. ~(review.try + 1 < DenyAttempts)
    BY <1>1, FixedReviewAssumption DEF FixedReviewAssumption, ReviewRecord, DenyAttempts
  <2>2. CASE Raise("PRIVATE_OR_SPECIAL_DNS_IP_DENIED") /\ World
    BY <1>1, <2>2, RaiseAtRestKeeps DEF ReviewOuts
  <2>3. CASE Exchange(s) /\ (Raise("HTTP_REDIRECT_DENIED") \/ Raise("lost"))
    BY <1>1, <1>3, <1>4, <2>3, BrokenOffKeeps DEF ReviewOuts
  <2> QED BY <1>5, <2>1, <2>2, <2>3 DEF Unanswered
<1>6. ASSUME NEW status \in Status, NEW denied \in BOOLEAN, Replied(s, DenyAttempts, status),
             review' = [Check(review, "denied", denied) EXCEPT !.try = 0, !.left = @ \ {m}]
      PROVE  ReviewInv'
  <2>1. PICK q : q = Check(review, "denied", denied)
    OBVIOUS
  <2>2. "denied" \in Name
    BY DEF Name
  <2>3. /\ q \in ReviewRecord /\ SameJob(review, q) /\ q.left = review.left /\ q.out = review.out
        /\ q.pc = review.pc /\ q.before = review.before
        /\ q.refused \subseteq q.findings /\ (q.findings = {} => review.findings = {})
    BY <2>1, <2>2, Checked, ReviewShape
  <2>4. PICK left \in SUBSET Method : left = q.left \ {m}
    BY <2>3 DEF ReviewRecord
  <2>5. review' = [q EXCEPT !.try = 0, !.left = left]
    BY <1>6, <2>1, <2>4
  <2>6. 0 \in 0..(Attempts - 1)
    BY FixedReviewAssumption DEF FixedReviewAssumption
  <2>7. review' \in ReviewRecord
    BY <2>3, <2>5, <2>6 DEF ReviewRecord
  <2>8. /\ review'.pc = q.pc /\ review'.out = q.out /\ review'.refused = q.refused
        /\ review'.findings = q.findings /\ review'.left = left /\ review'.before = q.before
    BY <2>3, <2>5 DEF ReviewRecord
  <2>9. /\ review'.as = q.as /\ review'.recipe = q.recipe /\ review'.captured = q.captured /\ review'.found = q.found
        /\ review'.cached = q.cached /\ review'.asked = q.asked /\ review'.read = q.read
    BY <2>3, <2>5 DEF ReviewRecord
  <2>10. SameJob(review, review')
    BY <2>3, <2>9 DEF SameJob
  <2>11. /\ service' \in ServiceRecord /\ service'.state = s.state
         /\ service'.applied = s.applied /\ service'.sent = s.sent
         /\ UNCHANGED <<clock, moved, commit, file, group>>
    BY <1>3, <1>6, ExchangeShape DEF Replied
  <2>12. review.recipe = "endpoint" /\ ~group
         /\ (review.as = "build" => review.found = commit)
    BY <1>1, AtTheEndpoint
  <2>13. Placed(review)'
    BY <1>1, <2>3, <2>8, <2>10, <2>11, <2>12 DEF Placed, SameJob
  <2>14. SentOnce(review)'
    BY <1>1, <1>3, <1>4, <2>3, <2>4, <2>8, <2>11 DEF ReviewInv, SentOnce
  <2>15. PassedAtTheEnd(review)'
    BY <1>1, <2>3, <2>8 DEF ReviewInv, PassedAtTheEnd
  <2>16. FoundNothing(review)'
    <3> SUFFICES ASSUME q.findings = {}
                 PROVE  /\ \A x \in Subject : review.read[x]
                        /\ FilesVouched(review)' /\ EndpointVouched(review)'
      BY <2>8, <2>10 DEF FoundNothing, SameJob
    <3>1. (\A x \in Subject : review.read[x]) /\ EndpointVouched(review)
      BY <1>1, <2>3, Underway
    <3>2. PICK n \in Nat : /\ review.before = <<n>> /\ n <= service.state
                           /\ service.applied # {} => n < service.state
      BY <1>1, <3>1 DEF EndpointVouched
    <3>3. n <= s.state /\ (s.applied # {} => n < s.state)
      <4>1. service.state \in Nat
        BY ReviewShape DEF ServiceRecord
      <4>2. CASE s.state = service.state /\ s.applied = service.applied
        BY <3>2, <4>2
      <4>3. CASE s.state = service.state + 1
        BY <3>2, <4>1, <4>3
      <4> QED BY <1>3, <4>2, <4>3
    <3>4. EndpointVouched(review)'
      BY <1>1, <2>3, <2>8, <2>11, <3>2, <3>3 DEF EndpointVouched
    <3>5. FilesVouched(review)'
      BY <2>10, <2>12 DEF FilesVouched, SameJob
    <3> QED BY <3>1, <3>4, <3>5
  <2>17. file' \in SUBSET Mark /\ group' \in BOOLEAN
    BY <2>11, ReviewShape
  <2> QED BY <2>7, <2>10, <2>11, <2>13, <2>14, <2>15, <2>16, <2>17, AdvanceKeeps
<1> QED BY <1>2, <1>5, <1>6, Zenon

LEMMA AfterKeeps == ASSUME ReviewInv, After PROVE ReviewInv'
<1>1. review.pc = "deny"
  BY Zenon DEF After, OnStep
<1>2. CASE Unanswered(service, Attempts)
  BY <1>1, <1>2, UnansweredKeeps
<1>3. ASSUME NEW status \in Status, Replied(service, Attempts, status),
             review' = [Check(Check(review, "after", status = "200"), "unchanged",
                              Unchanged(Check(review, "after", status = "200"), Body(status, service)))
                             EXCEPT !.try = 0, !.pc = "verdict"]
      PROVE  ReviewInv'
  <2>1. PICK ok \in BOOLEAN : ok = (status = "200")
    OBVIOUS
  <2>2. PICK noted : noted = Check(review, "after", ok)
    OBVIOUS
  <2>3. PICK body : body = Body(status, service)
    OBVIOUS
  <2>4. PICK same \in BOOLEAN : same = Unchanged(noted, body)
    BY DEF Unchanged
  <2>5. PICK q : q = Check(noted, "unchanged", same)
    OBVIOUS
  <2>6. "after" \in Name /\ "unchanged" \in Name
    BY DEF Name
  <2>7. /\ noted \in ReviewRecord /\ SameJob(review, noted) /\ noted.left = review.left
        /\ noted.out = review.out /\ noted.before = review.before
        /\ noted.refused \subseteq noted.findings /\ (noted.findings = {} => ok /\ review.findings = {})
    <3>1. review \in ReviewRecord /\ review.refused \subseteq review.findings /\ "after" \in Name
      BY <2>6, ReviewShape
    <3> QED BY <2>2, <3>1, Checked
  <2>8. /\ q \in ReviewRecord /\ SameJob(noted, q) /\ q.left = noted.left /\ q.out = noted.out
        /\ q.refused \subseteq q.findings /\ (q.findings = {} => same /\ noted.findings = {})
    BY <2>5, <2>6, <2>7, Checked
  <2>9. review' = [q EXCEPT !.try = 0, !.pc = "verdict"]
    BY <1>3, <2>1, <2>2, <2>3, <2>4, <2>5, Zenon
  <2>10. 0 \in 0..(Attempts - 1) /\ "verdict" \in ReviewSteps
    BY FixedReviewAssumption DEF FixedReviewAssumption, ReviewSteps
  <2>11. review' \in ReviewRecord
    BY <2>8, <2>9, <2>10 DEF ReviewRecord
  <2>12. /\ review'.pc = "verdict" /\ review'.out = q.out /\ review'.refused = q.refused
         /\ review'.findings = q.findings /\ review'.left = q.left
    BY <2>8, <2>9 DEF ReviewRecord
  <2>13. /\ review'.as = q.as /\ review'.recipe = q.recipe /\ review'.captured = q.captured /\ review'.found = q.found
         /\ review'.cached = q.cached /\ review'.asked = q.asked /\ review'.read = q.read
    BY <2>8, <2>9 DEF ReviewRecord
  <2>14. SameJob(review, review')
    BY <2>7, <2>8, <2>13 DEF SameJob
  <2>15. /\ service' \in ServiceRecord /\ service'.applied = service.applied
         /\ service'.sent = service.sent /\ UNCHANGED <<clock, moved, commit, file, group>>
    BY <1>3, ReviewShape, ExchangeShape DEF Replied
  <2>16. review.recipe = "endpoint" /\ ~group
         /\ (review.as = "build" => review.found = commit)
    BY <1>1, AtTheEndpoint
  <2>17. Placed(review)'
    BY <2>8, <2>12, <2>14, <2>15, <2>16 DEF Placed, SameJob
  <2>18. SentOnce(review)'
    BY <1>1, <2>7, <2>8, <2>12, <2>15 DEF ReviewInv, SentOnce
  <2>19. PassedAtTheEnd(review)'
    BY <1>1, <2>7, <2>8, <2>12 DEF ReviewInv, PassedAtTheEnd
  <2>20. FoundNothing(review)'
    <3> SUFFICES ASSUME q.findings = {}
                 PROVE  /\ \A x \in Subject : review.read[x]
                        /\ FilesVouched(review)' /\ EndpointVouched(review)'
      BY <2>12, <2>14 DEF FoundNothing, SameJob
    <3>1. (\A x \in Subject : review.read[x]) /\ EndpointVouched(review)
      BY <1>1, <2>7, <2>8, Underway
    <3>2. PICK n \in Nat : /\ review.before = <<n>>
                           /\ service.applied # {} => n < service.state
      BY <1>1, <3>1 DEF EndpointVouched
    <3>3. body = <<service.state>> /\ body = review.before
      BY <2>1, <2>3, <2>4, <2>7, <2>8, BodyShape DEF Unchanged
    <3>4. service.state = n
      BY <3>2, <3>3
    <3>5. service.applied = {}
      BY <3>2, <3>4
    <3>6. EndpointVouched(review)'
      BY <2>12, <2>15, <3>5 DEF EndpointVouched
    <3>7. FilesVouched(review)'
      BY <2>14, <2>16 DEF FilesVouched, SameJob
    <3> QED BY <3>1, <3>6, <3>7
  <2>21. file' \in SUBSET Mark /\ group' \in BOOLEAN
    BY <2>15, ReviewShape
  <2> QED BY <2>11, <2>14, <2>15, <2>17, <2>18, <2>19, <2>20, <2>21, AdvanceKeeps
<1> QED BY <1>2, <1>3, Zenon DEF After

LEMMA ReviewNextKeeps == ReviewInv /\ [ReviewNext]_reviewVars => ReviewInv'
<1> SUFFICES ASSUME ReviewInv, [ReviewNext]_reviewVars PROVE ReviewInv'
  OBVIOUS
<1>1. CASE UNCHANGED reviewVars
  BY <1>1 DEF reviewVars, ReviewInv, WorldShape, ReadInTime, Placed, FoundNothing, Speaks, FilesVouched,
              EndpointVouched, PassedAtTheEnd, SentOnce
<1>2. CASE Tick \/ (\E x \in Subject : Move(x)) \/ Touch \/ Drift
  BY <1>2, WorldMovesKeeps
<1>3. CASE Read("pr", "main") \/ Read("main", "bind")
  <2>1. CASE Read("pr", "main")
    <3>1. review.pc = "pr" /\ "pr" \in Subject
      BY <2>1 DEF Read, OnStep, Subject
    <3> QED BY <2>1, <3>1, ReadKeeps
  <2>2. CASE Read("main", "bind")
    <3>1. review.pc = "main" /\ "main" \in Subject
      BY <2>2 DEF Read, OnStep, Subject
    <3> QED BY <2>2, <3>1, ReadKeeps
  <2> QED BY <1>3, <2>1, <2>2
<1>4. CASE Start("tests", "testing") \/ Start("validate", "validating")
  BY <1>4, StartKeeps
<1>5. CASE Dispatch \/ Bind \/ Source \/ Tests \/ Validate \/ Scan \/ Judge
  BY <1>5, DispatchKeeps, BindKeeps, SourceKeeps, TestsKeeps, ValidateKeeps, ScanKeeps, JudgeKeeps
<1>6. CASE Get \/ Before \/ After \/ \E m \in Method : Deny(m)
  BY <1>6, GetKeeps, BeforeKeeps, AfterKeeps, DenyKeeps
<1> QED BY <1>1, <1>2, <1>3, <1>4, <1>5, <1>6 DEF ReviewNext

(* A PASS of a review speaks of what the job binds, of the files as they   *)
(* are and of a service that no denied method changed, whatever recipe,    *)
(* attempts, lifetime of the cache and moves of the world; and a denied    *)
(* method is sent once at most, to public addresses.                       *)
THEOREM FixedReviewInvariantHolds == ReviewSpec => []FixedReviewInvariant
<1> QED BY ReviewInitHolds, ReviewNextKeeps, ReviewInvIsEnough, PTL DEF ReviewSpec
=============================================================================
