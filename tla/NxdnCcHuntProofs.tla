------------------------- MODULE NxdnCcHuntProofs -------------------------
(***************************************************************************)
(* What the hunt of NxdnCcHunt keeps true for every kind of air: any       *)
(* frequencies and channel map, any clock limits, and any number of        *)
(* tunes, operator moves, changes of input and rows of the map.  HuntSound *)
(* is an invariant, and HuntTimely is a property of every step.            *)
(*                                                                         *)
(* A tick is a composition of operators from a state to the states it may  *)
(* leave, so the first invariant (Held, and HuntInv at rest) is stated of  *)
(* such a state, and every operator has a lemma that it keeps it.  What    *)
(* matters is which tunes are left in the ledger: a frequency the receiver *)
(* is credited with was heard, or the hunt's own request landed there and  *)
(* nothing in flight can still take the receiver away.                     *)
(*                                                                         *)
(* The second invariant (TimeInv) follows the clocks: the grace period     *)
(* began no earlier than the last tune of others landed, or that tune is   *)
(* the one that is followed and a tick has yet to find it.                 *)
(***************************************************************************)
EXTENDS NxdnCcHunt, SequenceTheorems, FiniteSetTheorems, WellFoundedInduction, TLAPS

(* What the hunt, the ledger and a state on the way through a tick are     *)
(* made of.                                                                *)
HuntPlaces == Freqs \cup {0}
Arms == Unarmed .. Oldest
Ages == 0 .. Oldest
Retries == 0 .. Probe
Waits == 0 .. Timeout
Rows == 1 .. Len(Map) + 1
Parks == {0, 1, 2}
HuntCtx ==
    [armed : Arms, retry : Retries, deadline : Waits, own : BOOLEAN, foreign : BOOLEAN,
     probe : HuntPlaces, rx : HuntPlaces, current : BOOLEAN, attempt : HuntPlaces, cc : HuntPlaces,
     confirmed : BOOLEAN, hunting : BOOLEAN, park : Parks, index : Rows]
Entry ==
    [state : {"pending", "gated", "ok", "failed", "move"}, live : BOOLEAN, freq : Freqs,
     marks : SUBSET {"own", "foreign"}, age : Ages]
HuntState ==
    [h : HuntCtx, L : Seq(Entry), receiver : Freqs, center : Freqs,
     result : {"none", "refused", "ok", "resolved", "waiting"}]

(* A set of numbers that is not empty has a least one.                     *)
LEMMA Least == ASSUME NEW S \in SUBSET Nat, S # {} PROVE \E n \in S : \A m \in S : n <= m
  <1> DEFINE Less == {p \in Nat \X Nat : p[1] < p[2]}
  <1>1. IsWellFoundedOn(Less, Nat)
    BY NatLessThanWellFounded DEF OpToRel
  <1>2. \E n \in S : \A m \in S : <<m, n>> \notin Less
    <2> HIDE DEF Less
    <2> QED BY <1>1, WFMin
  <1>3. PICK n \in S : \A m \in S : <<m, n>> \notin Less
    BY <1>2
  <1>4. ASSUME NEW m \in S
        PROVE  n <= m
    <2>1. m \in Nat /\ n \in Nat /\ <<m, n>> \in Nat \X Nat /\ <<m, n>>[1] = m /\ <<m, n>>[2] = n
      OBVIOUS
    <2>2. ~(m < n)
      BY <1>3, <2>1
    <2> QED BY <2>1, <2>2
  <1> QED BY <1>4

(* How many of S are not above i.                                          *)
Rank(S, i) == Cardinality({j \in S : j <= i})

(* Of two members the greater has the higher rank.                         *)
LEMMA RankOrder ==
    ASSUME NEW S \in SUBSET Nat, IsFiniteSet(S), NEW i \in S, NEW k \in S, i < k
    PROVE  Rank(S, i) \in Nat /\ Rank(S, k) \in Nat /\ Rank(S, i) < Rank(S, k)
  <1> DEFINE A == {j \in S : j <= i}
             B == {j \in S : j <= k}
  <1>1. A \in SUBSET S /\ B \in SUBSET S /\ A \in SUBSET B /\ k \in B /\ k \notin A
    <2>1. i \in Nat /\ k \in Nat
      OBVIOUS
    <2>2. ASSUME NEW j \in S, j <= i
          PROVE  j <= k
      <3>1. j \in Nat
        OBVIOUS
      <3> QED BY <2>1, <2>2, <3>1
    <2>3. A \subseteq S /\ B \subseteq S /\ k \in B
      BY <2>1
    <2>4. k \notin A
      BY <2>1
    <2>5. A \subseteq B
      BY <2>2
    <2> HIDE DEF A, B
    <2> QED BY <2>3, <2>4, <2>5
  <1> HIDE DEF A, B
  <1>2. IsFiniteSet(A) /\ IsFiniteSet(B)
    BY <1>1, FS_Subset
  <1>3. Cardinality(A) <= Cardinality(B) /\ (Cardinality(B) = Cardinality(A) => B = A)
    BY <1>1, <1>2, FS_Subset
  <1>4. Cardinality(A) \in Nat /\ Cardinality(B) \in Nat
    BY <1>2, FS_CardinalityType
  <1>5. A # B
    BY <1>1
  <1>6. Rank(S, i) = Cardinality(A) /\ Rank(S, k) = Cardinality(B)
    BY DEF Rank, A, B
  <1> QED BY <1>3, <1>4, <1>5, <1>6

(* Every rank there is room for is that of a member.                       *)
LEMMA RankOnto ==
    ASSUME NEW S \in SUBSET Nat, IsFiniteSet(S), NEW n \in 1 .. Cardinality(S)
    PROVE  \E i \in S : Rank(S, i) = n
  <1> DEFINE Bad == {m \in 1 .. Cardinality(S) : ~ \E i \in S : Rank(S, i) = m}
  <1>0. Cardinality(S) \in Nat
    BY FS_CardinalityType
  <1> SUFFICES Bad = {}
    OBVIOUS
  <1> SUFFICES ASSUME Bad # {}
               PROVE  FALSE
    OBVIOUS
  <1>1. PICK b \in Bad : \A m \in Bad : b <= m
    <2>1. Bad \in SUBSET Nat
      BY <1>0
    <2> QED BY <2>1, Least
  <1>2. b \in Nat /\ 1 <= b /\ b <= Cardinality(S) /\ ~ \E i \in S : Rank(S, i) = b
    BY <1>0, <1>1
  <1>3. CASE b = 1
    <2>1. S # {}
      <3>1. Cardinality(S) # 0
        BY <1>0, <1>2
      <3> QED BY <3>1, FS_EmptySet
    <2>2. PICK i \in S : \A j \in S : i <= j
      BY <2>1, Least
    <2>3. {j \in S : j <= i} = {i}
      <3>1. ASSUME NEW j \in S
            PROVE  j <= i <=> j = i
        <4>1. i \in Nat /\ j \in Nat /\ i <= j
          BY <2>2
        <4> QED BY <4>1
      <3> QED BY <3>1
    <2>4. Rank(S, i) = 1
      BY <2>3, FS_Singleton DEF Rank
    <2> QED BY <1>2, <1>3, <2>4
  <1>4. CASE b # 1
    <2>1. b - 1 \in 1 .. Cardinality(S) /\ b - 1 \notin Bad
      BY <1>0, <1>1, <1>2, <1>4
    <2>2. PICK i \in S : Rank(S, i) = b - 1
      BY <2>1
    <2> DEFINE B == {j \in S : j <= i}
               A == {j \in S : i < j}
    <2>3. B \in SUBSET S /\ Cardinality(B) = b - 1
      BY <2>2 DEF Rank
    <2>4. B # S
      <3> HIDE DEF B
      <3> QED BY <1>0, <1>2, <2>3
    <2>5. A # {} /\ A \in SUBSET Nat
      <3>1. PICK j \in S : j \notin B
        BY <2>3, <2>4
      <3>2. i < j
        BY <3>1
      <3> QED BY <3>2
    <2>6. PICK k \in A : \A j \in A : k <= j
      <3> HIDE DEF A
      <3> QED BY <2>5, Least
    <2>7. {j \in S : j <= k} = B \cup {k} /\ k \notin B /\ k \in S
      <3>1. k \in S /\ i < k /\ k \notin B
        BY <2>6
      <3>2. ASSUME NEW j \in S
            PROVE  j <= k <=> j \in B \cup {k}
        <4>1. j \in Nat /\ k \in Nat /\ i \in Nat
          BY <3>1
        <4>2. CASE j <= i
          BY <3>1, <4>1, <4>2
        <4>3. CASE i < j
          BY <2>6, <3>1, <4>1, <4>3
        <4> QED BY <4>1, <4>2, <4>3
      <3>3. B \cup {k} \subseteq S
        BY <2>3, <3>1
      <3> QED BY <3>1, <3>2, <3>3
    <2>8. IsFiniteSet(B)
      BY <2>3, FS_Subset
    <2>9. Cardinality(B \cup {k}) = Cardinality(B) + 1
      <3> HIDE DEF B
      <3> QED BY <2>7, <2>8, FS_AddElement
    <2>10. Rank(S, k) = b
      <3>1. Rank(S, k) = Cardinality(B \cup {k})
        BY <2>7 DEF Rank
      <3> HIDE DEF B
      <3> QED BY <1>2, <2>3, <2>9, <3>1
    <2> QED BY <1>2, <2>7, <2>10
  <1> QED BY <1>3, <1>4

(* Trim() keeps the order of what it keeps.                                *)
Embeds(M, L, g) ==
    /\ g \in [1 .. Len(M) -> 1 .. Len(L)]
    /\ \A n \in 1 .. Len(M) : g[n] \in Kept(L) /\ M[n] = L[g[n]]
    /\ \A m, n \in 1 .. Len(M) : m < n => g[m] < g[n]
    /\ \A i \in Kept(L) : \E n \in 1 .. Len(M) : g[n] = i

LEMMA TrimEmbeds ==
    ASSUME NEW L \in Seq(Entry)
    PROVE  Trim(L) \in Seq(Entry) /\ \E g : Embeds(Trim(L), L, g)
  <1> DEFINE K == Kept(L)
             c == Cardinality(K)
             nth(n) == CHOOSE i \in K : Cardinality({j \in K : j <= i}) = n
             g == [n \in 1 .. c |-> nth(n)]
             M == [n \in 1 .. c |-> L[nth(n)]]
  <1>1. Trim(L) = M
    BY DEF Trim
  <1>2. DOMAIN L = 1 .. Len(L) /\ Len(L) \in Nat
    OBVIOUS
  <1>3. K \subseteq 1 .. Len(L)
    BY <1>2 DEF Kept
  <1>4. IsFiniteSet(K) /\ K \in SUBSET Nat /\ c \in Nat
    <2>1. IsFiniteSet(1 .. Len(L))
      BY <1>2, FS_Interval
    <2>2. IsFiniteSet(K)
      BY <1>3, <2>1, FS_Subset
    <2>3. c \in Nat
      BY <2>2, FS_CardinalityType
    <2> QED BY <1>2, <1>3, <2>2, <2>3
  <1>5. ASSUME NEW n \in 1 .. c
        PROVE  nth(n) \in K /\ Rank(K, nth(n)) = n
    <2> HIDE DEF K
    <2>1. \E i \in K : Cardinality({j \in K : j <= i}) = n
      BY <1>4, <1>5, RankOnto DEF Rank
    <2> QED BY <2>1 DEF Rank
  <1> HIDE DEF K
  <1>6. g \in [1 .. c -> 1 .. Len(L)] /\ (\A n \in 1 .. c : g[n] = nth(n) /\ M[n] = L[g[n]] /\ g[n] \in K)
        /\ M \in [1 .. c -> Entry]
    <2> HIDE DEF c
    <2>1. \A n \in 1 .. c : nth(n) \in 1 .. Len(L) /\ nth(n) \in K /\ L[nth(n)] \in Entry
      <3> SUFFICES ASSUME NEW n \in 1 .. c
                   PROVE  nth(n) \in 1 .. Len(L) /\ nth(n) \in K /\ L[nth(n)] \in Entry
        OBVIOUS
      <3>1. nth(n) \in K
        BY <1>5
      <3> HIDE DEF nth, M, g
      <3>2. nth(n) \in 1 .. Len(L)
        BY <1>3, <3>1
      <3> QED BY <1>2, <3>1, <3>2
    <2> HIDE DEF nth
    <2> QED BY <2>1
  <1>8. M \in Seq(Entry) /\ Len(M) = c
    <2> HIDE DEF M, c
    <2> QED BY <1>4, <1>6, SeqDef, LenProperties
  <1>9. ASSUME NEW m \in 1 .. c, NEW n \in 1 .. c, m < n
        PROVE  g[m] < g[n]
    <2>1. Rank(K, g[m]) = m /\ Rank(K, g[n]) = n /\ g[m] \in K /\ g[n] \in K
      <3> HIDE DEF nth, c
      <3> QED BY <1>5
    <2> HIDE DEF g, c, M, nth
    <2>2. g[m] \in Nat /\ g[n] \in Nat /\ m \in Nat /\ n \in Nat
      <3>1. m \in Nat /\ n \in Nat
        BY <1>4
      <3>2. K \subseteq Nat
        BY <1>4
      <3> QED BY <2>1, <3>1, <3>2
    <2>3. g[m] # g[n]
      BY <1>9, <2>1, <2>2
    <2>4. ~(g[n] < g[m])
      BY <1>4, <1>9, <2>1, <2>2, RankOrder
    <2> QED BY <2>2, <2>3, <2>4
  <1>10. ASSUME NEW i \in K
         PROVE  \E n \in 1 .. c : g[n] = i
    <2> DEFINE r == Rank(K, i)
               B == {j \in K : j <= i}
    <2>1. r \in 1 .. c
      <3>1. B \in SUBSET K /\ i \in B
        BY <1>4
      <3>2. IsFiniteSet(B) /\ Cardinality(B) <= c /\ Cardinality(B) \in Nat
        BY <1>4, <3>1, FS_Subset, FS_CardinalityType
      <3>3. Cardinality(B) # 0
        BY <3>1, <3>2, FS_EmptySet
      <3> QED BY <1>4, <3>2, <3>3 DEF Rank
    <2>2. g[r] \in K /\ Rank(K, g[r]) = r
      <3> HIDE DEF nth, c, r
      <3> QED BY <1>5, <2>1
    <2> HIDE DEF g, r, c, M, nth
    <2>3. i \in Nat /\ g[r] \in Nat
      BY <1>4, <2>2
    <2>4. Rank(K, i) = Rank(K, g[r])
      BY <2>2 DEF r
    <2>5. ~(i < g[r])
      <3> SUFFICES ASSUME i < g[r] PROVE FALSE
        OBVIOUS
      <3>1. Rank(K, i) \in Nat /\ Rank(K, g[r]) \in Nat /\ Rank(K, i) < Rank(K, g[r])
        BY <1>4, <2>2, RankOrder
      <3> QED BY <2>4, <3>1
    <2>6. ~(g[r] < i)
      <3> SUFFICES ASSUME g[r] < i PROVE FALSE
        OBVIOUS
      <3>1. Rank(K, i) \in Nat /\ Rank(K, g[r]) \in Nat /\ Rank(K, g[r]) < Rank(K, i)
        BY <1>4, <2>2, RankOrder
      <3> QED BY <2>4, <3>1
    <2> QED BY <2>1, <2>3, <2>5, <2>6
  <1>11. Embeds(M, L, g)
    <2> HIDE DEF M, g, c
    <2> QED BY <1>6, <1>8, <1>9, <1>10 DEF Embeds, K
  <1> HIDE DEF M, g
  <1> QED BY <1>1, <1>8, <1>11

-----------------------------------------------------------------------------
(* The invariant, of a state s on the way, with H what was heard and T     *)
(* whether a call is followed.                                             *)

Owned(L, i) == "own" \in L[i].marks
Marked(L, i) == "foreign" \in L[i].marks
Open(L, i) == L[i].state \in {"pending", "gated"}
NoneLive(L) == \A i \in 1 .. Len(L) : ~L[i].live

(* A request that is pending is in the backend's hands, one at most is the *)
(* hunt's, and a rigctl peer leaves none of the hunt's unanswered.         *)
LedgerInv(L) ==
    /\ \A i \in 1 .. Len(L) : L[i].state = "pending" => L[i].live
    /\ \A i, j \in 1 .. Len(L) : Owned(L, i) /\ Owned(L, j) => i = j
    /\ Rigctl => \A i \in 1 .. Len(L) : Owned(L, i) => L[i].state # "pending"

(* The hunt's request is the newest, for the frequency that is probed,     *)
(* unless the operator moved the receiver since; and once it succeeded     *)
(* the receiver is there and nothing is left that could take it away.      *)
LandInv(g, L, r) ==
    /\ \A i \in 1 .. Len(L) : Owned(L, i) => g.own
    /\ g.probe # 0 => \A i \in 1 .. Len(L) : Owned(L, i) =>
          i = Len(L) /\ L[i].freq = g.probe /\ (L[i].state = "ok" => r = g.probe /\ NoneLive(L))

(* Nothing is unresolved that is newer than the hunt's request; what is    *)
(* newer than a pending request of others is pending too; one request is   *)
(* followed; and while the hunt runs no request of others is pending.      *)
OrderInv(g, L) ==
    /\ \A i, j \in 1 .. Len(L) : i < j /\ Owned(L, i) => ~Open(L, j)
    /\ \A i, j \in 1 .. Len(L) : i < j /\ L[i].state = "pending" /\ ~Owned(L, i) /\ Open(L, j) =>
          L[j].state = "pending" /\ ~Owned(L, j)
    /\ \A i, j \in 1 .. Len(L) : Marked(L, i) /\ Marked(L, j) => i = j
    /\ g.hunting => \A i \in 1 .. Len(L) : L[i].state = "pending" => Owned(L, i)

(* Only a hunt has a request or a park to come, and none hunts in a call.  *)
PhaseInv(g, T) == (g.park # 0 => g.hunting) /\ (g.own => g.hunting) /\ (g.hunting => ~T)

(* The frequency the receiver is attributed to was heard, or the hunt      *)
(* landed there and nothing is left that could take the receiver away.     *)
AttrInv(g, L, r, H, T) == g.current /\ g.rx # 0 => g.rx \in H \/ (g.rx = r /\ NoneLive(L) /\ ~T)

Good(s, H, T) ==
    /\ s \in HuntState
    /\ LedgerInv(s.L) /\ OrderInv(s.h, s.L)
    /\ LandInv(s.h, s.L, s.receiver)
    /\ PhaseInv(s.h, T)
    /\ AttrInv(s.h, s.L, s.receiver, H, T)

-----------------------------------------------------------------------------
(* What the operators of the ledger do.                                    *)

LEMMA Sizes ==
    /\ Oldest \in Nat /\ Grace \in Nat /\ Probe \in Nat /\ Timeout \in Nat
    /\ Freqs \subseteq Nat \ {0} /\ 0 \notin Freqs
  BY HuntAssumption DEF Oldest

LEMMA Ranges ==
    /\ 0 \in Ages /\ 0 \in Arms /\ Unarmed \in Arms /\ 0 \in Retries /\ Probe \in Retries /\ Timeout \in Waits
    /\ 0 \in HuntPlaces /\ Freqs \subseteq HuntPlaces /\ Ages \subseteq Arms
    /\ 0 \in Parks /\ 1 \in Parks /\ 2 \in Parks
  BY Sizes DEF Parks, Ages, Arms, Retries, Waits, HuntPlaces, Unarmed

LEMMA LiveNone ==
    ASSUME NEW L \in Seq(Entry)
    PROVE  Live(L) = {} <=> NoneLive(L)
  BY DEF Live, NoneLive

(* A sequence whose entries were changed.                                  *)
LEMMA Mapped ==
    ASSUME NEW L \in Seq(Entry), NEW q, q \in [1 .. Len(L) -> Entry]
    PROVE  q \in Seq(Entry) /\ Len(q) = Len(L)
  <1>1. Len(L) \in Nat
    OBVIOUS
  <1> QED BY <1>1, SeqDef, LenProperties

(* Requests of the ledger are resolved, and nothing else.                  *)
LEMMA OrderKept ==
    ASSUME NEW g, NEW k, NEW L \in Seq(Entry), NEW q, OrderInv(g, L), k.hunting => g.hunting, Len(q) = Len(L),
           \A i \in 1 .. Len(L) : q[i].marks = L[i].marks /\ (q[i].state = L[i].state \/ ~Open(q, i))
    PROVE  OrderInv(k, q)
  <1>1. \A i \in 1 .. Len(L) : /\ Owned(q, i) <=> Owned(L, i)
                               /\ Marked(q, i) <=> Marked(L, i)
                               /\ Open(q, i) => Open(L, i) /\ q[i].state = L[i].state
                               /\ q[i].state = "pending" => Open(q, i)
    BY DEF Owned, Marked, Open
  <1>2. \A i, j \in 1 .. Len(L) : i < j /\ Owned(q, i) => ~Open(q, j)
    BY <1>1 DEF OrderInv
  <1>3. \A i, j \in 1 .. Len(L) : i < j /\ q[i].state = "pending" /\ ~Owned(q, i) /\ Open(q, j) =>
          q[j].state = "pending" /\ ~Owned(q, j)
    BY <1>1 DEF OrderInv
  <1>4. \A i, j \in 1 .. Len(L) : Marked(q, i) /\ Marked(q, j) => i = j
    BY <1>1 DEF OrderInv
  <1>5. k.hunting => \A i \in 1 .. Len(L) : q[i].state = "pending" => Owned(q, i)
    BY <1>1 DEF OrderInv
  <1> QED BY <1>2, <1>3, <1>4, <1>5 DEF OrderInv

LEMMA OrderSame ==
    ASSUME NEW g, NEW k, NEW L \in Seq(Entry), OrderInv(g, L), k.hunting => g.hunting
    PROVE  OrderInv(k, L)
  BY OrderKept

LEMMA UnmarkEffect ==
    ASSUME NEW L \in Seq(Entry), NEW mark
    PROVE  LET q == Unmark(L, mark)
           IN  /\ q \in Seq(Entry) /\ Len(q) = Len(L)
               /\ \A i \in 1 .. Len(L) :
                     /\ q[i].state = L[i].state /\ q[i].live = L[i].live /\ q[i].freq = L[i].freq
                     /\ q[i].age = L[i].age /\ q[i].marks = L[i].marks \ {mark}
  <1> DEFINE E(i) == [L[i] EXCEPT !.marks = @ \ {mark}]
             q == [i \in 1 .. Len(L) |-> E(i)]
  <1>1. DOMAIN L = 1 .. Len(L)
    OBVIOUS
  <1>2. Unmark(L, mark) = q
    BY <1>1 DEF Unmark
  <1>3. ASSUME NEW i \in 1 .. Len(L)
        PROVE  /\ E(i) \in Entry /\ E(i).state = L[i].state /\ E(i).live = L[i].live /\ E(i).freq = L[i].freq
               /\ E(i).age = L[i].age /\ E(i).marks = L[i].marks \ {mark}
    <2>1. L[i] \in Entry
      OBVIOUS
    <2> QED BY <2>1 DEF Entry
  <1>4. q \in [1 .. Len(L) -> Entry] /\ \A i \in 1 .. Len(L) : q[i] = E(i)
    BY <1>3
  <1> HIDE DEF E, q
  <1>5. q \in Seq(Entry) /\ Len(q) = Len(L)
    BY <1>4, Mapped
  <1> QED BY <1>2, <1>3, <1>4, <1>5

LEMMA ExpireEffect ==
    ASSUME NEW L \in Seq(Entry)
    PROVE  LET q == Expire(L)
           IN  /\ q \in Seq(Entry) /\ Len(q) = Len(L)
               /\ \A i \in 1 .. Len(L) :
                     /\ q[i].live = L[i].live /\ q[i].freq = L[i].freq /\ q[i].age = L[i].age /\ q[i].marks = L[i].marks
                     /\ q[i].state = (IF Owned(L, i) /\ L[i].state = "pending" THEN "gated" ELSE L[i].state)
  <1> DEFINE E(i) == IF "own" \in L[i].marks /\ L[i].state = "pending" THEN [L[i] EXCEPT !.state = "gated"] ELSE L[i]
             q == [i \in 1 .. Len(L) |-> E(i)]
  <1>1. DOMAIN L = 1 .. Len(L)
    OBVIOUS
  <1>2. Expire(L) = q
    BY <1>1 DEF Expire
  <1>3. ASSUME NEW i \in 1 .. Len(L)
        PROVE  /\ E(i) \in Entry /\ E(i).live = L[i].live /\ E(i).freq = L[i].freq
               /\ E(i).age = L[i].age /\ E(i).marks = L[i].marks
               /\ E(i).state = (IF Owned(L, i) /\ L[i].state = "pending" THEN "gated" ELSE L[i].state)
    <2>1. L[i] \in Entry
      OBVIOUS
    <2> QED BY <2>1 DEF Entry, Owned
  <1>4. q \in [1 .. Len(L) -> Entry] /\ \A i \in 1 .. Len(L) : q[i] = E(i)
    BY <1>3
  <1> HIDE DEF E, q
  <1>5. q \in Seq(Entry) /\ Len(q) = Len(L)
    BY <1>4, Mapped
  <1> QED BY <1>2, <1>3, <1>4, <1>5

LEMMA SucceedEffect ==
    ASSUME NEW L \in Seq(Entry), NEW k \in 1 .. Len(L)
    PROVE  LET q == Succeed(L, k)
           IN  /\ q \in Seq(Entry) /\ Len(q) = Len(L)
               /\ q[k].state = "ok" /\ ~q[k].live /\ q[k].age = 0
               /\ \A i \in 1 .. Len(L) :
                     /\ q[i].freq = L[i].freq /\ q[i].marks = L[i].marks
                     /\ i # k => /\ q[i].live = L[i].live /\ q[i].age = L[i].age
                                 /\ q[i].state = L[i].state \/ (L[i].state = "gated" /\ q[i].state = "failed")
  <1> DEFINE E(j) == IF j = k THEN [L[j] EXCEPT !.state = "ok", !.live = FALSE, !.age = 0]
                     ELSE IF j < k /\ L[j].state = "gated" THEN [L[j] EXCEPT !.state = "failed"] ELSE L[j]
             q == [i \in 1 .. Len(L) |-> E(i)]
  <1>1. DOMAIN L = 1 .. Len(L)
    OBVIOUS
  <1>2. Succeed(L, k) = q
    BY <1>1 DEF Succeed
  <1>3. ASSUME NEW i \in 1 .. Len(L)
        PROVE  /\ E(i) \in Entry /\ E(i).freq = L[i].freq /\ E(i).marks = L[i].marks
               /\ i = k => E(i).state = "ok" /\ ~E(i).live /\ E(i).age = 0
               /\ i # k => /\ E(i).live = L[i].live /\ E(i).age = L[i].age
                           /\ E(i).state = L[i].state \/ (L[i].state = "gated" /\ E(i).state = "failed")
    <2>1. L[i] \in Entry
      OBVIOUS
    <2>2. 0 \in Ages
      BY Ranges
    <2>3. CASE i = k
      <3>1. E(i) = [L[i] EXCEPT !.state = "ok", !.live = FALSE, !.age = 0]
        BY <2>3
      <3> QED BY <2>1, <2>2, <2>3, <3>1 DEF Entry
    <2>4. CASE i # k /\ i < k /\ L[i].state = "gated"
      <3>1. E(i) = [L[i] EXCEPT !.state = "failed"]
        BY <2>4
      <3> QED BY <2>1, <2>4, <3>1 DEF Entry
    <2>5. CASE i # k /\ ~(i < k /\ L[i].state = "gated")
      BY <2>1, <2>5
    <2> QED BY <2>3, <2>4, <2>5
  <1>4. q \in [1 .. Len(L) -> Entry] /\ \A i \in 1 .. Len(L) : q[i] = E(i)
    BY <1>3
  <1> HIDE DEF E, q
  <1>5. q \in Seq(Entry) /\ Len(q) = Len(L)
    BY <1>4, Mapped
  <1> QED BY <1>2, <1>3, <1>4, <1>5

(* A request that joins the ledger.                                        *)
LEMMA RequestTyped ==
    ASSUME NEW f \in Freqs, NEW marks \in SUBSET {"own", "foreign"}
    PROVE  /\ Request(f, marks) \in Entry /\ Request(f, marks).state = "pending" /\ Request(f, marks).live = TRUE
           /\ Request(f, marks).freq = f /\ Request(f, marks).marks = marks
  <1> DEFINE r == Request(f, marks)
  <1>1. r = [state |-> "pending", live |-> TRUE, freq |-> f, marks |-> marks, age |-> 0]
    BY DEF Request
  <1> HIDE DEF r
  <1>2. r \in Entry /\ r.state = "pending" /\ r.live = TRUE /\ r.freq = f /\ r.marks = marks
    BY <1>1, Ranges DEF Entry
  <1> QED BY <1>2 DEF r

(* The hunt's request, as the hunt asks about it.                          *)
LEMMA StatusEffect ==
    ASSUME NEW L \in Seq(Entry), NEW mark
    PROVE  LET now == StatusOf(L, mark)
           IN  /\ now.state \in {"pending", "ok", "failed", "move"} /\ now.age \in Ages
               /\ now.state \in {"ok", "pending"} =>
                     \E i \in 1 .. Len(L) : mark \in L[i].marks /\ L[i].state = now.state
  <1> DEFINE S == {i \in DOMAIN L : mark \in L[i].marks}
             i == CHOOSE n \in S : TRUE
  <1>1. DOMAIN L = 1 .. Len(L)
    OBVIOUS
  <1>2. CASE S = {}
    <2>1. StatusOf(L, mark) = [state |-> "failed", age |-> 0]
      BY <1>2, Zenon DEF StatusOf
    <2> QED BY <2>1, Ranges
  <1>3. CASE S # {}
    <2>1. i \in S
      BY <1>3
    <2>2. StatusOf(L, mark) = [state |-> IF L[i].state = "gated" THEN "failed" ELSE L[i].state, age |-> L[i].age]
      BY <1>3, Zenon DEF StatusOf
    <2>3. i \in 1 .. Len(L) /\ mark \in L[i].marks
      BY <1>1, <2>1
    <2> HIDE DEF i
    <2>4. L[i] \in Entry
      BY <2>3
    <2>5. L[i].state \in {"pending", "gated", "ok", "failed", "move"} /\ L[i].age \in Ages
      BY <2>4 DEF Entry
    <2> QED BY <2>2, <2>3, <2>5
  <1> QED BY <1>2, <1>3

LEMMA StatusUnique ==
    ASSUME NEW L \in Seq(Entry), NEW mark, NEW k \in 1 .. Len(L), mark \in L[k].marks,
           \A i, j \in 1 .. Len(L) : mark \in L[i].marks /\ mark \in L[j].marks => i = j
    PROVE  LET now == StatusOf(L, mark)
           IN  now.state = (IF L[k].state = "gated" THEN "failed" ELSE L[k].state) /\ now.age = L[k].age
  <1> DEFINE S == {i \in DOMAIN L : mark \in L[i].marks}
             i == CHOOSE n \in S : TRUE
  <1>1. DOMAIN L = 1 .. Len(L) /\ k \in S
    OBVIOUS
  <1>2. i \in S
    BY <1>1
  <1>3. StatusOf(L, mark) = [state |-> IF L[i].state = "gated" THEN "failed" ELSE L[i].state, age |-> L[i].age]
    BY <1>1, Zenon DEF StatusOf
  <1>4. i \in 1 .. Len(L) /\ mark \in L[i].marks
    BY <1>1, <1>2
  <1> HIDE DEF i
  <1>5. i = k
    BY <1>4
  <1> QED BY <1>3, <1>5

-----------------------------------------------------------------------------
(* The parts of a tick.                                                    *)

(* What no part of a tick but its end changes.                             *)
Alike(s, t) == t.h.cc = s.h.cc /\ t.h.confirmed = s.h.confirmed

LEMMA ResolveKeeps ==
    ASSUME NEW s, NEW H, NEW T \in BOOLEAN, Good(s, H, T)
    PROVE  LET t == Resolve(s)
           IN  /\ Good(t, H, T) /\ Alike(s, t) /\ t.h.hunting = s.h.hunting /\ t.h.armed = s.h.armed
               /\ t.receiver = s.receiver /\ t.center = s.center
               /\ t.result \in {"resolved", "waiting"}
               /\ t.result = "resolved" => ~t.h.own
               /\ t.result = "waiting" => \E i \in 1 .. Len(s.L) : s.L[i].state = "pending"
               /\ Rigctl => ~t.h.own
               /\ \A i \in 1 .. Len(t.L) : t.L[i].state \in {"pending", "gated"} =>
                     i \in 1 .. Len(s.L) /\ s.L[i].state \in {"pending", "gated"}
  <1> DEFINE now == StatusOf(s.L, "own")
             X == IF now.state = "pending" THEN Expire(s.L) ELSE s.L
             lands == now.state = "ok" /\ s.h.probe > 0
  <1>0. /\ s \in HuntState /\ s.h \in HuntCtx /\ s.L \in Seq(Entry) /\ LedgerInv(s.L) /\ PhaseInv(s.h, T)
        /\ LandInv(s.h, s.L, s.receiver) /\ AttrInv(s.h, s.L, s.receiver, H, T) /\ OrderInv(s.h, s.L)
    BY DEF Good, HuntState
  <1>a. \A i \in 1 .. Len(s.L) : Owned(s.L, i) /\ s.L[i].state = "pending" => now.state = "pending"
    <2> SUFFICES ASSUME NEW i \in 1 .. Len(s.L), Owned(s.L, i), s.L[i].state = "pending"
                 PROVE  now.state = "pending"
      OBVIOUS
    <2>1. "own" \in s.L[i].marks /\ \A m, n \in 1 .. Len(s.L) : "own" \in s.L[m].marks /\ "own" \in s.L[n].marks => m = n
      BY <1>0 DEF LedgerInv, Owned
    <2>2. now.state = (IF s.L[i].state = "gated" THEN "failed" ELSE s.L[i].state)
      BY <1>0, <2>1, StatusUnique
    <2> QED BY <2>2
  <1>1. /\ now.state \in {"pending", "ok", "failed", "move"} /\ now.age \in Ages
        /\ now.state \in {"ok", "pending"} => \E i \in 1 .. Len(s.L) : Owned(s.L, i) /\ s.L[i].state = now.state
    BY <1>0, StatusEffect DEF Owned
  <1> HIDE DEF now
  <1>2. CASE ~s.h.own \/ (now.state = "pending" /\ s.h.deadline > 0)
    <2> DEFINE w == IF ~s.h.own THEN "resolved" ELSE "waiting"
               t == [s EXCEPT !.result = w]
    <2>1. Resolve(s) = t
      BY <1>2 DEF Resolve, now
    <2>2. t \in HuntState /\ t.h = s.h /\ t.L = s.L /\ t.receiver = s.receiver /\ t.center = s.center /\ t.result = w
      BY <1>0 DEF HuntState
    <2>3. Good(t, H, T)
      <3> HIDE DEF t
      <3> QED BY <1>0, <2>2 DEF Good
    <2> HIDE DEF t
    <2>4. w = "waiting" => now.state = "pending" /\ \E i \in 1 .. Len(s.L) : Owned(s.L, i) /\ s.L[i].state = "pending"
      BY <1>1, <1>2
    <2>5. Rigctl => ~s.h.own
      <3>1. s.h.own => now.state = "pending"
        BY <1>2
      <3> QED BY <1>0, <1>1, <3>1 DEF LedgerInv
    <2> QED BY <2>1, <2>2, <2>3, <2>4, <2>5 DEF Alike
  <1>3. CASE s.h.own /\ ~(now.state = "pending" /\ s.h.deadline > 0)
    <2> DEFINE U == Unmark(X, "own")
               g == [s.h EXCEPT !.own = FALSE, !.rx = IF lands THEN s.h.probe ELSE @, !.current = @ \/ lands,
                                !.retry = IF lands /\ s.h.hunting THEN Max0(Probe - now.age) ELSE @]
               t == [s EXCEPT !.result = "resolved", !.h = g, !.L = U]
    <2>1. Resolve(s) = t
      <3>1. Resolve(s) = [s EXCEPT !.result = "resolved", !.h.own = FALSE, !.L = U,
                                   !.h.rx = IF lands THEN s.h.probe ELSE @,
                                   !.h.current = @ \/ lands,
                                   !.h.retry = IF lands /\ s.h.hunting THEN Max0(Probe - now.age) ELSE @]
        BY <1>3 DEF Resolve, now
      <3> HIDE DEF U, lands
      <3> QED BY <1>0, <3>1 DEF HuntState, HuntCtx
    <2>2. /\ X \in Seq(Entry) /\ Len(X) = Len(s.L)
          /\ \A i \in 1 .. Len(s.L) :
                /\ X[i].live = s.L[i].live /\ X[i].marks = s.L[i].marks
                /\ X[i].state \in {"pending", "gated"} => s.L[i].state \in {"pending", "gated"}
                /\ X[i].state = "pending" => s.L[i].state = "pending" /\ ~Owned(s.L, i)
                /\ ~Owned(s.L, i) => X[i].state = s.L[i].state
      BY <1>0, <1>a, ExpireEffect
    <2> HIDE DEF X
    <2>3. /\ U \in Seq(Entry) /\ Len(U) = Len(s.L)
          /\ \A i \in 1 .. Len(s.L) :
                /\ U[i].live = s.L[i].live /\ ~Owned(U, i) /\ (Marked(U, i) <=> Marked(s.L, i))
                /\ U[i].state \in {"pending", "gated"} => s.L[i].state \in {"pending", "gated"}
                /\ U[i].state = "pending" => s.L[i].state = "pending" /\ ~Owned(s.L, i)
                /\ ~Owned(s.L, i) => U[i].state = s.L[i].state
      <3>1. /\ U \in Seq(Entry) /\ Len(U) = Len(X)
            /\ \A i \in 1 .. Len(X) : U[i].live = X[i].live /\ U[i].state = X[i].state /\ U[i].marks = X[i].marks \ {"own"}
        BY <2>2, UnmarkEffect
      <3> HIDE DEF U
      <3> QED BY <2>2, <3>1 DEF Owned, Marked
    <2> HIDE DEF U
    <2>4. /\ lands \in BOOLEAN
          /\ Max0(Probe - now.age) \in Retries
      BY <1>1, Sizes DEF Max0, Retries, Ages
    <2>5. /\ g \in HuntCtx /\ g.own = FALSE /\ g.rx = (IF lands THEN s.h.probe ELSE s.h.rx)
          /\ g.current = (s.h.current \/ lands) /\ g.hunting = s.h.hunting /\ g.park = s.h.park /\ g.probe = s.h.probe
          /\ g.cc = s.h.cc /\ g.confirmed = s.h.confirmed /\ g.armed = s.h.armed
      <3> HIDE DEF lands
      <3> QED BY <1>0, <2>4 DEF HuntCtx
    <2> HIDE DEF g
    <2>6. /\ t \in HuntState /\ t.h = g /\ t.L = U /\ t.receiver = s.receiver /\ t.center = s.center
          /\ t.result = "resolved"
      BY <1>0, <2>3, <2>5 DEF HuntState
    <2> HIDE DEF t
    <2>7. LedgerInv(U) /\ LandInv(g, U, s.receiver) /\ PhaseInv(g, T) /\ (NoneLive(s.L) => NoneLive(U))
      BY <1>0, <2>3, <2>5 DEF LedgerInv, LandInv, PhaseInv, NoneLive
    <2>8. AttrInv(g, U, s.receiver, H, T)
      <3>1. CASE lands
        <4>1. PICK i \in 1 .. Len(s.L) : Owned(s.L, i) /\ s.L[i].state = "ok"
          BY <1>1, <3>1
        <4>2. s.h.probe # 0
          BY <3>1, <1>0, Sizes DEF HuntCtx, HuntPlaces
        <4>3. s.receiver = s.h.probe /\ NoneLive(s.L)
          BY <1>0, <4>1, <4>2 DEF LandInv
        <4>4. ~T
          BY <1>0, <1>3 DEF PhaseInv
        <4> QED BY <2>5, <2>7, <3>1, <4>3, <4>4 DEF AttrInv
      <3>2. CASE ~lands
        BY <1>0, <2>5, <2>7, <3>2 DEF AttrInv
      <3> QED BY <3>1, <3>2
    <2>a. OrderInv(g, U)
      <3>1. \A i, j \in 1 .. Len(U) : i < j /\ U[i].state = "pending" /\ ~Owned(U, i) /\ Open(U, j) =>
              U[j].state = "pending" /\ ~Owned(U, j)
        <4> SUFFICES ASSUME NEW i \in 1 .. Len(U), NEW j \in 1 .. Len(U), i < j, U[i].state = "pending", Open(U, j)
                     PROVE  U[j].state = "pending"
          BY <2>3
        <4>1. s.L[i].state = "pending" /\ ~Owned(s.L, i) /\ Open(s.L, j)
          BY <2>3 DEF Open
        <4>2. s.L[j].state = "pending" /\ ~Owned(s.L, j)
          BY <1>0, <2>3, <4>1 DEF OrderInv
        <4> QED BY <2>3, <4>2
      <3>2. \A i, j \in 1 .. Len(U) : Marked(U, i) /\ Marked(U, j) => i = j
        BY <1>0, <2>3 DEF OrderInv
      <3>3. g.hunting => \A i \in 1 .. Len(U) : U[i].state = "pending" => Owned(U, i)
        BY <1>0, <2>3, <2>5 DEF OrderInv
      <3> QED BY <2>3, <3>1, <3>2, <3>3 DEF OrderInv
    <2>9. Good(t, H, T)
      BY <2>6, <2>7, <2>8, <2>a DEF Good
    <2> QED BY <2>1, <2>3, <2>5, <2>6, <2>9 DEF Alike
  <1> QED BY <1>2, <1>3

LEMMA ParkKeeps ==
    ASSUME NEW s, NEW H, NEW T \in BOOLEAN, Good(s, H, T), NEW keep \in BOOLEAN
    PROVE  LET t == ParkNow(s, keep)
           IN  /\ Good(t, H, T) /\ Alike(s, t) /\ ~t.h.hunting /\ ~t.h.own
               /\ t.h.armed \in {s.h.armed, Unarmed} /\ (~keep => t.h.armed = Unarmed)
               /\ t.receiver = s.receiver /\ t.center = s.center
               /\ \A i \in 1 .. Len(t.L) : t.L[i].state \in {"pending", "gated"} =>
                     i \in 1 .. Len(s.L) /\ s.L[i].state \in {"pending", "gated"}
  <1> DEFINE U == Unmark(s.L, "own")
             g == [s.h EXCEPT !.armed = IF keep THEN @ ELSE Unarmed, !.hunting = FALSE, !.park = 0, !.own = FALSE,
                              !.probe = 0, !.attempt = 0, !.rx = 0, !.current = FALSE, !.retry = 0]
             t == [s EXCEPT !.h = g, !.L = U]
  <1>0. s \in HuntState /\ s.h \in HuntCtx /\ s.L \in Seq(Entry) /\ LedgerInv(s.L) /\ OrderInv(s.h, s.L)
    BY DEF Good, HuntState
  <1>1. ParkNow(s, keep) = t
    <2>1. ParkNow(s, keep) = [s EXCEPT !.h.armed = IF keep THEN @ ELSE Unarmed,
              !.h.hunting = FALSE, !.h.park = 0, !.h.own = FALSE, !.L = U,
              !.h.probe = 0, !.h.attempt = 0, !.h.rx = 0, !.h.current = FALSE, !.h.retry = 0]
      BY Zenon DEF ParkNow
    <2> HIDE DEF U
    <2> QED BY <1>0, <2>1 DEF HuntState, HuntCtx
  <1>2. /\ U \in Seq(Entry) /\ Len(U) = Len(s.L)
        /\ \A i \in 1 .. Len(s.L) : /\ U[i].live = s.L[i].live /\ ~Owned(U, i) /\ U[i].state = s.L[i].state
                                    /\ Marked(U, i) <=> Marked(s.L, i)
    BY <1>0, UnmarkEffect DEF Owned, Marked
  <1> HIDE DEF U
  <1>3. /\ g \in HuntCtx /\ ~g.own /\ ~g.hunting /\ g.park = 0 /\ g.rx = 0 /\ g.cc = s.h.cc /\ g.confirmed = s.h.confirmed
        /\ g.armed \in {s.h.armed, Unarmed} /\ (~keep => g.armed = Unarmed)
    <2>1. Unarmed \in Arms /\ 0 \in Retries /\ 0 \in HuntPlaces /\ 0 \in Parks
      BY Ranges
    <2> DEFINE a == IF keep THEN s.h.armed ELSE Unarmed
    <2>2. s.h.armed \in Arms
      BY <1>0 DEF HuntCtx
    <2>3. a \in Arms
      BY <2>1, <2>2
    <2> DEFINE g1 == [s.h EXCEPT !.armed = a, !.hunting = FALSE, !.park = 0, !.own = FALSE, !.current = FALSE]
    <2>4. g = [g1 EXCEPT !.probe = 0, !.attempt = 0, !.rx = 0, !.retry = 0]
      BY <1>0 DEF HuntCtx
    <2> HIDE DEF a, g
    <2>5. g1 \in HuntCtx
      BY <1>0, <2>1, <2>3 DEF HuntCtx
    <2>6. /\ g1.own = FALSE /\ g1.hunting = FALSE /\ g1.park = 0 /\ g1.cc = s.h.cc /\ g1.confirmed = s.h.confirmed
          /\ g1.armed = a
      BY <1>0 DEF HuntCtx
    <2> HIDE DEF g1
    <2>7. g \in HuntCtx
      BY <2>1, <2>4, <2>5 DEF HuntCtx
    <2>8. /\ g.own = FALSE /\ g.hunting = FALSE /\ g.park = 0 /\ g.rx = 0 /\ g.cc = s.h.cc /\ g.confirmed = s.h.confirmed
          /\ g.armed = a
      BY <2>4, <2>5, <2>6 DEF HuntCtx
    <2>9. a \in {s.h.armed, Unarmed} /\ (~keep => a = Unarmed)
      BY DEF a
    <2> QED BY <2>7, <2>8, <2>9
  <1> HIDE DEF g
  <1>4. t \in HuntState /\ t.h = g /\ t.L = U /\ t.receiver = s.receiver /\ t.center = s.center
    BY <1>0, <1>2, <1>3 DEF HuntState
  <1> HIDE DEF t
  <1>5. LedgerInv(U)
    BY <1>0, <1>2 DEF LedgerInv
  <1>6. LandInv(g, U, s.receiver) /\ PhaseInv(g, T) /\ AttrInv(g, U, s.receiver, H, T)
    BY <1>2, <1>3 DEF LandInv, PhaseInv, AttrInv
  <1>a. OrderInv(g, U)
    <2>1. \A i, j \in 1 .. Len(U) : i < j /\ U[i].state = "pending" /\ ~Owned(U, i) /\ Open(U, j) =>
            U[j].state = "pending" /\ ~Owned(U, j)
      BY <1>0, <1>2 DEF OrderInv, Open
    <2>2. \A i, j \in 1 .. Len(U) : Marked(U, i) /\ Marked(U, j) => i = j
      BY <1>0, <1>2 DEF OrderInv
    <2> QED BY <1>2, <1>3, <2>1, <2>2 DEF OrderInv
  <1>7. Good(t, H, T)
    BY <1>4, <1>5, <1>6, <1>a DEF Good
  <1> QED BY <1>1, <1>2, <1>3, <1>4, <1>7 DEF Alike

(* A tune that is asked for, by whoever: refused, done in the call, or     *)
(* accepted.                                                               *)
Requested(s, f, marks, t) ==
    /\ t \in HuntState /\ t.result \in {"refused", "ok"}
    /\ t.result = "refused" => t.h = s.h /\ t.L = s.L /\ t.receiver = s.receiver /\ t.center = s.center
    /\ t.result = "ok" =>
          /\ t.center = f /\ Len(t.L) = Len(s.L) + 1
          /\ t.L[Len(t.L)].freq = f /\ t.L[Len(t.L)].marks = marks
          /\ \A i \in 1 .. Len(s.L) :
                /\ t.L[i].marks = s.L[i].marks /\ t.L[i].live = s.L[i].live
                /\ t.L[i].state = s.L[i].state \/ t.L[i].state = "failed"
          /\ \/ /\ t.L[Len(t.L)].state = "ok" /\ NoneLive(t.L) /\ t.receiver = f
                /\ t.h = [s.h EXCEPT !.current = FALSE]
             \/ /\ t.L[Len(t.L)].state = "pending" /\ t.L[Len(t.L)].live = TRUE /\ t.receiver = s.receiver
                /\ t.h = s.h /\ ~Rigctl /\ \A i \in 1 .. Len(s.L) : t.L[i] = s.L[i]

LEMMA RequestEffect ==
    ASSUME NEW s \in HuntState, NEW f \in Freqs, NEW marks \in SUBSET {"own", "foreign"},
           NEW t \in RequestTune(s, f, marks)
    PROVE  Requested(s, f, marks, t)
  <1> DEFINE A == Append(s.L, Request(f, marks))
             n == Len(s.L) + 1
             D == Succeed(A, Len(A))
             g == [s.h EXCEPT !.current = FALSE]
             r0 == [s EXCEPT !.result = "refused"]
             r1 == [s EXCEPT !.result = "ok", !.receiver = f, !.center = f, !.h = g, !.L = D]
             r2 == [s EXCEPT !.result = "ok", !.center = f, !.L = A]
  <1>0. s.h \in HuntCtx /\ s.L \in Seq(Entry) /\ Len(s.L) \in Nat
    BY DEF HuntState
  <1>1. t = r0 \/ (t = r1 /\ Live(s.L) = {}) \/ (t = r2 /\ ~Rigctl)
    <2>1. \/ t = r0
          \/ /\ Live(s.L) = {}
             /\ t = [s EXCEPT !.result = "ok", !.receiver = f, !.center = f, !.h.current = FALSE,
                            !.L = LET L == Append(@, Request(f, marks)) IN Succeed(L, Len(L))]
          \/ t = [s EXCEPT !.result = "ok", !.center = f, !.L = Append(@, Request(f, marks))] /\ ~Rigctl
      BY Zenon DEF RequestTune
    <2>2. [s EXCEPT !.result = "ok", !.receiver = f, !.center = f, !.h.current = FALSE,
                            !.L = LET L == Append(@, Request(f, marks)) IN Succeed(L, Len(L))] = r1
      BY <1>0 DEF HuntState
    <2>3. [s EXCEPT !.result = "ok", !.center = f, !.L = Append(@, Request(f, marks))] = r2
      BY <1>0 DEF HuntState
    <2> HIDE DEF r0, r1, r2
    <2> QED BY <2>1, <2>2, <2>3
  <1>2. /\ A \in Seq(Entry) /\ Len(A) = n /\ A[n].freq = f /\ A[n].marks = marks /\ A[n].state = "pending"
        /\ A[n].live = TRUE /\ \A i \in 1 .. Len(s.L) : A[i] = s.L[i]
    <2> DEFINE r == Request(f, marks)
    <2>1. r \in Entry /\ r.state = "pending" /\ r.live = TRUE /\ r.freq = f /\ r.marks = marks
      <3>1. r = [state |-> "pending", live |-> TRUE, freq |-> f, marks |-> marks, age |-> 0]
        BY DEF Request
      <3> HIDE DEF r
      <3> QED BY <3>1, Ranges DEF Entry
    <2>2. A = Append(s.L, r)
      OBVIOUS
    <2> HIDE DEF A, r
    <2>3. A \in Seq(Entry) /\ Len(A) = n /\ A[n] = r /\ \A i \in 1 .. Len(s.L) : A[i] = s.L[i]
      BY <1>0, <2>1, <2>2, AppendProperties
    <2> QED BY <2>1, <2>3
  <1> HIDE DEF A
  <1>3. /\ D \in Seq(Entry) /\ Len(D) = n /\ D[n].state = "ok" /\ ~D[n].live /\ D[n].freq = f /\ D[n].marks = marks
        /\ \A i \in 1 .. Len(s.L) :
              /\ D[i].marks = s.L[i].marks /\ D[i].live = s.L[i].live
              /\ D[i].state = s.L[i].state \/ D[i].state = "failed"
    <2>1. Len(A) \in 1 .. Len(A) /\ Len(A) = n
      BY <1>0, <1>2
    <2>2. /\ D \in Seq(Entry) /\ Len(D) = Len(A) /\ D[n].state = "ok" /\ ~D[n].live
          /\ \A i \in 1 .. Len(A) :
                     /\ D[i].freq = A[i].freq /\ D[i].marks = A[i].marks
                     /\ i # Len(A) => D[i].live = A[i].live /\ (D[i].state = A[i].state \/ D[i].state = "failed")
      BY <1>2, <2>1, SucceedEffect
    <2> HIDE DEF D
    <2> QED BY <1>0, <1>2, <2>1, <2>2
  <1> HIDE DEF D
  <1>4. g \in HuntCtx
    BY <1>0 DEF HuntCtx
  <1> HIDE DEF g
  <1>5. CASE t = r0
    <2>1. /\ t \in HuntState /\ t.result = "refused" /\ t.h = s.h /\ t.L = s.L /\ t.receiver = s.receiver
          /\ t.center = s.center
      BY <1>5 DEF HuntState
    <2> QED BY <2>1 DEF Requested
  <1>6. CASE t = r1 /\ Live(s.L) = {}
    <2>1. t \in HuntState /\ t.result = "ok" /\ t.h = g /\ t.L = D /\ t.receiver = f /\ t.center = f
      BY <1>3, <1>4, <1>6 DEF HuntState
    <2>2. NoneLive(s.L)
      BY <1>0, <1>6, LiveNone
    <2>3. NoneLive(D)
      <3>1. ASSUME NEW i \in 1 .. Len(D)
            PROVE  ~D[i].live
        <4>1. i = n \/ i \in 1 .. Len(s.L)
          BY <1>0, <1>3
        <4> QED BY <1>3, <2>2, <4>1 DEF NoneLive
      <3> QED BY <3>1 DEF NoneLive
    <2> QED BY <1>3, <2>1, <2>3 DEF g, Requested
  <1>7. CASE t = r2 /\ ~Rigctl
    <2>1. t \in HuntState /\ t.result = "ok" /\ t.h = s.h /\ t.L = A /\ t.receiver = s.receiver /\ t.center = f
      BY <1>2, <1>7 DEF HuntState
    <2> QED BY <1>2, <1>7, <2>1 DEF Requested
  <1> QED BY <1>1, <1>5, <1>6, <1>7

(* The hunt asks for a tune.                                               *)
LEMMA HuntTuneKeeps ==
    ASSUME NEW s, NEW H, NEW T \in BOOLEAN, Good(s, H, T), ~s.h.own, s.h.hunting, NEW f \in Freqs,
           NEW t \in HuntTune(s, f)
    PROVE  /\ Good(t, H, T) /\ Alike(s, t) /\ t.h.hunting /\ t.h.armed = s.h.armed
           /\ t.result \in {"refused", "ok"}
           /\ t.result = "refused" => ~t.h.own
  <1>0. /\ s \in HuntState /\ s.h \in HuntCtx /\ s.L \in Seq(Entry) /\ LedgerInv(s.L) /\ PhaseInv(s.h, T)
        /\ LandInv(s.h, s.L, s.receiver) /\ AttrInv(s.h, s.L, s.receiver, H, T) /\ Len(s.L) \in Nat
        /\ OrderInv(s.h, s.L)
    BY DEF Good, HuntState
  <1>1. PICK u \in RequestTune(s, f, {"own"}) :
           t = (IF u.result = "ok"
                THEN [u EXCEPT !.h.attempt = f, !.h.probe = f, !.h.rx = 0, !.h.current = FALSE, !.h.own = TRUE,
                               !.h.deadline = Timeout]
                ELSE [u EXCEPT !.h.attempt = f])
    BY Zenon DEF HuntTune
  <1>a. Requested(s, f, {"own"}, u)
    <2>1. {"own"} \in SUBSET {"own", "foreign"}
      OBVIOUS
    <2> QED BY <1>0, <2>1, RequestEffect, Zenon
  <1>2. /\ u \in HuntState /\ u.result \in {"refused", "ok"} /\ u.h \in HuntCtx /\ u.L \in Seq(Entry)
    <2>1. u \in HuntState /\ u.result \in {"refused", "ok"}
      BY <1>a DEF Requested
    <2> QED BY <2>1 DEF HuntState
  <1>3. CASE u.result = "refused"
    <2> DEFINE g == [u.h EXCEPT !.attempt = f]
               w == [u EXCEPT !.h = g]
    <2>1. u.h = s.h /\ u.L = s.L /\ u.receiver = s.receiver
      BY <1>3, <1>a DEF Requested
    <2>2. t = w
      BY <1>1, <1>3, <1>2 DEF HuntState
    <2>3. /\ g \in HuntCtx /\ g.own = s.h.own /\ g.probe = s.h.probe /\ g.rx = s.h.rx /\ g.current = s.h.current
          /\ g.hunting = s.h.hunting /\ g.park = s.h.park /\ g.cc = s.h.cc /\ g.confirmed = s.h.confirmed
          /\ g.armed = s.h.armed
      BY <1>2, <2>1 DEF HuntCtx, HuntPlaces
    <2> HIDE DEF g
    <2>4. t \in HuntState /\ t.h = g /\ t.L = s.L /\ t.receiver = s.receiver /\ t.result = "refused"
      BY <1>2, <1>3, <2>1, <2>2, <2>3 DEF HuntState
    <2>5. LandInv(g, s.L, s.receiver) /\ PhaseInv(g, T) /\ AttrInv(g, s.L, s.receiver, H, T)
      BY <1>0, <2>3 DEF LandInv, PhaseInv, AttrInv
    <2>a. OrderInv(g, s.L)
      BY <1>0, <2>3, OrderSame
    <2>6. Good(t, H, T)
      BY <1>0, <2>4, <2>5, <2>a DEF Good
    <2> QED BY <2>3, <2>4, <2>6 DEF Alike
  <1>4. CASE u.result = "ok"
    <2> DEFINE g == [u.h EXCEPT !.attempt = f, !.probe = f, !.rx = 0, !.current = FALSE, !.own = TRUE,
                                !.deadline = Timeout]
               w == [u EXCEPT !.h = g]
    <2>1. t = w
      BY <1>1, <1>4, <1>2 DEF HuntState, HuntCtx
    <2>2. u.h = s.h \/ u.h = [s.h EXCEPT !.current = FALSE]
      BY <1>4, <1>a DEF Requested
    <2>3. /\ u.h.hunting = s.h.hunting /\ u.h.park = s.h.park /\ u.h.cc = s.h.cc /\ u.h.confirmed = s.h.confirmed
          /\ u.h.armed = s.h.armed
      BY <1>0, <2>2 DEF HuntCtx
    <2>4. Timeout \in Waits /\ 0 \in HuntPlaces /\ f \in HuntPlaces /\ f # 0
      BY Sizes, Ranges
    <2>5. /\ g \in HuntCtx /\ g.own = TRUE /\ g.probe = f /\ g.rx = 0 /\ g.hunting = s.h.hunting /\ g.park = s.h.park
          /\ g.cc = s.h.cc /\ g.confirmed = s.h.confirmed /\ g.armed = s.h.armed
      BY <1>2, <2>3, <2>4 DEF HuntCtx
    <2> HIDE DEF g
    <2>6. t \in HuntState /\ t.h = g /\ t.L = u.L /\ t.receiver = u.receiver /\ t.result = "ok"
      BY <1>2, <1>4, <2>1, <2>5 DEF HuntState
    <2> DEFINE n == Len(s.L) + 1
    <2>7. /\ Len(u.L) = n /\ u.L[n].freq = f /\ u.L[n].marks = {"own"}
          /\ \A i \in 1 .. Len(s.L) :
                       /\ u.L[i].marks = s.L[i].marks /\ u.L[i].live = s.L[i].live
                       /\ u.L[i].state = s.L[i].state \/ u.L[i].state = "failed"
          /\ \/ u.L[n].state = "ok" /\ NoneLive(u.L) /\ u.receiver = f
             \/ u.L[n].state = "pending" /\ u.L[n].live = TRUE /\ ~Rigctl
      BY <1>4, <1>a DEF Requested
    <2>8. \A i \in 1 .. Len(s.L) : ~Owned(s.L, i)
      BY <1>0 DEF LandInv
    <2>9. \A i \in 1 .. n : (i \in 1 .. Len(s.L) \/ i = n) /\ (Owned(u.L, i) <=> i = n)
      BY <1>0, <2>7, <2>8 DEF Owned
    <2>10. LedgerInv(u.L)
      <3>1. ASSUME NEW i \in 1 .. n, u.L[i].state = "pending"
            PROVE  u.L[i].live
        BY <1>0, <2>7, <2>9, <3>1 DEF LedgerInv
      <3>2. u.L[n].state = "pending" => ~Rigctl
        BY <2>7
      <3> QED BY <2>7, <2>9, <3>1, <3>2 DEF LedgerInv
    <2>11. LandInv(g, u.L, u.receiver)
      BY <2>5, <2>7, <2>9 DEF LandInv
    <2>12. PhaseInv(g, T) /\ AttrInv(g, u.L, u.receiver, H, T)
      BY <1>0, <2>5 DEF PhaseInv, AttrInv
    <2>a. OrderInv(g, u.L)
      <3>1. \A i \in 1 .. Len(s.L) : s.L[i].state # "pending"
        BY <1>0, <2>8 DEF OrderInv
      <3>2. \A i \in 1 .. n : u.L[i].state = "pending" => i = n
        BY <2>7, <2>9, <3>1
      <3>3. \A i, j \in 1 .. n : i < j => i # n
        BY <1>0
      <3>4. \A i, j \in 1 .. n : Marked(u.L, i) /\ Marked(u.L, j) => i = j
        <4>1. \A i \in 1 .. n : Marked(u.L, i) => i \in 1 .. Len(s.L) /\ Marked(s.L, i)
          BY <2>7, <2>9 DEF Marked
        <4> QED BY <1>0, <4>1 DEF OrderInv
      <3>5. \A i, j \in 1 .. n : i < j => ~Owned(u.L, i) /\ u.L[i].state # "pending"
        BY <2>9, <3>2, <3>3
      <3> QED BY <2>7, <2>9, <3>2, <3>4, <3>5 DEF OrderInv
    <2>13. Good(t, H, T)
      BY <2>6, <2>10, <2>11, <2>12, <2>a DEF Good
    <2> QED BY <2>5, <2>6, <2>13 DEF Alike
  <1> QED BY <1>2, <1>3, <1>4

(* No tune is unresolved.                                                  *)
Calm(L) == \A i \in 1 .. Len(L) : L[i].state \notin {"pending", "gated"}

LEMMA NewestEffect ==
    ASSUME NEW L \in Seq(Entry)
    PROVE  /\ Newest(L) = 0 <=> Calm(L)
           /\ Newest(L) # 0 =>
                 /\ Newest(L) \in 1 .. Len(L) /\ L[Newest(L)].state \in {"pending", "gated"}
                 /\ \A i \in 1 .. Len(L) : L[i].state \in {"pending", "gated"} => i <= Newest(L)
  <1> DEFINE U == Unresolved(L)
             n == Len(L)
             W == {w \in Nat : \E u \in U : w = n - u}
             top == CHOOSE i \in U : \A j \in U : j <= i
  <1>1. n \in Nat /\ U \subseteq 1 .. n /\ (\A i \in 1 .. n : i \in U <=> L[i].state \in {"pending", "gated"})
    BY DEF Unresolved
  <1>2. CASE U = {}
    <2>1. Newest(L) = 0
      BY <1>2 DEF Newest
    <2>2. Calm(L)
      BY <1>1, <1>2 DEF Calm
    <2> QED BY <2>1, <2>2
  <1>3. CASE U # {}
    <2>1. Newest(L) = top
      BY <1>3 DEF Newest
    <2> HIDE DEF U
    <2>2. PICK u \in U : TRUE
      BY <1>3
    <2>3. n - u \in W
      BY <1>1, <2>2
    <2>4. PICK w \in W : \A v \in W : w <= v
      <3>1. W \in SUBSET Nat /\ W # {}
        BY <2>3
      <3> HIDE DEF W
      <3> QED BY <3>1, Least
    <2>5. PICK k \in U : w = n - k
      BY <2>4
    <2>6. ASSUME NEW j \in U
          PROVE  j <= k
      <3>1. n - j \in W
        BY <1>1
      <3>2. n - k <= n - j
        BY <2>4, <2>5, <3>1
      <3>3. j \in Nat /\ k \in Nat
        BY <1>1
      <3> QED BY <1>1, <3>2, <3>3
    <2>7. \E i \in U : \A j \in U : j <= i
      BY <2>6
    <2>8. top \in U /\ \A j \in U : j <= top
      BY <2>7, Zenon
    <2> HIDE DEF top
    <2>9. top \in 1 .. n /\ top # 0
      BY <1>1, <2>8
    <2>10. ~Calm(L)
      BY <1>1, <2>8, <2>9 DEF Calm
    <2> QED BY <1>1, <2>1, <2>8, <2>9, <2>10
  <1> QED BY <1>2, <1>3

(* What a tick that found a hunt leaves.                                   *)
Passed(s, t, H, T) ==
    /\ Good(t, H, T) /\ Alike(s, t)
    /\ Rigctl => ~t.h.own
    /\ t.h.armed \in {s.h.armed, Unarmed}
    /\ ~t.h.hunting => Calm(t.L) \/ (t.h.armed = Unarmed /\ (~trunk \/ boundary))

LEMMA TunerTyped ==
    ASSUME NEW s \in HuntState
    PROVE  /\ TunerFrequency(s) \subseteq HuntPlaces /\ TunerFrequency(s) \ {0} \subseteq Freqs
           /\ TunerFrequency(s) \ {0} # {}
  <1>1. s.receiver \in Freqs /\ s.center \in Freqs
    BY DEF HuntState
  <1> QED BY <1>1, Sizes DEF TunerFrequency, HuntPlaces

(* A tune of the hunt that was asked for, and asked about in the call.     *)
Visited(s, f) == {IF u.result = "ok" THEN Resolve(u) ELSE u : u \in HuntTune(s, f)}

LEMMA VisitKeeps ==
    ASSUME NEW s, NEW H, NEW T \in BOOLEAN, Good(s, H, T), ~s.h.own, s.h.hunting, NEW f \in Freqs,
           NEW t \in Visited(s, f)
    PROVE  Passed(s, t, H, T) /\ t.h.hunting
  <1>1. PICK u \in HuntTune(s, f) : t = IF u.result = "ok" THEN Resolve(u) ELSE u
    BY Zenon DEF Visited
  <1>2. /\ Good(u, H, T) /\ Alike(s, u) /\ u.h.hunting /\ u.h.armed = s.h.armed
        /\ u.result \in {"refused", "ok"} /\ (u.result = "refused" => ~u.h.own)
    BY HuntTuneKeeps, Zenon
  <1>3. CASE u.result = "refused"
    BY <1>1, <1>2, <1>3 DEF Passed
  <1>4. CASE u.result = "ok"
    <2>1. t = Resolve(u)
      BY <1>1, <1>4
    <2>2. Good(t, H, T) /\ Alike(u, t) /\ t.h.hunting = u.h.hunting /\ t.h.armed = u.h.armed /\ (Rigctl => ~t.h.own)
      BY <1>2, <2>1, ResolveKeeps, Zenon
    <2> QED BY <1>2, <2>2 DEF Passed, Alike
  <1> QED BY <1>2, <1>3, <1>4

LEMMA VisitSome == ASSUME NEW s, NEW f PROVE Visited(s, f) # {}
  <1>1. [s EXCEPT !.result = "refused"] \in RequestTune(s, f, {"own"})
    BY Zenon DEF RequestTune
  <1> DEFINE F(t) == IF t.result = "ok"
                     THEN [t EXCEPT !.h.attempt = f, !.h.probe = f, !.h.rx = 0, !.h.current = FALSE, !.h.own = TRUE,
                                    !.h.deadline = Timeout]
                     ELSE [t EXCEPT !.h.attempt = f]
  <1>2. HuntTune(s, f) = {F(t) : t \in RequestTune(s, f, {"own"})}
    BY DEF HuntTune
  <1>3. HuntTune(s, f) # {}
    <2> HIDE DEF F
    <2> QED BY <1>1, <1>2, Zenon
  <1> QED BY <1>3 DEF Visited

(* nxdn_cc_hunt_settle()                                                   *)
LEMMA SettleForm ==
    ASSUME NEW s, NEW keep
    PROVE  LET r == Resolve([s EXCEPT !.h.park = IF keep THEN 1 ELSE 2])
           IN  Settle(s, keep) =
                 IF r.result = "waiting" THEN {r}
                 ELSE IF Newest(r.L) = 0 THEN {ParkNow(r, keep)}
                 ELSE IF r.L[Newest(r.L)].state = "pending" THEN {r}
                 ELSE (UNION {Visited(r, f) : f \in TunerFrequency(r) \ {0}})
                        \cup (IF 0 \in TunerFrequency(r) THEN {r} ELSE {})
  <1> DEFINE r == Resolve([s EXCEPT !.h.park = IF keep THEN 1 ELSE 2])
             Rest(t) == IF t.result = "waiting" THEN {t}
                        ELSE IF Newest(t.L) = 0 THEN {ParkNow(t, keep)}
                        ELSE IF t.L[Newest(t.L)].state = "pending" THEN {t}
                        ELSE (UNION {Visited(t, f) : f \in TunerFrequency(t) \ {0}})
                               \cup (IF 0 \in TunerFrequency(t) THEN {t} ELSE {})
  <1>1. Settle(s, keep) = UNION {Rest(t) : t \in {r}}
    BY DEF Settle, Then, Visited
  <1> HIDE DEF r
  <1>2. UNION {Rest(t) : t \in {r}} = Rest(r)
    <2> HIDE DEF Rest
    <2> QED BY Zenon
  <1> QED BY <1>1, <1>2 DEF r

LEMMA ParkSet ==
    ASSUME NEW s, NEW H, NEW T \in BOOLEAN, Good(s, H, T), s.h.hunting, NEW p \in {1, 2}
    PROVE  LET w == [s EXCEPT !.h.park = p]
           IN  Good(w, H, T) /\ Alike(s, w) /\ w.h.hunting /\ w.h.armed = s.h.armed
  <1> DEFINE g == [s.h EXCEPT !.park = p]
             w == [s EXCEPT !.h = g]
  <1>0. /\ s \in HuntState /\ s.h \in HuntCtx /\ LedgerInv(s.L) /\ PhaseInv(s.h, T)
        /\ LandInv(s.h, s.L, s.receiver) /\ AttrInv(s.h, s.L, s.receiver, H, T) /\ OrderInv(s.h, s.L)
        /\ s.L \in Seq(Entry)
    BY DEF Good, HuntState
  <1>1. [s EXCEPT !.h.park = p] = w
    BY <1>0 DEF HuntState
  <1>2. g \in HuntCtx
    BY <1>0, Ranges DEF HuntCtx
  <1>3. /\ g.own = s.h.own /\ g.probe = s.h.probe /\ g.rx = s.h.rx /\ g.current = s.h.current
        /\ g.hunting = s.h.hunting /\ g.cc = s.h.cc /\ g.confirmed = s.h.confirmed /\ g.armed = s.h.armed
    BY <1>0 DEF HuntCtx
  <1> HIDE DEF g
  <1>4. w \in HuntState /\ w.h = g /\ w.L = s.L /\ w.receiver = s.receiver
    BY <1>0, <1>2 DEF HuntState
  <1> HIDE DEF w
  <1>5. LandInv(g, s.L, s.receiver) /\ PhaseInv(g, T) /\ AttrInv(g, s.L, s.receiver, H, T)
    BY <1>0, <1>3 DEF LandInv, PhaseInv, AttrInv
  <1>a. OrderInv(g, s.L)
    BY <1>0, <1>3, OrderSame
  <1>6. Good(w, H, T)
    BY <1>0, <1>4, <1>5, <1>a DEF Good
  <1> QED BY <1>1, <1>3, <1>4, <1>6 DEF Alike

LEMMA SettleKeeps ==
    ASSUME NEW s, NEW H, NEW T \in BOOLEAN, Good(s, H, T), s.h.hunting, NEW keep \in BOOLEAN
    PROVE  Settle(s, keep) # {} /\ \A t \in Settle(s, keep) : Passed(s, t, H, T)
  <1> DEFINE p == IF keep THEN 1 ELSE 2
             w == [s EXCEPT !.h.park = p]
             r == Resolve(w)
  <1>1. Good(w, H, T) /\ Alike(s, w) /\ w.h.hunting /\ w.h.armed = s.h.armed
    <2>1. p \in {1, 2}
      OBVIOUS
    <2> HIDE DEF p
    <2> QED BY <2>1, ParkSet, Zenon
  <1>2. Settle(s, keep) =
                 IF r.result = "waiting" THEN {r}
                 ELSE IF Newest(r.L) = 0 THEN {ParkNow(r, keep)}
                 ELSE IF r.L[Newest(r.L)].state = "pending" THEN {r}
                 ELSE (UNION {Visited(r, f) : f \in TunerFrequency(r) \ {0}})
                        \cup (IF 0 \in TunerFrequency(r) THEN {r} ELSE {})
    BY SettleForm, Zenon
  <1> HIDE DEF w
  <1>3. /\ Good(r, H, T) /\ Alike(w, r) /\ r.h.hunting = w.h.hunting /\ r.h.armed = w.h.armed
        /\ r.result \in {"resolved", "waiting"} /\ (r.result = "resolved" => ~r.h.own) /\ (Rigctl => ~r.h.own)
    BY <1>1, ResolveKeeps, Zenon
  <1> HIDE DEF r
  <1>4. r \in HuntState /\ r.L \in Seq(Entry)
    BY <1>3 DEF Good, HuntState
  <1>5. Passed(s, r, H, T) /\ r.h.hunting /\ Alike(s, r) /\ r.h.armed = s.h.armed
    BY <1>1, <1>3 DEF Passed, Alike
  <1>6. CASE r.result = "waiting" \/ (Newest(r.L) # 0 /\ r.L[Newest(r.L)].state = "pending")
    <2>1. Settle(s, keep) = {r}
      BY <1>2, <1>6
    <2> QED BY <1>5, <2>1
  <1>7. CASE r.result # "waiting" /\ Newest(r.L) = 0
    <2> DEFINE t == ParkNow(r, keep)
    <2>1. Settle(s, keep) = {t}
      BY <1>2, <1>7
    <2>2. /\ Good(t, H, T) /\ Alike(r, t) /\ ~t.h.own
          /\ \A i \in 1 .. Len(t.L) : t.L[i].state \in {"pending", "gated"} =>
                     i \in 1 .. Len(r.L) /\ r.L[i].state \in {"pending", "gated"}
          /\ t.h.armed \in {r.h.armed, Unarmed}
      BY <1>3, ParkKeeps, Zenon
    <2> HIDE DEF t
    <2>3. Calm(r.L)
      BY <1>4, <1>7, NewestEffect
    <2>4. Calm(t.L)
      BY <2>2, <2>3 DEF Calm
    <2>5. Passed(s, t, H, T)
      BY <1>5, <2>2, <2>4 DEF Passed, Alike
    <2> QED BY <2>1, <2>5
  <1>8. CASE r.result # "waiting" /\ Newest(r.L) # 0 /\ r.L[Newest(r.L)].state # "pending"
    <2>0. Settle(s, keep) = (UNION {Visited(r, f) : f \in TunerFrequency(r) \ {0}})
                              \cup (IF 0 \in TunerFrequency(r) THEN {r} ELSE {})
      BY <1>2, <1>8
    <2>1. TunerFrequency(r) \ {0} \subseteq Freqs /\ TunerFrequency(r) \ {0} # {}
      BY <1>4, TunerTyped
    <2>2. PICK f \in TunerFrequency(r) \ {0} : TRUE
      BY <2>1
    <2>3. Visited(r, f) # {}
      BY VisitSome
    <2>4. ASSUME NEW t \in Settle(s, keep)
          PROVE  Passed(s, t, H, T)
      <3>1. t = r \/ \E e \in TunerFrequency(r) \ {0} : t \in Visited(r, e)
        BY <2>0, <2>4, Zenon
      <3>2. ASSUME NEW e \in TunerFrequency(r) \ {0}, t \in Visited(r, e)
            PROVE  Passed(s, t, H, T)
        <4>1. e \in Freqs /\ ~r.h.own
          BY <1>3, <1>8, <2>1
        <4>2. Passed(r, t, H, T)
          BY <1>3, <1>5, <3>2, <4>1, VisitKeeps, Zenon
        <4> QED BY <1>5, <4>2 DEF Passed, Alike
      <3> QED BY <1>5, <3>1, <3>2
    <2> QED BY <2>0, <2>2, <2>3, <2>4
  <1> QED BY <1>3, <1>6, <1>7, <1>8

(* nxdn_cc_hunt_gate()                                                     *)
LEMMA StoppedKeeps ==
    ASSUME NEW s, NEW H, NEW T \in BOOLEAN, Good(s, H, T), s.h.hunting, NEW decision \in BOOLEAN
    PROVE  /\ \A t \in Stopped(s, decision) : Passed(s, t, H, T)
           /\ Stopped(s, decision) = {} => MayRun(s.h)
  <1>1. CASE ~trunk \/ boundary
    <2> DEFINE t == ParkNow(s, FALSE)
    <2>1. Stopped(s, decision) = {t}
      BY <1>1 DEF Stopped
    <2>2. Good(t, H, T) /\ Alike(s, t) /\ ~t.h.own /\ t.h.armed = Unarmed
      BY ParkKeeps, Zenon
    <2> HIDE DEF t
    <2> QED BY <1>1, <2>1, <2>2 DEF Passed
  <1>2. ASSUME NEW keep \in BOOLEAN, Stopped(s, decision) = Settle(s, keep)
        PROVE  (\A t \in Stopped(s, decision) : Passed(s, t, H, T)) /\ Stopped(s, decision) # {}
    <2>1. Settle(s, keep) # {} /\ \A t \in Settle(s, keep) : Passed(s, t, H, T)
      BY SettleKeeps, Zenon
    <2> QED BY <1>2, <2>1
  <1>3. CASE ~(~trunk \/ boundary) /\ ~MayRun(s.h)
    <2>1. Stopped(s, decision) = Settle(s, FALSE)
      BY <1>3 DEF Stopped
    <2> QED BY <1>2, <2>1
  <1>4. CASE ~(~trunk \/ boundary) /\ MayRun(s.h)
    <2>1. \/ \E keep \in BOOLEAN : Stopped(s, decision) = Settle(s, keep)
          \/ Stopped(s, decision) = {}
      BY <1>4 DEF Stopped
    <2> QED BY <1>2, <1>4, <2>1
  <1> QED BY <1>1, <1>3, <1>4

-----------------------------------------------------------------------------
(* The walk over the channel map.                                          *)

LEMMA MapTyped ==
    ASSUME air \in Airs
    PROVE  Map \in Seq(HuntPlaces) /\ Len(Map) \in Nat /\ \A i \in 1 .. Len(Map) : Map[i] \in HuntPlaces
  <1>1. Map \in Seq(HuntPlaces)
    BY HuntAssumption DEF Map, HuntPlaces
  <1>2. \A i \in 1 .. Len(Map) : Map[i] \in HuntPlaces
    <2> HIDE DEF Map
    <2> QED BY <1>1
  <1> QED BY <1>1, <1>2

LEMMA ModRange == ASSUME NEW a \in Int, NEW n \in Nat, n > 0 PROVE a % n \in 0 .. n - 1
  OBVIOUS

(* nxdn_cc_hunt_next_mapped()                                              *)
LEMMA NextMappedTyped ==
    ASSUME air \in Airs, NEW g \in HuntCtx, Len(Map) > 0
    PROVE  NextMapped(g).freq \in HuntPlaces /\ NextMapped(g).index \in Rows
  <1> DEFINE n == Len(Map)
             w == Wrapped(g.index)
             round == Round(w)
             found == {k \in DOMAIN round : Listed(round[k]) /\ Map[round[k]] # g.probe}
             k == CHOOSE k \in found : \A m \in found : k <= m
             row == round[k]
             after == {i \in row + 1 .. Len(Map) : \E j \in row .. i : Map[j] # Map[row]} \cup {Len(Map) + 1}
             next == CHOOSE i \in after : \A j \in after : i <= j
             again == \E m \in DOMAIN round : Listed(round[m]) /\ Map[round[m]] = g.probe
  <1>0. g.index \in Rows /\ g.probe \in HuntPlaces /\ 0 \in HuntPlaces
    BY Ranges DEF HuntCtx
  <1>1. n \in Nat /\ n > 0 /\ \A i \in 1 .. n : Map[i] \in HuntPlaces
    BY MapTyped
  <1>2. w \in Int
    BY <1>0, <1>1 DEF Wrapped, Rows
  <1>3. DOMAIN round = 1 .. n /\ \A m \in 1 .. n : round[m] \in 1 .. n
    <2> HIDE DEF w
    <2>1. ASSUME NEW m \in 1 .. n
          PROVE  round[m] \in 1 .. n
      <3> DEFINE a == w - 2 + m
      <3>1. a \in Int
        BY <1>1, <1>2
      <3>2. round[m] = (a % n) + 1
        BY DEF Round
      <3> HIDE DEF a, round
      <3>3. a % n \in 0 .. n - 1
        BY <1>1, <3>1, ModRange
      <3> QED BY <1>1, <3>2, <3>3
    <2>2. DOMAIN round = 1 .. n
      BY DEF Round
    <2> QED BY <2>1, <2>2
  <1>4. NextMapped(g) = IF found # {} THEN [freq |-> Map[row], index |-> next]
                        ELSE [freq |-> IF again THEN g.probe ELSE 0, index |-> round[n] + 1]
    BY Zenon DEF NextMapped
  <1> HIDE DEF round, n, again
  <1>5. CASE found = {}
    <2>1. round[n] \in 1 .. n
      BY <1>1, <1>3
    <2>2. round[n] + 1 \in Rows
      BY <1>1, <2>1 DEF Rows, n
    <2> QED BY <1>0, <1>4, <1>5, <2>2
  <1>6. CASE found # {}
    <2>1. k \in found
      <3>1. found \in SUBSET Nat
        BY <1>1, <1>3
      <3>2. \E i \in found : \A j \in found : i <= j
        <4> HIDE DEF found
        <4> QED BY <1>6, <3>1, Least
      <3> HIDE DEF found
      <3> QED BY <3>2, Zenon
    <2>2. row \in 1 .. n
      <3>1. k \in 1 .. n
        BY <1>3, <2>1
      <3> HIDE DEF k
      <3> QED BY <1>3, <3>1
    <2> HIDE DEF row, found
    <2>3. after \in SUBSET Nat /\ after # {} /\ after \subseteq Rows
      <3>1. row + 1 .. Len(Map) \subseteq Rows /\ Len(Map) + 1 \in Rows
        BY <1>1, <2>2 DEF Rows, n
      <3>2. Rows \subseteq Nat
        BY <1>1 DEF Rows, n
      <3> QED BY <3>1, <3>2
    <2>4. next \in after
      <3> HIDE DEF after
      <3>1. \E i \in after : \A j \in after : i <= j
        BY <2>3, Least
      <3> QED BY <3>1, Zenon
    <2> HIDE DEF next, after
    <2>5. Map[row] \in HuntPlaces
      BY <1>1, <2>2
    <2> QED BY <1>4, <1>6, <2>3, <2>4, <2>5
  <1> QED BY <1>5, <1>6

LEMMA CandidateTyped ==
    ASSUME air \in Airs, NEW g \in HuntCtx, MayRun(g)
    PROVE  NextCandidate(g).freq \in HuntPlaces /\ NextCandidate(g).index \in Rows
  <1>1. g.cc \in HuntPlaces /\ g.index \in Rows
    BY DEF HuntCtx
  <1>2. Len(Map) > 0
    <2>1. PICK i \in DOMAIN Map : TRUE
      BY DEF MayRun
    <2>2. Map \in Seq(HuntPlaces) /\ Len(Map) \in Nat
      BY MapTyped
    <2>3. i \in 1 .. Len(Map)
      BY <2>1, <2>2
    <2> QED BY <2>2, <2>3
  <1>3. NextMapped(g).freq \in HuntPlaces /\ NextMapped(g).index \in Rows
    BY <1>2, NextMappedTyped
  <1>4. NextCandidate(g) = [freq |-> g.cc, index |-> g.index] \/ NextCandidate(g) = NextMapped(g)
    BY Zenon DEF NextCandidate
  <1> QED BY <1>1, <1>3, <1>4

(* A change of the hunt that leaves what the invariant is about.           *)
Same(g, k) ==
    /\ g.own = k.own /\ g.probe = k.probe /\ g.rx = k.rx /\ g.current = k.current /\ g.hunting = k.hunting
    /\ g.park = k.park

LEMMA Tuneless ==
    ASSUME NEW s, NEW H, NEW T \in BOOLEAN, Good(s, H, T), NEW g \in HuntCtx, Same(g, s.h), NEW t, t = [s EXCEPT !.h = g]
    PROVE  Good(t, H, T) /\ t.h = g /\ t.L = s.L /\ t.receiver = s.receiver /\ t.center = s.center /\ t.result = s.result
  <1>0. /\ s \in HuntState /\ s.h \in HuntCtx /\ LedgerInv(s.L) /\ PhaseInv(s.h, T)
        /\ LandInv(s.h, s.L, s.receiver) /\ AttrInv(s.h, s.L, s.receiver, H, T) /\ OrderInv(s.h, s.L)
        /\ s.L \in Seq(Entry)
    BY DEF Good, HuntState
  <1>1. /\ t \in HuntState /\ t.h = g /\ t.L = s.L /\ t.receiver = s.receiver /\ t.center = s.center
        /\ t.result = s.result
    BY <1>0 DEF HuntState
  <1>2. LandInv(g, s.L, s.receiver) /\ PhaseInv(g, T) /\ AttrInv(g, s.L, s.receiver, H, T)
    BY <1>0 DEF LandInv, PhaseInv, AttrInv, Same
  <1>a. OrderInv(g, s.L)
    BY <1>0, OrderSame DEF Same
  <1>3. Good(t, H, T)
    BY <1>0, <1>1, <1>2, <1>a DEF Good
  <1> QED BY <1>1, <1>3

(* nxdn_cc_hunt_probe()                                                    *)
LEMMA ProbeKeeps ==
    ASSUME air \in Airs, NEW s, NEW H, NEW T \in BOOLEAN, Good(s, H, T), s.h.hunting, ~s.h.own,
           NEW t \in ProbeFrom(s)
    PROVE  Passed(s, t, H, T)
  <1> DEFINE next == NextCandidate(s.h)
             g == [s.h EXCEPT !.retry = Probe, !.index = next.index]
             w == [s EXCEPT !.h = g]
             k == [w.h EXCEPT !.attempt = next.freq]
  <1>0. s \in HuntState /\ s.h \in HuntCtx
    BY DEF Good, HuntState
  <1>1. Passed(s, s, H, T)
    BY DEF Passed, Alike
  <1>2. \/ t = s
        \/ t \in Stopped(s, TRUE)
        \/ /\ Stopped(s, TRUE) = {}
           /\ \/ t = [s EXCEPT !.h.retry = Probe, !.h.index = next.index]
              \/ next.freq # 0 /\ t = [[s EXCEPT !.h.retry = Probe, !.h.index = next.index] EXCEPT !.h.attempt = next.freq]
              \/ next.freq # 0 /\ t \in Visited([s EXCEPT !.h.retry = Probe, !.h.index = next.index], next.freq)
    <2> DEFINE Visit(n) == LET v == [s EXCEPT !.h.retry = Probe, !.h.index = n.index]
                           IN  IF n.freq = 0 THEN {v}
                               ELSE IF n.freq = s.h.rx /\ n.freq = s.h.probe /\ Unresolved(s.L) = {} /\ s.h.current
                               THEN {[v EXCEPT !.h.attempt = n.freq]}
                               ELSE Visited(v, n.freq)
    <2>1. ProbeFrom(s) = IF s.h.retry > 0 THEN {s}
                         ELSE IF Stopped(s, TRUE) # {} THEN Stopped(s, TRUE)
                         ELSE UNION {Visit(n) : n \in {next}}
      BY DEF ProbeFrom, Then, Visited
    <2> HIDE DEF next
    <2>2. UNION {Visit(n) : n \in {next}} = Visit(next)
      <3> HIDE DEF Visit
      <3> QED BY Zenon
    <2> QED BY <2>1, <2>2
  <1>3. CASE t \in Stopped(s, TRUE)
    BY <1>3, StoppedKeeps, Zenon
  <1>4. CASE Stopped(s, TRUE) = {} /\ t # s /\ t \notin Stopped(s, TRUE)
    <2>1. MayRun(s.h)
      BY <1>4, StoppedKeeps, Zenon
    <2>2. next.freq \in HuntPlaces /\ next.index \in Rows
      BY <1>0, <2>1, CandidateTyped
    <2> HIDE DEF next
    <2>3. g \in HuntCtx
      BY <1>0, <2>2, Ranges DEF HuntCtx
    <2>4. /\ g.own = s.h.own /\ g.probe = s.h.probe /\ g.rx = s.h.rx /\ g.current = s.h.current /\ g.hunting = s.h.hunting
          /\ g.park = s.h.park /\ g.cc = s.h.cc /\ g.confirmed = s.h.confirmed /\ g.armed = s.h.armed
      BY <1>0 DEF HuntCtx
    <2>5. [s EXCEPT !.h.retry = Probe, !.h.index = next.index] = w
      BY <1>0 DEF HuntState
    <2>6. Good(w, H, T) /\ w.h = g
      <3>1. Same(g, s.h)
        BY <2>4 DEF Same
      <3>2. w = [s EXCEPT !.h = g]
        OBVIOUS
      <3> HIDE DEF g, w
      <3> QED BY <2>3, <3>1, <3>2, Tuneless
    <2> HIDE DEF g
    <2>7. CASE t = w
      BY <2>4, <2>6, <2>7 DEF Passed, Alike
    <2>8. CASE next.freq # 0 /\ t = [w EXCEPT !.h.attempt = next.freq]
      <3> HIDE DEF w
      <3>0. w \in HuntState /\ w.h \in HuntCtx
        BY <2>6 DEF Good, HuntState
      <3>1. k \in HuntCtx
        BY <2>2, <3>0 DEF HuntCtx
      <3>2. /\ k.own = w.h.own /\ k.probe = w.h.probe /\ k.rx = w.h.rx /\ k.current = w.h.current
            /\ k.hunting = w.h.hunting /\ k.park = w.h.park /\ k.cc = w.h.cc /\ k.confirmed = w.h.confirmed
            /\ k.armed = w.h.armed
        BY <3>0 DEF HuntCtx
      <3>3. t = [w EXCEPT !.h = k]
        BY <2>8, <3>0 DEF HuntState
      <3>4. Same(k, w.h)
        BY <3>2 DEF Same
      <3> HIDE DEF k
      <3>5. Good(t, H, T) /\ t.h = k
        BY <2>6, <3>1, <3>3, <3>4, Tuneless
      <3> QED BY <2>4, <2>6, <3>2, <3>5 DEF Passed, Alike
    <2>9. CASE next.freq # 0 /\ t \in Visited(w, next.freq)
      <3> HIDE DEF w
      <3>1. next.freq \in Freqs
        BY <2>2, <2>9 DEF HuntPlaces
      <3>2. ~w.h.own /\ w.h.hunting
        BY <2>4, <2>6
      <3>3. Passed(w, t, H, T)
        BY <2>6, <2>9, <3>1, <3>2, VisitKeeps, Zenon
      <3> QED BY <2>4, <2>6, <3>3 DEF Passed, Alike
    <2> QED BY <1>2, <1>4, <2>5, <2>7, <2>8, <2>9
  <1> QED BY <1>1, <1>2, <1>3, <1>4

(* nxdn_cc_hunt_follow_foreign_tune()                                      *)
Watched(s, q) ==
    /\ q \in Seq(Entry) /\ Len(q) = Len(s.L)
    /\ \A i \in 1 .. Len(s.L) :
          /\ q[i].state = s.L[i].state /\ q[i].live = s.L[i].live /\ q[i].freq = s.L[i].freq /\ q[i].age = s.L[i].age
          /\ Owned(q, i) <=> Owned(s.L, i)
    /\ \A i, j \in 1 .. Len(q) : Marked(q, i) /\ Marked(q, j) => i = j

LEMMA WatchKeeps ==
    ASSUME NEW s, NEW H, NEW T \in BOOLEAN, Good(s, H, T), NEW g \in HuntCtx, Same(g, s.h), NEW q, Watched(s, q),
           NEW e \in {"none", "waiting"}
    PROVE  Good([s EXCEPT !.h = g, !.L = q, !.result = e], H, T)
  <1> DEFINE t == [s EXCEPT !.h = g, !.L = q, !.result = e]
  <1>0. /\ s \in HuntState /\ s.h \in HuntCtx /\ LedgerInv(s.L) /\ PhaseInv(s.h, T)
        /\ LandInv(s.h, s.L, s.receiver) /\ AttrInv(s.h, s.L, s.receiver, H, T) /\ OrderInv(s.h, s.L)
    BY DEF Good, HuntState
  <1>1. /\ q \in Seq(Entry) /\ Len(q) = Len(s.L)
        /\ \A i \in 1 .. Len(s.L) :
              /\ q[i].state = s.L[i].state /\ q[i].live = s.L[i].live /\ q[i].freq = s.L[i].freq
              /\ Owned(q, i) <=> Owned(s.L, i)
        /\ \A i, j \in 1 .. Len(q) : Marked(q, i) /\ Marked(q, j) => i = j
    BY DEF Watched
  <1>2. /\ t \in HuntState /\ t.h = g /\ t.L = q /\ t.receiver = s.receiver /\ t.center = s.center /\ t.result = e
    BY <1>0, <1>1 DEF HuntState
  <1>3. NoneLive(s.L) => NoneLive(q)
    BY <1>1 DEF NoneLive
  <1>4. LedgerInv(q) /\ PhaseInv(g, T) /\ AttrInv(g, q, s.receiver, H, T)
    BY <1>0, <1>1, <1>3 DEF LedgerInv, PhaseInv, AttrInv, Same
  <1>5. LandInv(g, q, s.receiver)
    BY <1>0, <1>1, <1>3 DEF LandInv, Same
  <1>a. OrderInv(g, q)
    <2>1. \A i \in 1 .. Len(s.L) : Open(q, i) <=> Open(s.L, i)
      BY <1>1 DEF Open
    <2>2. \A i, j \in 1 .. Len(q) : i < j /\ Owned(q, i) => ~Open(q, j)
      BY <1>0, <1>1, <2>1 DEF OrderInv
    <2>3. \A i, j \in 1 .. Len(q) : i < j /\ q[i].state = "pending" /\ ~Owned(q, i) /\ Open(q, j) =>
            q[j].state = "pending" /\ ~Owned(q, j)
      BY <1>0, <1>1, <2>1 DEF OrderInv
    <2>4. g.hunting => \A i \in 1 .. Len(q) : q[i].state = "pending" => Owned(q, i)
      BY <1>0, <1>1 DEF OrderInv, Same
    <2> QED BY <1>1, <2>2, <2>3, <2>4 DEF OrderInv
  <1> HIDE DEF t
  <1>6. Good(t, H, T)
    BY <1>2, <1>4, <1>5, <1>a DEF Good
  <1> QED BY <1>6 DEF t

LEMMA FollowedForm ==
    ASSUME NEW s \in HuntState
    PROVE  LET newest == Newest(s.L)
               inFlight == newest # 0 /\ "own" \notin s.L[newest].marks /\ s.L[newest].state = "pending"
               was == StatusOf(s.L, "foreign")
               t == Followed(s)
           IN  /\ inFlight =>
                     /\ t.h = [s.h EXCEPT !.foreign = TRUE, !.armed = 0]
                     /\ t.L = [Unmark(s.L, "foreign") EXCEPT ![newest].marks = @ \cup {"foreign"}]
                     /\ t = [s EXCEPT !.h = t.h, !.L = t.L, !.result = "waiting"]
               /\ ~inFlight =>
                     /\ t.h = [s.h EXCEPT !.foreign = FALSE,
                                          !.armed = IF s.h.foreign /\ was.state = "ok" /\ was.age < @ THEN was.age ELSE @]
                     /\ t.L = Unmark(s.L, "foreign")
                     /\ t = [s EXCEPT !.h = t.h, !.L = t.L, !.result = "none"]
  <1> DEFINE newest == Newest(s.L)
             inFlight == newest # 0 /\ "own" \notin s.L[newest].marks /\ s.L[newest].state = "pending"
             was == StatusOf(s.L, "foreign")
             A == [Unmark(s.L, "foreign") EXCEPT ![newest].marks = @ \cup {"foreign"}]
             B == Unmark(s.L, "foreign")
             t == Followed(s)
  <1>0. s.h \in HuntCtx
    BY DEF HuntState
  <1>1. CASE inFlight
    <2>1. t = [s EXCEPT !.result = "waiting", !.h.foreign = TRUE, !.h.armed = 0, !.L = A]
      BY <1>1 DEF Followed
    <2> HIDE DEF t, A
    <2>2. /\ t.h = [s.h EXCEPT !.foreign = TRUE, !.armed = 0] /\ t.L = A
          /\ t = [s EXCEPT !.h = t.h, !.L = t.L, !.result = "waiting"]
      BY <1>0, <2>1 DEF HuntState, HuntCtx
    <2> HIDE DEF inFlight
    <2> QED BY <1>1, <2>2 DEF t, A, inFlight
  <1>2. CASE ~inFlight
    <2>1. t = [s EXCEPT !.result = "none", !.h.foreign = FALSE, !.L = B,
                        !.h.armed = IF s.h.foreign /\ was.state = "ok" /\ was.age < @ THEN was.age ELSE @]
      BY <1>2 DEF Followed
    <2> HIDE DEF t, B, was
    <2>2. /\ t.h = [s.h EXCEPT !.foreign = FALSE,
                               !.armed = IF s.h.foreign /\ was.state = "ok" /\ was.age < @ THEN was.age ELSE @]
          /\ t.L = B
          /\ t = [s EXCEPT !.h = t.h, !.L = t.L, !.result = "none"]
      BY <1>0, <2>1 DEF HuntState, HuntCtx
    <2> HIDE DEF inFlight
    <2> QED BY <1>2, <2>2 DEF t, B, was, inFlight
  <1> QED BY <1>1, <1>2

LEMMA FollowedKeeps ==
    ASSUME NEW s, NEW H, NEW T \in BOOLEAN, Good(s, H, T)
    PROVE  LET t == Followed(s)
               newest == Newest(s.L)
           IN  /\ Good(t, H, T) /\ Alike(s, t) /\ Same(t.h, s.h) /\ t.result \in {"none", "waiting"}
               /\ Watched(s, t.L)
               /\ t.result = "none" => newest = 0 \/ Owned(s.L, newest) \/ s.L[newest].state # "pending"
  <1> DEFINE newest == Newest(s.L)
             inFlight == newest # 0 /\ "own" \notin s.L[newest].marks /\ s.L[newest].state = "pending"
             was == StatusOf(s.L, "foreign")
             t == Followed(s)
             B == Unmark(s.L, "foreign")
             q == [B EXCEPT ![newest].marks = @ \cup {"foreign"}]
  <1>0. s \in HuntState /\ s.h \in HuntCtx /\ s.L \in Seq(Entry) /\ s.h.armed \in Arms
    BY DEF Good, HuntState, HuntCtx
  <1>1. /\ B \in Seq(Entry) /\ Len(B) = Len(s.L)
        /\ \A i \in 1 .. Len(s.L) :
              /\ B[i].state = s.L[i].state /\ B[i].live = s.L[i].live /\ B[i].freq = s.L[i].freq
              /\ B[i].age = s.L[i].age /\ B[i].marks = s.L[i].marks \ {"foreign"}
    BY <1>0, UnmarkEffect
  <1> HIDE DEF B
  <1>2. Watched(s, B)
    <2>1. \A i \in 1 .. Len(B) : ~Marked(B, i)
      BY <1>1 DEF Marked
    <2> QED BY <1>1, <2>1 DEF Watched, Owned
  <1>3. CASE inFlight
    <2>1. newest \in 1 .. Len(s.L)
      BY <1>0, <1>3, NewestEffect
    <2>2. t.h = [s.h EXCEPT !.foreign = TRUE, !.armed = 0] /\ t.L = q /\ t = [s EXCEPT !.h = t.h, !.L = t.L, !.result = "waiting"]
      BY <1>0, <1>3, FollowedForm, Zenon DEF B
    <2> HIDE DEF newest, t
    <2>3. Watched(s, q)
      <3> DEFINE b == [B[newest] EXCEPT !.marks = @ \cup {"foreign"}]
      <3>1. B[newest] \in Entry
        BY <1>1, <2>1
      <3>2. /\ b \in Entry /\ b.state = B[newest].state /\ b.live = B[newest].live /\ b.freq = B[newest].freq
            /\ b.age = B[newest].age /\ b.marks = B[newest].marks \cup {"foreign"}
        BY <3>1 DEF Entry
      <3>3. q = [B EXCEPT ![newest] = b]
        OBVIOUS
      <3> HIDE DEF b, q
      <3>4. q \in Seq(Entry) /\ Len(q) = Len(B) /\ q[newest] = b /\ \A i \in 1 .. Len(B) : i # newest => q[i] = B[i]
        BY <1>1, <2>1, <3>2, <3>3
      <3>5. ASSUME NEW i \in 1 .. Len(s.L)
            PROVE  /\ q[i].state = s.L[i].state /\ q[i].live = s.L[i].live /\ q[i].freq = s.L[i].freq
                   /\ q[i].age = s.L[i].age /\ (Owned(q, i) <=> Owned(s.L, i))
        <4>1. CASE i = newest
          BY <1>1, <2>1, <3>2, <3>4, <4>1 DEF Owned
        <4>2. CASE i # newest
          BY <1>1, <3>4, <4>2 DEF Owned
        <4> QED BY <4>1, <4>2
      <3>6. \A i \in 1 .. Len(q) : Marked(q, i) => i = newest
        BY <1>1, <3>4 DEF Marked
      <3> QED BY <1>1, <3>4, <3>5, <3>6 DEF Watched
    <2> HIDE DEF q
    <2>4. t.h \in HuntCtx
      BY <1>0, <2>2, Ranges DEF HuntCtx
    <2>5. Same(t.h, s.h) /\ t.h.cc = s.h.cc /\ t.h.confirmed = s.h.confirmed
      BY <1>0, <2>2 DEF HuntCtx, Same
    <2>6. Good(t, H, T)
      <3> DEFINE g == t.h
      <3>1. Good([s EXCEPT !.h = g, !.L = q, !.result = "waiting"], H, T)
        <4>1. g \in HuntCtx /\ Same(g, s.h) /\ "waiting" \in {"none", "waiting"}
          BY <2>4, <2>5
        <4> HIDE DEF g
        <4> QED BY <2>3, <4>1, WatchKeeps, Zenon
      <3> QED BY <2>2, <3>1
    <2>7. t.result = "waiting"
      BY <1>0, <2>2 DEF HuntState
    <2> QED BY <2>2, <2>3, <2>5, <2>6, <2>7 DEF Alike, t
  <1>4. CASE ~inFlight
    <2> DEFINE a == IF s.h.foreign /\ was.state = "ok" /\ was.age < s.h.armed THEN was.age ELSE s.h.armed
    <2>1. /\ t.h = [s.h EXCEPT !.foreign = FALSE, !.armed = a] /\ t.L = B
          /\ t = [s EXCEPT !.h = t.h, !.L = t.L, !.result = "none"]
      BY <1>0, <1>4, FollowedForm, Zenon DEF B
    <2>2. a \in Arms
      <3>1. was.age \in Ages
        BY <1>0, StatusEffect
      <3> QED BY <1>0, <3>1, Ranges
    <2> HIDE DEF t, a
    <2>3. t.h \in HuntCtx
      BY <1>0, <2>1, <2>2 DEF HuntCtx
    <2>4. Same(t.h, s.h) /\ t.h.cc = s.h.cc /\ t.h.confirmed = s.h.confirmed
      BY <1>0, <2>1 DEF HuntCtx, Same
    <2>5. Good(t, H, T)
      <3> DEFINE g == t.h
      <3>1. Good([s EXCEPT !.h = g, !.L = B, !.result = "none"], H, T)
        <4>1. g \in HuntCtx /\ Same(g, s.h) /\ "none" \in {"none", "waiting"}
          BY <2>3, <2>4
        <4> HIDE DEF g
        <4> QED BY <1>2, <4>1, WatchKeeps, Zenon
      <3> QED BY <2>1, <3>1
    <2>6. t.result = "none"
      BY <1>0, <2>1 DEF HuntState
    <2>7. newest = 0 \/ Owned(s.L, newest) \/ s.L[newest].state # "pending"
      BY <1>4 DEF Owned
    <2> QED BY <1>2, <2>1, <2>4, <2>5, <2>6, <2>7 DEF Alike, t
  <1> QED BY <1>3, <1>4

(* nxdn_cc_hunt_tick_locked(): what a tick leaves, when a hunt may end in  *)
(* it and when one may begin.                                              *)
Begun(s) ==
    /\ MayRun(s.h) /\ s.h.armed # Unarmed
    /\ Followed(s).result # "waiting" /\ WindowExpired(Followed(s).h)

Done(s, t, H) ==
    /\ Good(t, H, tuned) /\ Alike(s, t)
    /\ Rigctl => ~t.h.own
    /\ s.h.hunting /\ ~t.h.hunting => ~trunk \/ boundary \/ Calm(t.L)
    /\ ~s.h.hunting /\ t.h.hunting => Begun(s)

LEMMA TickedForm ==
    ASSUME NEW s, NEW t \in Ticked(s)
    PROVE  \/ s.h.hunting /\ t \in Stopped(s, FALSE)
           \/ s.h.hunting /\ t = Resolve(s) /\ t.result = "waiting"
           \/ s.h.hunting /\ t \in ProbeFrom(Resolve(s)) /\ Resolve(s).result # "waiting"
           \/ ~s.h.hunting /\ ~MayRun(s.h) /\ t = [s EXCEPT !.h.armed = Unarmed]
           \/ ~s.h.hunting /\ MayRun(s.h) /\ t = Followed([s EXCEPT !.h.armed = 0]) /\ s.h.armed = Unarmed
           \/ ~s.h.hunting /\ MayRun(s.h) /\ s.h.armed # Unarmed /\ t = Followed(s)
           \/ ~s.h.hunting /\ Begun(s) /\ t \in ProbeFrom([Followed(s) EXCEPT !.h.hunting = TRUE, !.h.retry = 0])
  <1> DEFINE Hunt(u) == IF u.result = "waiting" THEN {u} ELSE ProbeFrom(u)
             Look(u) == IF u.result = "waiting" \/ ~WindowExpired(u.h) THEN {u}
                        ELSE ProbeFrom([u EXCEPT !.h.hunting = TRUE, !.h.retry = 0])
  <1>1. Ticked(s) =
          IF s.h.hunting
          THEN IF Stopped(s, FALSE) # {} THEN Stopped(s, FALSE) ELSE UNION {Hunt(u) : u \in {Resolve(s)}}
          ELSE IF ~MayRun(s.h) THEN {[s EXCEPT !.h.armed = Unarmed]}
          ELSE IF s.h.armed = Unarmed THEN {Followed([s EXCEPT !.h.armed = 0])}
          ELSE UNION {Look(u) : u \in {Followed(s)}}
    BY DEF Ticked, Then
  <1>2. UNION {Hunt(u) : u \in {Resolve(s)}} = Hunt(Resolve(s)) /\ UNION {Look(u) : u \in {Followed(s)}} = Look(Followed(s))
    <2> HIDE DEF Hunt, Look
    <2> QED BY Zenon
  <1> QED BY <1>1, <1>2 DEF Begun

LEMMA Rearmed ==
    ASSUME NEW s, NEW H, NEW T \in BOOLEAN, Good(s, H, T), NEW a \in {0, Unarmed}
    PROVE  LET t == [s EXCEPT !.h.armed = a]
           IN  Good(t, H, T) /\ Alike(s, t) /\ Same(t.h, s.h) /\ t.h.armed = a /\ t.h.foreign = s.h.foreign /\ t.L = s.L
  <1> DEFINE g == [s.h EXCEPT !.armed = a]
             t == [s EXCEPT !.h.armed = a]
  <1>0. s \in HuntState /\ s.h \in HuntCtx
    BY DEF Good, HuntState
  <1>1. t = [s EXCEPT !.h = g]
    BY <1>0 DEF HuntState
  <1>2. a \in Arms
    BY Ranges
  <1>3. g \in HuntCtx
    BY <1>0, <1>2 DEF HuntCtx
  <1>4. Same(g, s.h) /\ g.cc = s.h.cc /\ g.confirmed = s.h.confirmed /\ g.armed = a /\ g.foreign = s.h.foreign
    BY <1>0 DEF HuntCtx, Same
  <1> HIDE DEF t, g
  <1>5. Good(t, H, T) /\ t.h = g /\ t.L = s.L
    BY <1>1, <1>3, <1>4, Tuneless
  <1> QED BY <1>4, <1>5 DEF t, Alike

LEMMA HuntBegins ==
    ASSUME NEW s, NEW H, Good(s, H, FALSE), ~s.h.own, \A i \in 1 .. Len(s.L) : s.L[i].state # "pending"
    PROVE  LET t == [s EXCEPT !.h.hunting = TRUE, !.h.retry = 0]
           IN  Good(t, H, FALSE) /\ Alike(s, t) /\ t.h.hunting /\ ~t.h.own /\ t.h.armed = s.h.armed
  <1> DEFINE g == [s.h EXCEPT !.hunting = TRUE, !.retry = 0]
             t == [s EXCEPT !.h = g]
  <1>0. /\ s \in HuntState /\ s.h \in HuntCtx /\ LedgerInv(s.L) /\ PhaseInv(s.h, FALSE)
        /\ LandInv(s.h, s.L, s.receiver) /\ AttrInv(s.h, s.L, s.receiver, H, FALSE) /\ OrderInv(s.h, s.L)
    BY DEF Good, HuntState
  <1>1. [s EXCEPT !.h.hunting = TRUE, !.h.retry = 0] = t
    BY <1>0 DEF HuntState
  <1>2. g \in HuntCtx
    BY <1>0, Ranges DEF HuntCtx
  <1>3. /\ g.own = s.h.own /\ g.probe = s.h.probe /\ g.rx = s.h.rx /\ g.current = s.h.current
        /\ g.hunting = TRUE /\ g.cc = s.h.cc /\ g.confirmed = s.h.confirmed /\ g.armed = s.h.armed
    BY <1>0 DEF HuntCtx
  <1> HIDE DEF g
  <1>4. t \in HuntState /\ t.h = g /\ t.L = s.L /\ t.receiver = s.receiver
    BY <1>0, <1>2 DEF HuntState
  <1> HIDE DEF t
  <1>5. LandInv(g, s.L, s.receiver) /\ PhaseInv(g, FALSE) /\ AttrInv(g, s.L, s.receiver, H, FALSE)
    BY <1>0, <1>3 DEF LandInv, PhaseInv, AttrInv
  <1>a. OrderInv(g, s.L)
    BY <1>0 DEF OrderInv
  <1>6. Good(t, H, FALSE)
    BY <1>0, <1>4, <1>5, <1>a DEF Good
  <1> QED BY <1>1, <1>3, <1>4, <1>6 DEF Alike

(* When nothing is followed nothing of others is pending.                  *)
LEMMA NonePending ==
    ASSUME NEW s, NEW H, NEW T \in BOOLEAN, Good(s, H, T), ~s.h.own,
           LET newest == Newest(s.L) IN newest = 0 \/ Owned(s.L, newest) \/ s.L[newest].state # "pending"
    PROVE  \A i \in 1 .. Len(s.L) : s.L[i].state # "pending"
  <1>0. s.L \in Seq(Entry) /\ LandInv(s.h, s.L, s.receiver) /\ OrderInv(s.h, s.L)
    BY DEF Good, HuntState
  <1> DEFINE n == Newest(s.L)
  <1>1. CASE n = 0
    <2>1. Calm(s.L)
      BY <1>0, <1>1, NewestEffect
    <2> QED BY <2>1 DEF Calm
  <1>2. CASE n # 0
    <2>1. /\ n \in 1 .. Len(s.L) /\ s.L[n].state \in {"pending", "gated"}
          /\ \A i \in 1 .. Len(s.L) : s.L[i].state \in {"pending", "gated"} => i <= n
      BY <1>0, <1>2, NewestEffect
    <2>2. \A i \in 1 .. Len(s.L) : ~Owned(s.L, i)
      BY <1>0 DEF LandInv
    <2>3. s.L[n].state # "pending" /\ Open(s.L, n)
      BY <1>2, <2>1, <2>2 DEF Open
    <2> HIDE DEF n
    <2>4. ASSUME NEW i \in 1 .. Len(s.L), s.L[i].state = "pending"
          PROVE  FALSE
      <3>1. i <= n /\ i # n
        BY <2>1, <2>3, <2>4
      <3>2. i < n
        BY <2>1, <3>1
      <3> QED BY <1>0, <2>1, <2>2, <2>3, <2>4, <3>2 DEF OrderInv
    <2> QED BY <2>4
  <1> QED BY <1>1, <1>2

LEMMA TickKeeps ==
    ASSUME air \in Airs, NEW s, NEW H, tuned \in BOOLEAN, Good(s, H, tuned), Rigctl => ~s.h.own, NEW t \in Ticked(s)
    PROVE  Done(s, t, H)
  <1>0. s \in HuntState /\ s.h \in HuntCtx /\ PhaseInv(s.h, tuned)
    BY DEF Good, HuntState
  <1>1. CASE s.h.hunting /\ t \in Stopped(s, FALSE)
    <2>1. Passed(s, t, H, tuned)
      BY <1>1, StoppedKeeps, Zenon
    <2> QED BY <1>1, <2>1 DEF Passed, Done
  <1> DEFINE r == Resolve(s)
  <1>2. /\ Good(r, H, tuned) /\ Alike(s, r) /\ r.h.hunting = s.h.hunting /\ (Rigctl => ~r.h.own)
        /\ r.result \in {"resolved", "waiting"} /\ (r.result = "resolved" => ~r.h.own)
    BY ResolveKeeps, Zenon
  <1>3. CASE s.h.hunting /\ t = Resolve(s)
    BY <1>2, <1>3 DEF Done
  <1>4. CASE s.h.hunting /\ t \in ProbeFrom(Resolve(s)) /\ Resolve(s).result # "waiting"
    <2> HIDE DEF r
    <2>1. t \in ProbeFrom(r) /\ ~r.h.own /\ r.h.hunting
      BY <1>2, <1>4 DEF r
    <2>2. Passed(r, t, H, tuned)
      BY <1>2, <2>1, ProbeKeeps, Zenon
    <2> QED BY <1>2, <1>4, <2>2 DEF Passed, Done, Alike
  <1>5. CASE ~s.h.hunting /\ t = [s EXCEPT !.h.armed = Unarmed]
    <2>1. Good(t, H, tuned) /\ Alike(s, t) /\ Same(t.h, s.h)
      BY <1>5, Rearmed
    <2> QED BY <1>5, <2>1 DEF Done, Same
  <1>6. CASE ~s.h.hunting /\ t = Followed([s EXCEPT !.h.armed = 0])
    <2> DEFINE w == [s EXCEPT !.h.armed = 0]
    <2>1. Good(w, H, tuned) /\ Alike(s, w) /\ Same(w.h, s.h)
      BY Rearmed
    <2>2. t = Followed(w)
      BY <1>6
    <2> HIDE DEF w
    <2>3. Good(t, H, tuned) /\ Alike(w, t) /\ Same(t.h, w.h)
      BY <2>1, <2>2, FollowedKeeps, Zenon
    <2> QED BY <1>6, <2>1, <2>3 DEF Done, Same, Alike
  <1> DEFINE f == Followed(s)
  <1> DEFINE newest == Newest(s.L)
  <1>7. /\ Good(f, H, tuned) /\ Alike(s, f) /\ Same(f.h, s.h) /\ f.result \in {"none", "waiting"} /\ Watched(s, f.L)
        /\ f.result = "none" => newest = 0 \/ Owned(s.L, newest) \/ s.L[newest].state # "pending"
    BY FollowedKeeps, Zenon
  <1>8. CASE ~s.h.hunting /\ t = Followed(s)
    BY <1>7, <1>8 DEF Done, Same
  <1>9. CASE ~s.h.hunting /\ Begun(s) /\ t \in ProbeFrom([Followed(s) EXCEPT !.h.hunting = TRUE, !.h.retry = 0])
    <2> DEFINE w == [f EXCEPT !.h.hunting = TRUE, !.h.retry = 0]
    <2>1. t \in ProbeFrom(w)
      BY <1>9
    <2> HIDE DEF f
    <2>2. tuned = FALSE
      BY <1>9 DEF Begun, MayRun
    <2>3. f \in HuntState /\ f.h \in HuntCtx
      BY <1>7 DEF Good, HuntState
    <2>4. ~f.h.own
      BY <1>0, <1>7, <1>9 DEF PhaseInv, Same
    <2>a. \A i \in 1 .. Len(f.L) : f.L[i].state # "pending"
      <3>1. f.result = "none" /\ ~s.h.own
        BY <1>0, <1>7, <1>9 DEF Begun, f, PhaseInv
      <3>2. \A i \in 1 .. Len(s.L) : s.L[i].state # "pending"
        <4>1. newest = 0 \/ Owned(s.L, newest) \/ s.L[newest].state # "pending"
          BY <1>7, <3>1
        <4> QED BY <3>1, <4>1, NonePending
      <3> QED BY <1>7, <3>2 DEF Watched
    <2>5. Good(w, H, tuned) /\ Alike(f, w) /\ w.h.hunting /\ ~w.h.own
      BY <1>7, <2>2, <2>4, <2>a, HuntBegins, Zenon
    <2> HIDE DEF w
    <2>6. Passed(w, t, H, tuned)
      BY <2>1, <2>5, ProbeKeeps, Zenon
    <2> QED BY <1>7, <1>9, <2>5, <2>6 DEF Passed, Done, Alike
  <1> QED BY <1>1, <1>3, <1>4, <1>5, <1>6, <1>8, <1>9, TickedForm

-----------------------------------------------------------------------------
(* The invariant of the hunt at rest.                                      *)

Held(g, L, r, c, H, T) ==
    /\ g \in HuntCtx /\ L \in Seq(Entry) /\ r \in Freqs /\ c \in Freqs
    /\ LedgerInv(L) /\ OrderInv(g, L) /\ LandInv(g, L, r) /\ PhaseInv(g, T) /\ AttrInv(g, L, r, H, T)

HuntInv ==
    /\ air \in Airs /\ tuned \in BOOLEAN /\ cc \in HuntPlaces
    /\ Held(h, ledger, receiver, center, heard, tuned)
    /\ Rigctl => ~h.own
    /\ ControlWasHeard
    /\ typeD => owner = "nxdn" /\ ~h.confirmed /\ ~h.hunting

(* What the hunt leaves is trimmed.                                        *)
LEMMA TrimHeld ==
    ASSUME NEW g, NEW L, NEW r, NEW c, NEW H, NEW T, Held(g, L, r, c, H, T)
    PROVE  Held(g, Trim(L), r, c, H, T) /\ (Calm(L) => Calm(Trim(L)))
  <1> DEFINE M == Trim(L)
  <1>0. /\ g \in HuntCtx /\ L \in Seq(Entry) /\ r \in Freqs /\ c \in Freqs
        /\ LedgerInv(L) /\ OrderInv(g, L) /\ LandInv(g, L, r) /\ PhaseInv(g, T) /\ AttrInv(g, L, r, H, T)
    BY DEF Held
  <1>1. M \in Seq(Entry) /\ \E e : Embeds(M, L, e)
    BY <1>0, TrimEmbeds
  <1> HIDE DEF M
  <1>2. PICK e : Embeds(M, L, e)
    BY <1>1
  <1>3. Len(M) \in Nat /\ Len(L) \in Nat
    BY <1>0, <1>1
  <1>4. /\ \A n \in 1 .. Len(M) : e[n] \in 1 .. Len(L) /\ e[n] \in Kept(L) /\ M[n] = L[e[n]]
        /\ \A m, n \in 1 .. Len(M) : m < n => e[m] < e[n]
        /\ \A i \in Kept(L) : \E n \in 1 .. Len(M) : e[n] = i
    BY <1>2 DEF Embeds
  <1>5. \A n \in 1 .. Len(M) : Owned(M, n) <=> Owned(L, e[n])
    BY <1>4 DEF Owned
  <1>6. NoneLive(L) => NoneLive(M)
    BY <1>4 DEF NoneLive
  <1>7. Calm(L) => Calm(M)
    BY <1>4 DEF Calm
  <1>8. \A m, n \in 1 .. Len(M) : e[m] = e[n] => m = n
    <2> SUFFICES ASSUME NEW m \in 1 .. Len(M), NEW n \in 1 .. Len(M), e[m] = e[n], m # n
                 PROVE  FALSE
      OBVIOUS
    <2>1. e[m] \in 1 .. Len(L) /\ e[n] \in 1 .. Len(L) /\ (m < n => e[m] < e[n]) /\ (n < m => e[n] < e[m])
      BY <1>4
    <2>2. m < n \/ n < m
      BY <1>3
    <2> QED BY <1>3, <2>1, <2>2
  <1>9. LedgerInv(M)
    <2>1. \A n \in 1 .. Len(M) : M[n].state = "pending" => M[n].live
      BY <1>0, <1>4 DEF LedgerInv
    <2>2. \A m, n \in 1 .. Len(M) : Owned(M, m) /\ Owned(M, n) => m = n
      <3> SUFFICES ASSUME NEW m \in 1 .. Len(M), NEW n \in 1 .. Len(M), Owned(M, m), Owned(M, n)
                   PROVE  m = n
        OBVIOUS
      <3>1. e[m] = e[n]
        BY <1>0, <1>4, <1>5 DEF LedgerInv
      <3> QED BY <1>8, <3>1
    <2>3. Rigctl => \A n \in 1 .. Len(M) : Owned(M, n) => M[n].state # "pending"
      BY <1>0, <1>4, <1>5 DEF LedgerInv
    <2> QED BY <2>1, <2>2, <2>3 DEF LedgerInv
  <1>10. LandInv(g, M, r)
    <2>1. ASSUME NEW n \in 1 .. Len(M), Owned(M, n), g.probe # 0
          PROVE  n = Len(M) /\ M[n].freq = g.probe /\ (M[n].state = "ok" => r = g.probe /\ NoneLive(M))
      <3>1. e[n] = Len(L) /\ L[e[n]].freq = g.probe /\ (L[e[n]].state = "ok" => r = g.probe /\ NoneLive(L))
        BY <1>0, <1>4, <1>5, <2>1 DEF LandInv
      <3>2. n = Len(M)
        <4> SUFFICES ASSUME n # Len(M)
                     PROVE  FALSE
          OBVIOUS
        <4>1. n + 1 \in 1 .. Len(M) /\ n < n + 1
          BY <1>3
        <4>2. e[n] < e[n + 1] /\ e[n + 1] \in 1 .. Len(L)
          BY <1>4, <4>1
        <4> QED BY <1>3, <3>1, <4>2
      <3> QED BY <1>4, <1>6, <3>1, <3>2
    <2>2. \A n \in 1 .. Len(M) : Owned(M, n) => g.own
      BY <1>0, <1>4, <1>5 DEF LandInv
    <2> QED BY <2>1, <2>2 DEF LandInv
  <1>11. AttrInv(g, M, r, H, T)
    BY <1>0, <1>6 DEF AttrInv
  <1>a. OrderInv(g, M)
    <2>1. \A n \in 1 .. Len(M) : (Marked(M, n) <=> Marked(L, e[n])) /\ (Open(M, n) <=> Open(L, e[n]))
      BY <1>4 DEF Marked, Open
    <2>2. \A m, n \in 1 .. Len(M) : m < n /\ Owned(M, m) => ~Open(M, n)
      BY <1>0, <1>4, <1>5, <2>1 DEF OrderInv
    <2>3. \A m, n \in 1 .. Len(M) : m < n /\ M[m].state = "pending" /\ ~Owned(M, m) /\ Open(M, n) =>
            M[n].state = "pending" /\ ~Owned(M, n)
      <3> SUFFICES ASSUME NEW m \in 1 .. Len(M), NEW n \in 1 .. Len(M), m < n, M[m].state = "pending", ~Owned(M, m),
                          Open(M, n)
                   PROVE  M[n].state = "pending" /\ ~Owned(M, n)
        OBVIOUS
      <3>1. /\ e[m] \in 1 .. Len(L) /\ e[n] \in 1 .. Len(L) /\ e[m] < e[n] /\ L[e[m]].state = "pending"
            /\ ~Owned(L, e[m]) /\ Open(L, e[n])
        BY <1>4, <1>5, <2>1
      <3>2. L[e[n]].state = "pending" /\ ~Owned(L, e[n])
        BY <1>0, <3>1 DEF OrderInv
      <3> QED BY <1>4, <1>5, <3>2
    <2>4. \A m, n \in 1 .. Len(M) : Marked(M, m) /\ Marked(M, n) => m = n
      <3> SUFFICES ASSUME NEW m \in 1 .. Len(M), NEW n \in 1 .. Len(M), Marked(M, m), Marked(M, n)
                   PROVE  m = n
        OBVIOUS
      <3>1. e[m] = e[n]
        BY <1>0, <1>4, <2>1 DEF OrderInv
      <3> QED BY <1>8, <3>1
    <2>5. g.hunting => \A n \in 1 .. Len(M) : M[n].state = "pending" => Owned(M, n)
      BY <1>0, <1>4, <1>5 DEF OrderInv
    <2> QED BY <2>2, <2>3, <2>4, <2>5 DEF OrderInv
  <1>12. Held(g, M, r, c, H, T)
    BY <1>0, <1>1, <1>9, <1>10, <1>11, <1>a DEF Held
  <1> QED BY <1>7, <1>12 DEF M

LEMMA GoodHeld ==
    ASSUME NEW s, NEW H, NEW T, Good(s, H, T)
    PROVE  Held(s.h, s.L, s.receiver, s.center, H, T)
  <1>1. s.h \in HuntCtx /\ s.L \in Seq(Entry) /\ s.receiver \in Freqs /\ s.center \in Freqs
    BY DEF Good, HuntState
  <1> QED BY <1>1 DEF Good, Held

LEMMA HereGood ==
    ASSUME HuntInv
    PROVE  /\ Good(Here, heard, tuned) /\ Here.h = h /\ Here.L = ledger /\ Here.receiver = receiver
           /\ Here.center = center
  <1>1. /\ Here.h = h /\ Here.L = ledger /\ Here.receiver = receiver /\ Here.center = center /\ Here \in HuntState
    BY DEF HuntInv, Held, Here, HuntState
  <1> QED BY <1>1 DEF HuntInv, Held, Good

(* The reception does not change, and the invariant is carried over.       *)
LEMMA Carried ==
    ASSUME HuntInv, air' = air, tuned' \in BOOLEAN, cc' \in HuntPlaces,
           Held(h', ledger', receiver', center', heard', tuned'), Rigctl => ~h'.own,
           cc' \in heard' \cup {0}, h'.cc \in heard' \cup {0},
           typeD' => owner' = "nxdn" /\ ~h'.confirmed /\ ~h'.hunting
    PROVE  HuntInv'
  <1>1. air' \in Airs /\ Rigctl' = Rigctl /\ HuntCtx' = HuntCtx
    BY DEF HuntInv, Rigctl, HuntCtx, Rows, Map
  <1>2. LedgerInv(ledger)' = LedgerInv(ledger')
    BY <1>1 DEF LedgerInv, Owned
  <1>3. Held(h, ledger, receiver, center, heard, tuned)'
    BY <1>1, <1>2 DEF Held, LandInv, PhaseInv, AttrInv, OrderInv, Owned, Marked, Open, NoneLive
  <1>4. ControlWasHeard'
    BY DEF ControlWasHeard
  <1> QED BY <1>1, <1>3, <1>4 DEF HuntInv, HuntPlaces

(* What a step of the hunt leaves.                                         *)
LEMMA LeavesHeld ==
    ASSUME NEW s, Leaves(s), NEW H, NEW T, Good(s, H, T)
    PROVE  Held(h', ledger', receiver', center', H, T) /\ h' = s.h /\ (Calm(s.L) => Calm(ledger'))
  <1>1. h' = s.h /\ ledger' = Trim(s.L) /\ receiver' = s.receiver /\ center' = s.center
    BY DEF Leaves
  <1>2. Held(s.h, s.L, s.receiver, s.center, H, T)
    BY GoodHeld
  <1>3. Held(s.h, Trim(s.L), s.receiver, s.center, H, T) /\ (Calm(s.L) => Calm(Trim(s.L)))
    BY <1>2, TrimHeld
  <1> QED BY <1>1, <1>3

-----------------------------------------------------------------------------
(* The steps.                                                              *)

(* No tune is unresolved behind a hunt that ends.                          *)
Settled == h.hunting /\ ~h'.hunting /\ trunk /\ ~boundary /\ ~tuned' => Calm(ledger')

LEMMA TickStep == ASSUME HuntInv, Tick PROVE HuntInv' /\ Settled
  <1>1. PICK s \in Ticked(Here) : Leaves(s)
    <2>1. Then({Here}, Ticked) = UNION {Ticked(s) : s \in {Here}}
      BY DEF Then
    <2>2. UNION {Ticked(s) : s \in {Here}} = Ticked(Here)
      BY Zenon
    <2> QED BY <2>1, <2>2 DEF Tick
  <1>2. /\ air' = air /\ tuned' = tuned /\ cc' = cc /\ heard' = heard /\ typeD' = typeD /\ owner' = owner
    BY DEF Tick, records, switches
  <1>3. /\ Good(Here, heard, tuned) /\ Here.h = h
    BY HereGood
  <1>4. air \in Airs /\ tuned \in BOOLEAN /\ cc \in HuntPlaces /\ (Rigctl => ~Here.h.own)
    BY <1>3 DEF HuntInv
  <1>5. Done(Here, s, heard)
    BY <1>3, <1>4, TickKeeps
  <1>6. Good(s, heard, tuned)
    BY <1>5 DEF Done
  <1>7. Held(h', ledger', receiver', center', heard, tuned) /\ h' = s.h /\ (Calm(s.L) => Calm(ledger'))
    BY <1>1, <1>6, LeavesHeld
  <1>8. /\ h'.cc = h.cc /\ h'.confirmed = h.confirmed /\ (Rigctl => ~h'.own)
        /\ h.hunting /\ ~h'.hunting => ~trunk \/ boundary \/ Calm(s.L)
        /\ ~h.hunting /\ h'.hunting => MayRun(h)
    BY <1>3, <1>5, <1>7 DEF Done, Alike, Begun
  <1>9. typeD' => owner' = "nxdn" /\ ~h'.confirmed /\ ~h'.hunting
    BY <1>2, <1>8 DEF HuntInv, MayRun
  <1>10. cc' \in heard' \cup {0} /\ h'.cc \in heard' \cup {0}
    BY <1>2, <1>8 DEF HuntInv, ControlWasHeard
  <1>11. HuntInv'
    BY <1>2, <1>4, <1>7, <1>8, <1>9, <1>10, Carried
  <1> QED BY <1>7, <1>8, <1>11 DEF Settled

(* A change of the hunt outside of a tick.                                 *)
LEMMA SameHeld ==
    ASSUME NEW g, NEW L, NEW r, NEW c, NEW H, NEW T, Held(g, L, r, c, H, T), NEW k \in HuntCtx, Same(k, g)
    PROVE  Held(k, L, r, c, H, T)
  <1>1. OrderInv(k, L)
    BY OrderSame DEF Held, Same
  <1> QED BY <1>1 DEF Held, LandInv, PhaseInv, AttrInv, Same

(* A decoder pass: everything gets older.                                  *)
LEMMA PassEffect ==
    ASSUME HuntInv, Pass
    PROVE  /\ ledger' \in Seq(Entry) /\ Len(ledger') = Len(ledger)
           /\ \A i \in 1 .. Len(ledger) :
                 /\ ledger'[i].state = ledger[i].state /\ ledger'[i].live = ledger[i].live
                 /\ ledger'[i].freq = ledger[i].freq /\ ledger'[i].marks = ledger[i].marks
                 /\ ledger'[i].age = IF ledger[i].state = "ok" THEN Older(ledger[i].age) ELSE ledger[i].age
           /\ h' \in HuntCtx /\ Same(h', h) /\ h'.cc = h.cc /\ h'.confirmed = h.confirmed /\ h'.foreign = h.foreign
           /\ h'.armed = IF h.armed = Unarmed THEN Unarmed ELSE Older(h.armed)
  <1> DEFINE q == [i \in DOMAIN ledger |-> [ledger[i] EXCEPT !.age = IF ledger[i].state = "ok" THEN Older(@) ELSE @]]
             E(i) == [ledger[i] EXCEPT !.age = IF ledger[i].state = "ok" THEN Older(@) ELSE @]
  <1>0. /\ h \in HuntCtx /\ ledger \in Seq(Entry) /\ receiver \in Freqs /\ center \in Freqs
        /\ LedgerInv(ledger) /\ LandInv(h, ledger, receiver) /\ PhaseInv(h, tuned)
        /\ AttrInv(h, ledger, receiver, heard, tuned) /\ OrderInv(h, ledger)
    BY DEF HuntInv, Held
  <1>1. /\ h' = [h EXCEPT !.armed = IF @ = Unarmed THEN @ ELSE Older(@),
                          !.retry = Max0(@ - 1), !.deadline = Max0(@ - 1)]
        /\ ledger' = q
        /\ air' = air /\ tuned' = tuned /\ cc' = cc /\ heard' = heard /\ typeD' = typeD /\ owner' = owner
        /\ receiver' = receiver /\ center' = center
    BY DEF Pass, switches
  <1>2. \A a \in Ages : Older(a) \in Ages
    BY Sizes DEF Older, Ages
  <1>3. ASSUME NEW i \in 1 .. Len(ledger)
        PROVE  /\ E(i) \in Entry /\ E(i).state = ledger[i].state /\ E(i).live = ledger[i].live
               /\ E(i).freq = ledger[i].freq /\ E(i).marks = ledger[i].marks
               /\ E(i).age = IF ledger[i].state = "ok" THEN Older(ledger[i].age) ELSE ledger[i].age
    <2>1. ledger[i] \in Entry
      BY <1>0
    <2>2. ledger[i].age \in Ages
      BY <2>1 DEF Entry
    <2> DEFINE a == IF ledger[i].state = "ok" THEN Older(ledger[i].age) ELSE ledger[i].age
    <2>3. a \in Ages
      BY <1>2, <2>2
    <2>4. E(i) = [ledger[i] EXCEPT !.age = a]
      OBVIOUS
    <2> HIDE DEF a, E
    <2>5. /\ E(i) \in Entry /\ E(i).state = ledger[i].state /\ E(i).live = ledger[i].live
          /\ E(i).freq = ledger[i].freq /\ E(i).marks = ledger[i].marks /\ E(i).age = a
      BY <2>1, <2>3, <2>4 DEF Entry
    <2> QED BY <2>5 DEF a
  <1>4. q \in [1 .. Len(ledger) -> Entry] /\ \A i \in 1 .. Len(ledger) : q[i] = E(i)
    <2>1. DOMAIN ledger = 1 .. Len(ledger)
      BY <1>0
    <2>2. q = [i \in 1 .. Len(ledger) |-> E(i)]
      BY <2>1
    <2> HIDE DEF q, E
    <2> QED BY <1>3, <2>2
  <1> HIDE DEF q
  <1>5. /\ ledger' \in Seq(Entry) /\ Len(ledger') = Len(ledger)
        /\ \A i \in 1 .. Len(ledger) :
              /\ ledger'[i].state = ledger[i].state /\ ledger'[i].live = ledger[i].live
              /\ ledger'[i].freq = ledger[i].freq /\ ledger'[i].marks = ledger[i].marks
              /\ ledger'[i].age = IF ledger[i].state = "ok" THEN Older(ledger[i].age) ELSE ledger[i].age
    <2>1. q \in Seq(Entry) /\ Len(q) = Len(ledger)
      BY <1>0, <1>4, Mapped
    <2> HIDE DEF E
    <2> QED BY <1>1, <1>3, <1>4, <2>1
  <1>6. h' \in HuntCtx
    <2>1. h.armed \in Arms /\ h.retry \in Retries /\ h.deadline \in Waits
      BY <1>0 DEF HuntCtx
    <2> DEFINE a == IF h.armed = Unarmed THEN h.armed ELSE Older(h.armed)
               b == Max0(h.retry - 1)
               d == Max0(h.deadline - 1)
    <2>2. a \in Arms
      BY <2>1, Sizes DEF Arms, Older, Unarmed
    <2>3. b \in Retries /\ d \in Waits
      BY <2>1, Sizes DEF Retries, Waits, Max0
    <2>4. h' = [h EXCEPT !.armed = a, !.retry = b, !.deadline = d]
      BY <1>1
    <2> HIDE DEF a, b, d
    <2> QED BY <1>0, <2>2, <2>3, <2>4 DEF HuntCtx
  <1>7. Same(h', h) /\ h'.cc = h.cc /\ h'.confirmed = h.confirmed
    BY <1>0, <1>1 DEF HuntCtx, Same
  <1>8. h'.foreign = h.foreign /\ h'.armed = IF h.armed = Unarmed THEN Unarmed ELSE Older(h.armed)
    BY <1>0, <1>1 DEF HuntCtx
  <1> QED BY <1>5, <1>6, <1>7, <1>8

LEMMA PassStep == ASSUME HuntInv, Pass PROVE HuntInv' /\ Settled
  <1>0. /\ h \in HuntCtx /\ ledger \in Seq(Entry) /\ receiver \in Freqs /\ center \in Freqs
        /\ LedgerInv(ledger) /\ LandInv(h, ledger, receiver) /\ PhaseInv(h, tuned)
        /\ AttrInv(h, ledger, receiver, heard, tuned) /\ OrderInv(h, ledger)
    BY DEF HuntInv, Held
  <1>1. /\ air' = air /\ tuned' = tuned /\ cc' = cc /\ heard' = heard /\ typeD' = typeD /\ owner' = owner
        /\ receiver' = receiver /\ center' = center
    BY DEF Pass, switches
  <1>5. /\ ledger' \in Seq(Entry) /\ Len(ledger') = Len(ledger)
        /\ \A i \in 1 .. Len(ledger) :
              /\ ledger'[i].state = ledger[i].state /\ ledger'[i].live = ledger[i].live
              /\ ledger'[i].freq = ledger[i].freq /\ ledger'[i].marks = ledger[i].marks
    BY PassEffect
  <1>6. h' \in HuntCtx
    BY PassEffect
  <1>7. Same(h', h) /\ h'.cc = h.cc /\ h'.confirmed = h.confirmed
    BY PassEffect
  <1>8. Held(h, ledger', receiver, center, heard, tuned)
    <2>1. NoneLive(ledger) => NoneLive(ledger')
      BY <1>5 DEF NoneLive
    <2>2. LedgerInv(ledger')
      BY <1>0, <1>5 DEF LedgerInv, Owned
    <2>3. LandInv(h, ledger', receiver)
      BY <1>0, <1>5, <2>1 DEF LandInv, Owned
    <2>4. AttrInv(h, ledger', receiver, heard, tuned)
      BY <1>0, <2>1 DEF AttrInv
    <2>5. OrderInv(h, ledger')
      BY <1>0, <1>5, OrderKept
    <2> QED BY <1>0, <1>5, <2>2, <2>3, <2>4, <2>5 DEF Held
  <1>9. Held(h', ledger', receiver', center', heard', tuned')
    BY <1>1, <1>6, <1>7, <1>8, SameHeld
  <1>10. /\ tuned' \in BOOLEAN /\ cc' \in HuntPlaces /\ (Rigctl => ~h'.own) /\ cc' \in heard' \cup {0}
         /\ h'.cc \in heard' \cup {0} /\ (typeD' => owner' = "nxdn" /\ ~h'.confirmed /\ ~h'.hunting)
    BY <1>1, <1>7 DEF HuntInv, ControlWasHeard, Same
  <1>11. HuntInv'
    BY <1>1, <1>9, <1>10, Carried
  <1> QED BY <1>7, <1>11 DEF Settled, Same

(* nxdn_cc_hunt_note_control(): where control is heard.                    *)
HeardNow == heard \cup {receiver} \cup (IF Astray THEN {center} ELSE {})

LEMMA TunerHeard ==
    ASSUME HuntInv, NEW f \in TunerFrequency(Here)
    PROVE  f \in HuntPlaces /\ (f # 0 => f \in HeardNow)
  <1>1. receiver \in Freqs /\ center \in Freqs
    BY DEF HuntInv, Held
  <1>2. f \in (IF Rigctl THEN {receiver, 0} ELSE {center})
    BY HereGood DEF TunerFrequency
  <1> QED BY <1>1, <1>2, Ranges DEF HeardNow, Astray

LEMMA GateCalm == ASSUME ledger \in Seq(Entry) PROVE GateOpen <=> Calm(ledger)
  BY DEF GateOpen, Calm, Unresolved

LEMMA MoreHeard ==
    ASSUME NEW s, NEW H, NEW K, NEW T, Good(s, H, T), H \subseteq K
    PROVE  Good(s, K, T)
  BY DEF Good, AttrInv

NotedWell(s) ==
    /\ s \in HuntState /\ s.receiver = receiver /\ s.center = center
    /\ s.h.own = FALSE /\ s.h.hunting = FALSE /\ s.h.park = 0 /\ s.h.armed = 0 /\ s.h.confirmed = TRUE
    /\ s.h.rx \in HuntPlaces /\ (s.h.rx # 0 => s.h.rx \in HeardNow)
    /\ s.h.cc \in HeardNow \cup {0}
    /\ LedgerInv(s.L) /\ OrderInv(s.h, s.L) /\ (\A i \in 1 .. Len(s.L) : ~Owned(s.L, i)) /\ Calm(s.L)

LEMMA ResolvedHere ==
    ASSUME HuntInv, GateOpen
    PROVE  LET r == Resolve(Here)
           IN  /\ Good(r, heard, tuned) /\ Alike(Here, r) /\ r.receiver = receiver /\ r.center = center
               /\ ~r.h.own /\ Calm(r.L) /\ \A i \in 1 .. Len(r.L) : ~Owned(r.L, i)
  <1> DEFINE r == Resolve(Here)
  <1>1. /\ Good(Here, heard, tuned) /\ Here.L = ledger /\ Here.receiver = receiver /\ Here.center = center
    BY HereGood
  <1>2. Calm(ledger) /\ tuned \in BOOLEAN
    BY GateCalm DEF HuntInv, Held
  <1>3. /\ Good(r, heard, tuned) /\ Alike(Here, r) /\ r.receiver = receiver /\ r.center = center
        /\ r.result \in {"resolved", "waiting"} /\ (r.result = "resolved" => ~r.h.own)
        /\ r.result = "waiting" => \E i \in 1 .. Len(ledger) : ledger[i].state = "pending"
        /\ \A i \in 1 .. Len(r.L) : r.L[i].state \in {"pending", "gated"} =>
              i \in 1 .. Len(ledger) /\ ledger[i].state \in {"pending", "gated"}
    BY <1>1, <1>2, ResolveKeeps
  <1> HIDE DEF r
  <1>4. ~r.h.own /\ Calm(r.L)
    BY <1>2, <1>3 DEF Calm
  <1>5. LandInv(r.h, r.L, r.receiver)
    BY <1>3 DEF Good
  <1>6. \A i \in 1 .. Len(r.L) : ~Owned(r.L, i)
    BY <1>4, <1>5 DEF LandInv
  <1> QED BY <1>3, <1>4, <1>6 DEF r

LEMMA NotedKeeps ==
    ASSUME HuntInv, GateOpen, NEW s \in Noted(Here)
    PROVE  NotedWell(s)
  <1> DEFINE r == Resolve(Here)
  <1>1. PICK u \in Attributed(r) :
           s = [u EXCEPT !.h.hunting = FALSE, !.h.park = 0, !.h.retry = 0, !.h.armed = 0, !.h.confirmed = TRUE,
                         !.h.probe = IF u.h.rx > 0 THEN u.h.rx ELSE @,
                         !.h.attempt = IF u.h.rx > 0 THEN u.h.rx ELSE @,
                         !.h.cc = IF u.h.rx > 0 THEN u.h.rx ELSE @]
    BY Zenon DEF Noted
  <1>2. /\ Good(r, heard, tuned) /\ Alike(Here, r) /\ r.receiver = receiver /\ r.center = center
        /\ ~r.h.own /\ Calm(r.L) /\ \A i \in 1 .. Len(r.L) : ~Owned(r.L, i)
    BY ResolvedHere
  <1>3. (u = r /\ r.h.current) \/ \E f \in TunerFrequency(r) : u = [r EXCEPT !.h.rx = f, !.h.current = TRUE]
    BY <1>1 DEF Attributed
  <1> HIDE DEF r
  <1>4. r \in HuntState /\ r.h \in HuntCtx /\ LedgerInv(r.L) /\ AttrInv(r.h, r.L, receiver, heard, tuned)
        /\ r.h.rx \in HuntPlaces /\ OrderInv(r.h, r.L) /\ r.L \in Seq(Entry)
    BY <1>2 DEF Good, HuntState, HuntCtx
  <1>5. r.h.cc = h.cc
    BY <1>2, HereGood DEF Alike
  <1>6. /\ u \in HuntState /\ u.h \in HuntCtx /\ u.L = r.L /\ u.receiver = receiver /\ u.center = center
        /\ u.h.own = FALSE /\ u.h.cc = h.cc
        /\ u.h.rx \in HuntPlaces /\ (u.h.rx # 0 => u.h.rx \in HeardNow)
    <2>1. CASE u = r /\ r.h.current
      <3>1. r.h.rx # 0 => r.h.rx \in HeardNow
        BY <1>4, <2>1 DEF AttrInv, HeardNow
      <3>2. r.h.own = FALSE
        BY <1>2, <1>4 DEF HuntCtx
      <3> QED BY <1>2, <1>4, <1>5, <2>1, <3>1, <3>2
    <2>2. ASSUME NEW f \in TunerFrequency(r), u = [r EXCEPT !.h.rx = f, !.h.current = TRUE]
          PROVE  /\ u \in HuntState /\ u.h \in HuntCtx /\ u.L = r.L /\ u.receiver = receiver /\ u.center = center
                 /\ u.h.own = FALSE /\ u.h.cc = h.cc
                 /\ u.h.rx \in HuntPlaces /\ (u.h.rx # 0 => u.h.rx \in HeardNow)
      <3> DEFINE g == [r.h EXCEPT !.rx = f, !.current = TRUE]
      <3>1. f \in HuntPlaces /\ (f # 0 => f \in HeardNow)
        <4>1. TunerFrequency(r) = TunerFrequency(Here)
          BY <1>2, HereGood DEF TunerFrequency
        <4> QED BY <2>2, <4>1, TunerHeard
      <3>2. u = [r EXCEPT !.h = g]
        BY <1>4, <2>2 DEF HuntState
      <3>3. g \in HuntCtx
        BY <1>4, <3>1 DEF HuntCtx
      <3>4. g.own = FALSE /\ g.cc = h.cc /\ g.rx = f
        BY <1>2, <1>4, <1>5 DEF HuntCtx
      <3> HIDE DEF g
      <3>5. u \in HuntState /\ u.h = g /\ u.L = r.L /\ u.receiver = receiver /\ u.center = center
        BY <1>2, <1>4, <3>2, <3>3 DEF HuntState
      <3> QED BY <3>1, <3>3, <3>4, <3>5
    <2> QED BY <1>3, <2>1, <2>2
  <1> DEFINE p == IF u.h.rx > 0 THEN u.h.rx ELSE u.h.probe
             a == IF u.h.rx > 0 THEN u.h.rx ELSE u.h.attempt
             c == IF u.h.rx > 0 THEN u.h.rx ELSE u.h.cc
             g1 == [u.h EXCEPT !.hunting = FALSE, !.park = 0, !.retry = 0, !.armed = 0, !.confirmed = TRUE]
             g == [g1 EXCEPT !.probe = p, !.attempt = a, !.cc = c]
  <1>7. s = [u EXCEPT !.h = g]
    BY <1>1, <1>6 DEF HuntState, HuntCtx
  <1>8. p \in HuntPlaces /\ a \in HuntPlaces /\ c \in HuntPlaces /\ c \in HeardNow \cup {0}
    <2>1. u.h.probe \in HuntPlaces /\ u.h.attempt \in HuntPlaces /\ u.h.cc \in HuntPlaces /\ 0 \in HuntPlaces
      BY <1>6, Ranges DEF HuntCtx
    <2>2. h.cc \in heard \cup {0}
      BY DEF HuntInv, ControlWasHeard
    <2>3. u.h.rx > 0 => u.h.rx # 0
      BY <1>6, Sizes DEF HuntPlaces
    <2>4. heard \subseteq HeardNow
      BY DEF HeardNow
    <2> QED BY <1>6, <2>1, <2>2, <2>3, <2>4
  <1> HIDE DEF p, a, c
  <1>9. g1 \in HuntCtx
    BY <1>6, Ranges DEF HuntCtx
  <1>10. /\ g1.own = FALSE /\ g1.hunting = FALSE /\ g1.park = 0 /\ g1.armed = 0 /\ g1.confirmed = TRUE
         /\ g1.rx = u.h.rx
    BY <1>6 DEF HuntCtx
  <1> HIDE DEF g1
  <1>11. g \in HuntCtx
    BY <1>8, <1>9 DEF HuntCtx
  <1>12. /\ g.own = FALSE /\ g.hunting = FALSE /\ g.park = 0 /\ g.armed = 0 /\ g.confirmed = TRUE
         /\ g.rx = u.h.rx /\ g.cc = c
    BY <1>9, <1>10 DEF HuntCtx
  <1> HIDE DEF g
  <1>13. s \in HuntState /\ s.h = g /\ s.L = r.L /\ s.receiver = receiver /\ s.center = center
    BY <1>6, <1>7, <1>11 DEF HuntState
  <1>14. OrderInv(g, r.L)
    BY <1>4, <1>12, OrderSame
  <1> QED BY <1>2, <1>4, <1>6, <1>8, <1>12, <1>13, <1>14 DEF NotedWell

LEMMA NotedGood ==
    ASSUME NEW s, NotedWell(s), NEW T \in BOOLEAN
    PROVE  Good(s, HeardNow, T)
  <1>1. LandInv(s.h, s.L, s.receiver) /\ PhaseInv(s.h, T) /\ AttrInv(s.h, s.L, s.receiver, HeardNow, T)
    BY DEF NotedWell, LandInv, PhaseInv, AttrInv
  <1> QED BY <1>1 DEF NotedWell, Good

(* Control is heard at s.                                                  *)
LEMMA NamesWell ==
    ASSUME HuntInv, NEW s, NotedWell(s), Names(s)
    PROVE  /\ heard' = HeardNow /\ cc' \in HuntPlaces /\ cc' \in heard' \cup {0} /\ typeD' = FALSE
           /\ owner' = "nxdn"
  <1>1. cc' = (IF s.h.rx > 0 THEN s.h.rx ELSE cc) /\ heard' = HeardNow /\ owner' = "nxdn" /\ typeD' = FALSE
    BY DEF Names, HeardNow
  <1>2. s.h.rx \in HuntPlaces /\ (s.h.rx # 0 => s.h.rx \in HeardNow)
    BY DEF NotedWell
  <1>3. cc \in HuntPlaces /\ cc \in HeardNow \cup {0}
    BY DEF HuntInv, ControlWasHeard, HeardNow
  <1>4. s.h.rx > 0 => s.h.rx # 0
    BY <1>2, Sizes DEF HuntPlaces
  <1> QED BY <1>1, <1>2, <1>3, <1>4

LEMMA CacStep == ASSUME HuntInv, Cac PROVE HuntInv' /\ Settled
  <1>1. PICK s \in Noted(Here) : Leaves(s) /\ Names(s)
    BY DEF Cac
  <1>2. GateOpen /\ air' = air /\ tuned' = tuned /\ tuned \in BOOLEAN
    BY DEF Cac, Frame, HuntInv
  <1>3. NotedWell(s)
    BY <1>2, NotedKeeps
  <1>4. heard' = HeardNow /\ cc' \in HuntPlaces /\ cc' \in heard' \cup {0} /\ typeD' = FALSE
    BY <1>1, <1>3, NamesWell
  <1>5. Held(h', ledger', receiver', center', heard', tuned') /\ h' = s.h /\ (Calm(s.L) => Calm(ledger'))
    <2>1. Good(s, HeardNow, tuned)
      BY <1>2, <1>3, NotedGood
    <2>2. Held(h', ledger', receiver', center', HeardNow, tuned) /\ h' = s.h /\ (Calm(s.L) => Calm(ledger'))
      BY <1>1, <2>1, LeavesHeld
    <2> QED BY <1>2, <1>4, <2>2
  <1>6. ~h'.own /\ h'.cc \in heard' \cup {0} /\ Calm(ledger')
    BY <1>3, <1>4, <1>5 DEF NotedWell
  <1>7. HuntInv'
    BY <1>2, <1>4, <1>5, <1>6, Carried
  <1> QED BY <1>6, <1>7 DEF Settled

(* A tune of others, asked for while the hunt has none.                    *)
LEMMA AskKeeps ==
    ASSUME NEW s, NEW H, NEW T \in BOOLEAN, NEW Q \in BOOLEAN, Good(s, H, T), ~s.h.own, ~s.h.hunting,
           s.h.rx # 0 /\ s.h.current => s.h.rx \in H, NEW f \in Freqs, NEW t \in RequestTune(s, f, {})
    PROVE  /\ Good(t, H, Q) /\ ~t.h.own /\ t.h.hunting = s.h.hunting /\ t.h.cc = s.h.cc
           /\ t.h.confirmed = s.h.confirmed /\ t.h.armed = s.h.armed
           /\ t.result # "ok" => t.L = s.L
  <1>0. /\ s \in HuntState /\ s.h \in HuntCtx /\ s.L \in Seq(Entry) /\ LedgerInv(s.L) /\ PhaseInv(s.h, T)
        /\ LandInv(s.h, s.L, s.receiver) /\ OrderInv(s.h, s.L) /\ Len(s.L) \in Nat
    BY DEF Good, HuntState
  <1>1. Requested(s, f, {}, t)
    <2>1. {} \in SUBSET {"own", "foreign"}
      OBVIOUS
    <2> QED BY <1>0, <2>1, RequestEffect, Zenon
  <1>2. \A i \in 1 .. Len(s.L) : ~Owned(s.L, i)
    BY <1>0 DEF LandInv
  <1>3. /\ t \in HuntState /\ (t.result # "ok" => t.L = s.L)
        /\ t.h = s.h \/ t.h = [s.h EXCEPT !.current = FALSE]
    BY <1>1 DEF Requested
  <1>4. /\ t.h.own = s.h.own /\ t.h.hunting = s.h.hunting /\ t.h.cc = s.h.cc /\ t.h.confirmed = s.h.confirmed
        /\ t.h.rx = s.h.rx /\ (t.h.current => s.h.current) /\ t.h.park = s.h.park /\ t.h.armed = s.h.armed
    BY <1>0, <1>3 DEF HuntCtx
  <1>5. LedgerInv(t.L) /\ \A i \in 1 .. Len(t.L) : ~Owned(t.L, i)
    <2>1. CASE t.result = "refused"
      BY <1>0, <1>1, <1>2, <2>1 DEF Requested
    <2>2. CASE t.result = "ok"
      <3> DEFINE n == Len(s.L) + 1
      <3>1. /\ Len(t.L) = n /\ t.L[n].marks = {}
            /\ \A i \in 1 .. Len(s.L) :
                  /\ t.L[i].marks = s.L[i].marks /\ t.L[i].live = s.L[i].live
                  /\ t.L[i].state = s.L[i].state \/ t.L[i].state = "failed"
            /\ t.L[n].state = "ok" \/ (t.L[n].state = "pending" /\ t.L[n].live = TRUE)
        BY <1>1, <2>2 DEF Requested
      <3>2. \A i \in 1 .. n : i \in 1 .. Len(s.L) \/ i = n
        BY <1>0
      <3>3. \A i \in 1 .. n : ~Owned(t.L, i)
        BY <1>2, <3>1, <3>2 DEF Owned
      <3>4. \A i \in 1 .. n : t.L[i].state = "pending" => t.L[i].live
        BY <1>0, <3>1, <3>2 DEF LedgerInv
      <3> QED BY <3>1, <3>3, <3>4 DEF LedgerInv
    <2> QED BY <1>1, <2>1, <2>2 DEF Requested
  <1>6. LandInv(t.h, t.L, t.receiver) /\ PhaseInv(t.h, Q) /\ AttrInv(t.h, t.L, t.receiver, H, Q)
    BY <1>0, <1>4, <1>5 DEF LandInv, PhaseInv, AttrInv
  <1>a. OrderInv(t.h, t.L)
    <2>1. CASE t.result = "refused"
      <3>1. t.L = s.L
        BY <1>1, <2>1 DEF Requested
      <3> QED BY <1>0, <1>4, <3>1, OrderSame
    <2>2. CASE t.result = "ok"
      <3> DEFINE n == Len(s.L) + 1
      <3>1. /\ Len(t.L) = n /\ t.L[n].marks = {}
            /\ \A i \in 1 .. Len(s.L) :
                  /\ t.L[i].marks = s.L[i].marks
                  /\ t.L[i].state = s.L[i].state \/ t.L[i].state = "failed"
            /\ t.L[n].state = "ok" \/ t.L[n].state = "pending"
        BY <1>1, <2>2 DEF Requested
      <3>2. \A i \in 1 .. n : i \in 1 .. Len(s.L) \/ i = n
        BY <1>0
      <3>3. \A i \in 1 .. Len(s.L) : Open(t.L, i) => Open(s.L, i) /\ t.L[i].state = s.L[i].state
        BY <3>1 DEF Open
      <3>4. \A i, j \in 1 .. n : i < j /\ t.L[i].state = "pending" /\ ~Owned(t.L, i) /\ Open(t.L, j) =>
              t.L[j].state = "pending" /\ ~Owned(t.L, j)
        <4> SUFFICES ASSUME NEW i \in 1 .. n, NEW j \in 1 .. n, i < j, t.L[i].state = "pending", Open(t.L, j)
                     PROVE  t.L[j].state = "pending"
          BY <1>5, <3>1
        <4>1. i \in 1 .. Len(s.L)
          BY <1>0
        <4>2. CASE j = n
          BY <3>1, <4>2 DEF Open
        <4>3. CASE j \in 1 .. Len(s.L)
          <5>1. Open(s.L, j) /\ t.L[j].state = s.L[j].state /\ s.L[i].state = "pending" /\ ~Owned(s.L, i)
            BY <1>2, <3>1, <3>3, <4>1, <4>3
          <5> QED BY <1>0, <4>1, <4>3, <5>1 DEF OrderInv
        <4> QED BY <3>2, <4>2, <4>3
      <3>5. \A i, j \in 1 .. n : Marked(t.L, i) /\ Marked(t.L, j) => i = j
        <4>1. \A i \in 1 .. n : Marked(t.L, i) => i \in 1 .. Len(s.L) /\ Marked(s.L, i)
          BY <3>1, <3>2 DEF Marked
        <4> QED BY <1>0, <4>1 DEF OrderInv
      <3> QED BY <1>4, <1>5, <3>1, <3>4, <3>5 DEF OrderInv
    <2> QED BY <1>1, <2>1, <2>2 DEF Requested
  <1>7. Good(t, H, Q)
    BY <1>3, <1>5, <1>6, <1>a DEF Good
  <1> QED BY <1>3, <1>4, <1>7

LEMMA GrantStep == ASSUME HuntInv, NEW f \in Freqs, Grant(f) PROVE HuntInv' /\ Settled
  <1>1. PICK s \in Noted(Here) : \E t \in RequestTune(s, f, {}) :
            Leaves(t) /\ Names(s) /\ tuned' = (t.result = "ok")
    BY DEF Grant
  <1>2. PICK t \in RequestTune(s, f, {}) : Leaves(t) /\ Names(s) /\ tuned' = (t.result = "ok")
    BY <1>1
  <1>3. GateOpen /\ air' = air /\ tuned' \in BOOLEAN /\ tuned \in BOOLEAN
    BY <1>2 DEF Grant, Frame, HuntInv
  <1>4. NotedWell(s)
    BY <1>3, NotedKeeps
  <1>5. heard' = HeardNow /\ cc' \in HuntPlaces /\ cc' \in heard' \cup {0} /\ typeD' = FALSE
    BY <1>2, <1>4, NamesWell
  <1>6. Good(s, HeardNow, tuned) /\ ~s.h.own /\ ~s.h.hunting /\ (s.h.rx # 0 /\ s.h.current => s.h.rx \in HeardNow)
    BY <1>3, <1>4, NotedGood DEF NotedWell
  <1>7. /\ Good(t, HeardNow, tuned') /\ ~t.h.own /\ t.h.cc = s.h.cc
        /\ t.result # "ok" => t.L = s.L
    <2> DEFINE Q == tuned'
               K == HeardNow
               T == tuned
    <2>1. T \in BOOLEAN /\ Q \in BOOLEAN
      BY <1>3
    <2>2. Good(s, K, T)
      BY <1>6
    <2>3. s.h.rx # 0 /\ s.h.current => s.h.rx \in K
      BY <1>6
    <2>4. Good(t, K, Q) /\ ~t.h.own /\ t.h.cc = s.h.cc /\ (t.result # "ok" => t.L = s.L)
      <3> HIDE DEF Q, K, T
      <3> QED BY <1>6, <2>1, <2>2, <2>3, AskKeeps
    <2> QED BY <2>4
  <1>8. Held(h', ledger', receiver', center', HeardNow, tuned') /\ h' = t.h /\ (Calm(t.L) => Calm(ledger'))
    BY <1>2, <1>7, LeavesHeld
  <1>9. ~h'.own /\ h'.cc \in heard' \cup {0} /\ (~tuned' => Calm(ledger'))
    BY <1>2, <1>4, <1>5, <1>7, <1>8 DEF NotedWell
  <1>10. HuntInv'
    BY <1>3, <1>5, <1>8, <1>9, Carried
  <1> QED BY <1>9, <1>10 DEF Settled

LEMMA SiteMessageStep == ASSUME HuntInv, SiteMessage PROVE HuntInv' /\ Settled
  <1>1. PICK f \in TunerFrequency(Here) :
           /\ cc' = IF f > 0 THEN f ELSE cc
           /\ h' = IF f > 0 THEN [h EXCEPT !.rx = f, !.current = TRUE] ELSE h
    BY DEF SiteMessage
  <1>2. /\ air' = air /\ tuned' = tuned /\ heard' = HeardNow /\ typeD' = typeD /\ owner' = owner
        /\ ledger' = ledger /\ receiver' = receiver /\ center' = center
    BY DEF SiteMessage, switches, HeardNow
  <1>3. f \in HuntPlaces /\ (f # 0 => f \in HeardNow) /\ (f > 0 <=> f # 0)
    <2>1. f \in HuntPlaces /\ (f # 0 => f \in HeardNow)
      BY TunerHeard
    <2> QED BY <2>1, Sizes DEF HuntPlaces
  <1>4. /\ h \in HuntCtx /\ ledger \in Seq(Entry) /\ receiver \in Freqs /\ center \in Freqs
        /\ LedgerInv(ledger) /\ LandInv(h, ledger, receiver) /\ PhaseInv(h, tuned)
        /\ AttrInv(h, ledger, receiver, heard, tuned) /\ OrderInv(h, ledger)
        /\ cc \in HuntPlaces /\ cc \in heard \cup {0} /\ h.cc \in heard \cup {0} /\ tuned \in BOOLEAN
    BY DEF HuntInv, Held, ControlWasHeard
  <1>5. h' \in HuntCtx
    BY <1>1, <1>3, <1>4 DEF HuntCtx
  <1>6. /\ h'.own = h.own /\ h'.probe = h.probe /\ h'.hunting = h.hunting /\ h'.park = h.park /\ h'.cc = h.cc
        /\ h'.confirmed = h.confirmed
        /\ (h'.rx = h.rx /\ h'.current = h.current) \/ h'.rx \in HeardNow
    BY <1>1, <1>3, <1>4 DEF HuntCtx
  <1>7. heard \subseteq HeardNow
    BY DEF HeardNow
  <1>8. LandInv(h', ledger, receiver) /\ PhaseInv(h', tuned) /\ AttrInv(h', ledger, receiver, HeardNow, tuned)
    BY <1>4, <1>6, <1>7 DEF LandInv, PhaseInv, AttrInv
  <1>a. OrderInv(h', ledger)
    BY <1>4, <1>6, OrderSame
  <1>9. Held(h', ledger', receiver', center', heard', tuned')
    BY <1>2, <1>4, <1>5, <1>8, <1>a DEF Held
  <1>10. cc' \in HuntPlaces /\ cc' \in heard' \cup {0} /\ h'.cc \in heard' \cup {0}
    BY <1>1, <1>2, <1>3, <1>4, <1>6, <1>7
  <1>11. (Rigctl => ~h'.own) /\ (typeD' => owner' = "nxdn" /\ ~h'.confirmed /\ ~h'.hunting)
    BY <1>2, <1>6 DEF HuntInv
  <1>12. HuntInv'
    BY <1>2, <1>4, <1>9, <1>10, <1>11, Carried
  <1> QED BY <1>6, <1>12 DEF Settled

(* Nothing the invariant speaks of changes.                                *)
LEMMA Idle ==
    ASSUME HuntInv, UNCHANGED <<air, h, ledger, receiver, center, tuned, owner, cc, heard, typeD>>
    PROVE  HuntInv' /\ Settled
  <1>1. /\ tuned' \in BOOLEAN /\ cc' \in HuntPlaces /\ Held(h', ledger', receiver', center', heard', tuned')
        /\ (Rigctl => ~h'.own) /\ cc' \in heard' \cup {0} /\ h'.cc \in heard' \cup {0}
        /\ typeD' => owner' = "nxdn" /\ ~h'.confirmed /\ ~h'.hunting
    BY DEF HuntInv, ControlWasHeard
  <1>2. HuntInv'
    BY <1>1, Carried
  <1> QED BY <1>2 DEF Settled

LEMMA ContentStep == ASSUME HuntInv, Content PROVE HuntInv' /\ Settled
  BY Idle DEF Content, records

LEMMA SetTrunkStep == ASSUME HuntInv, NEW on \in BOOLEAN, SetTrunk(on) PROVE HuntInv' /\ Settled
  BY Idle DEF SetTrunk, records

LEMMA TypeDStep == ASSUME HuntInv, TypeD PROVE HuntInv' /\ Settled
  <1> DEFINE r == Resolve(Here)
             g == [r.h EXCEPT !.hunting = FALSE, !.park = 0, !.retry = 0, !.armed = Unarmed,
                              !.confirmed = FALSE, !.cc = 0]
             s == [r EXCEPT !.h = g]
  <1>1. /\ GateOpen /\ air' = air /\ tuned' = tuned /\ heard' = heard /\ typeD' = TRUE /\ owner' = "nxdn" /\ cc' = cc
        /\ tuned \in BOOLEAN /\ cc \in HuntPlaces /\ cc \in heard \cup {0}
    BY DEF TypeD, Frame, switches, HuntInv, ControlWasHeard
  <1>2. /\ Good(r, heard, tuned) /\ ~r.h.own /\ Calm(r.L) /\ \A i \in 1 .. Len(r.L) : ~Owned(r.L, i)
    BY <1>1, ResolvedHere
  <1>3. Leaves([r EXCEPT !.h.hunting = FALSE, !.h.park = 0, !.h.retry = 0, !.h.armed = Unarmed,
                            !.h.confirmed = FALSE, !.h.cc = 0])
    BY DEF TypeD
  <1> HIDE DEF r
  <1>4. r \in HuntState /\ r.h \in HuntCtx /\ LedgerInv(r.L) /\ AttrInv(r.h, r.L, r.receiver, heard, tuned)
        /\ OrderInv(r.h, r.L) /\ r.L \in Seq(Entry)
    BY <1>2 DEF Good, HuntState
  <1>5. Leaves(s)
    <2>1. s = [r EXCEPT !.h.hunting = FALSE, !.h.park = 0, !.h.retry = 0, !.h.armed = Unarmed,
                            !.h.confirmed = FALSE, !.h.cc = 0]
      BY <1>4 DEF HuntState
    <2> QED BY <1>3, <2>1
  <1>6. g \in HuntCtx
    BY <1>4, Ranges DEF HuntCtx
  <1>7. g.own = FALSE /\ g.hunting = FALSE /\ g.park = 0 /\ g.confirmed = FALSE /\ g.cc = 0 /\ g.rx = r.h.rx /\ g.current = r.h.current
    BY <1>2, <1>4 DEF HuntCtx
  <1> HIDE DEF g
  <1>8. s \in HuntState /\ s.h = g /\ s.L = r.L /\ s.receiver = r.receiver
    BY <1>4, <1>6 DEF HuntState
  <1> HIDE DEF s
  <1>9. Good(s, heard, tuned)
    <2>1. LandInv(g, r.L, r.receiver) /\ PhaseInv(g, tuned) /\ AttrInv(g, r.L, r.receiver, heard, tuned)
      BY <1>2, <1>4, <1>7 DEF LandInv, PhaseInv, AttrInv
    <2>2. OrderInv(g, r.L)
      BY <1>4, <1>7, OrderSame
    <2> QED BY <1>4, <1>8, <2>1, <2>2 DEF Good
  <1>10. Held(h', ledger', receiver', center', heard, tuned) /\ h' = s.h /\ (Calm(s.L) => Calm(ledger'))
    BY <1>5, <1>9, LeavesHeld
  <1>11. ~h'.own /\ ~h'.hunting /\ ~h'.confirmed /\ h'.cc = 0 /\ Calm(ledger')
    BY <1>2, <1>7, <1>8, <1>10
  <1>12. HuntInv'
    BY <1>1, <1>10, <1>11, Carried
  <1> QED BY <1>11, <1>12 DEF Settled

(* What the answer to the oldest live request, the i-th, leaves before the *)
(* ledger is trimmed.                                                      *)
Answered(ok, i, D) ==
    /\ i \in 1 .. Len(ledger) /\ ledger[i].live /\ \A j \in 1 .. Len(ledger) : ledger[j].live => i <= j
    /\ D \in Seq(Entry) /\ Len(D) = Len(ledger) /\ ~D[i].live /\ D[i].state # "pending"
    /\ ok /\ ledger[i].state = "pending" => D[i].state = "ok" /\ D[i].age = 0
    /\ ~(ok /\ ledger[i].state = "pending") => (D[i].state = "ok" <=> ledger[i].state = "ok") /\ D[i].age = ledger[i].age
    /\ D[i].state = "gated" => ledger[i].state \in {"pending", "gated"}
    /\ ledger[i].state = "gated" => D[i].state = "gated"
    /\ \A j \in 1 .. Len(ledger) :
          /\ D[j].freq = ledger[j].freq /\ D[j].marks = ledger[j].marks
          /\ j # i => /\ D[j].live = ledger[j].live /\ D[j].age = ledger[j].age
                      /\ D[j].state = ledger[j].state \/ (ledger[j].state = "gated" /\ D[j].state = "failed")

LEMMA AnswerEffect ==
    ASSUME HuntInv, NEW ok \in BOOLEAN, Answer(ok)
    PROVE  \E i \in 1 .. Len(ledger) : \E D \in Seq(Entry) :
              /\ Answered(ok, i, D) /\ ledger' = Trim(D)
              /\ receiver' = (IF ok THEN ledger[i].freq ELSE receiver)
              /\ h' = (IF ok /\ ledger[i].state = "pending" THEN [h EXCEPT !.current = FALSE] ELSE h)
              /\ landed' = (IF Owned(ledger, i) \/ ledger[i].state # "pending" THEN landed ELSE IF ok THEN 0 ELSE Oldest)
  <1> DEFINE i == CHOOSE n \in Live(ledger) : \A m \in Live(ledger) : n <= m
             r == ledger[i]
             counts == ok /\ r.state = "pending"
             e == CASE r.state = "pending" -> "gated" [] r.state = "move" -> "failed" [] OTHER -> r.state
             F == [ledger EXCEPT ![i] = [r EXCEPT !.live = FALSE, !.state = e]]
             D == IF counts THEN Succeed(ledger, i) ELSE F
  <1>0. /\ h \in HuntCtx /\ ledger \in Seq(Entry) /\ receiver \in Freqs /\ center \in Freqs
        /\ LedgerInv(ledger) /\ LandInv(h, ledger, receiver) /\ PhaseInv(h, tuned)
        /\ AttrInv(h, ledger, receiver, heard, tuned) /\ OrderInv(h, ledger) /\ Len(ledger) \in Nat
    BY DEF HuntInv, Held
  <1>1. i \in 1 .. Len(ledger) /\ r.live /\ \A j \in 1 .. Len(ledger) : ledger[j].live => i <= j
    <2>1. Live(ledger) # {} /\ Live(ledger) \in SUBSET Nat /\ Live(ledger) \subseteq 1 .. Len(ledger)
      BY <1>0 DEF Answer, Live
    <2>2. \E n \in Live(ledger) : \A m \in Live(ledger) : n <= m
      BY <2>1, Least
    <2>3. i \in Live(ledger) /\ \A m \in Live(ledger) : i <= m
      BY <2>2, Zenon
    <2> HIDE DEF i
    <2> QED BY <1>0, <2>1, <2>3 DEF Live
  <1>2. r \in Entry /\ r.state \in {"pending", "gated", "ok", "failed", "move"}
    <2> HIDE DEF i
    <2>1. r \in Entry
      BY <1>0, <1>1
    <2> HIDE DEF r
    <2> QED BY <2>1 DEF Entry
  <1>3. /\ receiver' = (IF ok THEN r.freq ELSE receiver)
        /\ h' = (IF counts THEN [h EXCEPT !.current = FALSE] ELSE h)
        /\ landed' = (IF Owned(ledger, i) \/ r.state # "pending" THEN landed ELSE IF ok THEN 0 ELSE Oldest)
    BY Zenon DEF Answer, Owned
  <1>4. ledger' = Trim(D)
    <2>1. ledger' = Trim(IF counts THEN Succeed(ledger, i)
                             ELSE [ledger EXCEPT ![i].live = FALSE,
                                                 ![i].state = CASE @ = "pending" -> "gated"
                                                                [] @ = "move" -> "failed"
                                                                [] OTHER -> @])
      BY Zenon DEF Answer
    <2>2. [ledger EXCEPT ![i].live = FALSE,
                         ![i].state = CASE @ = "pending" -> "gated" [] @ = "move" -> "failed" [] OTHER -> @] = F
      <3> HIDE DEF i
      <3> QED BY <1>0, <1>1, <1>2 DEF Entry
    <2> HIDE DEF i
    <2> QED BY <2>1, <2>2
  <1> HIDE DEF i
  <1>5. Answered(ok, i, D)
    <2>1. CASE counts
      <3>1. D = Succeed(ledger, i)
        BY <2>1
      <3> HIDE DEF D
      <3>2. /\ D \in Seq(Entry) /\ Len(D) = Len(ledger) /\ D[i].state = "ok" /\ ~D[i].live /\ D[i].age = 0
            /\ \A j \in 1 .. Len(ledger) :
                  /\ D[j].freq = ledger[j].freq /\ D[j].marks = ledger[j].marks
                  /\ j # i => /\ D[j].live = ledger[j].live /\ D[j].age = ledger[j].age
                              /\ D[j].state = ledger[j].state \/ (ledger[j].state = "gated" /\ D[j].state = "failed")
        BY <1>0, <1>1, <3>1, SucceedEffect
      <3> QED BY <1>1, <2>1, <3>2 DEF Answered
    <2>2. CASE ~counts
      <3> DEFINE b == [r EXCEPT !.live = FALSE, !.state = e]
      <3>1. D = [ledger EXCEPT ![i] = b]
        BY <2>2
      <3>2. /\ e \in {"gated", "ok", "failed"} /\ (e = "ok" <=> r.state = "ok") /\ (r.state = "gated" => e = "gated")
            /\ e = "gated" => r.state \in {"pending", "gated"}
        BY <1>2
      <3> HIDE DEF e, D
      <3>3. b \in Entry
        BY <1>2, <3>2 DEF Entry
      <3>4. ~b.live /\ b.state = e /\ b.freq = r.freq /\ b.marks = r.marks /\ b.age = r.age
        BY <1>2 DEF Entry
      <3> HIDE DEF b
      <3>5. D \in Seq(Entry) /\ Len(D) = Len(ledger) /\ D[i] = b /\ \A j \in 1 .. Len(ledger) : j # i => D[j] = ledger[j]
        BY <1>0, <1>1, <3>1, <3>3
      <3> QED BY <1>1, <2>2, <3>2, <3>4, <3>5 DEF Answered
    <2> QED BY <2>1, <2>2
  <1> HIDE DEF D
  <1>6. i \in 1 .. Len(ledger) /\ D \in Seq(Entry)
    BY <1>5 DEF Answered
  <1> QED BY <1>3, <1>4, <1>5, <1>6

LEMMA AnswerStep == ASSUME HuntInv, NEW ok \in BOOLEAN, Answer(ok) PROVE HuntInv' /\ Settled
  <1>0. /\ h \in HuntCtx /\ ledger \in Seq(Entry) /\ receiver \in Freqs /\ center \in Freqs
        /\ LedgerInv(ledger) /\ LandInv(h, ledger, receiver) /\ PhaseInv(h, tuned)
        /\ AttrInv(h, ledger, receiver, heard, tuned) /\ OrderInv(h, ledger) /\ Len(ledger) \in Nat
    BY DEF HuntInv, Held
  <1>e. PICK i \in 1 .. Len(ledger), D \in Seq(Entry) :
              /\ Answered(ok, i, D) /\ ledger' = Trim(D)
              /\ receiver' = (IF ok THEN ledger[i].freq ELSE receiver)
              /\ h' = (IF ok /\ ledger[i].state = "pending" THEN [h EXCEPT !.current = FALSE] ELSE h)
    BY AnswerEffect
  <1> DEFINE r == ledger[i]
             counts == ok /\ r.state = "pending"
  <1>1. i \in 1 .. Len(ledger) /\ r.live /\ \A j \in 1 .. Len(ledger) : ledger[j].live => i <= j
    BY <1>e DEF Answered
  <1>2. r \in Entry /\ r.state \in {"pending", "gated", "ok", "failed", "move"}
    <2>1. r \in Entry
      BY <1>0, <1>1
    <2> HIDE DEF r
    <2> QED BY <2>1 DEF Entry
  <1>3. /\ receiver' = (IF ok THEN r.freq ELSE receiver)
        /\ h' = (IF counts THEN [h EXCEPT !.current = FALSE] ELSE h)
        /\ air' = air /\ tuned' = tuned /\ heard' = heard /\ typeD' = typeD /\ owner' = owner /\ cc' = cc
        /\ center' = center
    BY <1>e DEF Answer, switches
  <1>4. ledger' = Trim(D)
    BY <1>e
  <1>5. /\ D \in Seq(Entry) /\ Len(D) = Len(ledger) /\ ~D[i].live /\ D[i].state # "pending"
        /\ counts => D[i].state = "ok"
        /\ ~counts => (D[i].state = "ok" => r.state = "ok")
        /\ D[i].state = "gated" => r.state \in {"pending", "gated"}
        /\ \A j \in 1 .. Len(ledger) :
              /\ D[j].freq = ledger[j].freq /\ D[j].marks = ledger[j].marks
              /\ j # i => D[j].live = ledger[j].live /\ (D[j].state = ledger[j].state \/ D[j].state = "failed")
    BY <1>e DEF Answered
  <1>6. h' \in HuntCtx /\ receiver' \in Freqs
    <2>1. r.freq \in Freqs
      BY <1>2 DEF Entry
    <2> QED BY <1>0, <1>3, <2>1 DEF HuntCtx
  <1>7. /\ h'.own = h.own /\ h'.probe = h.probe /\ h'.hunting = h.hunting /\ h'.park = h.park /\ h'.cc = h.cc
        /\ h'.confirmed = h.confirmed /\ h'.rx = h.rx /\ (h'.current => h.current)
    BY <1>0, <1>3 DEF HuntCtx
  <1>8. ~NoneLive(ledger)
    BY <1>1 DEF NoneLive
  <1>9. \A j \in 1 .. Len(ledger) : Owned(D, j) <=> Owned(ledger, j)
    BY <1>5 DEF Owned
  <1>10. LedgerInv(D)
    <2>1. ASSUME NEW j \in 1 .. Len(D), D[j].state = "pending"
          PROVE  D[j].live /\ ledger[j].state = "pending"
      BY <1>0, <1>5, <2>1 DEF LedgerInv
    <2> QED BY <1>0, <1>5, <1>9, <2>1 DEF LedgerInv
  <1>11. LandInv(h', D, receiver')
    <2>1. ASSUME NEW j \in 1 .. Len(D), Owned(D, j), h.probe # 0
          PROVE  j = Len(D) /\ D[j].freq = h.probe /\ (D[j].state = "ok" => receiver' = h.probe /\ NoneLive(D))
      <3>1. Owned(ledger, j) /\ j \in 1 .. Len(ledger)
        BY <1>5, <1>9, <2>1
      <3>2. j = Len(ledger) /\ ledger[j].freq = h.probe /\ ledger[j].state # "ok"
        BY <1>0, <1>8, <2>1, <3>1 DEF LandInv
      <3>3. ASSUME D[j].state = "ok"
            PROVE  receiver' = h.probe /\ NoneLive(D)
        <4>1. j = i /\ counts
          BY <1>5, <3>1, <3>2, <3>3
        <4>2. receiver' = h.probe
          BY <1>3, <3>2, <4>1
        <4>3. ASSUME NEW k \in 1 .. Len(D)
              PROVE  ~D[k].live
          <5>1. CASE k = i
            BY <1>5, <5>1
          <5>2. CASE k # i
            <6>1. D[k].live = ledger[k].live /\ k \in 1 .. Len(ledger)
              BY <1>5, <5>2
            <6>2. ~(i <= k)
              BY <1>0, <3>2, <4>1, <5>2, <6>1
            <6> QED BY <1>1, <6>1, <6>2
          <5> QED BY <5>1, <5>2
        <4> QED BY <4>2, <4>3 DEF NoneLive
      <3> QED BY <1>5, <3>1, <3>2, <3>3
    <2>2. \A j \in 1 .. Len(D) : Owned(D, j) => h.own
      BY <1>0, <1>5, <1>9 DEF LandInv
    <2> QED BY <1>7, <2>1, <2>2 DEF LandInv
  <1>12. PhaseInv(h', tuned) /\ AttrInv(h', D, receiver', heard, tuned)
    BY <1>0, <1>7, <1>8 DEF PhaseInv, AttrInv
  <1>a. OrderInv(h', D)
    <2>1. \A j \in 1 .. Len(ledger) : /\ Open(D, j) => Open(ledger, j)
                                      /\ Marked(D, j) <=> Marked(ledger, j)
                                      /\ D[j].state = "pending" => ledger[j].state = "pending" /\ ledger[j].live /\ j # i
      BY <1>0, <1>2, <1>5 DEF Open, Marked, LedgerInv
    <2>2. \A j, k \in 1 .. Len(D) : j < k /\ Owned(D, j) => ~Open(D, k)
      BY <1>0, <1>5, <1>9, <2>1 DEF OrderInv
    <2>3. \A j, k \in 1 .. Len(D) : j < k /\ D[j].state = "pending" /\ ~Owned(D, j) /\ Open(D, k) =>
            D[k].state = "pending" /\ ~Owned(D, k)
      <3> SUFFICES ASSUME NEW j \in 1 .. Len(ledger), NEW k \in 1 .. Len(ledger), j < k, D[j].state = "pending",
                          ~Owned(D, j), Open(D, k)
                   PROVE  D[k].state = "pending" /\ ~Owned(D, k)
        BY <1>5
      <3>1. ledger[j].state = "pending" /\ ledger[j].live /\ ~Owned(ledger, j) /\ Open(ledger, k)
        BY <1>9, <2>1
      <3>2. ledger[k].state = "pending" /\ ~Owned(ledger, k)
        BY <1>0, <3>1 DEF OrderInv
      <3>3. i <= j
        BY <1>1, <3>1
      <3>4. k # i
        BY <1>0, <1>1, <3>3
      <3>5. D[k].state = ledger[k].state
        BY <1>5, <3>4 DEF Open
      <3> QED BY <1>9, <3>2, <3>5
    <2>4. \A j, k \in 1 .. Len(D) : Marked(D, j) /\ Marked(D, k) => j = k
      BY <1>0, <1>5, <2>1 DEF OrderInv
    <2>5. h'.hunting => \A j \in 1 .. Len(D) : D[j].state = "pending" => Owned(D, j)
      BY <1>0, <1>5, <1>7, <1>9, <2>1 DEF OrderInv
    <2> QED BY <2>2, <2>3, <2>4, <2>5 DEF OrderInv
  <1>13. Held(h', D, receiver', center, heard, tuned)
    BY <1>0, <1>5, <1>6, <1>10, <1>11, <1>12, <1>a DEF Held
  <1>14. Held(h', Trim(D), receiver', center, heard, tuned)
    BY <1>13, TrimHeld
  <1>15. Held(h', ledger', receiver', center', heard', tuned')
    BY <1>3, <1>4, <1>14
  <1>16. /\ tuned' \in BOOLEAN /\ cc' \in HuntPlaces /\ (Rigctl => ~h'.own) /\ cc' \in heard' \cup {0}
         /\ h'.cc \in heard' \cup {0} /\ (typeD' => owner' = "nxdn" /\ ~h'.confirmed /\ ~h'.hunting)
    BY <1>3, <1>7 DEF HuntInv, ControlWasHeard
  <1>17. HuntInv'
    BY <1>3, <1>15, <1>16, Carried
  <1> QED BY <1>7, <1>17 DEF Settled

LEMMA ReturnStep == ASSUME HuntInv, Return PROVE HuntInv' /\ Settled
  <1>0. /\ h \in HuntCtx /\ ledger \in Seq(Entry) /\ receiver \in Freqs /\ center \in Freqs
        /\ LedgerInv(ledger) /\ LandInv(h, ledger, receiver) /\ PhaseInv(h, tuned)
        /\ AttrInv(h, ledger, receiver, heard, tuned) /\ OrderInv(h, ledger)
    BY DEF HuntInv, Held
  <1>1. /\ tuned /\ air' = air /\ heard' = heard /\ typeD' = typeD /\ owner' = owner /\ cc' = cc
    BY DEF Return, switches
  <1>2. ~h.hunting /\ ~h.own /\ (h.rx # 0 /\ h.current => h.rx \in heard)
    BY <1>0, <1>1 DEF PhaseInv, AttrInv
  <1>3. cc \in HuntPlaces /\ cc \in heard \cup {0} /\ h.cc \in heard \cup {0} /\ tuned \in BOOLEAN
    BY DEF HuntInv, ControlWasHeard
  <1>4. CASE trunk /\ cc > 0
    <2>1. PICK t \in RequestTune(Here, cc, {}) : Leaves(t) /\ tuned' = (t.result # "ok")
      BY <1>4 DEF Return
    <2>2. cc \in Freqs
      BY <1>3, <1>4, Sizes DEF HuntPlaces
    <2>3. Good(Here, heard, tuned) /\ Here.h = h
      BY HereGood
    <2>4. Good(t, heard, tuned') /\ ~t.h.own /\ t.h.cc = h.cc /\ t.h.hunting = h.hunting /\ t.h.confirmed = h.confirmed
      <3> DEFINE Q == tuned'
                 s == Here
      <3>1. Q \in BOOLEAN
        BY <2>1
      <3>2. Good(s, heard, tuned) /\ ~s.h.own /\ ~s.h.hunting /\ (s.h.rx # 0 /\ s.h.current => s.h.rx \in heard)
        BY <1>2, <2>3
      <3>3. t \in RequestTune(s, cc, {}) /\ s.h = h
        BY <2>1, <2>3
      <3> HIDE DEF Q, s
      <3>4. Good(t, heard, Q) /\ ~t.h.own /\ t.h.cc = s.h.cc /\ t.h.hunting = s.h.hunting /\ t.h.confirmed = s.h.confirmed
        BY <1>3, <2>2, <3>1, <3>2, <3>3, AskKeeps
      <3> QED BY <3>3, <3>4 DEF Q
    <2>5. Held(h', ledger', receiver', center', heard, tuned') /\ h' = t.h
      BY <2>1, <2>4, LeavesHeld
    <2>6. /\ tuned' \in BOOLEAN /\ cc' \in HuntPlaces /\ (Rigctl => ~h'.own) /\ cc' \in heard' \cup {0}
          /\ h'.cc \in heard' \cup {0} /\ (typeD' => owner' = "nxdn" /\ ~h'.confirmed /\ ~h'.hunting)
      BY <1>1, <1>3, <2>1, <2>4, <2>5 DEF HuntInv
    <2>7. HuntInv'
      BY <1>1, <2>5, <2>6, Carried
    <2> QED BY <1>2, <2>7 DEF Settled
  <1>5. CASE ~(trunk /\ cc > 0)
    <2>1. tuned' = FALSE /\ h' = h /\ ledger' = ledger /\ receiver' = receiver /\ center' = center
      BY <1>5 DEF Return
    <2>2. PhaseInv(h, FALSE) /\ AttrInv(h, ledger, receiver, heard, FALSE)
      BY <1>0, <1>2 DEF PhaseInv, AttrInv
    <2>3. Held(h', ledger', receiver', center', heard', tuned')
      BY <1>0, <1>1, <2>1, <2>2 DEF Held
    <2>4. /\ tuned' \in BOOLEAN /\ cc' \in HuntPlaces /\ (Rigctl => ~h'.own) /\ cc' \in heard' \cup {0}
          /\ h'.cc \in heard' \cup {0} /\ (typeD' => owner' = "nxdn" /\ ~h'.confirmed /\ ~h'.hunting)
      BY <1>1, <1>3, <2>1 DEF HuntInv
    <2>5. HuntInv'
      BY <1>1, <2>3, <2>4, Carried
    <2> QED BY <1>2, <2>5 DEF Settled
  <1> QED BY <1>4, <1>5

(* nxdn_cc_hunt_note_retune()                                              *)
LEMMA NoteRetuneEffect ==
    ASSUME NEW g \in HuntCtx, NEW T, PhaseInv(g, T)
    PROVE  LET k == NoteRetune(g)
           IN  /\ k \in HuntCtx /\ k.rx = 0 /\ k.own = g.own /\ k.hunting = g.hunting /\ k.cc = g.cc
               /\ k.confirmed = g.confirmed /\ (k.hunting => k.probe = 0)
               /\ PhaseInv(k, FALSE) /\ k.foreign = g.foreign
               /\ k.armed = IF g.armed = Unarmed THEN Unarmed ELSE 0
  <1> DEFINE a == IF g.armed = Unarmed THEN g.armed ELSE 0
             p == IF g.hunting THEN 1 ELSE g.park
             b == IF g.hunting THEN 0 ELSE g.probe
             k == [g EXCEPT !.rx = 0, !.current = FALSE, !.armed = a, !.park = p, !.probe = b]
  <1>1. NoteRetune(g) = k
    BY DEF NoteRetune
  <1>2. g.armed \in Arms /\ g.park \in Parks /\ g.probe \in HuntPlaces /\ g.hunting \in BOOLEAN
    BY DEF HuntCtx
  <1>3. a \in Arms /\ p \in Parks /\ b \in HuntPlaces /\ (g.hunting => b = 0)
    BY <1>2, Ranges
  <1>4. p # 0 => g.hunting
    BY DEF PhaseInv
  <1> HIDE DEF a, p, b
  <1>5. k \in HuntCtx
    BY <1>3, Ranges DEF HuntCtx
  <1>6. /\ k.rx = 0 /\ k.own = g.own /\ k.hunting = g.hunting /\ k.cc = g.cc /\ k.confirmed = g.confirmed
        /\ k.park = p /\ k.probe = b /\ k.armed = a /\ k.foreign = g.foreign
    BY DEF HuntCtx
  <1> HIDE DEF k
  <1>7. PhaseInv(k, FALSE)
    BY <1>4, <1>6 DEF PhaseInv
  <1> QED BY <1>1, <1>3, <1>5, <1>6, <1>7 DEF a

LEMMA MoveStep == ASSUME HuntInv, NEW f \in Freqs, Move(f) PROVE HuntInv' /\ Settled
  <1>0. /\ h \in HuntCtx /\ ledger \in Seq(Entry) /\ receiver \in Freqs /\ center \in Freqs
        /\ LedgerInv(ledger) /\ LandInv(h, ledger, receiver) /\ PhaseInv(h, tuned) /\ Len(ledger) \in Nat
        /\ OrderInv(h, ledger)
    BY DEF HuntInv, Held
  <1> DEFINE m == [Request(f, {}) EXCEPT !.state = "move"]
  <1>1. /\ air' = air /\ heard' = heard /\ typeD' = typeD /\ owner' = owner /\ cc' = cc /\ tuned' = FALSE
        /\ center' = f /\ h' = NoteRetune(h)
        /\ (receiver' = f /\ ledger' = ledger) \/ (ledger' = Append(ledger, m) /\ receiver' = receiver)
    BY DEF Move, records, switches
  <1>2. /\ h' \in HuntCtx /\ h'.rx = 0 /\ h'.own = h.own /\ h'.hunting = h.hunting /\ h'.cc = h.cc
        /\ h'.confirmed = h.confirmed /\ (h'.hunting => h'.probe = 0) /\ PhaseInv(h', FALSE)
    BY <1>0, <1>1, NoteRetuneEffect
  <1>3. /\ ledger' \in Seq(Entry) /\ LedgerInv(ledger') /\ OrderInv(h', ledger')
        /\ \A i \in 1 .. Len(ledger') : Owned(ledger', i) => i \in 1 .. Len(ledger) /\ Owned(ledger, i)
    <2>1. CASE ledger' = ledger
      <3>1. OrderInv(h', ledger)
        BY <1>0, <1>2, OrderSame
      <3> QED BY <1>0, <2>1, <3>1
    <2>2. CASE ledger' = Append(ledger, m)
      <3>1. m \in Entry /\ m.state = "move" /\ m.marks = {}
        <4> DEFINE r == Request(f, {})
        <4>1. r \in Entry /\ r.marks = {}
          BY RequestTyped
        <4> HIDE DEF r
        <4>2. m = [r EXCEPT !.state = "move"]
          BY DEF r
        <4> HIDE DEF m
        <4> QED BY <4>1, <4>2 DEF Entry
      <3> HIDE DEF m
      <3>2. /\ ledger' \in Seq(Entry) /\ Len(ledger') = Len(ledger) + 1 /\ ledger'[Len(ledger) + 1] = m
            /\ \A i \in 1 .. Len(ledger) : ledger'[i] = ledger[i]
        BY <1>0, <2>2, <3>1, AppendProperties
      <3>3. \A i \in 1 .. Len(ledger') : i \in 1 .. Len(ledger) \/ i = Len(ledger) + 1
        BY <1>0, <3>2
      <3>4. \A i \in 1 .. Len(ledger') : Owned(ledger', i) => i \in 1 .. Len(ledger) /\ Owned(ledger, i)
        BY <3>1, <3>2, <3>3 DEF Owned
      <3>5. \A i \in 1 .. Len(ledger') : ledger'[i].state = "pending" => ledger'[i].live
        BY <1>0, <3>1, <3>2, <3>3 DEF LedgerInv
      <3>6. \A i, j \in 1 .. Len(ledger') : Owned(ledger', i) /\ Owned(ledger', j) => i = j
        BY <1>0, <3>4 DEF LedgerInv
      <3>7. Rigctl => \A i \in 1 .. Len(ledger') : Owned(ledger', i) => ledger'[i].state # "pending"
        BY <1>0, <3>2, <3>4 DEF LedgerInv
      <3>8. LedgerInv(ledger')
        BY <3>5, <3>6, <3>7 DEF LedgerInv
      <3>9. OrderInv(h', ledger')
        <4>1. \A i \in 1 .. Len(ledger') : /\ Open(ledger', i) => i \in 1 .. Len(ledger) /\ Open(ledger, i)
                                           /\ ledger'[i].state = "pending" => Open(ledger', i)
                                           /\ Marked(ledger', i) => i \in 1 .. Len(ledger) /\ Marked(ledger, i)
          BY <3>1, <3>2, <3>3 DEF Open, Marked
        <4>2. \A i \in 1 .. Len(ledger) : Owned(ledger', i) <=> Owned(ledger, i)
          BY <3>2 DEF Owned
        <4>3. \A i, j \in 1 .. Len(ledger') : i < j /\ Owned(ledger', i) => ~Open(ledger', j)
          BY <1>0, <3>4, <4>1 DEF OrderInv
        <4>4. \A i, j \in 1 .. Len(ledger') : i < j /\ ledger'[i].state = "pending" /\ ~Owned(ledger', i) /\ Open(ledger', j) =>
                ledger'[j].state = "pending" /\ ~Owned(ledger', j)
          BY <1>0, <3>2, <4>1, <4>2 DEF OrderInv
        <4>5. \A i, j \in 1 .. Len(ledger') : Marked(ledger', i) /\ Marked(ledger', j) => i = j
          BY <1>0, <4>1 DEF OrderInv
        <4>6. h'.hunting => \A i \in 1 .. Len(ledger') : ledger'[i].state = "pending" => Owned(ledger', i)
          BY <1>0, <1>2, <3>2, <4>1, <4>2 DEF OrderInv
        <4> QED BY <4>3, <4>4, <4>5, <4>6 DEF OrderInv
      <3> QED BY <3>2, <3>4, <3>8, <3>9
    <2> QED BY <1>1, <2>1, <2>2
  <1>4. LandInv(h', ledger', receiver')
    <2>1. \A i \in 1 .. Len(ledger') : Owned(ledger', i) => h.own /\ h.hunting
      BY <1>0, <1>3 DEF LandInv, PhaseInv
    <2> QED BY <1>2, <2>1 DEF LandInv
  <1>5. AttrInv(h', ledger', receiver', heard, FALSE)
    BY <1>2 DEF AttrInv
  <1>6. Held(h', ledger', receiver', center', heard', tuned')
    BY <1>0, <1>1, <1>2, <1>3, <1>4, <1>5 DEF Held
  <1>7. /\ tuned' \in BOOLEAN /\ cc' \in HuntPlaces /\ (Rigctl => ~h'.own) /\ cc' \in heard' \cup {0}
        /\ h'.cc \in heard' \cup {0} /\ (typeD' => owner' = "nxdn" /\ ~h'.confirmed /\ ~h'.hunting)
    BY <1>1, <1>2 DEF HuntInv, ControlWasHeard
  <1>8. HuntInv'
    BY <1>1, <1>6, <1>7, Carried
  <1> QED BY <1>2, <1>8 DEF Settled

LEMMA ReconnectStep == ASSUME HuntInv, NEW f \in Freqs, Reconnect(f) PROVE HuntInv' /\ Settled
  <1>0. /\ h \in HuntCtx /\ ledger \in Seq(Entry) /\ receiver \in Freqs /\ center \in Freqs
        /\ LedgerInv(ledger) /\ LandInv(h, ledger, receiver) /\ PhaseInv(h, tuned)
        /\ OrderInv(h, ledger)
    BY DEF HuntInv, Held
  <1>1. /\ air' = air /\ heard' = heard /\ typeD' = typeD /\ owner' = owner /\ cc' = cc /\ tuned' = tuned
        /\ center' = center /\ receiver' = f /\ ledger' = ledger /\ Rigctl /\ h' = [h EXCEPT !.rx = 0, !.current = FALSE]
    BY DEF Reconnect, records, switches
  <1>2. h' \in HuntCtx
    BY <1>0, <1>1, Ranges DEF HuntCtx
  <1>3. /\ h'.rx = 0 /\ h'.own = h.own /\ h'.hunting = h.hunting /\ h'.cc = h.cc
        /\ h'.confirmed = h.confirmed /\ h'.park = h.park
    BY <1>0, <1>1 DEF HuntCtx
  <1>4. ~h.own
    BY <1>1 DEF HuntInv
  <1>5. LandInv(h', ledger, f) /\ PhaseInv(h', tuned) /\ AttrInv(h', ledger, f, heard, tuned)
    BY <1>0, <1>3, <1>4 DEF LandInv, PhaseInv, AttrInv
  <1>a. OrderInv(h', ledger)
    BY <1>0, <1>3, OrderSame
  <1>6. Held(h', ledger', receiver', center', heard', tuned')
    BY <1>0, <1>1, <1>2, <1>5, <1>a DEF Held
  <1>7. /\ tuned' \in BOOLEAN /\ cc' \in HuntPlaces /\ (Rigctl => ~h'.own) /\ cc' \in heard' \cup {0}
        /\ h'.cc \in heard' \cup {0} /\ (typeD' => owner' = "nxdn" /\ ~h'.confirmed /\ ~h'.hunting)
    BY <1>1, <1>3 DEF HuntInv, ControlWasHeard
  <1>8. HuntInv'
    BY <1>1, <1>6, <1>7, Carried
  <1> QED BY <1>3, <1>8 DEF Settled

LEMMA SystemReplacedStep == ASSUME HuntInv, SystemReplaced PROVE HuntInv' /\ Settled
  <1>0. h \in HuntCtx /\ Held(h, ledger, receiver, center, heard, tuned)
    BY DEF HuntInv, Held
  <1>1. /\ air' = air /\ heard' = heard /\ typeD' = FALSE /\ cc' = cc /\ tuned' = tuned
        /\ center' = center /\ receiver' = receiver /\ ledger' = ledger
        /\ h' = [h EXCEPT !.confirmed = FALSE, !.cc = 0, !.index = 1]
    BY DEF SystemReplaced, switches
  <1>2. 1 \in Rows
    BY MapTyped DEF Rows, HuntInv
  <1>3. h' \in HuntCtx
    BY <1>0, <1>1, <1>2, Ranges DEF HuntCtx
  <1>4. Same(h', h) /\ h'.cc = 0
    BY <1>0, <1>1 DEF HuntCtx, Same
  <1>5. Held(h', ledger', receiver', center', heard', tuned')
    BY <1>0, <1>1, <1>3, <1>4, SameHeld
  <1>6. /\ tuned' \in BOOLEAN /\ cc' \in HuntPlaces /\ (Rigctl => ~h'.own) /\ cc' \in heard' \cup {0}
        /\ h'.cc \in heard' \cup {0}
    BY <1>1, <1>4 DEF HuntInv, ControlWasHeard, Same
  <1>7. HuntInv'
    BY <1>1, <1>5, <1>6, Carried
  <1> QED BY <1>4, <1>7 DEF Settled, Same

(* What dsd_engine_retire_inactive_tune_failures() leaves before the       *)
(* ledger is trimmed.                                                      *)
Retired(q) ==
    /\ q \in Seq(Entry) /\ Len(q) = Len(ledger)
    /\ \A i \in 1 .. Len(ledger) :
          /\ q[i].live = ledger[i].live /\ q[i].freq = ledger[i].freq
          /\ q[i].marks = ledger[i].marks /\ q[i].age = ledger[i].age
          /\ q[i].state = ledger[i].state \/ (ledger[i].state = "gated" /\ q[i].state = "failed")

LEMMA RetireEffect == ASSUME HuntInv, RetireInactive PROVE \E q \in Seq(Entry) : Retired(q) /\ ledger' = Trim(q)
  <1>0. ledger \in Seq(Entry)
    BY DEF HuntInv, Held
  <1> DEFINE newest == Newest(ledger)
             through == IF ledger[newest].state = "pending" THEN newest - 1 ELSE newest
             E(i) == IF i <= through /\ ledger[i].state = "gated" THEN [ledger[i] EXCEPT !.state = "failed"] ELSE ledger[i]
             q == [i \in 1 .. Len(ledger) |-> E(i)]
  <1>2. ledger' = Trim(q)
    <2>1. DOMAIN ledger = 1 .. Len(ledger)
      BY <1>0
    <2> QED BY <2>1 DEF RetireInactive
  <1> HIDE DEF through
  <1>3. ASSUME NEW i \in 1 .. Len(ledger)
        PROVE  /\ E(i) \in Entry /\ E(i).live = ledger[i].live /\ E(i).freq = ledger[i].freq
               /\ E(i).marks = ledger[i].marks /\ E(i).age = ledger[i].age
               /\ E(i).state = ledger[i].state \/ (ledger[i].state = "gated" /\ E(i).state = "failed")
    <2>1. ledger[i] \in Entry
      BY <1>0
    <2> QED BY <2>1 DEF Entry
  <1>4. q \in [1 .. Len(ledger) -> Entry] /\ \A i \in 1 .. Len(ledger) : q[i] = E(i)
    BY <1>3
  <1> HIDE DEF E, q
  <1>5. q \in Seq(Entry) /\ Len(q) = Len(ledger)
    BY <1>0, <1>4, Mapped
  <1>6. Retired(q)
    BY <1>3, <1>4, <1>5 DEF Retired
  <1> QED BY <1>2, <1>5, <1>6

LEMMA RetireStep == ASSUME HuntInv, RetireInactive PROVE HuntInv' /\ Settled
  <1>0. /\ h \in HuntCtx /\ ledger \in Seq(Entry) /\ receiver \in Freqs /\ center \in Freqs
        /\ LedgerInv(ledger) /\ LandInv(h, ledger, receiver) /\ PhaseInv(h, tuned)
        /\ AttrInv(h, ledger, receiver, heard, tuned) /\ OrderInv(h, ledger)
    BY DEF HuntInv, Held
  <1>1. /\ air' = air /\ heard' = heard /\ typeD' = typeD /\ owner' = owner /\ cc' = cc /\ tuned' = tuned
        /\ h' = h /\ receiver' = receiver /\ (center' = center \/ center' = receiver)
    BY DEF RetireInactive, records, switches
  <1>2. PICK q \in Seq(Entry) : Retired(q) /\ ledger' = Trim(q)
    BY RetireEffect
  <1>5. /\ q \in Seq(Entry) /\ Len(q) = Len(ledger)
        /\ \A i \in 1 .. Len(ledger) :
              /\ q[i].live = ledger[i].live /\ q[i].freq = ledger[i].freq
              /\ q[i].marks = ledger[i].marks /\ (q[i].state = ledger[i].state \/ q[i].state = "failed")
    BY <1>2 DEF Retired
  <1>6. NoneLive(ledger) => NoneLive(q)
    BY <1>5 DEF NoneLive
  <1>7. LedgerInv(q) /\ AttrInv(h, q, receiver, heard, tuned)
    BY <1>0, <1>5, <1>6 DEF LedgerInv, Owned, AttrInv
  <1>8. LandInv(h, q, receiver)
    BY <1>0, <1>5, <1>6 DEF LandInv, Owned
  <1>a. OrderInv(h, q)
    <2>1. \A j \in 1 .. Len(ledger) : q[j].marks = ledger[j].marks /\ (q[j].state = ledger[j].state \/ ~Open(q, j))
      BY <1>5 DEF Open
    <2> QED BY <1>0, <1>5, <2>1, OrderKept
  <1>9. Held(h, q, receiver, center', heard, tuned)
    BY <1>0, <1>1, <1>5, <1>7, <1>8, <1>a DEF Held
  <1>10. Held(h, Trim(q), receiver, center', heard, tuned)
    BY <1>9, TrimHeld
  <1>11. Held(h', ledger', receiver', center', heard', tuned')
    BY <1>1, <1>2, <1>10
  <1>12. /\ tuned' \in BOOLEAN /\ cc' \in HuntPlaces /\ (Rigctl => ~h'.own) /\ cc' \in heard' \cup {0}
         /\ h'.cc \in heard' \cup {0} /\ (typeD' => owner' = "nxdn" /\ ~h'.confirmed /\ ~h'.hunting)
    BY <1>1 DEF HuntInv, ControlWasHeard
  <1>13. HuntInv'
    BY <1>1, <1>11, <1>12, Carried
  <1> QED BY <1>1, <1>13 DEF Settled

LEMMA InputReplacedStep == ASSUME HuntInv, InputReplaced PROVE HuntInv' /\ Settled
  <1>0. /\ h \in HuntCtx /\ receiver \in Freqs /\ PhaseInv(h, tuned) /\ AttrInv(h, ledger, receiver, heard, tuned)
    BY DEF HuntInv, Held
  <1>1. /\ air' = air /\ heard' = heard /\ typeD' = typeD /\ owner' = owner /\ cc' = cc /\ tuned' = tuned
        /\ h' = h /\ receiver' = receiver /\ center' = receiver /\ ledger' = << >>
    BY DEF InputReplaced, records
  <1>2. ledger' \in Seq(Entry) /\ 1 .. Len(ledger') = {}
    BY <1>1
  <1>3. LedgerInv(ledger') /\ OrderInv(h, ledger') /\ LandInv(h, ledger', receiver) /\ AttrInv(h, ledger', receiver, heard, tuned)
    BY <1>0, <1>2 DEF LedgerInv, OrderInv, LandInv, AttrInv, NoneLive
  <1>4. Held(h', ledger', receiver', center', heard', tuned')
    BY <1>0, <1>1, <1>2, <1>3 DEF Held
  <1>5. /\ tuned' \in BOOLEAN /\ cc' \in HuntPlaces /\ (Rigctl => ~h'.own) /\ cc' \in heard' \cup {0}
        /\ h'.cc \in heard' \cup {0} /\ (typeD' => owner' = "nxdn" /\ ~h'.confirmed /\ ~h'.hunting)
    BY <1>1 DEF HuntInv, ControlWasHeard
  <1>6. HuntInv'
    BY <1>1, <1>4, <1>5, Carried
  <1> QED BY <1>1, <1>6 DEF Settled

LEMMA InputBackStep == ASSUME HuntInv, InputBack PROVE HuntInv' /\ Settled
  <1>0. /\ h \in HuntCtx /\ ledger \in Seq(Entry) /\ receiver \in Freqs /\ center \in Freqs
        /\ LedgerInv(ledger) /\ LandInv(h, ledger, receiver) /\ PhaseInv(h, tuned)
        /\ OrderInv(h, ledger)
    BY DEF HuntInv, Held
  <1>1. /\ air' = air /\ heard' = heard /\ typeD' = typeD /\ owner' = owner /\ cc' = cc /\ tuned' = FALSE
        /\ center' = center /\ receiver' = receiver /\ ledger' = ledger /\ h' = NoteRetune(h)
    BY DEF InputBack, records
  <1>2. /\ h' \in HuntCtx /\ h'.rx = 0 /\ h'.own = h.own /\ h'.hunting = h.hunting /\ h'.cc = h.cc
        /\ h'.confirmed = h.confirmed /\ (h'.hunting => h'.probe = 0) /\ PhaseInv(h', FALSE)
    BY <1>0, <1>1, NoteRetuneEffect
  <1>3. LandInv(h', ledger, receiver)
    <2>1. \A i \in 1 .. Len(ledger) : Owned(ledger, i) => h.own /\ h.hunting
      BY <1>0 DEF LandInv, PhaseInv
    <2> QED BY <1>2, <2>1 DEF LandInv
  <1>4. AttrInv(h', ledger, receiver, heard, FALSE)
    BY <1>2 DEF AttrInv
  <1>a. OrderInv(h', ledger)
    BY <1>0, <1>2, OrderSame
  <1>5. Held(h', ledger', receiver', center', heard', tuned')
    BY <1>0, <1>1, <1>2, <1>3, <1>4, <1>a DEF Held
  <1>6. /\ tuned' \in BOOLEAN /\ cc' \in HuntPlaces /\ (Rigctl => ~h'.own) /\ cc' \in heard' \cup {0}
        /\ h'.cc \in heard' \cup {0} /\ (typeD' => owner' = "nxdn" /\ ~h'.confirmed /\ ~h'.hunting)
    BY <1>1, <1>2 DEF HuntInv, ControlWasHeard
  <1>7. HuntInv'
    BY <1>1, <1>5, <1>6, Carried
  <1> QED BY <1>2, <1>7 DEF Settled

LEMMA HuntBeginning == ASSUME HuntInit PROVE HuntInv
  <1>1. /\ air \in Airs /\ ledger = << >> /\ receiver \in Freqs /\ center = receiver /\ tuned = FALSE /\ cc = 0
        /\ typeD = FALSE
        /\ h = [armed |-> Unarmed, retry |-> 0, deadline |-> 0, own |-> FALSE, foreign |-> FALSE,
                probe |-> 0, rx |-> 0, current |-> FALSE, attempt |-> 0, cc |-> 0,
                confirmed |-> FALSE, hunting |-> FALSE, park |-> 0, index |-> 1]
    BY DEF HuntInit
  <1>2. 1 \in Rows /\ 0 \in Waits
    BY <1>1, MapTyped, Sizes DEF Rows, Waits
  <1>3. h \in HuntCtx
    BY <1>1, <1>2, Ranges DEF HuntCtx
  <1>4. h.own = FALSE /\ h.hunting = FALSE /\ h.park = 0 /\ h.rx = 0 /\ h.cc = 0
    BY <1>1
  <1>5. ledger \in Seq(Entry) /\ 1 .. Len(ledger) = {}
    BY <1>1
  <1>6. LedgerInv(ledger) /\ OrderInv(h, ledger) /\ LandInv(h, ledger, receiver) /\ PhaseInv(h, tuned) /\ AttrInv(h, ledger, receiver, heard, tuned)
    BY <1>4, <1>5 DEF LedgerInv, OrderInv, LandInv, PhaseInv, AttrInv
  <1>7. Held(h, ledger, receiver, center, heard, tuned)
    BY <1>1, <1>3, <1>5, <1>6 DEF Held
  <1> QED BY <1>1, <1>4, <1>7, Ranges DEF HuntInv, ControlWasHeard

LEMMA HuntStep == ASSUME HuntInv, [HuntNext]_huntVars PROVE HuntInv' /\ Settled
  <1>1. CASE UNCHANGED huntVars
    BY <1>1, Idle DEF huntVars, world
  <1>2. CASE HuntNext
    BY <1>2, TickStep, PassStep, CacStep, SiteMessageStep, ContentStep, TypeDStep, GrantStep, ReturnStep, AnswerStep,
       MoveStep, ReconnectStep, SystemReplacedStep, SetTrunkStep, RetireStep, InputReplacedStep, InputBackStep
       DEF HuntNext
  <1> QED BY <1>1, <1>2

LEMMA HuntHolds == HuntSpec => []HuntInv
  BY HuntBeginning, HuntStep, PTL DEF HuntSpec

LEMMA HuntInvSound == ASSUME HuntInv PROVE HuntSound
  <1>0. /\ h \in HuntCtx /\ ledger \in Seq(Entry) /\ receiver \in Freqs /\ center \in Freqs
        /\ LedgerInv(ledger) /\ PhaseInv(h, tuned) /\ cc \in HuntPlaces
    BY DEF HuntInv, Held
  <1>1. /\ h.armed \in Arms /\ h.retry \in Retries /\ h.deadline \in Waits /\ h.probe \in HuntPlaces
        /\ h.rx \in HuntPlaces /\ h.attempt \in HuntPlaces /\ h.cc \in HuntPlaces /\ h.park \in Parks /\ h.index \in Rows
    BY <1>0 DEF HuntCtx
  <1>2. HuntTypeOK
    <2>1. h.armed \in Unarmed .. Oldest /\ h.retry \in 0 .. Probe /\ h.deadline \in 0 .. Timeout /\ h.index \in 1 .. Len(Map) + 1
      BY <1>1 DEF Arms, Retries, Waits, Rows
    <2>2. {h.probe, h.rx, h.attempt, h.cc} \subseteq Freqs \cup {0} /\ cc \in Freqs \cup {0} /\ h.park \in 0 .. 2
      BY <1>0, <1>1 DEF HuntPlaces, Parks
    <2>3. \A i \in DOMAIN ledger : ledger[i].state = "pending" => ledger[i].live
      BY <1>0 DEF LedgerInv
    <2> QED BY <1>0, <2>1, <2>2, <2>3 DEF HuntTypeOK, PhaseInv
  <1>3. ControlWasHeard /\ TypeDNeverHunted
    BY DEF HuntInv, TypeDNeverHunted
  <1> QED BY <1>2, <1>3 DEF HuntSound

(* Whatever the tuner refuses, loses or answers late, and whoever moves    *)
(* the receiver meanwhile: the control channel of nxdn_cc_hunt.c, and the  *)
(* one calls return to, are frequencies on which control was heard, its    *)
(* context keeps its ranges, and a proven Type-D site is not hunted.       *)
THEOREM HuntIsSound == HuntSpec => []HuntSound
  <1>1. HuntInv => HuntSound
    BY HuntInvSound
  <1> QED BY <1>1, HuntHolds, PTL

(* A hunt that a tick, a CAC, a Type-D site or a grant ends leaves no tune *)
(* unresolved: nxdn_cc_hunt_settle() parks behind nothing.                 *)
LEMMA HuntParksSettled == HuntSpec => ParksSettled
  <1> DEFINE A == h.hunting /\ ~h'.hunting /\ trunk /\ ~boundary /\ ~tuned' => Unresolved(ledger') = {}
  <1>1. ASSUME HuntInv, HuntInv', [HuntNext]_huntVars
        PROVE  [A]_huntVars
    <2>1. Settled
      BY <1>1, HuntStep
    <2>2. Calm(ledger') => Unresolved(ledger') = {}
      BY <1>1 DEF Calm, Unresolved, HuntInv, Held
    <2> QED BY <2>1, <2>2 DEF Settled
  <1> HIDE DEF A
  <1>2. HuntSpec => [][A]_huntVars
    BY <1>1, HuntHolds, PTL DEF HuntSpec
  <1> QED BY <1>2 DEF A, ParksSettled

-----------------------------------------------------------------------------
(* When a hunt may begin.                                                  *)

(* The newest of the tunes in flight is the one that is followed.          *)
FollowInv(g, L) ==
    \A i \in 1 .. Len(L) :
        L[i].state = "pending" /\ (\A j \in 1 .. Len(L) : i < j => ~Open(L, j)) => g.foreign /\ Marked(L, i)

(* The grace period began no earlier than the last tune of others landed,  *)
(* a ago, unless one is still in flight or the one that landed is followed *)
(* and will be found when it is next asked about.                          *)
GraceInv(g, L, a) ==
    a < g.armed =>
        \/ \E i \in 1 .. Len(L) : L[i].state = "pending"
        \/ g.foreign /\ \E i \in 1 .. Len(L) : Marked(L, i) /\ L[i].state = "ok" /\ L[i].age <= a

Paced(g, L, a, B) ==
    /\ g.hunting => g.armed <= a
    /\ ~g.hunting /\ g.armed # Unarmed => FollowInv(g, L) /\ (B \/ GraceInv(g, L, a))

TimeInv ==
    /\ landed \in Ages /\ lock \in Ages
    /\ tuned => due \/ h.armed = Unarmed
    /\ ~tuned => Paced(h, ledger, landed, boundary)

LEMMA AgeOrder ==
    /\ \A a \in Ages : a \in Nat /\ a <= Oldest /\ Older(a) \in Ages /\ 0 <= a /\ Unarmed <= a
    /\ \A a \in Arms : a \in Int /\ a <= Oldest /\ (a # Unarmed => a \in Ages)
    /\ \A a, b \in Ages : a <= b => Older(a) <= Older(b)
    /\ Oldest \in Ages /\ 0 \in Ages
  BY Sizes DEF Ages, Arms, Older, Unarmed

(* A hunt that is not armed, or just armed, is paced.                      *)
LEMMA UnarmedPaced ==
    ASSUME NEW g, NEW L, NEW a \in Ages, NEW B, g.armed = Unarmed
    PROVE  Paced(g, L, a, B)
  BY AgeOrder DEF Paced

LEMMA ArmedPaced ==
    ASSUME NEW g, NEW L, NEW a \in Ages, NEW B, g.armed \in Arms, g.armed <= a, ~g.hunting => FollowInv(g, L)
    PROVE  Paced(g, L, a, B)
  <1>1. GraceInv(g, L, a)
    BY AgeOrder DEF GraceInv
  <1> QED BY <1>1 DEF Paced

LEMMA CalmFollows == ASSUME NEW g, NEW L, Calm(L) PROVE FollowInv(g, L)
  BY DEF Calm, FollowInv

LEMMA PacedSame ==
    ASSUME NEW g, NEW k, NEW L, NEW a, NEW B, Paced(g, L, a, B),
           k.hunting = g.hunting, k.armed = g.armed, k.foreign = g.foreign
    PROVE  Paced(k, L, a, B)
  BY DEF Paced, FollowInv, GraceInv

(* Requests of the ledger are resolved; what is newer than one that is     *)
(* still pending is not.                                                   *)
LEMMA FollowKept ==
    ASSUME NEW g, NEW L, NEW D, FollowInv(g, L), OrderInv(g, L), \A i \in 1 .. Len(L) : ~Owned(L, i), Len(D) = Len(L),
           \A i \in 1 .. Len(L) : D[i].marks = L[i].marks /\ (D[i].state = "pending" => L[i].state = "pending"),
           \A i, j \in 1 .. Len(L) : D[i].state = "pending" /\ i < j /\ L[j].state = "pending" => D[j].state = "pending"
    PROVE  FollowInv(g, D)
  <1> SUFFICES ASSUME NEW i \in 1 .. Len(L), D[i].state = "pending", \A j \in 1 .. Len(L) : i < j => ~Open(D, j)
               PROVE  g.foreign /\ Marked(D, i)
    BY DEF FollowInv
  <1>1. L[i].state = "pending"
    OBVIOUS
  <1>2. ASSUME NEW j \in 1 .. Len(L), i < j
        PROVE  ~Open(L, j)
    <2> SUFFICES ASSUME Open(L, j)
                 PROVE  FALSE
      OBVIOUS
    <2>1. L[j].state = "pending"
      BY <1>1, <1>2 DEF OrderInv
    <2>2. Open(D, j)
      BY <1>2, <2>1 DEF Open
    <2> QED BY <1>2, <2>2
  <1>3. g.foreign /\ Marked(L, i)
    BY <1>1, <1>2 DEF FollowInv
  <1> QED BY <1>3 DEF Marked

(* What is trimmed is neither in flight nor followed.                      *)
LEMMA TrimPaced ==
    ASSUME NEW g, NEW L \in Seq(Entry), NEW a, NEW B, Paced(g, L, a, B)
    PROVE  Paced(g, Trim(L), a, B)
  <1> DEFINE M == Trim(L)
  <1>1. M \in Seq(Entry) /\ \E e : Embeds(M, L, e)
    BY TrimEmbeds
  <1> HIDE DEF M
  <1>2. PICK e : Embeds(M, L, e)
    BY <1>1
  <1>3. Len(M) \in Nat /\ Len(L) \in Nat /\ DOMAIN L = 1 .. Len(L)
    BY <1>1
  <1>4. /\ \A n \in 1 .. Len(M) : e[n] \in 1 .. Len(L) /\ e[n] \in Kept(L) /\ M[n] = L[e[n]]
        /\ \A m, n \in 1 .. Len(M) : m < n => e[m] < e[n]
        /\ \A i \in Kept(L) : \E n \in 1 .. Len(M) : e[n] = i
    BY <1>2 DEF Embeds
  <1>5. \A i \in 1 .. Len(L) : Open(L, i) \/ Marked(L, i) => \E n \in 1 .. Len(M) : e[n] = i
    <2>1. \A i \in 1 .. Len(L) : Open(L, i) \/ Marked(L, i) => i \in Kept(L)
      BY <1>3 DEF Kept, Open, Marked
    <2> QED BY <1>4, <2>1
  <1>6. \A n \in 1 .. Len(M) : (Marked(M, n) <=> Marked(L, e[n])) /\ (Open(M, n) <=> Open(L, e[n]))
    BY <1>4 DEF Marked, Open
  <1>7. FollowInv(g, L) => FollowInv(g, M)
    <2> SUFFICES ASSUME FollowInv(g, L), NEW n \in 1 .. Len(M), M[n].state = "pending",
                        \A m \in 1 .. Len(M) : n < m => ~Open(M, m)
                 PROVE  g.foreign /\ Marked(M, n)
      BY DEF FollowInv
    <2>1. e[n] \in 1 .. Len(L) /\ L[e[n]].state = "pending"
      BY <1>4
    <2>2. ASSUME NEW j \in 1 .. Len(L), e[n] < j
          PROVE  ~Open(L, j)
      <3> SUFFICES ASSUME Open(L, j)
                   PROVE  FALSE
        OBVIOUS
      <3>1. PICK m \in 1 .. Len(M) : e[m] = j
        BY <1>5, <2>2
      <3>2. n < m
        <4> SUFFICES ASSUME ~(n < m)
                     PROVE  FALSE
          OBVIOUS
        <4>1. m < n \/ m = n
          BY <1>3
        <4>2. m < n => e[m] < e[n]
          BY <1>4
        <4> QED BY <1>3, <2>1, <2>2, <3>1, <4>1, <4>2
      <3> QED BY <1>6, <3>1, <3>2
    <2>3. g.foreign /\ Marked(L, e[n])
      BY <2>1, <2>2 DEF FollowInv
    <2> QED BY <1>6, <2>3
  <1>8. GraceInv(g, L, a) => GraceInv(g, M, a)
    <2> SUFFICES ASSUME GraceInv(g, L, a), a < g.armed
                 PROVE  \/ \E n \in 1 .. Len(M) : M[n].state = "pending"
                        \/ g.foreign /\ \E n \in 1 .. Len(M) : Marked(M, n) /\ M[n].state = "ok" /\ M[n].age <= a
      BY DEF GraceInv
    <2>1. CASE \E i \in 1 .. Len(L) : L[i].state = "pending"
      <3>1. PICK i \in 1 .. Len(L) : L[i].state = "pending"
        BY <2>1
      <3>2. PICK n \in 1 .. Len(M) : e[n] = i
        BY <1>5, <3>1 DEF Open
      <3> QED BY <1>4, <3>1, <3>2
    <2>2. CASE g.foreign /\ \E i \in 1 .. Len(L) : Marked(L, i) /\ L[i].state = "ok" /\ L[i].age <= a
      <3>1. PICK i \in 1 .. Len(L) : Marked(L, i) /\ L[i].state = "ok" /\ L[i].age <= a
        BY <2>2
      <3>2. PICK n \in 1 .. Len(M) : e[n] = i
        BY <1>5, <3>1
      <3> QED BY <1>4, <1>6, <2>2, <3>1, <3>2
    <2> QED BY <2>1, <2>2 DEF GraceInv
  <1> QED BY <1>7, <1>8 DEF Paced, M

(* nxdn_cc_hunt_follow_foreign_tune(): after it the grace period is no     *)
(* older than the last tune of others that landed.                         *)
LEMMA FollowedPaced ==
    ASSUME NEW s, NEW H, NEW T \in BOOLEAN, Good(s, H, T), ~s.h.hunting, s.h.armed \in Ages, NEW a \in Ages,
           GraceInv(s.h, s.L, a)
    PROVE  LET t == Followed(s)
           IN  t.h.armed \in Ages /\ t.h.armed <= a /\ FollowInv(t.h, t.L)
  <1> DEFINE newest == Newest(s.L)
             inFlight == newest # 0 /\ "own" \notin s.L[newest].marks /\ s.L[newest].state = "pending"
             was == StatusOf(s.L, "foreign")
             t == Followed(s)
             B == Unmark(s.L, "foreign")
             q == [B EXCEPT ![newest].marks = @ \cup {"foreign"}]
  <1>0. /\ s \in HuntState /\ s.h \in HuntCtx /\ s.L \in Seq(Entry) /\ PhaseInv(s.h, T) /\ OrderInv(s.h, s.L)
        /\ Good(t, H, T) /\ t.h \in HuntCtx /\ t.L \in Seq(Entry) /\ Watched(s, t.L)
    <2>1. Good(t, H, T) /\ Watched(s, t.L)
      BY FollowedKeeps, Zenon
    <2> HIDE DEF t
    <2> QED BY <2>1 DEF Good, HuntState
  <1>1. ~s.h.own
    BY <1>0 DEF PhaseInv
  <1>2. CASE inFlight
    <2>1. t.h = [s.h EXCEPT !.foreign = TRUE, !.armed = 0] /\ t.L = q
      BY <1>0, <1>2, FollowedForm, Zenon
    <2>2. newest \in 1 .. Len(s.L) /\ \A i \in 1 .. Len(s.L) : s.L[i].state \in {"pending", "gated"} => i <= newest
      BY <1>0, <1>2, NewestEffect
    <2>3. /\ B \in Seq(Entry) /\ Len(B) = Len(s.L) /\ B[newest] \in Entry
      <3>1. B \in Seq(Entry) /\ Len(B) = Len(s.L)
        BY <1>0, UnmarkEffect
      <3> HIDE DEF B, newest
      <3> QED BY <2>2, <3>1
    <2> HIDE DEF B, newest, t
    <2>4. Marked(q, newest)
      BY <2>2, <2>3 DEF Marked, Entry
    <2>5. t.h.armed = 0 /\ t.h.foreign = TRUE
      BY <1>0, <2>1 DEF HuntCtx
    <2>6. ASSUME NEW i \in 1 .. Len(t.L), t.L[i].state = "pending", \A j \in 1 .. Len(t.L) : i < j => ~Open(t.L, j)
          PROVE  i = newest
      <3>1. i \in 1 .. Len(s.L) /\ i <= newest /\ Len(t.L) = Len(s.L)
        BY <1>0, <2>2, <2>6 DEF Watched
      <3>2. Open(t.L, newest)
        BY <1>0, <1>2, <2>2 DEF Watched, Open
      <3> QED BY <2>2, <2>6, <3>1, <3>2
    <2>7. FollowInv(t.h, t.L)
      BY <2>1, <2>4, <2>5, <2>6 DEF FollowInv
    <2> QED BY <2>5, <2>7, AgeOrder DEF t
  <1>3. CASE ~inFlight
    <2> DEFINE b == IF s.h.foreign /\ was.state = "ok" /\ was.age < s.h.armed THEN was.age ELSE s.h.armed
    <2>1. t.h = [s.h EXCEPT !.foreign = FALSE, !.armed = b]
      BY <1>0, <1>3, FollowedForm, Zenon
    <2>2. t.h.armed = b
      BY <1>0, <2>1 DEF HuntCtx
    <2>3. \A i \in 1 .. Len(s.L) : s.L[i].state # "pending"
      <3>1. LET n == Newest(s.L) IN n = 0 \/ Owned(s.L, n) \/ s.L[n].state # "pending"
        BY <1>3 DEF Owned
      <3> QED BY <1>1, <3>1, NonePending
    <2>4. was.age \in Ages
      BY <1>0, StatusEffect
    <2>5. FollowInv(t.h, t.L)
      BY <1>0, <2>3 DEF FollowInv, Watched
    <2>6. ASSUME a < s.h.armed
          PROVE  s.h.foreign /\ was.state = "ok" /\ was.age <= a
      <3>1. PICK k \in 1 .. Len(s.L) : s.h.foreign /\ Marked(s.L, k) /\ s.L[k].state = "ok" /\ s.L[k].age <= a
        BY <2>3, <2>6 DEF GraceInv
      <3>2. \A i, j \in 1 .. Len(s.L) : "foreign" \in s.L[i].marks /\ "foreign" \in s.L[j].marks => i = j
        BY <1>0 DEF OrderInv, Marked
      <3>3. "foreign" \in s.L[k].marks
        BY <3>1 DEF Marked
      <3>4. was.state = (IF s.L[k].state = "gated" THEN "failed" ELSE s.L[k].state) /\ was.age = s.L[k].age
        BY <1>0, <3>2, <3>3, StatusUnique
      <3> QED BY <3>1, <3>4
    <2> HIDE DEF was, t
    <2>7. b \in Ages /\ b <= a
      BY <2>4, <2>6, AgeOrder
    <2> HIDE DEF b
    <2> QED BY <2>2, <2>5, <2>7 DEF t
  <1> QED BY <1>2, <1>3

(* nxdn_cc_hunt_tick_locked()                                              *)
LEMMA TickPaced ==
    ASSUME air \in Airs, NEW s, NEW H, tuned = FALSE, Good(s, H, tuned), Rigctl => ~s.h.own, NEW t \in Ticked(s),
           NEW a \in Ages, lock \in Ages, Paced(s.h, s.L, a, boundary)
    PROVE  /\ Paced(t.h, t.L, a, boundary)
           /\ ~s.h.hunting /\ t.h.hunting => lock > Grace /\ a > Grace
  <1>0. /\ s \in HuntState /\ s.h \in HuntCtx /\ s.h.armed \in Arms /\ PhaseInv(s.h, FALSE) /\ tuned \in BOOLEAN
        /\ Good(t, H, tuned) /\ t.h.armed \in Arms
    <2>1. tuned \in BOOLEAN
      OBVIOUS
    <2>2. Good(t, H, tuned)
      BY <2>1, TickKeeps DEF Done
    <2> QED BY <2>1, <2>2 DEF Good, HuntState, HuntCtx
  <1>1. ASSUME NEW r, Passed(r, t, H, tuned), r.h.armed \in Arms, r.h.armed <= a
        PROVE  Paced(t.h, t.L, a, boundary)
    <2>1. t.h.armed \in {r.h.armed, Unarmed} /\ (~t.h.hunting => Calm(t.L) \/ t.h.armed = Unarmed)
      BY <1>1 DEF Passed
    <2>2. CASE t.h.armed = Unarmed
      BY <2>2, UnarmedPaced
    <2>3. CASE t.h.armed # Unarmed
      <3>1. t.h.armed <= a /\ (~t.h.hunting => FollowInv(t.h, t.L))
        BY <1>1, <2>1, <2>3, CalmFollows
      <3> QED BY <1>0, <3>1, ArmedPaced
    <2> QED BY <2>2, <2>3
  <1> DEFINE r == Resolve(s)
  <1>2. /\ Good(r, H, tuned) /\ r.h.hunting = s.h.hunting /\ r.h.armed = s.h.armed
        /\ r.result \in {"resolved", "waiting"} /\ (r.result = "resolved" => ~r.h.own)
    BY <1>0, ResolveKeeps, Zenon
  <1>3. CASE s.h.hunting
    <2>0. s.h.armed <= a
      BY <1>3 DEF Paced
    <2>1. CASE t \in Stopped(s, FALSE)
      <3>1. Passed(s, t, H, tuned)
        BY <1>0, <1>3, <2>1, StoppedKeeps, Zenon
      <3> QED BY <1>0, <1>1, <1>3, <2>0, <3>1
    <2>2. CASE t = r
      BY <1>2, <1>3, <2>0, <2>2 DEF Paced
    <2>3. CASE t \in ProbeFrom(r) /\ r.result # "waiting"
      <3> HIDE DEF r
      <3>1. ~r.h.own /\ r.h.hunting
        BY <1>2, <1>3, <2>3
      <3>2. Passed(r, t, H, tuned)
        BY <1>0, <1>2, <2>3, <3>1, ProbeKeeps, Zenon
      <3> QED BY <1>0, <1>1, <1>2, <1>3, <2>0, <3>2
    <2> QED BY <1>3, <2>1, <2>2, <2>3, TickedForm
  <1>4. CASE ~s.h.hunting
    <2>1. CASE t = [s EXCEPT !.h.armed = Unarmed]
      <3>1. t.h.armed = Unarmed /\ Same(t.h, s.h)
        BY <2>1, Rearmed
      <3> QED BY <1>4, <3>1, UnarmedPaced DEF Same
    <2>2. CASE t = Followed([s EXCEPT !.h.armed = 0])
      <3> DEFINE w == [s EXCEPT !.h.armed = 0]
      <3>1. Good(w, H, tuned) /\ Same(w.h, s.h) /\ w.h.armed = 0
        BY <1>0, Rearmed
      <3>2. t = Followed(w)
        BY <2>2
      <3> HIDE DEF w
      <3>3. GraceInv(w.h, w.L, a) /\ ~w.h.hunting /\ w.h.armed \in Ages
        BY <1>4, <3>1, AgeOrder DEF GraceInv, Same
      <3>4. t.h.armed <= a /\ FollowInv(t.h, t.L)
        BY <1>0, <3>1, <3>2, <3>3, FollowedPaced, Zenon
      <3>5. Same(t.h, w.h)
        BY <1>0, <3>1, <3>2, FollowedKeeps, Zenon
      <3> QED BY <1>0, <3>3, <3>4, <3>5, ArmedPaced DEF Same
    <2>3. CASE MayRun(s.h) /\ s.h.armed # Unarmed
      <3> DEFINE f == Followed(s)
                 newest == Newest(s.L)
      <3>1. GraceInv(s.h, s.L, a) /\ s.h.armed \in Ages
        BY <1>0, <1>4, <2>3, AgeOrder DEF Paced, MayRun
      <3>2. f.h.armed \in Ages /\ f.h.armed <= a /\ FollowInv(f.h, f.L)
        BY <1>0, <1>4, <3>1, FollowedPaced, Zenon
      <3>3. /\ Good(f, H, tuned) /\ Same(f.h, s.h) /\ f.result \in {"none", "waiting"} /\ Watched(s, f.L)
            /\ f.result = "none" => newest = 0 \/ Owned(s.L, newest) \/ s.L[newest].state # "pending"
        BY <1>0, FollowedKeeps, Zenon
      <3>4. CASE t = Followed(s)
        <4>1. t = f
          BY <3>4
        <4> HIDE DEF f
        <4>2. ~t.h.hunting
          BY <1>4, <3>3, <4>1 DEF Same
        <4> QED BY <1>0, <3>2, <4>1, <4>2, ArmedPaced
      <3>5. CASE Begun(s) /\ t \in ProbeFrom([Followed(s) EXCEPT !.h.hunting = TRUE, !.h.retry = 0])
        <4> DEFINE w == [f EXCEPT !.h.hunting = TRUE, !.h.retry = 0]
        <4>1. t \in ProbeFrom(w) /\ f.result # "waiting" /\ WindowExpired(f.h)
          BY <3>5 DEF Begun
        <4> HIDE DEF f
        <4>2. ~f.h.own /\ ~s.h.own
          BY <1>0, <1>4, <3>3 DEF PhaseInv, Same
        <4>3. \A i \in 1 .. Len(f.L) : f.L[i].state # "pending"
          <5>1. newest = 0 \/ Owned(s.L, newest) \/ s.L[newest].state # "pending"
            BY <3>3, <4>1
          <5>2. \A i \in 1 .. Len(s.L) : s.L[i].state # "pending"
            BY <1>0, <4>2, <5>1, NonePending
          <5> QED BY <3>3, <5>2 DEF Watched
        <4>4. Good(w, H, tuned) /\ w.h.hunting /\ ~w.h.own /\ w.h.armed = f.h.armed
          BY <3>3, <4>2, <4>3, HuntBegins, Zenon
        <4> HIDE DEF w
        <4>5. Passed(w, t, H, tuned)
          BY <1>0, <4>1, <4>4, ProbeKeeps, Zenon
        <4>6. Paced(t.h, t.L, a, boundary)
          BY <1>1, <3>2, <4>4, <4>5, Ranges
        <4> DEFINE b == f.h.armed
        <4>r. b \in Ages /\ b <= a
          BY <3>2
        <4>t. b \in Int /\ lock \in Int /\ a \in Int /\ Grace \in Int
          <5> HIDE DEF b
          <5>1. \A x \in Ages : x \in Int
            BY Sizes DEF Ages
          <5> QED BY <4>r, <5>1, Sizes
        <4>w. (IF lock < b THEN lock ELSE b) > Grace
          BY <4>1 DEF WindowExpired
        <4> HIDE DEF b
        <4>7. lock > Grace /\ b > Grace
          BY <4>t, <4>w
        <4>8. a > Grace
          BY <4>r, <4>t, <4>7
        <4> QED BY <4>6, <4>7, <4>8
      <3>6. \/ t = Followed(s)
            \/ Begun(s) /\ t \in ProbeFrom([Followed(s) EXCEPT !.h.hunting = TRUE, !.h.retry = 0])
        BY <1>4, <2>3, TickedForm, Zenon
      <3> HIDE DEF f, newest
      <3> QED BY <3>4, <3>5, <3>6, Zenon
    <2>4. \/ t = [s EXCEPT !.h.armed = Unarmed] \/ t = Followed([s EXCEPT !.h.armed = 0])
          \/ MayRun(s.h) /\ s.h.armed # Unarmed
      BY <1>4, TickedForm, Zenon DEF Begun
    <2> QED BY <2>1, <2>2, <2>3, <2>4, Zenon
  <1> QED BY <1>3, <1>4

(* A hunt begins a grace period after content and the tunes of others.     *)
Waited == ~h.hunting /\ h'.hunting => lock > Grace /\ landed > Grace

LEMMA TimeCarried ==
    ASSUME landed' \in Ages, lock' \in Ages, tuned' => due' \/ h'.armed = Unarmed,
           ~tuned' => Paced(h', ledger', landed', boundary')
    PROVE  TimeInv'
  BY DEF TimeInv, Paced, FollowInv, GraceInv, Open, Marked

LEMMA HereTimed ==
    ASSUME HuntInv, TimeInv
    PROVE  /\ landed \in Ages /\ lock \in Ages /\ h.armed \in Arms /\ h \in HuntCtx /\ ledger \in Seq(Entry)
           /\ OrderInv(h, ledger) /\ (~h.hunting => \A i \in 1 .. Len(ledger) : ~Owned(ledger, i))
           /\ tuned => due \/ h.armed = Unarmed
           /\ ~tuned => Paced(h, ledger, landed, boundary)
           /\ 0 \in Ages /\ Oldest \in Ages /\ tuned \in BOOLEAN
  <1>1. h \in HuntCtx /\ ledger \in Seq(Entry) /\ OrderInv(h, ledger) /\ LandInv(h, ledger, receiver) /\ PhaseInv(h, tuned)
    BY DEF HuntInv, Held
  <1>2. h.armed \in Arms
    BY <1>1 DEF HuntCtx
  <1>3. ~h.hunting => \A i \in 1 .. Len(ledger) : ~Owned(ledger, i)
    BY <1>1 DEF LandInv, PhaseInv
  <1> QED BY <1>1, <1>2, <1>3, AgeOrder DEF TimeInv, HuntInv

LEMMA TickTimed == ASSUME HuntInv, TimeInv, Tick PROVE TimeInv' /\ Waited
  <1>1. PICK s \in Ticked(Here) : Leaves(s)
    <2>1. Then({Here}, Ticked) = UNION {Ticked(s) : s \in {Here}}
      BY DEF Then
    <2>2. UNION {Ticked(s) : s \in {Here}} = Ticked(Here)
      BY Zenon
    <2> QED BY <2>1, <2>2 DEF Tick
  <1>2. due' = FALSE /\ tuned' = tuned /\ lock' = lock /\ landed' = landed /\ boundary' = boundary /\ h' = s.h /\ ledger' = Trim(s.L)
    BY <1>1 DEF Tick, records, switches, Leaves
  <1>3. Good(Here, heard, tuned) /\ Here.h = h /\ Here.L = ledger
    BY HereGood
  <1>4. air \in Airs /\ tuned \in BOOLEAN /\ (Rigctl => ~Here.h.own) /\ PhaseInv(h, tuned)
    BY <1>3 DEF HuntInv, Held
  <1>5. landed \in Ages /\ lock \in Ages /\ (~tuned => Paced(h, ledger, landed, boundary))
    BY HereTimed
  <1>6. CASE tuned
    <2>1. ~Here.h.hunting /\ ~MayRun(Here.h)
      BY <1>3, <1>4, <1>6 DEF PhaseInv, MayRun
    <2>2. s = [Here EXCEPT !.h.armed = Unarmed]
      BY <1>1, <2>1, TickedForm, Zenon DEF Begun
    <2>3. s.h.armed = Unarmed /\ Same(s.h, Here.h)
      <3> DEFINE w == Here
      <3>1. Good(w, heard, tuned) /\ s = [w EXCEPT !.h.armed = Unarmed]
        BY <1>3, <2>2
      <3> HIDE DEF w
      <3>2. s.h.armed = Unarmed /\ Same(s.h, w.h)
        BY <1>4, <3>1, Rearmed
      <3> QED BY <3>2 DEF w
    <2>4. TimeInv'
      BY <1>2, <1>5, <1>6, <2>3, TimeCarried
    <2> QED BY <1>2, <2>1, <2>3, <2>4 DEF Waited, Same
  <1>7. CASE ~tuned
    <2> DEFINE w == Here
               a == landed
    <2>1. tuned = FALSE
      BY <1>4, <1>7
    <2>2. Good(w, heard, tuned) /\ (Rigctl => ~w.h.own) /\ s \in Ticked(w) /\ Paced(w.h, w.L, a, boundary) /\ a \in Ages
      BY <1>1, <1>3, <1>4, <1>5, <1>7
    <2> HIDE DEF w, a
    <2>3. Good(s, heard, tuned)
      BY <1>4, <2>2, TickKeeps DEF Done
    <2>4. Paced(s.h, s.L, a, boundary) /\ (~w.h.hunting /\ s.h.hunting => lock > Grace /\ a > Grace)
      BY <1>4, <1>5, <2>1, <2>2, TickPaced
    <2>5. s.L \in Seq(Entry)
      BY <2>3 DEF Good, HuntState
    <2>6. Paced(s.h, Trim(s.L), a, boundary)
      BY <2>4, <2>5, TrimPaced
    <2>7. TimeInv'
      BY <1>2, <1>5, <1>7, <2>6, TimeCarried DEF a
    <2> QED BY <1>2, <1>3, <2>4, <2>7 DEF Waited, w, a
  <1> QED BY <1>6, <1>7

LEMMA PassTimed == ASSUME HuntInv, TimeInv, Pass PROVE TimeInv' /\ Waited
  <1>0. /\ landed \in Ages /\ lock \in Ages /\ h.armed \in Arms /\ h \in HuntCtx /\ ledger \in Seq(Entry)
        /\ OrderInv(h, ledger) /\ (~h.hunting => \A i \in 1 .. Len(ledger) : ~Owned(ledger, i))
        /\ tuned => due \/ h.armed = Unarmed
        /\ ~tuned => Paced(h, ledger, landed, boundary)
    BY HereTimed
  <1>1. /\ lock' = Older(lock) /\ landed' = Older(landed) /\ tuned' = tuned /\ due' = due /\ boundary' = boundary
    BY DEF Pass, switches
  <1>2. /\ ledger' \in Seq(Entry) /\ Len(ledger') = Len(ledger)
        /\ \A i \in 1 .. Len(ledger) :
              /\ ledger'[i].state = ledger[i].state /\ ledger'[i].marks = ledger[i].marks
              /\ ledger'[i].age = IF ledger[i].state = "ok" THEN Older(ledger[i].age) ELSE ledger[i].age
        /\ h'.hunting = h.hunting /\ h'.foreign = h.foreign
        /\ h'.armed = IF h.armed = Unarmed THEN Unarmed ELSE Older(h.armed)
    BY PassEffect DEF Same
  <1>3. landed' \in Ages /\ lock' \in Ages
    BY <1>0, <1>1, AgeOrder
  <1>4. CASE h.armed = Unarmed
    <2>1. h'.armed = Unarmed
      BY <1>2, <1>4
    <2>2. Paced(h', ledger', landed', boundary')
      BY <1>3, <2>1, UnarmedPaced
    <2>3. TimeInv'
      BY <1>3, <2>1, <2>2, TimeCarried
    <2> QED BY <1>2, <2>3 DEF Waited
  <1>5. CASE h.armed # Unarmed
    <2>1. h.armed \in Ages /\ h'.armed = Older(h.armed)
      BY <1>0, <1>2, <1>5, AgeOrder
    <2>2. ASSUME NEW x \in Ages, NEW y \in Ages
          PROVE  (x <= y => Older(x) <= Older(y)) /\ (Older(x) < Older(y) => x < y)
      <3>1. x \in Nat /\ y \in Nat /\ Older(x) \in Nat /\ Older(y) \in Nat
        BY AgeOrder
      <3>2. (x <= y => Older(x) <= Older(y)) /\ (y <= x => Older(y) <= Older(x))
        BY AgeOrder
      <3> QED BY <3>1, <3>2
    <2>3. ASSUME ~tuned
          PROVE  Paced(h', ledger', landed', boundary')
      <3>1. h'.hunting => h'.armed <= landed'
        BY <1>0, <1>1, <1>2, <2>1, <2>2, <2>3 DEF Paced
      <3>2. ASSUME ~h.hunting
            PROVE  FollowInv(h', ledger') /\ (boundary \/ GraceInv(h', ledger', landed'))
        <4>1. FollowInv(h, ledger) /\ (boundary \/ GraceInv(h, ledger, landed))
          BY <1>0, <1>5, <2>3, <3>2 DEF Paced
        <4>2. FollowInv(h', ledger')
          BY <1>2, <4>1 DEF FollowInv, Open, Marked
        <4>3. ASSUME GraceInv(h, ledger, landed), landed' < h'.armed
              PROVE  \/ \E i \in 1 .. Len(ledger') : ledger'[i].state = "pending"
                     \/ h'.foreign /\ \E i \in 1 .. Len(ledger') : Marked(ledger', i) /\ ledger'[i].state = "ok" /\ ledger'[i].age <= landed'
          <5>1. landed < h.armed
            BY <1>0, <1>1, <2>1, <2>2, <4>3
          <5>2. CASE \E i \in 1 .. Len(ledger) : ledger[i].state = "pending"
            BY <1>2, <5>2
          <5>3. CASE h.foreign /\ \E i \in 1 .. Len(ledger) : Marked(ledger, i) /\ ledger[i].state = "ok" /\ ledger[i].age <= landed
            <6>1. PICK i \in 1 .. Len(ledger) : Marked(ledger, i) /\ ledger[i].state = "ok" /\ ledger[i].age <= landed
              BY <5>3
            <6>2. ledger[i] \in Entry
              BY <1>0
            <6>3. ledger[i].age \in Ages
              BY <6>2 DEF Entry
            <6>4. ledger'[i].age = Older(ledger[i].age) /\ Marked(ledger', i) /\ ledger'[i].state = "ok"
              BY <1>2, <6>1 DEF Marked
            <6>5. ledger'[i].age <= landed'
              BY <1>0, <1>1, <2>2, <6>1, <6>3, <6>4
            <6> QED BY <1>2, <5>3, <6>4, <6>5
          <5> QED BY <4>3, <5>1, <5>2, <5>3 DEF GraceInv
        <4>4. GraceInv(h, ledger, landed) => GraceInv(h', ledger', landed')
          BY <4>3 DEF GraceInv
        <4> QED BY <4>1, <4>2, <4>4
      <3> QED BY <1>1, <1>2, <3>1, <3>2 DEF Paced
    <2>4. TimeInv'
      BY <1>0, <1>1, <1>3, <1>5, <2>3, TimeCarried
    <2> QED BY <1>2, <2>4 DEF Waited
  <1> QED BY <1>4, <1>5

LEMMA CacTimed == ASSUME HuntInv, TimeInv, Cac PROVE TimeInv' /\ Waited
  <1>0. landed \in Ages /\ 0 \in Ages /\ 0 <= landed /\ 0 \in Arms
    BY HereTimed, AgeOrder, Ranges
  <1>1. PICK s \in Noted(Here) : Leaves(s) /\ Names(s)
    BY DEF Cac
  <1>2. GateOpen /\ due' = TRUE /\ lock' = 0 /\ landed' = landed
    BY <1>1 DEF Cac, Frame, Names
  <1>3. NotedWell(s)
    BY <1>2, NotedKeeps
  <1>4. h' = s.h /\ ledger' = Trim(s.L) /\ s.L \in Seq(Entry) /\ s.h.armed = 0 /\ s.h.hunting = FALSE /\ Calm(s.L)
    BY <1>1, <1>3 DEF Leaves, NotedWell, HuntState
  <1>5. Paced(s.h, s.L, landed, boundary')
    BY <1>0, <1>4, CalmFollows, ArmedPaced
  <1>6. Paced(s.h, Trim(s.L), landed, boundary')
    BY <1>4, <1>5, TrimPaced
  <1>7. TimeInv'
    BY <1>0, <1>2, <1>4, <1>6, TimeCarried
  <1> QED BY <1>4, <1>7 DEF Waited

LEMMA GrantTimed == ASSUME HuntInv, TimeInv, NEW f \in Freqs, Grant(f) PROVE TimeInv' /\ Waited
  <1>0. landed \in Ages /\ 0 \in Ages /\ 0 <= landed /\ 0 \in Arms /\ tuned \in BOOLEAN
    BY HereTimed, AgeOrder, Ranges
  <1>1. PICK s \in Noted(Here) : \E t \in RequestTune(s, f, {}) :
            Leaves(t) /\ Names(s) /\ tuned' = (t.result = "ok")
    BY DEF Grant
  <1>2. PICK t \in RequestTune(s, f, {}) : Leaves(t) /\ Names(s) /\ tuned' = (t.result = "ok")
    BY <1>1
  <1>3. GateOpen /\ due' = TRUE /\ lock' = 0 /\ landed' = landed /\ tuned' \in BOOLEAN
    BY <1>2 DEF Grant, Frame, Names
  <1>4. NotedWell(s)
    BY <1>3, NotedKeeps
  <1>5. Good(s, HeardNow, tuned) /\ ~s.h.own /\ ~s.h.hunting /\ (s.h.rx # 0 /\ s.h.current => s.h.rx \in HeardNow)
    BY <1>0, <1>4, NotedGood DEF NotedWell
  <1>6. /\ t.h.hunting = s.h.hunting /\ t.h.armed = s.h.armed
        /\ t.result # "ok" => t.L = s.L
    <2> DEFINE Q == tuned'
               K == HeardNow
               T == tuned
    <2>1. T \in BOOLEAN /\ Q \in BOOLEAN
      BY <1>0, <1>3
    <2>2. Good(s, K, T)
      BY <1>5
    <2>3. s.h.rx # 0 /\ s.h.current => s.h.rx \in K
      BY <1>5
    <2> HIDE DEF Q, K, T
    <2> QED BY <1>2, <1>5, <2>1, <2>2, <2>3, AskKeeps
  <1>7. h' = t.h /\ ledger' = Trim(t.L) /\ t.h.armed = 0 /\ t.h.hunting = FALSE
    BY <1>2, <1>4, <1>6 DEF Leaves, NotedWell
  <1>8. ASSUME ~tuned'
        PROVE  Paced(h', ledger', landed', boundary')
    <2>1. t.L = s.L /\ s.L \in Seq(Entry) /\ Calm(s.L)
      BY <1>2, <1>4, <1>6, <1>8 DEF NotedWell, HuntState
    <2>2. Paced(t.h, t.L, landed, boundary')
      BY <1>0, <1>7, <2>1, CalmFollows, ArmedPaced
    <2>3. Paced(t.h, Trim(t.L), landed, boundary')
      BY <2>1, <2>2, TrimPaced
    <2> QED BY <1>3, <1>7, <2>3
  <1>9. TimeInv'
    BY <1>0, <1>3, <1>8, TimeCarried
  <1> QED BY <1>7, <1>9 DEF Waited

(* Nothing that the grace period depends on changes.                       *)
LEMMA SameTimed ==
    ASSUME HuntInv, TimeInv, h'.hunting = h.hunting, h'.armed = h.armed, h'.foreign = h.foreign, ledger' = ledger,
           landed' = landed, lock' \in Ages, boundary' = boundary, tuned' = tuned, due => due'
    PROVE  TimeInv' /\ Waited
  <1>1. /\ landed \in Ages /\ (tuned => due \/ h.armed = Unarmed) /\ (~tuned => Paced(h, ledger, landed, boundary))
    BY HereTimed
  <1>2. ~tuned => Paced(h', ledger', landed', boundary')
    BY <1>1, PacedSame
  <1>3. TimeInv'
    BY <1>1, <1>2, TimeCarried
  <1> QED BY <1>3 DEF Waited

LEMMA SiteMessageTimed == ASSUME HuntInv, TimeInv, SiteMessage PROVE TimeInv' /\ Waited
  <1>0. 0 \in Ages /\ h \in HuntCtx
    BY HereTimed
  <1>1. /\ ledger' = ledger /\ landed' = landed /\ lock' = 0 /\ boundary' = boundary /\ tuned' = tuned /\ due' = TRUE
        /\ \E f \in TunerFrequency(Here) : h' = IF f > 0 THEN [h EXCEPT !.rx = f, !.current = TRUE] ELSE h
    BY DEF SiteMessage, Frame, switches
  <1>2. h'.hunting = h.hunting /\ h'.armed = h.armed /\ h'.foreign = h.foreign
    BY <1>0, <1>1 DEF HuntCtx
  <1> QED BY <1>0, <1>1, <1>2, SameTimed

LEMMA ContentTimed == ASSUME HuntInv, TimeInv, Content PROVE TimeInv' /\ Waited
  <1>0. 0 \in Ages
    BY HereTimed
  <1>1. /\ ledger' = ledger /\ landed' = landed /\ lock' = 0 /\ boundary' = boundary /\ tuned' = tuned /\ due' = TRUE
        /\ h' = h
    BY DEF Content, Frame, switches, records
  <1> QED BY <1>0, <1>1, SameTimed

LEMMA TypeDTimed == ASSUME HuntInv, TimeInv, TypeD PROVE TimeInv' /\ Waited
  <1> DEFINE r == Resolve(Here)
  <1>0. landed \in Ages /\ 0 \in Ages
    BY HereTimed
  <1>1. GateOpen /\ due' = TRUE /\ lock' = 0 /\ landed' = landed
    BY DEF TypeD, Frame
  <1>2. Good(r, heard, tuned)
    BY <1>1, ResolvedHere
  <1>3. h' = [r EXCEPT !.h.hunting = FALSE, !.h.park = 0, !.h.retry = 0, !.h.armed = Unarmed,
                       !.h.confirmed = FALSE, !.h.cc = 0].h
    BY DEF TypeD, Leaves
  <1> HIDE DEF r
  <1>4. r \in HuntState /\ r.h \in HuntCtx
    BY <1>2 DEF Good, HuntState
  <1>5. h' = [r.h EXCEPT !.hunting = FALSE, !.park = 0, !.retry = 0, !.armed = Unarmed, !.confirmed = FALSE, !.cc = 0]
    BY <1>3, <1>4 DEF HuntState
  <1>6. h'.armed = Unarmed /\ h'.hunting = FALSE
    BY <1>4, <1>5 DEF HuntCtx
  <1>7. Paced(h', ledger', landed', boundary')
    BY <1>0, <1>1, <1>6, UnarmedPaced
  <1>8. TimeInv'
    BY <1>0, <1>1, <1>7, TimeCarried
  <1> QED BY <1>6, <1>8 DEF Waited

LEMMA ReconnectTimed == ASSUME HuntInv, TimeInv, NEW f \in Freqs, Reconnect(f) PROVE TimeInv' /\ Waited
  <1>0. lock \in Ages /\ h \in HuntCtx
    BY HereTimed
  <1>1. /\ ledger' = ledger /\ landed' = landed /\ lock' = lock /\ boundary' = boundary /\ tuned' = tuned /\ due' = due
        /\ h' = [h EXCEPT !.rx = 0, !.current = FALSE]
    BY DEF Reconnect, switches, records
  <1>2. h'.hunting = h.hunting /\ h'.armed = h.armed /\ h'.foreign = h.foreign
    BY <1>0, <1>1 DEF HuntCtx
  <1> QED BY <1>0, <1>1, <1>2, SameTimed

LEMMA SystemReplacedTimed == ASSUME HuntInv, TimeInv, SystemReplaced PROVE TimeInv' /\ Waited
  <1>0. lock \in Ages /\ h \in HuntCtx
    BY HereTimed
  <1>1. /\ ledger' = ledger /\ landed' = landed /\ lock' = lock /\ boundary' = boundary /\ tuned' = tuned /\ due' = due
        /\ h' = [h EXCEPT !.confirmed = FALSE, !.cc = 0, !.index = 1]
    BY DEF SystemReplaced, switches
  <1>2. h'.hunting = h.hunting /\ h'.armed = h.armed /\ h'.foreign = h.foreign
    BY <1>0, <1>1 DEF HuntCtx
  <1> QED BY <1>0, <1>1, <1>2, SameTimed

LEMMA SetTrunkTimed == ASSUME HuntInv, TimeInv, NEW on \in BOOLEAN, SetTrunk(on) PROVE TimeInv' /\ Waited
  <1>0. lock \in Ages
    BY HereTimed
  <1>1. /\ ledger' = ledger /\ landed' = landed /\ lock' = lock /\ boundary' = boundary /\ tuned' = tuned /\ due' = due
        /\ h' = h
    BY DEF SetTrunk, records
  <1> QED BY <1>0, <1>1, SameTimed

(* The answer to the request of others that is followed, or to one that a  *)
(* newer one in flight has superseded.                                     *)
LEMMA AnswerTimed == ASSUME HuntInv, TimeInv, NEW ok \in BOOLEAN, Answer(ok) PROVE TimeInv' /\ Waited
  <1>0. /\ landed \in Ages /\ lock \in Ages /\ h.armed \in Arms /\ h \in HuntCtx /\ ledger \in Seq(Entry)
        /\ OrderInv(h, ledger) /\ (~h.hunting => \A i \in 1 .. Len(ledger) : ~Owned(ledger, i))
        /\ tuned => due \/ h.armed = Unarmed
        /\ ~tuned => Paced(h, ledger, landed, boundary)
        /\ 0 \in Ages /\ Oldest \in Ages /\ Len(ledger) \in Nat
    BY HereTimed
  <1>1. PICK i \in 1 .. Len(ledger), D \in Seq(Entry) :
              /\ Answered(ok, i, D) /\ ledger' = Trim(D)
              /\ h' = (IF ok /\ ledger[i].state = "pending" THEN [h EXCEPT !.current = FALSE] ELSE h)
              /\ landed' = (IF Owned(ledger, i) \/ ledger[i].state # "pending" THEN landed ELSE IF ok THEN 0 ELSE Oldest)
    BY AnswerEffect
  <1>2. h'.hunting = h.hunting /\ h'.armed = h.armed /\ h'.foreign = h.foreign
    BY <1>0, <1>1 DEF HuntCtx
  <1>3. lock' = lock /\ due' = due /\ tuned' = tuned /\ boundary' = boundary
    BY DEF Answer, switches
  <1>4. landed' \in Ages
    BY <1>0, <1>1
  <1>5. /\ Len(D) = Len(ledger) /\ D[i].state # "pending" /\ \A j \in 1 .. Len(ledger) : D[j].marks = ledger[j].marks
        /\ \A j \in 1 .. Len(ledger) : ledger[j].live => i <= j
        /\ \A j \in 1 .. Len(ledger) : j # i =>
              D[j].age = ledger[j].age /\ (D[j].state = ledger[j].state \/ (ledger[j].state = "gated" /\ D[j].state = "failed"))
        /\ ok /\ ledger[i].state = "pending" => D[i].state = "ok" /\ D[i].age = 0
        /\ ~(ok /\ ledger[i].state = "pending") => (D[i].state = "ok" <=> ledger[i].state = "ok") /\ D[i].age = ledger[i].age
    BY <1>1 DEF Answered
  <1>6. \A j \in 1 .. Len(ledger) : ledger[j].state = "pending" => i <= j
    BY <1>5 DEF HuntInv, Held, LedgerInv
  <1>7. \A j \in 1 .. Len(ledger) :
           /\ D[j].state = "pending" <=> ledger[j].state = "pending" /\ j # i
           /\ Marked(D, j) <=> Marked(ledger, j)
           /\ ledger[j].state = "ok" => D[j].state = "ok" /\ (j # i \/ ledger[i].state # "pending") /\ D[j].age = ledger[j].age
    BY <1>5 DEF Marked
  <1>8. ASSUME ~tuned
        PROVE  Paced(h, D, landed', boundary)
    <2>1. CASE h.armed = Unarmed
      BY <1>4, <2>1, UnarmedPaced
    <2>2. CASE h.hunting
      <3>1. ledger[i].state = "pending" => Owned(ledger, i)
        BY <1>0, <2>2 DEF OrderInv
      <3>2. landed' = landed
        BY <1>1, <3>1
      <3> QED BY <1>0, <1>8, <2>2, <3>2 DEF Paced
    <2>3. CASE ~h.hunting /\ h.armed # Unarmed
      <3>1. FollowInv(h, ledger) /\ (boundary \/ GraceInv(h, ledger, landed)) /\ \A j \in 1 .. Len(ledger) : ~Owned(ledger, j)
        BY <1>0, <1>8, <2>3 DEF Paced
      <3>2. FollowInv(h, D)
        <4>1. \A j, k \in 1 .. Len(ledger) : D[j].state = "pending" /\ j < k /\ ledger[k].state = "pending" => D[k].state = "pending"
          BY <1>0, <1>6, <1>7
        <4> QED BY <1>0, <1>5, <1>7, <3>1, <4>1, FollowKept
      <3>3. CASE ledger[i].state # "pending"
        <4>1. landed' = landed
          BY <1>1, <3>3
        <4>2. \A j \in 1 .. Len(ledger) : D[j].state = "pending" <=> ledger[j].state = "pending"
          BY <1>7, <3>3
        <4>3. GraceInv(h, ledger, landed) => GraceInv(h, D, landed)
          BY <1>5, <1>7, <4>2 DEF GraceInv
        <4> QED BY <2>3, <3>1, <3>2, <4>1, <4>3 DEF Paced
      <3>4. CASE ledger[i].state = "pending" /\ ~ok
        <4>1. landed' = Oldest
          BY <1>1, <3>1, <3>4
        <4>2. h.armed <= landed'
          BY <1>0, <4>1, AgeOrder
        <4> QED BY <1>0, <1>4, <3>2, <4>2, ArmedPaced
      <3>5. CASE ledger[i].state = "pending" /\ ok
        <4>1. landed' = 0 /\ D[i].state = "ok" /\ D[i].age = 0
          BY <1>1, <1>5, <3>1, <3>5
        <4>2. CASE \E k \in 1 .. Len(ledger) : ledger[k].state = "pending" /\ k # i
          <5>1. GraceInv(h, D, landed')
            BY <1>5, <1>7, <4>2 DEF GraceInv
          <5> QED BY <2>3, <3>2, <5>1 DEF Paced
        <4>3. CASE \A k \in 1 .. Len(ledger) : ledger[k].state = "pending" => k = i
          <5>1. ASSUME NEW j \in 1 .. Len(ledger), i < j
                PROVE  ~Open(ledger, j)
            <6> SUFFICES ASSUME Open(ledger, j)
                         PROVE  FALSE
              OBVIOUS
            <6>1. ledger[j].state = "pending"
              BY <1>0, <3>1, <3>5, <5>1 DEF OrderInv
            <6>2. j # i
              BY <1>0, <5>1
            <6> QED BY <4>3, <6>1, <6>2
          <5>2. h.foreign /\ Marked(ledger, i)
            BY <3>1, <3>5, <5>1 DEF FollowInv
          <5>3. GraceInv(h, D, landed')
            BY <1>5, <1>7, <4>1, <5>2 DEF GraceInv
          <5> QED BY <2>3, <3>2, <5>3 DEF Paced
        <4> QED BY <4>2, <4>3
      <3> QED BY <3>3, <3>4, <3>5
    <2> QED BY <2>1, <2>2, <2>3
  <1>9. ~tuned => Paced(h, Trim(D), landed', boundary)
    BY <1>1, <1>8, TrimPaced
  <1>10. ~tuned' => Paced(h', ledger', landed', boundary')
    BY <1>1, <1>2, <1>3, <1>9, PacedSame
  <1>11. TimeInv'
    BY <1>0, <1>2, <1>3, <1>4, <1>10, TimeCarried
  <1> QED BY <1>2, <1>11 DEF Waited

LEMMA ReturnTimed == ASSUME HuntInv, TimeInv, Return PROVE TimeInv' /\ Waited
  <1>0. /\ landed \in Ages /\ lock \in Ages /\ h \in HuntCtx /\ ledger \in Seq(Entry)
        /\ tuned => due \/ h.armed = Unarmed
        /\ 0 \in Ages
    BY HereTimed
  <1>1. tuned /\ ~due /\ lock' = lock /\ due' = due
    BY DEF Return
  <1>2. h.armed = Unarmed /\ ~h.hunting
    BY <1>0, <1>1 DEF HuntInv, Held, PhaseInv
  <1>3. landed' \in Ages /\ h'.armed = Unarmed /\ h'.hunting = h.hunting
    <2>1. CASE trunk /\ cc > 0
      <3>1. PICK t \in RequestTune(Here, cc, {}) :
                Leaves(t) /\ landed' = IF t.receiver # receiver \/ Live(t.L) = {} THEN 0 ELSE landed
        BY <2>1 DEF Return
      <3>2. Here \in HuntState /\ Here.h = h
        BY HereGood DEF Good
      <3>3. cc \in Freqs
        BY <2>1, Sizes DEF HuntInv, HuntPlaces
      <3>4. Requested(Here, cc, {}, t)
        <4> DEFINE w == Here
        <4>1. w \in HuntState /\ t \in RequestTune(w, cc, {}) /\ {} \in SUBSET {"own", "foreign"}
          BY <3>1, <3>2
        <4> HIDE DEF w
        <4>2. Requested(w, cc, {}, t)
          BY <3>3, <4>1, RequestEffect, Zenon
        <4> QED BY <4>2 DEF w
      <3>5. h' = h \/ h' = [h EXCEPT !.current = FALSE]
        BY <3>1, <3>2, <3>4 DEF Requested, Leaves
      <3>6. h'.armed = h.armed /\ h'.hunting = h.hunting
        BY <1>0, <3>5 DEF HuntCtx
      <3>7. landed' \in Ages
        BY <1>0, <3>1
      <3> QED BY <1>2, <3>6, <3>7
    <2>2. CASE ~(trunk /\ cc > 0)
      BY <1>0, <1>2, <2>2 DEF Return
    <2> QED BY <2>1, <2>2
  <1>4. Paced(h', ledger', landed', boundary')
    BY <1>3, UnarmedPaced
  <1>5. TimeInv'
    BY <1>0, <1>1, <1>3, <1>4, TimeCarried
  <1> QED BY <1>3, <1>5 DEF Waited

(* nxdn_cc_hunt_note_retune(): the grace period begins again.              *)
LEMMA RetunedTimed ==
    ASSUME HuntInv, TimeInv, ~due, h' = NoteRetune(h), tuned' = FALSE, landed' = landed, lock' = lock,
           FollowInv(h, ledger) => FollowInv(h', ledger')
    PROVE  TimeInv' /\ Waited
  <1>0. /\ landed \in Ages /\ lock \in Ages /\ h.armed \in Arms /\ h \in HuntCtx
        /\ tuned => due \/ h.armed = Unarmed
        /\ ~tuned => Paced(h, ledger, landed, boundary)
        /\ PhaseInv(h, tuned)
    BY HereTimed DEF HuntInv, Held
  <1>1. /\ h'.hunting = h.hunting /\ h'.foreign = h.foreign
        /\ h'.armed = IF h.armed = Unarmed THEN Unarmed ELSE 0
    BY <1>0, NoteRetuneEffect
  <1>2. Paced(h', ledger', landed, boundary')
    <2>1. CASE h.armed = Unarmed
      <3>1. h'.armed = Unarmed
        BY <1>1, <2>1
      <3> QED BY <1>0, <3>1, UnarmedPaced
    <2>2. CASE h.armed # Unarmed
      <3>1. h'.armed = 0 /\ ~tuned
        BY <1>0, <1>1, <2>2
      <3>2. ~h'.hunting => FollowInv(h', ledger')
        BY <1>0, <1>1, <2>2, <3>1 DEF Paced
      <3>3. h'.armed \in Arms /\ h'.armed <= landed
        BY <1>0, <3>1, AgeOrder, Ranges
      <3> QED BY <1>0, <3>2, <3>3, ArmedPaced
    <2> QED BY <2>1, <2>2
  <1>3. TimeInv'
    BY <1>0, <1>2, TimeCarried
  <1> QED BY <1>1, <1>3 DEF Waited

LEMMA MoveTimed == ASSUME HuntInv, TimeInv, NEW f \in Freqs, Move(f) PROVE TimeInv' /\ Waited
  <1>0. /\ h \in HuntCtx /\ ledger \in Seq(Entry) /\ Len(ledger) \in Nat /\ PhaseInv(h, tuned)
    BY DEF HuntInv, Held
  <1> DEFINE m == [Request(f, {}) EXCEPT !.state = "move"]
  <1>1. /\ ~due /\ h' = NoteRetune(h) /\ tuned' = FALSE /\ landed' = landed /\ lock' = lock
        /\ ledger' = ledger \/ ledger' = Append(ledger, m)
    BY DEF Move, Event, records, switches
  <1>2. h'.foreign = h.foreign
    BY <1>0, <1>1, NoteRetuneEffect
  <1>3. ASSUME FollowInv(h, ledger)
        PROVE  FollowInv(h', ledger')
    <2>1. CASE ledger' = ledger
      BY <1>2, <1>3, <2>1 DEF FollowInv
    <2>2. CASE ledger' = Append(ledger, m)
      <3>1. m \in Entry /\ m.state = "move"
        <4> DEFINE r == Request(f, {})
        <4>1. r \in Entry
          BY RequestTyped
        <4> HIDE DEF r
        <4>2. m = [r EXCEPT !.state = "move"]
          BY DEF r
        <4> HIDE DEF m
        <4> QED BY <4>1, <4>2 DEF Entry
      <3> HIDE DEF m
      <3>2. /\ Len(ledger') = Len(ledger) + 1 /\ ledger'[Len(ledger) + 1] = m
            /\ \A i \in 1 .. Len(ledger) : ledger'[i] = ledger[i]
        BY <1>0, <2>2, <3>1, AppendProperties
      <3>3. ASSUME NEW i \in 1 .. Len(ledger'), ledger'[i].state = "pending",
                   \A j \in 1 .. Len(ledger') : i < j => ~Open(ledger', j)
            PROVE  h'.foreign /\ Marked(ledger', i)
        <4>1. i \in 1 .. Len(ledger)
          <5>1. i # Len(ledger) + 1
            BY <3>1, <3>2, <3>3
          <5> QED BY <1>0, <3>2, <5>1
        <4>2. \A j \in 1 .. Len(ledger) : j \in 1 .. Len(ledger') /\ (Open(ledger', j) <=> Open(ledger, j))
          BY <1>0, <3>2 DEF Open
        <4>3. ledger[i].state = "pending" /\ \A j \in 1 .. Len(ledger) : i < j => ~Open(ledger, j)
          BY <3>2, <3>3, <4>1, <4>2
        <4>4. h.foreign /\ Marked(ledger, i)
          BY <1>3, <4>1, <4>3 DEF FollowInv
        <4> QED BY <1>2, <3>2, <4>1, <4>4 DEF Marked
      <3> QED BY <3>3 DEF FollowInv
    <2> QED BY <1>1, <2>1, <2>2
  <1> QED BY <1>1, <1>3, RetunedTimed

LEMMA InputBackTimed == ASSUME HuntInv, TimeInv, InputBack PROVE TimeInv' /\ Waited
  <1>0. h \in HuntCtx /\ PhaseInv(h, tuned)
    BY DEF HuntInv, Held
  <1>1. ~due /\ h' = NoteRetune(h) /\ tuned' = FALSE /\ landed' = landed /\ lock' = lock /\ ledger' = ledger
    BY DEF InputBack, records
  <1>2. h'.foreign = h.foreign
    BY <1>0, <1>1, NoteRetuneEffect
  <1>3. FollowInv(h, ledger) => FollowInv(h', ledger')
    BY <1>1, <1>2 DEF FollowInv
  <1> QED BY <1>1, <1>3, RetunedTimed

LEMMA RetireTimed == ASSUME HuntInv, TimeInv, RetireInactive PROVE TimeInv' /\ Waited
  <1>0. /\ landed \in Ages /\ lock \in Ages /\ h.armed \in Arms /\ h \in HuntCtx /\ ledger \in Seq(Entry)
        /\ OrderInv(h, ledger) /\ (~h.hunting => \A i \in 1 .. Len(ledger) : ~Owned(ledger, i))
        /\ tuned => due \/ h.armed = Unarmed
        /\ ~tuned => Paced(h, ledger, landed, boundary)
    BY HereTimed
  <1>1. h' = h /\ landed' = landed /\ lock' = lock /\ tuned' = tuned /\ due' = due /\ boundary' = boundary
    BY DEF RetireInactive, records, switches
  <1>2. PICK q \in Seq(Entry) : Retired(q) /\ ledger' = Trim(q)
    BY RetireEffect
  <1>3. /\ Len(q) = Len(ledger)
        /\ \A i \in 1 .. Len(ledger) :
              /\ q[i].marks = ledger[i].marks /\ q[i].age = ledger[i].age /\ (Marked(q, i) <=> Marked(ledger, i))
              /\ q[i].state = "pending" <=> ledger[i].state = "pending"
              /\ ledger[i].state = "ok" => q[i].state = "ok"
    BY <1>2 DEF Retired, Marked
  <1>4. ASSUME ~tuned
        PROVE  Paced(h, q, landed, boundary)
    <2>1. h.hunting => h.armed <= landed
      BY <1>0, <1>4 DEF Paced
    <2>2. ASSUME ~h.hunting, h.armed # Unarmed
          PROVE  FollowInv(h, q) /\ (boundary \/ GraceInv(h, q, landed))
      <3>1. FollowInv(h, ledger) /\ (boundary \/ GraceInv(h, ledger, landed)) /\ \A i \in 1 .. Len(ledger) : ~Owned(ledger, i)
        BY <1>0, <1>4, <2>2 DEF Paced
      <3>2. FollowInv(h, q)
        <4>1. \A j, k \in 1 .. Len(ledger) : q[j].state = "pending" /\ j < k /\ ledger[k].state = "pending" => q[k].state = "pending"
          BY <1>3
        <4> QED BY <1>0, <1>3, <3>1, <4>1, FollowKept
      <3>3. GraceInv(h, ledger, landed) => GraceInv(h, q, landed)
        BY <1>3 DEF GraceInv
      <3> QED BY <3>1, <3>2, <3>3
    <2> QED BY <2>1, <2>2 DEF Paced
  <1>5. ~tuned => Paced(h, Trim(q), landed, boundary)
    BY <1>2, <1>4, TrimPaced
  <1>6. TimeInv'
    BY <1>0, <1>1, <1>2, <1>5, TimeCarried
  <1> QED BY <1>1, <1>6 DEF Waited

LEMMA InputReplacedTimed == ASSUME HuntInv, TimeInv, InputReplaced PROVE TimeInv' /\ Waited
  <1>0. /\ landed \in Ages /\ lock \in Ages
        /\ tuned => due \/ h.armed = Unarmed
        /\ ~tuned => Paced(h, ledger, landed, boundary)
    BY HereTimed
  <1>1. /\ h' = h /\ landed' = landed /\ lock' = lock /\ tuned' = tuned /\ due' = due /\ boundary' = TRUE /\ ledger' = << >>
    BY DEF InputReplaced, records
  <1>2. FollowInv(h', ledger')
    BY <1>1 DEF FollowInv
  <1>3. ~tuned => Paced(h', ledger', landed', boundary')
    BY <1>0, <1>1, <1>2 DEF Paced
  <1>4. TimeInv'
    BY <1>0, <1>1, <1>3, TimeCarried
  <1> QED BY <1>1, <1>4 DEF Waited

LEMMA TimeBeginning == ASSUME HuntInit PROVE TimeInv
  <1>1. h.armed = Unarmed /\ landed = Oldest /\ lock = Oldest /\ tuned = FALSE
    BY DEF HuntInit
  <1>2. Oldest \in Ages
    BY AgeOrder
  <1>3. Paced(h, ledger, landed, boundary)
    BY <1>1, <1>2, UnarmedPaced
  <1> QED BY <1>1, <1>2, <1>3 DEF TimeInv

LEMMA TimeStep == ASSUME HuntInv, TimeInv, [HuntNext]_huntVars PROVE TimeInv' /\ Waited
  <1>1. CASE UNCHANGED huntVars
    <2>1. h' = h /\ ledger' = ledger /\ landed' = landed /\ lock' = lock /\ boundary' = boundary /\ tuned' = tuned /\ due' = due
      BY <1>1 DEF huntVars, world
    <2>2. lock \in Ages
      BY HereTimed
    <2> QED BY <2>1, <2>2, SameTimed
  <1>2. CASE HuntNext
    BY <1>2, TickTimed, PassTimed, CacTimed, SiteMessageTimed, ContentTimed, TypeDTimed, GrantTimed, ReturnTimed,
       AnswerTimed, MoveTimed, ReconnectTimed, SystemReplacedTimed, SetTrunkTimed, RetireTimed, InputReplacedTimed,
       InputBackTimed
       DEF HuntNext
  <1> QED BY <1>1, <1>2

LEMMA TimeHolds == HuntSpec => []TimeInv
  <1>1. HuntInit => TimeInv
    BY TimeBeginning
  <1>2. HuntInv /\ TimeInv /\ [HuntNext]_huntVars => TimeInv'
    BY TimeStep
  <1> QED BY <1>1, <1>2, HuntHolds, PTL DEF HuntSpec

(* nxdn_cc_hunt.c hunts no sooner than a full grace period after validated *)
(* content and after the last tune of others that landed, however late the *)
(* decoder asks about it, and a hunt that ends leaves no tune unresolved.  *)
THEOREM HuntIsTimely == HuntSpec => HuntTimely
  <1> DEFINE A == ~h.hunting /\ h'.hunting => lock > Grace /\ landed > Grace
  <1>1. ASSUME HuntInv, TimeInv, [HuntNext]_huntVars
        PROVE  [A]_huntVars
    BY <1>1, TimeStep DEF Waited
  <1> HIDE DEF A
  <1>2. HuntSpec => [][A]_huntVars
    BY <1>1, HuntHolds, TimeHolds, PTL DEF HuntSpec
  <1>3. HuntSpec => GraceHonoured
    BY <1>2 DEF A, GraceHonoured
  <1> QED BY <1>3, HuntParksSettled DEF HuntTimely
=============================================================================
