-------------------------- MODULE MembershipProofs --------------------------
(***************************************************************************)
(* Proofs about Membership: who may change which node, what the ledgers    *)
(* hold, and what the node makes of it, for every genesis, every proposals *)
(* and every bound.                                                        *)
(***************************************************************************)
EXTENDS Membership, DataInduction, FiniteSetTheorems, SequenceTheorems

\* All transactions there are.
Txns ==
    Range(Genesis) \cup Range(GenesisNyms)
        \cup UNION {UNION {Range(p.reqs) : p \in s.proposals} : s \in Scenes}
Batch == [ledger : {"pool", "domain"}, txns : Seq(Txns)]

-----------------------------------------------------------------------------
(* Logs                                                                     *)

\* The log t starts with the log s.
StartsWith(t, s) == Len(s) <= Len(t) /\ \A i \in 1..Len(s) : t[i] = s[i]

LEMMA LeastIsThere ==
    ASSUME NEW S, S \subseteq Nat, S # {}
    PROVE  Min(S) \in S /\ \A x \in S : Min(S) <= x
<1>. DEFINE R == OpToRel(<, Nat)
<1>1. IsWellFoundedOn(R, Nat)
  BY NatLessThanWellFounded
<1>2. \A x, y \in Nat : x < y => <<x, y>> \in R
  BY DEF OpToRel
<1>3. PICK t \in S : \A y \in S : ~(<<y, t>> \in R)
  <2>. HIDE DEF R
  <2>. QED BY <1>1, WFMin
<1>. HIDE DEF R
<1>4. ASSUME NEW x \in S PROVE t <= x
  <2>1. x \in Nat /\ t \in Nat /\ ~(x < t)
    BY <1>2, <1>3
  <2>. QED BY <2>1
<1>. QED BY <1>4 DEF Min

LEMMA GreatestIsThere ==
    ASSUME NEW n \in Nat, NEW S, S \subseteq 1..n, S # {}
    PROVE  Max(S) \in S /\ \A x \in S : Max(S) >= x
<1>. DEFINE T == {n - x : x \in S}
            t == Min(T)
<1>1. T \subseteq Nat /\ T # {}
  <2>1. \A x \in S : x \in 1..n /\ n - x \in Nat
    OBVIOUS
  <2>. QED BY <2>1
<1>. HIDE DEF T
<1>2. t \in T /\ \A x \in T : t <= x
  BY <1>1, LeastIsThere
<1>. HIDE DEF t
<1>3. PICK x \in S : t = n - x
  BY <1>2 DEF T
<1>4. \A y \in S : x >= y
  <2>1. \A y \in S : n - y \in T
    BY DEF T
  <2>. QED BY <1>2, <1>3, <2>1
<1>. QED BY <1>4 DEF Max

\* The latest value is one of those given, or None.
LEMMA LatestIsOne ==
    ASSUME NEW n \in Nat, NEW v, DOMAIN v \subseteq 1..n
    PROVE  Latest(v) = None \/ \E i \in DOMAIN v : Latest(v) = v[i]
<1>. DEFINE given == {i \in DOMAIN v : v[i] # None}
<1>1. CASE given = {}
  BY <1>1 DEF Latest
<1>2. CASE given # {}
  <2>1. Max(given) \in given
    BY <1>2, GreatestIsThere
  <2>. QED BY <1>2, <2>1 DEF Latest
<1>. QED BY <1>1, <1>2

\* If all values are the same one, it is the latest.
LEMMA LatestIsSame ==
    ASSUME NEW n \in Nat, NEW v, DOMAIN v \subseteq 1..n, DOMAIN v # {},
           NEW a, \A i \in DOMAIN v : v[i] = a
    PROVE  Latest(v) = a
<1>. DEFINE given == {i \in DOMAIN v : v[i] # None}
<1>1. CASE a = None
  BY <1>1 DEF Latest
<1>2. CASE a # None
  <2>1. given = DOMAIN v
    BY <1>2
  <2>2. Max(DOMAIN v) \in DOMAIN v
    BY GreatestIsThere
  <2>. QED BY <2>1, <2>2 DEF Latest
<1>. QED BY <1>1, <1>2

\* Who added the node: the author of its first transaction.
Owner(log, nym) == log[Min(TxnsOf(log, nym))].by

LEMMA PlacesType ==
    ASSUME NEW log \in Seq(Txns), NEW nym
    PROVE  /\ TxnsOf(log, nym) \subseteq 1..Len(log)
           /\ nym \in nodeNyms(log) <=> TxnsOf(log, nym) # {}
           /\ getNodeData(log, nym).by = Owner(log, nym)
BY LenProperties DEF TxnsOf, nodeNyms, getNodeData, updateState, Owner

LEMMA OwnerIsFirst ==
    ASSUME NEW log \in Seq(Txns), NEW nym \in nodeNyms(log)
    PROVE  \E i \in 1..Len(log) :
              /\ log[i].nym = nym /\ Owner(log, nym) = log[i].by
              /\ \A j \in 1..Len(log) : log[j].nym = nym => i <= j
<1>. DEFINE P == TxnsOf(log, nym)
            i == Min(P)
<1>1. P \subseteq 1..Len(log) /\ P # {} /\ Len(log) \in Nat /\ DOMAIN log = 1..Len(log)
  BY PlacesType, LenProperties
<1>2. \A j \in 1..Len(log) : log[j].nym = nym => j \in P
  BY <1>1 DEF TxnsOf
<1>3. i \in P /\ \A j \in P : i <= j
  BY <1>1, LeastIsThere
<1>4. log[i].nym = nym /\ Owner(log, nym) = log[i].by
  BY <1>3 DEF TxnsOf, Owner
<1>. HIDE DEF i
<1>. QED BY <1>1, <1>2, <1>3, <1>4

LEMMA OwnerKept ==
    ASSUME NEW s \in Seq(Txns), NEW t \in Seq(Txns), StartsWith(t, s), NEW nym \in nodeNyms(s)
    PROVE  nym \in nodeNyms(t) /\ Owner(t, nym) = Owner(s, nym)
<1>1. /\ Len(s) \in Nat /\ Len(t) \in Nat /\ DOMAIN s = 1..Len(s) /\ DOMAIN t = 1..Len(t)
      /\ Len(s) <= Len(t) /\ \A i \in 1..Len(s) : t[i] = s[i]
  BY LenProperties DEF StartsWith
<1>2. PICK i \in 1..Len(s) :
          /\ s[i].nym = nym /\ Owner(s, nym) = s[i].by
          /\ \A j \in 1..Len(s) : s[j].nym = nym => i <= j
  BY OwnerIsFirst
<1>3. i \in 1..Len(t) /\ t[i] = s[i]
  BY <1>1
<1>4. nym \in nodeNyms(t)
  BY <1>1, <1>2, <1>3 DEF nodeNyms
<1>5. PICK k \in 1..Len(t) :
          /\ t[k].nym = nym /\ Owner(t, nym) = t[k].by
          /\ \A j \in 1..Len(t) : t[j].nym = nym => k <= j
  BY <1>4, OwnerIsFirst
<1>6. k <= i
  BY <1>2, <1>3, <1>5
<1>7. k \in 1..Len(s) /\ t[k] = s[k]
  BY <1>1, <1>6
<1>8. i <= k
  BY <1>2, <1>5, <1>7
<1>. QED BY <1>2, <1>3, <1>4, <1>5, <1>6, <1>8


LEMMA StartsTransitive ==
    ASSUME NEW s \in Seq(Txns), NEW t \in Seq(Txns), NEW u \in Seq(Txns),
           StartsWith(t, s), StartsWith(u, t)
    PROVE  StartsWith(u, s)
<1>1. Len(s) \in Nat /\ Len(t) \in Nat /\ Len(u) \in Nat
  BY LenProperties
<1>2. /\ Len(s) <= Len(t) /\ \A i \in 1..Len(s) : t[i] = s[i]
      /\ Len(t) <= Len(u) /\ \A i \in 1..Len(t) : u[i] = t[i]
  BY DEF StartsWith
<1>3. Len(s) <= Len(u) /\ \A i \in 1..Len(s) : i \in 1..Len(t)
  BY <1>1, <1>2
<1>4. \A i \in 1..Len(s) : u[i] = s[i]
  BY <1>2, <1>3
<1>. QED BY <1>3, <1>4 DEF StartsWith

LEMMA StartsSelf ==
    ASSUME NEW s \in Seq(Txns)
    PROVE  StartsWith(s, s)
BY LenProperties DEF StartsWith

LEMMA AppendStarts ==
    ASSUME NEW s \in Seq(Txns), NEW x \in Txns
    PROVE  /\ Append(s, x) \in Seq(Txns) /\ StartsWith(Append(s, x), s)
           /\ Len(Append(s, x)) = Len(s) + 1 /\ Append(s, x)[Len(s) + 1] = x
           /\ DOMAIN Append(s, x) = 1..(Len(s) + 1)
           /\ DOMAIN s = 1..Len(s) /\ Len(s) \in Nat
           /\ \A i \in 1..(Len(s) + 1) : i = Len(s) + 1 \/ i \in 1..Len(s)
<1>1. Len(s) \in Nat /\ DOMAIN s = 1..Len(s)
  BY LenProperties
<1>2. /\ Append(s, x) \in Seq(Txns) /\ Len(Append(s, x)) = Len(s) + 1
      /\ \A i \in 1..Len(s) : Append(s, x)[i] = s[i]
      /\ Append(s, x)[Len(s) + 1] = x
  BY AppendProperties
<1>3. DOMAIN Append(s, x) = 1..(Len(s) + 1)
  BY <1>2, LenProperties
<1>. QED BY <1>1, <1>2, <1>3 DEF StartsWith

LEMMA ConcatStarts ==
    ASSUME NEW s \in Seq(Txns), NEW x \in Seq(Txns)
    PROVE  s \o x \in Seq(Txns) /\ StartsWith(s \o x, s)
<1>1. Len(s) \in Nat /\ Len(x) \in Nat
  BY LenProperties
<1>. QED BY <1>1, ConcatProperties DEF StartsWith

-----------------------------------------------------------------------------
(* What is right about a pool ledger, given the domain ledger               *)

\* Every node has a steward of its own.
OneEach(log) == \A m, n \in nodeNyms(log) : m # n => Owner(log, m) # Owner(log, n)

\* A node keeps its name.
SameAlias(log) ==
    \A i, j \in 1..Len(log) : log[i].nym = log[j].nym => log[i].alias = log[j].alias

\* The authors were made stewards.
MadeSteward(nyms, by) == \E j \in 1..Len(nyms) : nyms[j].nym = by /\ nyms[j].role = "steward"
ByStewards(log, nyms) == \A i \in 1..Len(log) : MadeSteward(nyms, log[i].by)

LogOK(log, nyms) == OneEach(log) /\ SameAlias(log) /\ ByStewards(log, nyms)

\* A node is changed by the steward that added it, but for some nodes.
Owned(log, but) ==
    \A i \in 1..Len(log) : log[i].nym \notin but => Owner(log, log[i].nym) = log[i].by

\* Whom the cache takes for the steward of a node is the one that added it.
CacheOK(log, known, but) ==
    \A by, nym : nym \notin but /\ <<by, nym, TRUE>> \in known =>
        nym \in nodeNyms(log) /\ Owner(log, nym) = by

LEMMA LogOfPrefix ==
    ASSUME NEW s \in Seq(Txns), NEW t \in Seq(Txns), StartsWith(t, s), NEW nyms, NEW but
    PROVE  /\ LogOK(t, nyms) => LogOK(s, nyms)
           /\ Owned(t, but) => Owned(s, but)
<1>1. /\ Len(s) \in Nat /\ Len(t) \in Nat /\ DOMAIN s = 1..Len(s)
      /\ \A i \in 1..Len(s) : i \in 1..Len(t) /\ t[i] = s[i]
  BY LenProperties DEF StartsWith
<1>2. \A nym \in nodeNyms(s) : nym \in nodeNyms(t) /\ Owner(t, nym) = Owner(s, nym)
  BY OwnerKept
<1>3. \A i \in 1..Len(s) : s[i].nym \in nodeNyms(s)
  BY <1>1 DEF nodeNyms
<1>4. OneEach(t) => OneEach(s)
  BY <1>2 DEF OneEach
<1>5. SameAlias(t) => SameAlias(s)
  BY <1>1 DEF SameAlias
<1>6. ByStewards(t, nyms) => ByStewards(s, nyms)
  BY <1>1 DEF ByStewards
<1>7. Owned(t, but) => Owned(s, but)
  BY <1>1, <1>2, <1>3 DEF Owned
<1>. QED BY <1>4, <1>5, <1>6, <1>7 DEF LogOK

LEMMA CacheKept ==
    ASSUME NEW s \in Seq(Txns), NEW t \in Seq(Txns), StartsWith(t, s), NEW known, NEW but,
           CacheOK(s, known, but)
    PROVE  CacheOK(t, known, but)
<1>1. \A nym \in nodeNyms(s) : nym \in nodeNyms(t) /\ Owner(t, nym) = Owner(s, nym)
  BY OwnerKept
<1>. QED BY <1>1 DEF CacheOK

\* A log that is cut back to s: the cache may be wrong on the nodes that it loses.
LEMMA CacheReverted ==
    ASSUME NEW s \in Seq(Txns), NEW t \in Seq(Txns), StartsWith(t, s), NEW known, NEW but,
           Owned(t, but), CacheOK(t, known, but)
    PROVE  LET lost == but \cup Added(t, s)
           IN  Owned(s, lost) /\ CacheOK(s, known, lost)
<1>. DEFINE lost == but \cup Added(t, s)
<1>1. \A nym \in nodeNyms(s) : nym \in nodeNyms(t) /\ Owner(t, nym) = Owner(s, nym)
  BY OwnerKept
<1>2. CacheOK(s, known, lost)
  BY <1>1 DEF CacheOK, Added
<1>3. Owned(s, but)
  BY LogOfPrefix
<1>4. Owned(s, lost)
  BY <1>3 DEF Owned
<1>. QED BY <1>2, <1>4

LEMMA StewardsKept ==
    ASSUME NEW s \in Seq(Txns), NEW t \in Seq(Txns), StartsWith(t, s), NEW log,
           LogOK(log, s)
    PROVE  LogOK(log, t)
<1>1. Len(s) \in Nat /\ Len(t) \in Nat /\ \A i \in 1..Len(s) : i \in 1..Len(t) /\ t[i] = s[i]
  BY LenProperties DEF StartsWith
<1>2. \A by : MadeSteward(s, by) => MadeSteward(t, by)
  BY <1>1 DEF MadeSteward
<1>. QED BY <1>2 DEF LogOK, ByStewards

\* A steward was made one.
LEMMA StewardWasMade ==
    ASSUME NEW nyms \in Seq(Txns), NEW by, isSteward(nyms, by)
    PROVE  MadeSteward(nyms, by)
<1>. DEFINE v == [i \in TxnsOf(nyms, by) |-> nyms[i].role]
<1>1. Len(nyms) \in Nat /\ TxnsOf(nyms, by) \subseteq 1..Len(nyms) /\ Latest(v) = "steward"
  BY LenProperties DEF TxnsOf, isSteward
<1>2. DOMAIN v \subseteq 1..Len(nyms) /\ \A i \in DOMAIN v : v[i] = nyms[i].role /\ nyms[i].nym = by
  BY <1>1 DEF TxnsOf
<1>. HIDE DEF v
<1>3. PICK i \in DOMAIN v : v[i] = "steward"
  BY <1>1, <1>2, LatestIsOne, MembershipAssumption
<1>. QED BY <1>2, <1>3 DEF MadeSteward


LEMMA AliasIsData ==
    ASSUME NEW log \in Seq(Txns), SameAlias(log), NEW i \in 1..Len(log)
    PROVE  getNodeData(log, log[i].nym).alias = log[i].alias
<1>. DEFINE P == TxnsOf(log, log[i].nym)
            v == [j \in P |-> log[j].alias]
<1>1. P \subseteq 1..Len(log) /\ i \in P /\ Len(log) \in Nat
  BY LenProperties DEF TxnsOf
<1>2. \A j \in P : log[j].alias = log[i].alias
  BY <1>1 DEF TxnsOf, SameAlias
<1>3. DOMAIN v \subseteq 1..Len(log) /\ DOMAIN v # {} /\ \A j \in DOMAIN v : v[j] = log[i].alias
  BY <1>1, <1>2
<1>4. getNodeData(log, log[i].nym).alias = Latest(v)
  BY DEF getNodeData, updateState
<1>. HIDE DEF v
<1>. QED BY <1>1, <1>3, <1>4, LatestIsSame

\* One transaction more, if it is valid, leaves the ledger right.
LEMMA LogAppend ==
    ASSUME NEW log \in Seq(Txns), NEW nyms \in Seq(Txns), NEW known, NEW t \in Txns,
           LogOK(log, nyms), validateNode(log, nyms, known, t)
    PROVE  LogOK(Append(log, t), nyms)
<1>. DEFINE L == Append(log, t)
            n == Len(log)
<1>1. /\ L \in Seq(Txns) /\ StartsWith(L, log) /\ Len(L) = n + 1 /\ L[n + 1] = t
      /\ DOMAIN L = 1..(n + 1) /\ DOMAIN log = 1..n /\ n \in Nat
      /\ \A i \in 1..(n + 1) : i = n + 1 \/ i \in 1..n
      /\ \A i \in 1..n : L[i] = log[i]
  BY AppendStarts DEF StartsWith
<1>2. OneEach(log) /\ SameAlias(log) /\ ByStewards(log, nyms)
  BY DEF LogOK
<1>3. isSteward(nyms, t.by)
  BY DEF validateNode, authErrorWhileAddingNode, authErrorWhileUpdatingNode
<1>4. MadeSteward(nyms, t.by)
  BY <1>3, StewardWasMade
<1>. HIDE DEF L, n
<1>5. n + 1 \in 1..(n + 1) /\ \A i \in 1..n : i \in 1..(n + 1)
  BY <1>1
<1>6. ByStewards(L, nyms)
  BY <1>1, <1>2, <1>4 DEF ByStewards, n
<1>7. nodeNyms(L) \subseteq nodeNyms(log) \cup {t.nym}
  BY <1>1 DEF nodeNyms
<1>8. \A m \in nodeNyms(log) : m \in nodeNyms(L) /\ Owner(L, m) = Owner(log, m)
  BY <1>1, OwnerKept
<1>9. CASE Exists(log, t.nym)
  <2>1. OneEach(L)
    BY <1>2, <1>7, <1>8, <1>9 DEF OneEach, Exists
  <2>2. getNodeData(log, t.nym).alias = t.alias
    BY <1>9 DEF validateNode, authErrorWhileUpdatingNode, isNodeDataConflicting
  <2>3. \A i \in 1..n : log[i].nym = t.nym => log[i].alias = t.alias
    BY <1>2, <2>2, AliasIsData DEF n
  <2>4. SameAlias(L)
    BY <1>1, <1>2, <2>3 DEF SameAlias, n
  <2>. QED BY <1>6, <2>1, <2>4 DEF LogOK, L
<1>10. CASE ~Exists(log, t.nym)
  <2>1. \A i \in 1..n : log[i].nym # t.nym
    BY <1>1, <1>10 DEF Exists, nodeNyms
  <2>2. t.nym \in nodeNyms(L)
    BY <1>1, <1>5 DEF nodeNyms
  <2>3. PICK i \in 1..Len(L) : L[i].nym = t.nym /\ Owner(L, t.nym) = L[i].by
    BY <1>1, <2>2, OwnerIsFirst
  <2>4. Owner(L, t.nym) = t.by
    BY <1>1, <2>1, <2>3
  <2>5. \A m \in nodeNyms(log) : Owner(log, m) # t.by
    <3>1. ~OwnsSome(log, t.by)
      BY <1>10 DEF validateNode, authErrorWhileAddingNode, stewardHasNode
    <3>. QED BY <3>1, PlacesType DEF OwnsSome
  <2>6. OneEach(L)
    BY <1>2, <1>7, <1>8, <2>4, <2>5 DEF OneEach
  <2>7. SameAlias(L)
    BY <1>1, <1>2, <2>1 DEF SameAlias, n
  <2>. QED BY <1>6, <2>6, <2>7 DEF LogOK, L
<1>. QED BY <1>9, <1>10

LEMMA OwnerFound ==
    ASSUME NEW log \in Seq(Txns), NEW known, NEW but, CacheOK(log, known, but), NEW by,
           NEW nym \in nodeNyms(log) \ but, isStewardOfNode(log, known, by, nym)
    PROVE  Owner(log, nym) = by
BY PlacesType DEF isStewardOfNode, CacheOK

\* As long as the cache is right, updates come from the owner.
LEMMA OwnedAppend ==
    ASSUME NEW log \in Seq(Txns), NEW nyms, NEW known, NEW t \in Txns, NEW but,
           Owned(log, but), CacheOK(log, known, but), validateNode(log, nyms, known, t)
    PROVE  Owned(Append(log, t), but)
<1>. DEFINE L == Append(log, t)
            n == Len(log)
<1>1. /\ L \in Seq(Txns) /\ StartsWith(L, log) /\ Len(L) = n + 1 /\ L[n + 1] = t
      /\ DOMAIN L = 1..(n + 1) /\ DOMAIN log = 1..n /\ n \in Nat
      /\ \A i \in 1..(n + 1) : i = n + 1 \/ i \in 1..n
      /\ \A i \in 1..n : L[i] = log[i]
  BY AppendStarts DEF StartsWith
<1>. HIDE DEF L
<1>2. \A m \in nodeNyms(log) : Owner(L, m) = Owner(log, m)
  BY <1>1, OwnerKept
<1>3. \A i \in 1..n : log[i].nym \in nodeNyms(log)
  BY <1>1 DEF nodeNyms
<1>4. t.nym \notin but => Owner(L, t.nym) = t.by
  <2>. SUFFICES ASSUME t.nym \notin but PROVE Owner(L, t.nym) = t.by
    OBVIOUS
  <2>1. CASE Exists(log, t.nym)
    BY <1>2, <2>1, OwnerFound DEF Exists, validateNode, authErrorWhileUpdatingNode
  <2>2. CASE ~Exists(log, t.nym)
    <3>1. n + 1 \in 1..(n + 1) /\ \A i \in 1..n : log[i].nym # t.nym
      BY <1>1, <1>3, <2>2 DEF Exists
    <3>2. t.nym \in nodeNyms(L)
      BY <1>1, <3>1 DEF nodeNyms
    <3>3. PICK i \in 1..Len(L) : L[i].nym = t.nym /\ Owner(L, t.nym) = L[i].by
      BY <1>1, <3>2, OwnerIsFirst
    <3>. QED BY <1>1, <3>1, <3>3
  <2>. QED BY <2>1, <2>2
<1>5. \A i \in 1..n : L[i].nym \notin but => Owner(L, L[i].nym) = L[i].by
  BY <1>1, <1>2, <1>3 DEF Owned
<1>. HIDE DEF n
<1>6. Owned(L, but)
  BY <1>1, <1>4, <1>5 DEF Owned
<1>. QED BY <1>6 DEF L

LEMMA RememberedOK ==
    ASSUME NEW log \in Seq(Txns), NEW nyms, NEW known, NEW t, NEW but, CacheOK(log, known, but)
    PROVE  CacheOK(log, Remembered(log, nyms, known, t), but)
<1>. DEFINE answer == isStewardOfNode(log, known, t.by, t.nym)
<1>1. CASE Exists(log, t.nym) /\ isSteward(nyms, t.by)
  <2>1. Remembered(log, nyms, known, t) = known \cup {<<t.by, t.nym, answer>>}
    BY <1>1 DEF Remembered
  <2>2. answer /\ t.nym \notin but => t.nym \in nodeNyms(log) /\ Owner(log, t.nym) = t.by
    BY <1>1, OwnerFound DEF Exists
  <2>. HIDE DEF answer
  <2>3. answer = TRUE => answer
    OBVIOUS
  <2>. HIDE DEF Owner
  <2>. QED BY <2>1, <2>2, <2>3 DEF CacheOK
<1>2. CASE ~(Exists(log, t.nym) /\ isSteward(nyms, t.by))
  BY <1>2 DEF Remembered
<1>. QED BY <1>1, <1>2


-----------------------------------------------------------------------------
(* Batches over a log                                                       *)

\* What a batch makes of a log.
Over(v, b, ledger) == IF b.ledger = ledger THEN v \o b.txns ELSE v

LEMMA OverType ==
    ASSUME NEW v \in Seq(Txns), NEW b \in Batch, NEW ledger
    PROVE  Over(v, b, ledger) \in Seq(Txns) /\ StartsWith(Over(v, b, ledger), v)
<1>1. b.txns \in Seq(Txns)
  BY DEF Batch
<1>. QED BY <1>1, ConcatStarts, StartsSelf DEF Over

LEMMA AppliedDef ==
    ASSUME NEW log \in Seq(Txns), NEW bs \in Seq(Batch), NEW ledger
    PROVE  /\ Len(bs) \in Nat
           /\ \A k \in 0..Len(bs) : Applied(log, bs, ledger)[k] \in Seq(Txns)
           /\ Applied(log, bs, ledger)[0] = log
           /\ \A k \in 1..Len(bs) :
                 Applied(log, bs, ledger)[k] = Over(Applied(log, bs, ledger)[k - 1], bs[k], ledger)
<1>. DEFINE N == Len(bs)
            V == Seq(Txns)
            E == [k \in 1..N |-> [v \in V |-> Over(v, bs[k], ledger)]]
            Eq(g) == g = [k \in 0..N |->
                          IF k = 0 THEN log
                          ELSE IF bs[k].ledger = ledger THEN g[k - 1] \o bs[k].txns ELSE g[k - 1]]
            done == CHOOSE g : Eq(g)
<1>1. N \in Nat /\ \A k \in 1..N : bs[k] \in Batch
  BY LenProperties, ElementOfSeq
<1>2. \A k \in 1..N, v \in V : Over(v, bs[k], ledger) \in V
  BY <1>1, OverType
<1>3. Applied(log, bs, ledger) = done
  BY DEF Applied
<1>4. \A k, v : Over(v, bs[k], ledger) = IF bs[k].ledger = ledger THEN v \o bs[k].txns ELSE v
  BY DEF Over
<1>. HIDE DEF N, V
<1>5. E \in [1..N -> [V -> V]] /\ log \in V
  BY <1>2 DEF V
<1>6. PICK g \in [0..N -> V] : Recurs(g, N, log, E)
  <2>. HIDE DEF E
  <2>. QED BY <1>1, <1>5, RecursionUpTo
<1>7. Eq(g)
  <2>1. ASSUME NEW k \in 0..N
        PROVE  g[k] = IF k = 0 THEN log
                      ELSE IF bs[k].ledger = ledger THEN g[k - 1] \o bs[k].txns ELSE g[k - 1]
    <3>1. g[k] = IF k = 0 THEN log ELSE E[k][g[k - 1]]
      <4>. HIDE DEF E
      <4>. QED BY <1>6 DEF Recurs
    <3>2. k # 0 => k \in 1..N /\ k - 1 \in 0..N
      BY <1>1
    <3>3. k # 0 => E[k][g[k - 1]] = Over(g[k - 1], bs[k], ledger)
      BY <3>2
    <3>. QED BY <1>4, <3>1, <3>3
  <2>2. g = [k \in 0..N |-> g[k]]
    OBVIOUS
  <2>. QED BY <2>1, <2>2
<1>8. Eq(done)
  <2>. HIDE DEF Eq
  <2>. QED BY <1>7
<1>9. \A k \in 0..N : done[k] = IF k = 0 THEN log ELSE Over(done[k - 1], bs[k], ledger)
  <2>. HIDE DEF done
  <2>1. \A k \in 0..N : done[k] = IF k = 0 THEN log
            ELSE IF bs[k].ledger = ledger THEN done[k - 1] \o bs[k].txns ELSE done[k - 1]
    BY <1>8, Zenon
  <2>. QED BY <1>4, <2>1
<1>. HIDE DEF done, E, Eq
<1>10. done[0] = log /\ \A k \in 1..N : done[k] = Over(done[k - 1], bs[k], ledger)
  BY <1>1, <1>9
<1>11. \A k \in 1..N : done[k - 1] \in V => done[k] \in V
  BY <1>2, <1>10
<1>12. ASSUME NEW k \in 0..N PROVE done[k] \in V
  <2>1. k \in Nat /\ \A i \in 1..k : i \in 1..N
    BY <1>1
  <2>2. done[0] \in V /\ \A i \in 1..k : done[i - 1] \in V => done[i] \in V
    BY <1>5, <1>10, <1>11, <2>1
  <2>. QED BY <2>1, <2>2, StaysIn
<1>. QED BY <1>1, <1>3, <1>10, <1>12 DEF N, V


\* The first n of cs are the n of bs after the first d.
SameBatches(cs, bs, d, n) ==
    /\ n \in 0..Len(cs) /\ d \in 0..Len(bs) /\ n + d <= Len(bs)
    /\ \A k \in 1..n : cs[k] = bs[k + d]

SameValues(mid, cs, log, bs, d, n, ledger) ==
    \A k \in 0..n : Applied(mid, cs, ledger)[k] = Applied(log, bs, ledger)[k + d]

\* The same batches over the same log give the same.
LEMMA AppliedSame ==
    ASSUME NEW log \in Seq(Txns), NEW bs \in Seq(Batch), NEW ledger, NEW d, NEW n,
           NEW cs \in Seq(Batch), SameBatches(cs, bs, d, n),
           NEW mid, mid = Applied(log, bs, ledger)[d]
    PROVE  SameValues(mid, cs, log, bs, d, n, ledger)
<1>. DEFINE A == Applied(log, bs, ledger)
            B == Applied(mid, cs, ledger)
            S == {k \in 0..n : B[k] = A[k + d]}
<1>1. /\ Len(bs) \in Nat /\ Len(cs) \in Nat /\ d \in 0..Len(bs) /\ n \in 0..Len(cs)
      /\ n + d <= Len(bs) /\ \A k \in 1..n : cs[k] = bs[k + d]
  BY LenProperties DEF SameBatches
<1>. n \in Nat /\ d \in Nat
  BY <1>1
<1>2. mid = A[d] /\ A[d] \in Seq(Txns) /\ \A k \in 1..Len(bs) : A[k] = Over(A[k - 1], bs[k], ledger)
  BY <1>1, AppliedDef
<1>. HIDE DEF A
<1>3. B[0] = A[d] /\ \A k \in 1..Len(cs) : B[k] = Over(B[k - 1], cs[k], ledger)
  BY <1>2, AppliedDef
<1>. HIDE DEF B
<1>4. 0 \in S
  BY <1>1, <1>3
<1>5. ASSUME NEW k \in 0..(n - 1), k \in S PROVE k + 1 \in S
  <2>. k \in Nat /\ k + 1 <= n
    OBVIOUS
  <2>1. /\ k + 1 \in 1..n /\ k + 1 \in 1..Len(cs) /\ k + 1 \in 0..n
        /\ (k + 1) + d \in 1..Len(bs) /\ (k + 1) - 1 = k /\ ((k + 1) + d) - 1 = k + d
    <3>1. n <= Len(cs) /\ n + d <= Len(bs) /\ Len(cs) \in Nat /\ Len(bs) \in Nat
      BY <1>1
    <3>. QED BY <3>1
  <2>2. cs[k + 1] = bs[(k + 1) + d]
    BY <1>1, <2>1
  <2>3. B[k + 1] = Over(B[k], cs[k + 1], ledger) /\ A[(k + 1) + d] = Over(A[k + d], bs[(k + 1) + d], ledger)
    BY <1>2, <1>3, <2>1
  <2>. QED BY <1>5, <2>1, <2>2, <2>3
<1>. HIDE DEF S
<1>6. 0..n \subseteq S
  BY <1>1, <1>4, <1>5, InductionUpTo
<1>. QED BY <1>6 DEF S, A, B, SameValues

LEMMA AppliedStarts ==
    ASSUME NEW log \in Seq(Txns), NEW bs \in Seq(Batch), NEW ledger
    PROVE  StartsWith(Applied(log, bs, ledger)[Len(bs)], log)
<1>. DEFINE A == Applied(log, bs, ledger)
            V == {v \in Seq(Txns) : StartsWith(v, log)}
            N == Len(bs)
<1>1. /\ N \in Nat /\ A[0] = log /\ \A k \in 1..N : A[k] = Over(A[k - 1], bs[k], ledger)
      /\ \A k \in 1..N : bs[k] \in Batch
  BY AppliedDef, ElementOfSeq
<1>. HIDE DEF A, N
<1>2. A[0] \in V
  BY <1>1, StartsSelf
<1>3. ASSUME NEW k \in 1..N, A[k - 1] \in V PROVE A[k] \in V
  <2>. DEFINE v == A[k - 1]
              w == Over(v, bs[k], ledger)
  <2>1. v \in Seq(Txns) /\ StartsWith(v, log) /\ A[k] = w /\ bs[k] \in Batch
    BY <1>1, <1>3
  <2>. HIDE DEF v
  <2>2. w \in Seq(Txns) /\ StartsWith(w, v)
    BY <2>1, OverType
  <2>. HIDE DEF w
  <2>. QED BY <2>1, <2>2, StartsTransitive
<1>. HIDE DEF V
<1>4. A[N] \in V
  BY <1>1, <1>2, <1>3, StaysIn
<1>. QED BY <1>4 DEF V, A, N

\* One batch more.
LEMMA AppliedAppend ==
    ASSUME NEW log \in Seq(Txns), NEW bs \in Seq(Batch), NEW b \in Batch, NEW ledger
    PROVE  /\ Append(bs, b) \in Seq(Batch) /\ Len(Append(bs, b)) = Len(bs) + 1
           /\ \A k \in 0..Len(bs) :
                 Applied(log, Append(bs, b), ledger)[k] = Applied(log, bs, ledger)[k]
           /\ Applied(log, Append(bs, b), ledger)[Len(bs) + 1]
                 = Over(Applied(log, bs, ledger)[Len(bs)], b, ledger)
<1>. DEFINE cs == Append(bs, b)
            n == Len(bs)
<1>1. /\ cs \in Seq(Batch) /\ Len(cs) = n + 1 /\ cs[n + 1] = b /\ n \in Nat
      /\ \A k \in 1..n : cs[k] = bs[k]
  BY LenProperties, AppendProperties
<1>. HIDE DEF cs
<1>2. Applied(log, bs, ledger)[0] = log
  BY AppliedDef
<1>. HIDE DEF n
<1>. cs \in Seq(Batch)
  BY <1>1
<1>3. \A k \in 0..n : Applied(log, cs, ledger)[k] = Applied(log, bs, ledger)[k]
  <2>1. SameBatches(bs, cs, 0, n)
    BY <1>1 DEF n, SameBatches
  <2>2. Applied(log, cs, ledger)[0] = log
    BY <1>1, AppliedDef
  <2>3. SameValues(log, bs, log, cs, 0, n, ledger)
    BY <2>1, <2>2, AppliedSame
  <2>. QED BY <1>1, <2>3 DEF SameValues
<1>4. Applied(log, cs, ledger)[n + 1] = Over(Applied(log, cs, ledger)[n], b, ledger)
  <2>1. n + 1 \in 1..Len(cs) /\ (n + 1) - 1 = n
    BY <1>1
  <2>2. \A k \in 1..Len(cs) :
            Applied(log, cs, ledger)[k] = Over(Applied(log, cs, ledger)[k - 1], cs[k], ledger)
    BY AppliedDef
  <2>. QED BY <1>1, <2>1, <2>2
<1>. QED BY <1>1, <1>3, <1>4 DEF cs, n

\* The first of them committed.
LEMMA AppliedTail ==
    ASSUME NEW log \in Seq(Txns), NEW bs \in Seq(Batch), bs # <<>>, NEW ledger
    PROVE  /\ Tail(bs) \in Seq(Batch) /\ Len(Tail(bs)) = Len(bs) - 1 /\ Len(bs) \in Nat \ {0}
           /\ Head(bs) \in Batch
           /\ \A k \in 0..(Len(bs) - 1) :
                 Applied(Over(log, Head(bs), ledger), Tail(bs), ledger)[k]
                     = Applied(log, bs, ledger)[k + 1]
<1>. DEFINE cs == Tail(bs)
            n == Len(bs)
<1>1. n \in Nat \ {0} /\ cs \in Seq(Batch) /\ Len(cs) = n - 1
  BY LenProperties, EmptySeq, HeadTailProperties
<1>2. Head(bs) = bs[1] /\ Head(bs) \in Batch /\ \A k \in 1..(n - 1) : cs[k] = bs[k + 1]
  BY HeadTailProperties
<1>. HIDE DEF cs
<1>3. Applied(log, bs, ledger)[1] = Over(log, Head(bs), ledger)
  <2>1. 1 \in 1..Len(bs) /\ 1 - 1 = 0
    BY <1>1
  <2>. QED BY <1>2, <2>1, AppliedDef
<1>4. \A k \in 0..(n - 1) : Applied(Applied(log, bs, ledger)[1], cs, ledger)[k] = Applied(log, bs, ledger)[k + 1]
  <2>1. SameBatches(cs, bs, 1, n - 1)
    BY <1>1, <1>2 DEF SameBatches
  <2>. DEFINE mid == Applied(log, bs, ledger)[1]
  <2>2. mid = Applied(log, bs, ledger)[1]
    OBVIOUS
  <2>. HIDE DEF mid
  <2>3. SameValues(mid, cs, log, bs, 1, n - 1, ledger)
    <3>. HIDE DEF n
    <3>. QED BY <1>1, <2>1, <2>2, AppliedSame
  <2>. QED BY <2>2, <2>3 DEF SameValues
<1>. QED BY <1>1, <1>2, <1>3, <1>4 DEF cs, n

\* The last of them reverted.
LEMMA AppliedSubSeq ==
    ASSUME NEW log \in Seq(Txns), NEW bs \in Seq(Batch), NEW keep \in 0..Len(bs), NEW ledger
    PROVE  /\ SubSeq(bs, 1, keep) \in Seq(Batch) /\ Len(SubSeq(bs, 1, keep)) = keep
           /\ \A k \in 0..keep :
                 Applied(log, SubSeq(bs, 1, keep), ledger)[k] = Applied(log, bs, ledger)[k]
<1>. DEFINE cs == SubSeq(bs, 1, keep)
<1>1. keep \in Nat /\ cs \in Seq(Batch) /\ Len(cs) = keep /\ \A k \in 1..keep : cs[k] = bs[k]
  BY LenProperties, SubSeqProperties
<1>. HIDE DEF cs
<1>2. SameBatches(cs, bs, 0, keep)
  BY <1>1, LenProperties DEF SameBatches
<1>3. Applied(log, bs, ledger)[0] = log
  BY AppliedDef
<1>4. SameValues(log, cs, log, bs, 0, keep, ledger)
  BY <1>1, <1>2, <1>3, AppliedSame
<1>5. \A k \in 0..keep : k + 0 = k
  BY <1>1
<1>. QED BY <1>1, <1>4, <1>5 DEF cs, SameValues


-----------------------------------------------------------------------------
(* The requests of a proposal, one after the other                          *)

\* The logs that requests are applied to, and the answers remembered.
Answers == cache \cup {<<t.by, t.nym, a>> : t \in Txns, a \in BOOLEAN}
Logs == [log : Seq(Txns), nyms : Seq(Txns), cache : SUBSET Answers]
Before == [log |-> Uncommitted, nyms |-> UncommittedNyms, cache |-> cache]

LEMMA ProcessType ==
    ASSUME NEW ledger, NEW s \in Logs, NEW t \in Txns
    PROVE  processReqDuringBatch(ledger, s, t) \in Logs
<1>1. s.log \in Seq(Txns) /\ s.nyms \in Seq(Txns) /\ s.cache \in SUBSET Answers
  BY DEF Logs
<1>2. Append(s.log, t) \in Seq(Txns) /\ Append(s.nyms, t) \in Seq(Txns)
  BY <1>1, AppendProperties
<1>. DEFINE answer == isStewardOfNode(s.log, s.cache, t.by, t.nym)
<1>3. answer \in BOOLEAN
  <2>. DEFINE known == \E a \in BOOLEAN : <<t.by, t.nym, a>> \in s.cache
              remembered == <<t.by, t.nym, TRUE>> \in s.cache
              found == getNodeData(s.log, t.nym).by = t.by
  <2>1. remembered \in BOOLEAN /\ found \in BOOLEAN
    OBVIOUS
  <2>2. answer = IF known THEN remembered ELSE found
    BY DEF isStewardOfNode
  <2>. HIDE DEF answer, known, remembered, found
  <2>. QED BY <2>1, <2>2
<1>4. Remembered(s.log, s.nyms, s.cache, t) \in SUBSET Answers
  <2>1. Remembered(s.log, s.nyms, s.cache, t) \in {s.cache, s.cache \cup {<<t.by, t.nym, answer>>}}
    BY DEF Remembered
  <2>. HIDE DEF answer
  <2>2. <<t.by, t.nym, answer>> \in Answers
    BY <1>3 DEF Answers
  <2>. QED BY <1>1, <2>1, <2>2
<1>5. CASE ledger = "domain"
  <2>. DEFINE nyms == IF validateNym(s.nyms, domain, t) THEN Append(s.nyms, t) ELSE s.nyms
  <2>1. nyms \in Seq(Txns)
    BY <1>1, <1>2
  <2>2. processReqDuringBatch(ledger, s, t) = [s EXCEPT !.nyms = nyms]
    BY <1>5 DEF processReqDuringBatch
  <2>. HIDE DEF nyms
  <2>. QED BY <2>1, <2>2 DEF Logs
<1>6. CASE ledger # "domain"
  <2>. DEFINE log == IF validateNode(s.log, s.nyms, s.cache, t) THEN Append(s.log, t) ELSE s.log
              mem == Remembered(s.log, s.nyms, s.cache, t)
  <2>1. log \in Seq(Txns) /\ mem \in SUBSET Answers
    BY <1>1, <1>2, <1>4
  <2>2. processReqDuringBatch(ledger, s, t) = [s EXCEPT !.log = log, !.cache = mem]
    BY <1>6 DEF processReqDuringBatch
  <2>. HIDE DEF log, mem
  <2>. QED BY <2>1, <2>2 DEF Logs
<1>. QED BY <1>5, <1>6

\* The values after each of the requests.
LEMMA ProcessReqsDef ==
    ASSUME NEW p, p.reqs \in Seq(Txns), Before \in Logs
    PROVE  \E after :
              /\ after[0] = Before /\ ProcessReqs(p) = after[Len(p.reqs)]
              /\ Len(p.reqs) \in Nat
              /\ \A k \in 1..Len(p.reqs) : /\ p.reqs[k] \in Txns
                                           /\ after[k] = processReqDuringBatch(p.ledger, after[k - 1], p.reqs[k])
<1>. DEFINE N == Len(p.reqs)
            ledger == p.ledger
            reqs == p.reqs
            V == Logs
            E == [k \in 1..N |-> [s \in V |-> processReqDuringBatch(ledger, s, reqs[k])]]
            Eq(g) == g = [k \in 0..N |->
                          IF k = 0 THEN Before ELSE processReqDuringBatch(ledger, g[k - 1], reqs[k])]
            done == CHOOSE g : Eq(g)
<1>1. N \in Nat /\ \A k \in 1..N : reqs[k] \in Txns
  BY LenProperties, ElementOfSeq
<1>2. ProcessReqs(p) = done[N]
  BY DEF ProcessReqs, Before
<1>. HIDE DEF N, V, ledger, reqs
<1>3. \A k \in 1..N, s \in V : processReqDuringBatch(ledger, s, reqs[k]) \in V
  BY <1>1, ProcessType DEF V
<1>4. E \in [1..N -> [V -> V]] /\ Before \in V
  BY <1>3 DEF V
<1>5. PICK g \in [0..N -> V] : Recurs(g, N, Before, E)
  <2>. HIDE DEF E
  <2>. QED BY <1>1, <1>4, RecursionUpTo
<1>6. Eq(g)
  <2>1. ASSUME NEW k \in 0..N
        PROVE  g[k] = IF k = 0 THEN Before ELSE processReqDuringBatch(ledger, g[k - 1], reqs[k])
    <3>1. g[k] = IF k = 0 THEN Before ELSE E[k][g[k - 1]]
      <4>. HIDE DEF E
      <4>. QED BY <1>5 DEF Recurs
    <3>2. k # 0 => k \in 1..N /\ k - 1 \in 0..N
      BY <1>1
    <3>. QED BY <3>1, <3>2
  <2>2. g = [k \in 0..N |-> g[k]]
    OBVIOUS
  <2>. QED BY <2>1, <2>2
<1>7. Eq(done)
  <2>. HIDE DEF Eq
  <2>. QED BY <1>6
<1>8. \A k \in 0..N : done[k] = IF k = 0 THEN Before ELSE processReqDuringBatch(ledger, done[k - 1], reqs[k])
  <2>. HIDE DEF done
  <2>. QED BY <1>7, Zenon
<1>. HIDE DEF done, E, Eq
<1>9. done[0] = Before /\ \A k \in 1..N : done[k] = processReqDuringBatch(ledger, done[k - 1], reqs[k])
  BY <1>1, <1>8
<1>. QED BY <1>1, <1>2, <1>9 DEF N, ledger, reqs

\* What holds of the logs all along, but for the nodes whose addition was reverted.
Processed(s, ledger, but) ==
    /\ s \in Logs
    /\ StartsWith(s.log, Uncommitted) /\ StartsWith(s.nyms, UncommittedNyms)
    /\ IF ledger = "domain" THEN s.log = Uncommitted ELSE s.nyms = UncommittedNyms
    /\ LogOK(s.log, s.nyms)
    /\ Owned(s.log, but) /\ CacheOK(s.log, s.cache, but)

LEMMA ProcessKeeps ==
    ASSUME NEW ledger, NEW but, NEW s, NEW t \in Txns, Processed(s, ledger, but),
           Uncommitted \in Seq(Txns), UncommittedNyms \in Seq(Txns)
    PROVE  Processed(processReqDuringBatch(ledger, s, t), ledger, but)
<1>. DEFINE u == processReqDuringBatch(ledger, s, t)
<1>1. s \in Logs /\ s.log \in Seq(Txns) /\ s.nyms \in Seq(Txns)
  BY DEF Processed, Logs
<1>2. u \in Logs
  BY <1>1, ProcessType
<1>3. CASE ledger = "domain" /\ validateNym(s.nyms, domain, t)
  <2>1. Append(s.nyms, t) \in Seq(Txns) /\ StartsWith(Append(s.nyms, t), s.nyms)
    BY <1>1, AppendStarts
  <2>2. u.log = s.log /\ u.cache = s.cache /\ u.nyms = Append(s.nyms, t)
    BY <1>1, <1>3 DEF processReqDuringBatch, Logs
  <2>. HIDE DEF u
  <2>3. StartsWith(u.nyms, UncommittedNyms)
    BY <1>1, <2>1, <2>2, StartsTransitive DEF Processed
  <2>4. LogOK(u.log, u.nyms)
    BY <1>1, <2>1, <2>2, StewardsKept DEF Processed
  <2>5. Processed(u, ledger, but)
    BY <1>2, <1>3, <2>2, <2>3, <2>4 DEF Processed
  <2>. QED BY <2>5 DEF u
<1>4. CASE ledger = "domain" /\ ~validateNym(s.nyms, domain, t)
  <2>1. u = s
    BY <1>1, <1>4 DEF processReqDuringBatch, Logs
  <2>. QED BY <2>1
<1>5. CASE ledger # "domain"
  <2>. DEFINE log == IF validateNode(s.log, s.nyms, s.cache, t) THEN Append(s.log, t) ELSE s.log
              mem == Remembered(s.log, s.nyms, s.cache, t)
  <2>1. u.log = log /\ u.cache = mem /\ u.nyms = s.nyms
    <3>1. u = [s EXCEPT !.log = log, !.cache = mem]
      BY <1>5 DEF processReqDuringBatch
    <3>. HIDE DEF log, mem, u
    <3>. QED BY <1>1, <3>1 DEF Logs
  <2>2. CacheOK(s.log, mem, but)
    BY <1>1, RememberedOK DEF Processed
  <2>3. /\ log \in Seq(Txns) /\ StartsWith(log, s.log)
        /\ LogOK(log, s.nyms) /\ Owned(log, but)
    <3>1. CASE validateNode(s.log, s.nyms, s.cache, t)
      <4>1. LogOK(Append(s.log, t), s.nyms)
        BY <1>1, <3>1, LogAppend DEF Processed
      <4>2. Owned(Append(s.log, t), but)
        BY <1>1, <3>1, OwnedAppend DEF Processed
      <4>. QED BY <1>1, <3>1, <4>1, <4>2, AppendStarts
    <3>2. CASE ~validateNode(s.log, s.nyms, s.cache, t)
      BY <1>1, <3>2, StartsSelf DEF Processed
    <3>. QED BY <3>1, <3>2
  <2>. HIDE DEF u, log, mem
  <2>4. StartsWith(log, Uncommitted)
    BY <1>1, <2>3, StartsTransitive DEF Processed
  <2>5. CacheOK(log, mem, but)
    BY <1>1, <2>2, <2>3, CacheKept
  <2>6. Processed(u, ledger, but)
    BY <1>2, <1>5, <2>1, <2>3, <2>4, <2>5 DEF Processed
  <2>. QED BY <2>6 DEF u
<1>. QED BY <1>3, <1>4, <1>5

LEMMA ProcessReqsKeeps ==
    ASSUME NEW p, p.reqs \in Seq(Txns), NEW but, Processed(Before, p.ledger, but)
    PROVE  Processed(ProcessReqs(p), p.ledger, but)
<1>1. Before \in Logs
  BY DEF Processed
<1>2. Uncommitted \in Seq(Txns) /\ UncommittedNyms \in Seq(Txns)
  BY <1>1 DEF Before, Logs
<1>3. PICK after :
          /\ after[0] = Before /\ ProcessReqs(p) = after[Len(p.reqs)]
          /\ Len(p.reqs) \in Nat
          /\ \A k \in 1..Len(p.reqs) : /\ p.reqs[k] \in Txns
                                       /\ after[k] = processReqDuringBatch(p.ledger, after[k - 1], p.reqs[k])
  BY <1>1, ProcessReqsDef
<1>. DEFINE V == {s \in Logs : Processed(s, p.ledger, but)}
            N == Len(p.reqs)
<1>4. after[0] \in V
  BY <1>1, <1>3
<1>5. ASSUME NEW k \in 1..N, after[k - 1] \in V PROVE after[k] \in V
  <2>. DEFINE s == after[k - 1]
              t == p.reqs[k]
              u == processReqDuringBatch(p.ledger, s, t)
  <2>1. Processed(s, p.ledger, but) /\ t \in Txns /\ after[k] = u
    BY <1>3, <1>5
  <2>. HIDE DEF s, t
  <2>2. Processed(u, p.ledger, but)
    BY <1>2, <2>1, ProcessKeeps
  <2>. HIDE DEF u
  <2>. QED BY <2>1, <2>2 DEF Processed
<1>. HIDE DEF V
<1>6. after[N] \in V
  BY <1>3, <1>4, <1>5, StaysIn
<1>. QED BY <1>3, <1>6 DEF V


-----------------------------------------------------------------------------
(* The ledgers                                                              *)

\* The domain ledger as the pool has it.
Nyms == domain \o ahead

\* The ledgers are right, committed, and with each batch that is only applied.
LedgerInv ==
    /\ pool \in Seq(Txns) /\ domain \in Seq(Txns) /\ ahead \in Seq(Txns) /\ batches \in Seq(Batch)
    /\ \A k \in 0..Len(batches) :
          LogOK(Applied(pool, batches, "pool")[k], Applied(Nyms, batches, "domain")[k])
    /\ Owned(Uncommitted, past.undone) /\ CacheOK(Uncommitted, cache, past.undone)
    /\ IF mode = "participating" THEN ahead = <<>> ELSE batches = <<>>
    /\ "proposals" \in DOMAIN left /\ \E s \in Scenes : left.proposals = s.proposals
    /\ "undone" \in DOMAIN past

LEMMA NymsType ==
    ASSUME domain \in Seq(Txns), ahead \in Seq(Txns)
    PROVE  Nyms \in Seq(Txns) /\ (ahead = <<>> => Nyms = domain)
BY ConcatProperties, ConcatEmptySeq DEF Nyms

LEMMA ProposalType ==
    ASSUME LedgerInv, NEW p \in left.proposals
    PROVE  p.ledger \in {"pool", "domain"} /\ p.reqs \in Seq(Txns) /\ p.reqs[1] \in Txns
<1>1. PICK s \in Scenes : left.proposals = s.proposals
  BY DEF LedgerInv
<1>2. p \in s.proposals
  BY <1>1
<1>3. p.ledger \in {"pool", "domain"} /\ p.reqs \in Seq(Range(p.reqs)) /\ p.reqs # <<>>
  BY <1>2, MembershipAssumption
<1>4. Range(p.reqs) \subseteq Txns
  BY <1>2 DEF Txns
<1>5. p.reqs \in Seq(Txns)
  BY <1>3, <1>4, SeqMonotonic
<1>6. 1 \in 1..Len(p.reqs)
  BY <1>3, <1>5, LenProperties, EmptySeq
<1>. QED BY <1>3, <1>5, <1>6, ElementOfSeq

LEMMA UncommittedOK ==
    ASSUME LedgerInv
    PROVE  /\ Uncommitted \in Seq(Txns) /\ UncommittedNyms \in Seq(Txns)
           /\ OneEach(Uncommitted) /\ LogOK(pool, Nyms) /\ Nyms \in Seq(Txns)
           /\ StartsWith(Uncommitted, pool)
           /\ mode = "participating" =>
                 /\ Nyms = domain /\ LogOK(Uncommitted, UncommittedNyms)
                 /\ \A ledger : Processed(Before, ledger, past.undone)
<1>1. /\ pool \in Seq(Txns) /\ domain \in Seq(Txns) /\ batches \in Seq(Batch)
      /\ Nyms \in Seq(Txns) /\ (mode = "participating" => Nyms = domain)
      /\ \A k \in 0..Len(batches) :
            LogOK(Applied(pool, batches, "pool")[k], Applied(Nyms, batches, "domain")[k])
  BY NymsType DEF LedgerInv
<1>2. Len(batches) \in Nat /\ 0 \in 0..Len(batches) /\ Len(batches) \in 0..Len(batches)
  BY <1>1, LenProperties
<1>3. Uncommitted \in Seq(Txns) /\ UncommittedNyms \in Seq(Txns)
  BY <1>1, <1>2, AppliedDef DEF Uncommitted, UncommittedNyms
<1>4. /\ OneEach(Uncommitted)
      /\ mode = "participating" => LogOK(Uncommitted, UncommittedNyms)
  BY <1>1, <1>2 DEF Uncommitted, UncommittedNyms, LogOK
<1>5. LogOK(pool, Nyms)
  <2>1. Applied(pool, batches, "pool")[0] = pool /\ Applied(Nyms, batches, "domain")[0] = Nyms
    BY <1>1, AppliedDef
  <2>. QED BY <1>1, <1>2, <2>1
<1>6. StartsWith(Uncommitted, pool)
  BY <1>1, AppliedStarts DEF Uncommitted
<1>7. Before \in Logs
  <2>1. cache \in SUBSET Answers
    BY DEF Answers
  <2>. QED BY <1>3, <2>1 DEF Before, Logs
<1>8. Before.log = Uncommitted /\ Before.nyms = UncommittedNyms /\ Before.cache = cache
  BY DEF Before
<1>9. Owned(Uncommitted, past.undone) /\ CacheOK(Uncommitted, cache, past.undone)
  BY DEF LedgerInv
<1>10. StartsWith(Uncommitted, Uncommitted) /\ StartsWith(UncommittedNyms, UncommittedNyms)
  BY <1>3, StartsSelf
<1>. HIDE DEF Before
<1>11. mode = "participating" => \A ledger : Processed(Before, ledger, past.undone)
  BY <1>4, <1>7, <1>8, <1>9, <1>10 DEF Processed
<1>. QED BY <1>1, <1>3, <1>4, <1>5, <1>6, <1>11

\* The transactions of a batch are what the log got longer by.
LEMMA Rest ==
    ASSUME NEW s \in Seq(Txns), NEW t \in Seq(Txns), StartsWith(t, s)
    PROVE  LET x == SubSeq(t, Len(s) + 1, Len(t))
           IN  x \in Seq(Txns) /\ s \o x = t /\ (x = <<>> => t = s)
<1>. DEFINE x == SubSeq(t, Len(s) + 1, Len(t))
<1>1. Len(s) \in Nat /\ Len(t) \in Nat /\ Len(s) <= Len(t) /\ \A i \in 1..Len(s) : t[i] = s[i]
  BY LenProperties DEF StartsWith
<1>2. x \in Seq(Txns) /\ Len(x) = Len(t) - Len(s) /\ \A i \in 1..Len(x) : x[i] = t[Len(s) + i]
  BY <1>1, LenProperties, ElementOfSeq
<1>. HIDE DEF x
<1>3. /\ s \o x \in Seq(Txns) /\ Len(s \o x) = Len(t)
      /\ \A i \in 1..Len(t) : (s \o x)[i] = t[i]
  BY <1>1, <1>2, ConcatProperties
<1>4. s \o x = t
  <2>. DEFINE y == s \o x
  <2>. HIDE DEF y
  <2>. QED BY <1>3, SeqEqual DEF y
<1>5. x = <<>> => t = s
  BY <1>4, ConcatEmptySeq
<1>. QED BY <1>2, <1>4, <1>5 DEF x


\* The scene keeps its proposals.
ProposalsKept == "proposals" \in DOMAIN left' /\ left'.proposals = left.proposals

LEMMA SpendKeeps ==
    ASSUME LedgerInv, NEW x, x # "proposals", Spend(x) \/ left' = left
    PROVE  ProposalsKept
BY DEF LedgerInv, Spend, ProposalsKept

LEMMA LeftSame ==
    ASSUME LedgerInv, left' = left
    PROVE  ProposalsKept
BY DEF LedgerInv, ProposalsKept

LEMMA LedgersSame ==
    ASSUME LedgerInv, UNCHANGED ledgers, ProposalsKept,
           "undone" \in DOMAIN past', past'.undone = past.undone,
           mode' = mode \/ IF mode' = "participating" THEN ahead = <<>> ELSE batches = <<>>
    PROVE  LedgerInv'
<1>1. /\ pool' = pool /\ domain' = domain /\ ahead' = ahead /\ batches' = batches /\ cache' = cache
  BY DEF ledgers
<1>2. Uncommitted' = Uncommitted /\ Nyms' = Nyms
  BY <1>1 DEF Uncommitted, Nyms
<1>3. IF mode' = "participating" THEN ahead = <<>> ELSE batches = <<>>
  BY DEF LedgerInv
<1>. QED BY <1>1, <1>2, <1>3 DEF LedgerInv, ProposalsKept

LEMMA RevertKeeps ==
    ASSUME LedgerInv, NEW p \in left.proposals, revert(p)
    PROVE  LedgerInv'
<1>. DEFINE done == ProcessReqs(p)
            lost == past.undone \cup Added(done.log, Uncommitted)
<1>1. /\ ProposalsKept /\ mode = "participating" /\ mode' = mode /\ cache' = done.cache
      /\ pool' = pool /\ domain' = domain /\ ahead' = ahead /\ batches' = batches
      /\ past' = [past EXCEPT !.undone = lost]
  BY SpendKeeps DEF revert, measuring, LedgerInv
<1>2. /\ p.reqs \in Seq(Txns) /\ Processed(Before, p.ledger, past.undone)
      /\ Uncommitted \in Seq(Txns) /\ "undone" \in DOMAIN past
  BY <1>1, ProposalType, UncommittedOK DEF LedgerInv
<1>3. Processed(done, p.ledger, past.undone)
  BY <1>2, ProcessReqsKeeps
<1>. HIDE DEF done
<1>4. /\ done.log \in Seq(Txns) /\ StartsWith(done.log, Uncommitted)
      /\ Owned(done.log, past.undone) /\ CacheOK(done.log, done.cache, past.undone)
  BY <1>3 DEF Processed, Logs
<1>5. Owned(Uncommitted, lost) /\ CacheOK(Uncommitted, done.cache, lost)
  BY <1>2, <1>4, CacheReverted
<1>. HIDE DEF lost
<1>6. "undone" \in DOMAIN past' /\ past'.undone = lost
  BY <1>1, <1>2
<1>7. Uncommitted' = Uncommitted /\ Nyms' = Nyms
  BY <1>1 DEF Uncommitted, Nyms
<1>. QED BY <1>1, <1>5, <1>6, <1>7 DEF LedgerInv, ProposalsKept

LEMMA CreateKeeps ==
    ASSUME LedgerInv, NEW p \in left.proposals, create3PCBatch(p)
    PROVE  LedgerInv'
<1>. DEFINE done == ProcessReqs(p)
            ledger == p.ledger
            but == past.undone
            after == IF ledger = "pool" THEN done.log ELSE done.nyms
            before == IF ledger = "pool" THEN Uncommitted ELSE UncommittedNyms
            valid == SubSeq(after, Len(before) + 1, Len(after))
            b == [ledger |-> ledger, txns |-> valid]
            N == Len(batches)
            P == Applied(pool, batches, "pool")
            D == Applied(Nyms, batches, "domain")
<1>1. ledger \in {"pool", "domain"} /\ p.reqs \in Seq(Txns)
  BY ProposalType
<1>2. /\ pool' = pool /\ domain' = domain /\ mode' = mode /\ past' = past /\ cache' = done.cache
      /\ batches' = (IF valid = <<>> THEN batches ELSE Append(batches, b))
      /\ mode = "participating" /\ ProposalsKept /\ ahead' = ahead /\ ahead = <<>>
  BY SpendKeeps DEF create3PCBatch, measuring, LedgerInv
<1>. HIDE DEF ledger, but, N, P, D
<1>3. /\ Uncommitted \in Seq(Txns) /\ UncommittedNyms \in Seq(Txns)
      /\ Processed(Before, ledger, but)
      /\ Nyms = domain /\ Nyms' = Nyms /\ Nyms \in Seq(Txns)
  BY <1>2, UncommittedOK DEF but, Nyms
<1>4. Processed(done, ledger, but)
  BY <1>1, <1>3, ProcessReqsKeeps DEF ledger
<1>. HIDE DEF done
<1>5. /\ done.log \in Seq(Txns) /\ done.nyms \in Seq(Txns)
      /\ StartsWith(done.log, Uncommitted) /\ StartsWith(done.nyms, UncommittedNyms)
      /\ ledger = "domain" => done.log = Uncommitted
      /\ ledger # "domain" => done.nyms = UncommittedNyms
      /\ LogOK(done.log, done.nyms)
      /\ Owned(done.log, but) /\ CacheOK(done.log, done.cache, but)
  BY <1>4 DEF Processed, Logs
<1>6. after \in Seq(Txns) /\ before \in Seq(Txns) /\ StartsWith(after, before)
  BY <1>3, <1>5, <1>1
<1>. HIDE DEF after, before
<1>7. valid \in Seq(Txns) /\ before \o valid = after /\ (valid = <<>> => after = before)
  BY <1>6, Rest
<1>. HIDE DEF valid
<1>8. /\ pool \in Seq(Txns) /\ domain \in Seq(Txns) /\ batches \in Seq(Batch)
      /\ ahead' \in Seq(Txns)
      /\ \A k \in 0..N : LogOK(P[k], D[k])
      /\ past.undone = past'.undone /\ "undone" \in DOMAIN past'
      /\ N \in Nat
  BY <1>2, LenProperties DEF LedgerInv, N, P, D
<1>9. \E s \in Scenes : left'.proposals = s.proposals
  BY <1>2 DEF LedgerInv, ProposalsKept
<1>10. P[N] = Uncommitted /\ D[N] = UncommittedNyms
  BY <1>3 DEF P, D, N, Uncommitted, UncommittedNyms
<1>11. CASE valid = <<>>
  <2>1. batches' = batches /\ done.log = Uncommitted
    BY <1>1, <1>2, <1>5, <1>7, <1>11 DEF after, before
  <2>2. Uncommitted' = Uncommitted
    BY <1>2, <2>1 DEF Uncommitted
  <2>. QED BY <1>2, <1>3, <1>5, <1>8, <1>9, <2>1, <2>2 DEF LedgerInv, ProposalsKept, N, P, D, but
<1>12. CASE valid # <<>>
  <2>. DEFINE bs == Append(batches, b)
              P2 == Applied(pool, bs, "pool")
              D2 == Applied(Nyms, bs, "domain")
  <2>1. b \in Batch /\ b.ledger = ledger /\ b.txns = valid
    BY <1>1, <1>7 DEF Batch, ledger
  <2>. HIDE DEF b
  <2>2. /\ bs \in Seq(Batch) /\ Len(bs) = N + 1
        /\ \A k \in 0..N : P2[k] = P[k] /\ D2[k] = D[k]
        /\ P2[N + 1] = Over(P[N], b, "pool") /\ D2[N + 1] = Over(D[N], b, "domain")
    <3>1. /\ bs \in Seq(Batch) /\ Len(bs) = N + 1
          /\ \A k \in 0..N : P2[k] = P[k]
          /\ P2[N + 1] = Over(P[N], b, "pool")
      BY <1>8, <2>1, AppliedAppend DEF N, P
    <3>2. /\ \A k \in 0..N : D2[k] = D[k]
          /\ D2[N + 1] = Over(D[N], b, "domain")
      BY <1>3, <1>8, <2>1, AppliedAppend DEF N, D
    <3>. QED BY <3>1, <3>2
  <2>3. P2[N + 1] = done.log /\ D2[N + 1] = done.nyms
    BY <1>1, <1>5, <1>7, <1>10, <2>1, <2>2 DEF Over, after, before, ledger
  <2>4. \A k \in 0..Len(bs) : LogOK(P2[k], D2[k])
    <3>1. \A k \in 0..Len(bs) : k \in 0..N \/ k = N + 1
      BY <1>8, <2>2
    <3>. HIDE DEF bs, P2, D2
    <3>. QED BY <1>5, <1>8, <2>2, <2>3, <3>1
  <2>5. batches' = bs
    BY <1>2, <1>12
  <2>6. Uncommitted' = done.log
    BY <1>2, <2>2, <2>3, <2>5 DEF Uncommitted
  <2>7. \A k \in 0..Len(batches') :
            LogOK(Applied(pool', batches', "pool")[k], Applied(Nyms', batches', "domain")[k])
    BY <1>2, <1>3, <2>4, <2>5
  <2>. HIDE DEF bs, P2, D2
  <2>. QED BY <1>2, <1>5, <1>8, <1>9, <2>2, <2>5, <2>6, <2>7 DEF LedgerInv, ProposalsKept, but
<1>. QED BY <1>11, <1>12


\* The first batch is committed, to its ledger.
LEMMA ExecuteKeeps ==
    ASSUME LedgerInv, executeBatch
    PROVE  /\ LedgerInv'
           /\ pool' = Over(pool, Head(batches), "pool") /\ Head(batches) \in Batch
           /\ LogOK(pool', Nyms')
<1>. DEFINE b == Head(batches)
            N == Len(batches)
            P == Applied(pool, batches, "pool")
            D == Applied(Nyms, batches, "domain")
<1>1. /\ pool \in Seq(Txns) /\ domain \in Seq(Txns) /\ batches \in Seq(Batch) /\ batches # <<>>
      /\ Nyms \in Seq(Txns) /\ Nyms = domain /\ ahead \in Seq(Txns) /\ ahead = <<>>
  BY UncommittedOK DEF LedgerInv, executeBatch
<1>2. /\ batches' = Tail(batches) /\ cache' = cache /\ mode' = mode /\ mode = "participating"
      /\ left' = left /\ ahead' = ahead
  BY DEF executeBatch, measuring
<1>3. /\ batches' \in Seq(Batch) /\ Len(batches') = N - 1 /\ N \in Nat \ {0} /\ b \in Batch
      /\ \A k \in 0..(N - 1) : /\ Applied(Over(pool, b, "pool"), batches', "pool")[k] = P[k + 1]
                               /\ Applied(Over(Nyms, b, "domain"), batches', "domain")[k] = D[k + 1]
  BY <1>1, <1>2, AppliedTail
<1>4. /\ pool' = Over(pool, b, "pool") /\ domain' = Over(Nyms, b, "domain")
      /\ past'.undone = past.undone /\ "undone" \in DOMAIN past'
  <2>1. "undone" \in DOMAIN past
    BY DEF LedgerInv
  <2>2. CASE b.ledger = "pool" /\ executePoolTxnBatch(b.txns)
    BY <1>1, <2>1, <2>2 DEF executePoolTxnBatch, Over
  <2>3. CASE b.ledger = "domain" /\ executeDomainTxns(b.txns)
    BY <1>1, <2>1, <2>3 DEF executeDomainTxns, Over
  <2>. QED BY <2>2, <2>3 DEF executeBatch
<1>. HIDE DEF b
<1>5. pool' \in Seq(Txns) /\ domain' \in Seq(Txns) /\ Nyms' \in Seq(Txns) /\ Nyms' = domain'
  <2>1. pool' \in Seq(Txns) /\ domain' \in Seq(Txns)
    BY <1>1, <1>3, <1>4, OverType
  <2>2. Nyms' = domain' \o <<>>
    BY <1>1, <1>2 DEF Nyms
  <2>. QED BY <2>1, <2>2, ConcatEmptySeq
<1>. HIDE DEF N, P, D
<1>6. \A k \in 0..N : LogOK(P[k], D[k])
  BY DEF LedgerInv, N, P, D
<1>7. /\ \A k \in 0..(N - 1) : k + 1 \in 0..N
      /\ \A k \in 0..(N - 1) : /\ Applied(pool', batches', "pool")[k] = P[k + 1]
                               /\ Applied(Nyms', batches', "domain")[k] = D[k + 1]
      /\ Len(batches') = N - 1 /\ 0 \in 0..(N - 1) /\ N - 1 \in 0..(N - 1) /\ (N - 1) + 1 = N
  BY <1>3, <1>4, <1>5
<1>8. \A k \in 0..Len(batches') :
          LogOK(Applied(pool', batches', "pool")[k], Applied(Nyms', batches', "domain")[k])
  BY <1>6, <1>7
<1>9. Uncommitted' = Uncommitted
  <2>1. Uncommitted' = Applied(pool', batches', "pool")[N - 1]
    BY <1>7 DEF Uncommitted
  <2>2. Uncommitted = P[N]
    BY DEF Uncommitted, P, N
  <2>. QED BY <1>7, <2>1, <2>2
<1>10. LogOK(pool', Nyms')
  <2>1. Applied(pool', batches', "pool")[0] = pool' /\ Applied(Nyms', batches', "domain")[0] = Nyms'
    BY <1>3, <1>5, AppliedDef
  <2>. QED BY <1>7, <1>8, <2>1
<1>11. LedgerInv'
  BY <1>1, <1>2, <1>3, <1>4, <1>5, <1>8, <1>9 DEF LedgerInv
<1>. QED BY <1>3, <1>4, <1>10, <1>11 DEF b

\* The last batches are reverted, as a view change or an election does.
LEMMA CutBackKeeps ==
    ASSUME LedgerInv, NEW keep \in 0..Len(batches),
           pool' = pool, domain' = domain, ahead' = ahead, cache' = cache, mode' = mode,
           batches' = SubSeq(batches, 1, keep), ProposalsKept,
           "undone" \in DOMAIN past', past'.undone = Undone(keep)
    PROVE  LedgerInv'
<1>. DEFINE N == Len(batches)
            P == Applied(pool, batches, "pool")
            D == Applied(Nyms, batches, "domain")
<1>1. /\ pool \in Seq(Txns) /\ domain \in Seq(Txns) /\ ahead \in Seq(Txns)
      /\ batches \in Seq(Batch) /\ Nyms \in Seq(Txns) /\ Nyms' = Nyms
      /\ \A k \in 0..N : LogOK(P[k], D[k])
      /\ N \in Nat /\ keep \in 0..N /\ Uncommitted \in Seq(Txns)
  BY LenProperties, UncommittedOK DEF LedgerInv, Nyms
<1>2. /\ batches' \in Seq(Batch) /\ Len(batches') = keep
      /\ \A k \in 0..keep : /\ Applied(pool', batches', "pool")[k] = P[k]
                            /\ Applied(Nyms', batches', "domain")[k] = D[k]
  BY <1>1, AppliedSubSeq
<1>3. P[keep] \in Seq(Txns) /\ StartsWith(Uncommitted, P[keep])
  <2>. DEFINE V == {v \in Seq(Txns) : StartsWith(v, P[keep])}
              h == [i \in 0..(N - keep) |-> P[keep + i]]
  <2>1. /\ \A k \in 0..N : P[k] \in Seq(Txns)
        /\ \A k \in 1..N : P[k] = Over(P[k - 1], batches[k], "pool") /\ batches[k] \in Batch
    BY <1>1, AppliedDef, ElementOfSeq
  <2>. HIDE DEF P, N
  <2>2. N - keep \in Nat /\ h[0] = P[keep]
    BY <1>1
  <2>3. h[0] \in V
    BY <1>1, <2>1, <2>2, StartsSelf
  <2>4. ASSUME NEW i \in 1..(N - keep), h[i - 1] \in V PROVE h[i] \in V
    <3>. DEFINE v == P[keep + i - 1]
                b == batches[keep + i]
    <3>1. /\ keep + i \in 1..N /\ (keep + i) - 1 = keep + (i - 1) /\ i - 1 \in 0..(N - keep)
          /\ i \in 0..(N - keep) /\ keep + i \in 0..N
      BY <1>1
    <3>2. h[i] = Over(v, b, "pool") /\ b \in Batch /\ v = h[i - 1]
      BY <2>1, <3>1
    <3>3. v \in Seq(Txns) /\ StartsWith(v, P[keep]) /\ P[keep] \in Seq(Txns)
      BY <1>1, <2>1, <2>4, <3>2
    <3>. HIDE DEF v, b, h
    <3>4. Over(v, b, "pool") \in Seq(Txns) /\ StartsWith(Over(v, b, "pool"), v)
      BY <3>2, <3>3, OverType
    <3>5. StartsWith(Over(v, b, "pool"), P[keep])
      BY <3>3, <3>4, StartsTransitive
    <3>. QED BY <3>2, <3>4, <3>5
  <2>5. h[N - keep] = P[N]
    BY <1>1, <2>2
  <2>. HIDE DEF h, V
  <2>6. P[N] \in V
    BY <2>2, <2>3, <2>4, <2>5, StaysIn
  <2>7. Uncommitted = P[N]
    BY DEF Uncommitted, P, N
  <2>. QED BY <1>1, <2>1, <2>6, <2>7 DEF V
<1>4. Uncommitted' = P[keep]
  <2>1. keep \in 0..keep
    BY <1>1
  <2>. QED BY <1>2, <2>1 DEF Uncommitted
<1>5. past'.undone = past.undone \cup Added(Uncommitted, P[keep])
  BY DEF Undone
<1>. HIDE DEF N, P, D
<1>6. \A k \in 0..Len(batches') :
          LogOK(Applied(pool', batches', "pool")[k], Applied(Nyms', batches', "domain")[k])
  <2>1. \A k \in 0..keep : k \in 0..N
    BY <1>1
  <2>. QED BY <1>1, <1>2, <2>1
<1>7. Owned(Uncommitted', past'.undone) /\ CacheOK(Uncommitted', cache', past'.undone)
  <2>1. Owned(Uncommitted, past.undone) /\ CacheOK(Uncommitted, cache, past.undone)
    BY DEF LedgerInv
  <2>2. LET lost == past.undone \cup Added(Uncommitted, P[keep])
        IN  Owned(P[keep], lost) /\ CacheOK(P[keep], cache, lost)
    BY <1>1, <1>3, <2>1, CacheReverted
  <2>. QED BY <1>4, <1>5, <2>2
<1>8. batches = <<>> => batches' = <<>>
  <2>1. batches = <<>> => N = 0
    BY DEF N
  <2>2. keep = 0 => batches' = <<>>
    BY <1>2, EmptySeq
  <2>. QED BY <1>1, <2>1, <2>2
<1>. QED BY <1>1, <1>2, <1>6, <1>7, <1>8 DEF LedgerInv, ProposalsKept

LEMMA ViewChangeKeeps ==
    ASSUME LedgerInv, NEW keep \in 0..Len(batches), startViewChange(keep)
    PROVE  LedgerInv'
<1>1. /\ pool' = pool /\ domain' = domain /\ ahead' = ahead /\ cache' = cache /\ mode' = mode
      /\ batches' = SubSeq(batches, 1, keep) /\ ProposalsKept
      /\ "undone" \in DOMAIN past' /\ past'.undone = Undone(keep)
  BY SpendKeeps DEF startViewChange, removeObsoletePpReqs, LedgerInv
<1>. QED BY <1>1, CutBackKeeps

LEMMA ElectionKeeps ==
    ASSUME LedgerInv, NEW p, NEW keep \in 0..Len(batches), processPrimary(p, keep)
    PROVE  LedgerInv'
<1>1. /\ pool' = pool /\ domain' = domain /\ ahead' = ahead /\ cache' = cache /\ mode' = mode
      /\ batches' = SubSeq(batches, 1, keep) /\ ProposalsKept
      /\ "undone" \in DOMAIN past' /\ past'.undone = Undone(keep)
  BY SpendKeeps DEF processPrimary, removeObsoletePpReqs, LedgerInv
<1>. QED BY <1>1, CutBackKeeps

\* No batch is left over a log.
LEMMA NoBatches ==
    ASSUME NEW log \in Seq(Txns), NEW nyms \in Seq(Txns), LogOK(log, nyms)
    PROVE  /\ <<>> \in Seq(Batch) /\ Applied(log, <<>>, "pool")[Len(<<>>)] = log
           /\ \A k \in 0..Len(<<>>) :
                 LogOK(Applied(log, <<>>, "pool")[k], Applied(nyms, <<>>, "domain")[k])
<1>. DEFINE none == <<>>
<1>1. none \in Seq(Batch) /\ Len(none) = 0
  OBVIOUS
<1>. HIDE DEF none
<1>. none \in Seq(Batch)
  BY <1>1
<1>2. Applied(log, none, "pool")[0] = log /\ Applied(nyms, none, "domain")[0] = nyms
  <2>1. \A l \in Seq(Txns) : \A ledger : Applied(l, none, ledger)[0] = l
    BY AppliedDef
  <2>. QED BY <2>1
<1>3. \A k \in 0..Len(none) : k = 0
  BY <1>1
<1>4. \A k \in 0..Len(none) :
          LogOK(Applied(log, none, "pool")[k], Applied(nyms, none, "domain")[k])
  BY <1>2, <1>3
<1>. QED BY <1>1, <1>2, <1>4 DEF none

LEMMA StartKeeps ==
    ASSUME LedgerInv, start
    PROVE  LedgerInv'
<1>1. /\ pool' = pool /\ domain' = domain /\ ahead' = ahead /\ batches' = <<>> /\ cache' = {}
      /\ ProposalsKept /\ mode' = "starting"
      /\ past' = [past EXCEPT !.apart = {}, !.late = FALSE, !.fresh = {}, !.measured = {}]
  BY SpendKeeps DEF start, onStopping
<1>2. pool \in Seq(Txns) /\ domain \in Seq(Txns) /\ ahead \in Seq(Txns) /\ "undone" \in DOMAIN past
  BY DEF LedgerInv
<1>3. "undone" \in DOMAIN past' /\ past'.undone = past.undone
  BY <1>1, <1>2
<1>4. /\ Uncommitted \in Seq(Txns) /\ StartsWith(Uncommitted, pool) /\ LogOK(pool, Nyms)
      /\ Nyms \in Seq(Txns) /\ Nyms' = Nyms
  BY <1>1, UncommittedOK DEF Nyms
<1>5. /\ batches' \in Seq(Batch) /\ Uncommitted' = pool
      /\ \A k \in 0..Len(batches') :
            LogOK(Applied(pool', batches', "pool")[k], Applied(Nyms', batches', "domain")[k])
  BY <1>1, <1>2, <1>4, NoBatches DEF Uncommitted
<1>6. Owned(pool, past'.undone) /\ CacheOK(pool, cache', past'.undone)
  <2>1. Owned(pool, past.undone)
    BY <1>2, <1>4, LogOfPrefix DEF LedgerInv
  <2>2. CacheOK(pool, cache', past.undone)
    BY <1>1 DEF CacheOK
  <2>. QED BY <1>3, <2>1, <2>2
<1>. QED BY <1>1, <1>2, <1>3, <1>5, <1>6 DEF LedgerInv, ProposalsKept

\* The batches are empty, and the ledgers are right.
LEMMA CatchingUp ==
    ASSUME LedgerInv, mode # "participating"
    PROVE  /\ batches = <<>> /\ Uncommitted = pool
           /\ Owned(pool, past.undone) /\ CacheOK(pool, cache, past.undone)
           /\ LogOK(pool, Nyms) /\ pool \in Seq(Txns) /\ Nyms \in Seq(Txns)
<1>1. batches = <<>> /\ pool \in Seq(Txns) /\ LogOK(pool, Nyms) /\ Nyms \in Seq(Txns)
  BY UncommittedOK DEF LedgerInv
<1>2. Applied(pool, <<>>, "pool")[Len(<<>>)] = pool
  BY <1>1, NoBatches
<1>3. Uncommitted = pool
  BY <1>1, <1>2 DEF Uncommitted
<1>. QED BY <1>1, <1>3 DEF LedgerInv

\* What it takes for the ledgers to stay right during the catch-up.
LEMMA CatchupStep ==
    ASSUME LedgerInv, mode # "participating", mode' = mode, batches' = batches, cache' = cache,
           ProposalsKept, "undone" \in DOMAIN past', past'.undone = past.undone,
           pool' \in Seq(Txns), domain' \in Seq(Txns), ahead' \in Seq(Txns), Nyms' \in Seq(Txns),
           LogOK(pool', Nyms'),
           Owned(pool', past.undone), CacheOK(pool', cache, past.undone)
    PROVE  LedgerInv'
<1>1. batches = <<>>
  BY CatchingUp
<1>2. /\ batches' \in Seq(Batch) /\ Uncommitted' = pool'
      /\ \A k \in 0..Len(batches') :
            LogOK(Applied(pool', batches', "pool")[k], Applied(Nyms', batches', "domain")[k])
  BY <1>1, NoBatches DEF Uncommitted
<1>. QED BY <1>1, <1>2 DEF LedgerInv, ProposalsKept

\* A NODE transaction that the pool committed meanwhile.
LEMMA CatchupKeeps ==
    ASSUME LedgerInv, NEW t \in Txns, postRecvTxnFromCatchup(t)
    PROVE  /\ LedgerInv' /\ LogOK(pool', Nyms')
           /\ pool' = Append(pool, t) /\ pool' \in Seq(Txns)
<1>1. /\ pool' = Append(pool, t) /\ domain' = domain /\ ahead' = ahead /\ batches' = batches
      /\ mode = "starting" /\ mode' = mode /\ cache' = cache /\ ProposalsKept
      /\ validateNode(pool, Nyms, {}, t) /\ Nyms' = Nyms
  BY SpendKeeps DEF postRecvTxnFromCatchup, measuring, Nyms
<1>2. domain \in Seq(Txns) /\ ahead \in Seq(Txns) /\ "undone" \in DOMAIN past
  BY DEF LedgerInv
<1>3. "undone" \in DOMAIN past' /\ past'.undone = past.undone
  BY <1>2 DEF postRecvTxnFromCatchup
<1>4. /\ Owned(pool, past.undone) /\ CacheOK(pool, cache, past.undone)
      /\ LogOK(pool, Nyms) /\ pool \in Seq(Txns) /\ Nyms \in Seq(Txns)
  BY <1>1, CatchingUp
<1>5. pool' \in Seq(Txns) /\ StartsWith(pool', pool)
  BY <1>1, <1>4, AppendStarts
<1>6. LogOK(pool', Nyms')
  BY <1>1, <1>4, LogAppend
<1>7. Owned(pool', past.undone)
  <2>1. CacheOK(pool, {}, past.undone)
    BY DEF CacheOK
  <2>. QED BY <1>1, <1>4, <2>1, OwnedAppend
<1>8. CacheOK(pool', cache, past.undone)
  BY <1>4, <1>5, CacheKept
<1>9. LedgerInv'
  BY <1>1, <1>2, <1>3, <1>4, <1>5, <1>6, <1>7, <1>8, CatchupStep
<1>. QED BY <1>1, <1>5, <1>6, <1>9

\* A NYM transaction that the pool executes meanwhile.
LEMMA MeanwhileKeeps ==
    ASSUME LedgerInv, NEW t \in Txns, ExecutedMeanwhile(t)
    PROVE  LedgerInv'
<1>1. /\ pool' = pool /\ domain' = domain /\ ahead' = Append(ahead, t) /\ batches' = batches
      /\ mode # "participating" /\ mode' = mode /\ cache' = cache /\ past' = past /\ ProposalsKept
  BY SpendKeeps DEF ExecutedMeanwhile, measuring
<1>2. domain \in Seq(Txns) /\ ahead \in Seq(Txns) /\ "undone" \in DOMAIN past
  BY DEF LedgerInv
<1>3. /\ Owned(pool, past.undone) /\ CacheOK(pool, cache, past.undone)
      /\ LogOK(pool, Nyms) /\ pool \in Seq(Txns) /\ Nyms \in Seq(Txns)
  BY <1>1, CatchingUp
<1>4. ahead' \in Seq(Txns) /\ Nyms' = Append(Nyms, t)
  <2>. DEFINE u == domain \o Append(ahead, t)
              v == Append(domain \o ahead, t)
  <2>1. Append(ahead, t) \in Seq(Txns) /\ domain \o ahead \in Seq(Txns)
    BY <1>2, AppendProperties, ConcatProperties
  <2>2. u \in Seq(Txns) /\ v \in Seq(Txns) /\ Len(u) = Len(v) /\ \A i \in 1..Len(u) : u[i] = v[i]
    BY <1>2, <2>1, AppendProperties, ConcatProperties, LenProperties
  <2>. HIDE DEF u, v
  <2>3. u = v
    BY <2>2, SeqEqual
  <2>. QED BY <1>1, <2>1, <2>3 DEF Nyms, u, v
<1>5. Nyms' \in Seq(Txns) /\ StartsWith(Nyms', Nyms)
  BY <1>3, <1>4, AppendStarts
<1>6. LogOK(pool', Nyms')
  BY <1>1, <1>3, <1>5, StewardsKept
<1>. QED BY <1>1, <1>2, <1>3, <1>4, <1>5, <1>6, CatchupStep

\* The domain ledger catches up by a transaction.
LEMMA DomainKeeps ==
    ASSUME LedgerInv, post_txn_from_catchup_added_to_domain_ledger
    PROVE  LedgerInv'
<1>1. /\ pool' = pool /\ domain' = Append(domain, Head(ahead)) /\ ahead' = Tail(ahead)
      /\ batches' = batches /\ ahead # <<>>
      /\ mode = "discovered" /\ mode' = mode /\ cache' = cache /\ past' = past /\ ProposalsKept
  <2>1. left' = left
    BY DEF post_txn_from_catchup_added_to_domain_ledger
  <2>2. ProposalsKept
    BY <2>1, LeftSame
  <2>. QED BY <2>2 DEF post_txn_from_catchup_added_to_domain_ledger, measuring
<1>2. domain \in Seq(Txns) /\ ahead \in Seq(Txns) /\ "undone" \in DOMAIN past
  BY DEF LedgerInv
<1>3. /\ Owned(pool, past.undone) /\ CacheOK(pool, cache, past.undone)
      /\ LogOK(pool, Nyms) /\ pool \in Seq(Txns) /\ Nyms \in Seq(Txns)
  BY <1>1, CatchingUp
<1>4. /\ domain' \in Seq(Txns) /\ ahead' \in Seq(Txns) /\ Nyms' = Nyms
  <2>. DEFINE x == Head(ahead)
              rest == Tail(ahead)
              d == Append(domain, x)
              u == d \o rest
              v == domain \o ahead
  <2>1. /\ x \in Txns /\ rest \in Seq(Txns) /\ Len(ahead) \in Nat \ {0} /\ Len(rest) = Len(ahead) - 1
        /\ x = ahead[1] /\ \A i \in 1..Len(rest) : rest[i] = ahead[i + 1]
    BY <1>1, <1>2, HeadTailProperties, LenProperties, EmptySeq, ElementOfSeq
  <2>. HIDE DEF x, rest
  <2>2. /\ d \in Seq(Txns) /\ Len(d) = Len(domain) + 1 /\ d[Len(domain) + 1] = x
        /\ Len(domain) \in Nat /\ \A i \in 1..Len(domain) : d[i] = domain[i]
    BY <1>2, <2>1, AppendProperties, LenProperties
  <2>. HIDE DEF d
  <2>3. /\ u \in Seq(Txns) /\ Len(u) = Len(d) + Len(rest)
        /\ \A i \in 1..(Len(d) + Len(rest)) : u[i] = IF i <= Len(d) THEN d[i] ELSE rest[i - Len(d)]
    BY <2>1, <2>2, ConcatProperties
  <2>4. /\ v \in Seq(Txns) /\ Len(v) = Len(domain) + Len(ahead)
        /\ \A i \in 1..(Len(domain) + Len(ahead)) :
              v[i] = IF i <= Len(domain) THEN domain[i] ELSE ahead[i - Len(domain)]
    BY <1>2, ConcatProperties
  <2>. HIDE DEF u, v
  <2>5. ASSUME NEW i \in 1..Len(u) PROVE u[i] = v[i]
    <3>. DEFINE m == Len(domain)
                r == Len(rest)
    <3>1. m \in Nat /\ r \in Nat /\ Len(d) = m + 1 /\ Len(ahead) = r + 1
      BY <2>1, <2>2, LenProperties
    <3>. HIDE DEF m, r
    <3>8. Len(u) = (m + 1) + r
      BY <2>3, <3>1 DEF r
    <3>2. i \in 1..((m + 1) + r) /\ i \in 1..(m + (r + 1))
      BY <3>1, <3>8
    <3>3. u[i] = IF i <= m + 1 THEN d[i] ELSE rest[i - (m + 1)]
      BY <2>3, <3>1, <3>2 DEF r
    <3>4. v[i] = IF i <= m THEN domain[i] ELSE ahead[i - m]
      BY <2>4, <3>1, <3>2 DEF m
    <3>5. CASE i <= m
      <4>1. i \in 1..m /\ i <= m + 1
        BY <3>1, <3>2, <3>5
      <4>. QED BY <2>2, <3>3, <3>4, <3>5, <4>1 DEF m
    <3>6. CASE i = m + 1
      <4>1. ~(i <= m) /\ i - m = 1 /\ i <= m + 1
        BY <3>1, <3>6
      <4>. QED BY <2>1, <2>2, <3>3, <3>4, <3>6, <4>1 DEF m
    <3>7. CASE i > m + 1
      <4>1. ~(i <= m) /\ ~(i <= m + 1) /\ i - (m + 1) \in 1..r /\ (i - (m + 1)) + 1 = i - m
        BY <3>1, <3>2, <3>7
      <4>2. rest[i - (m + 1)] = ahead[(i - (m + 1)) + 1]
        BY <2>1, <4>1 DEF r
      <4>. QED BY <3>3, <3>4, <4>1, <4>2
    <3>. QED BY <3>1, <3>2, <3>5, <3>6, <3>7
  <2>6. u = v
    <3>1. Len(domain) \in Nat /\ Len(rest) \in Nat /\ Len(ahead) = Len(rest) + 1
      BY <2>1, <2>2, LenProperties
    <3>2. Len(u) = (Len(domain) + 1) + Len(rest) /\ Len(v) = Len(domain) + Len(ahead)
      BY <2>2, <2>3, <2>4
    <3>3. Len(u) = Len(v)
      BY <3>1, <3>2
    <3>. QED BY <2>3, <2>4, <2>5, <3>3, SeqEqual
  <2>7. domain' = d /\ ahead' = rest
    BY <1>1 DEF d, x, rest
  <2>. QED BY <2>1, <2>2, <2>6, <2>7 DEF Nyms, u, v
<1>. QED BY <1>1, <1>2, <1>3, <1>4, CatchupStep


LEMMA GenesisOK ==
    /\ Genesis \in Seq(Txns) /\ GenesisNyms \in Seq(Txns)
    /\ LogOK(Genesis, GenesisNyms) /\ Owned(Genesis, {})
<1>1. /\ Range(Genesis) \subseteq Txns /\ Range(GenesisNyms) \subseteq Txns
      /\ Genesis \in Seq(Range(Genesis)) /\ GenesisNyms \in Seq(Range(GenesisNyms))
  BY MembershipAssumption DEF Txns
<1>2. Genesis \in Seq(Txns) /\ GenesisNyms \in Seq(Txns)
  BY <1>1, SeqMonotonic
<1>3. /\ DOMAIN Genesis = 1..Len(Genesis) /\ DOMAIN GenesisNyms = 1..Len(GenesisNyms)
      /\ Len(Genesis) \in Nat
  BY <1>2, LenProperties
<1>4. \A i, j \in 1..Len(Genesis) :
          i # j => Genesis[i].nym # Genesis[j].nym /\ Genesis[i].by # Genesis[j].by
  BY <1>3, MembershipAssumption
<1>5. \A nym \in nodeNyms(Genesis) :
          \E i \in 1..Len(Genesis) : Genesis[i].nym = nym /\ Owner(Genesis, nym) = Genesis[i].by
  BY <1>2, OwnerIsFirst
<1>6. OneEach(Genesis)
  BY <1>4, <1>5 DEF OneEach
<1>7. SameAlias(Genesis)
  BY <1>4 DEF SameAlias
<1>8. ByStewards(Genesis, GenesisNyms)
  BY <1>3, MembershipAssumption DEF ByStewards, MadeSteward
<1>9. Owned(Genesis, {})
  <2>1. \A i \in 1..Len(Genesis) : Genesis[i].nym \in nodeNyms(Genesis)
    BY <1>3 DEF nodeNyms
  <2>. QED BY <1>4, <1>5, <2>1 DEF Owned
<1>. QED BY <1>2, <1>6, <1>7, <1>8, <1>9 DEF LogOK

LEMMA LedgerInit ==
    ASSUME Init
    PROVE  LedgerInv
<1>1. /\ pool = Genesis /\ domain = GenesisNyms /\ ahead = <<>> /\ batches = <<>> /\ cache = {}
      /\ left \in Scenes /\ mode = "participating"
      /\ past = [apart |-> {}, undone |-> {}, late |-> FALSE, forwarded |-> {}, ordered |-> {},
                 fresh |-> {}, measured |-> {}]
  BY DEF Init
<1>2. /\ pool \in Seq(Txns) /\ domain \in Seq(Txns) /\ Owned(pool, {})
      /\ ahead \in Seq(Txns) /\ Nyms = domain /\ LogOK(pool, Nyms) /\ Nyms \in Seq(Txns)
  <2>1. ahead \in Seq(Txns)
    BY <1>1
  <2>. QED BY <1>1, <2>1, GenesisOK, NymsType
<1>3. /\ batches \in Seq(Batch) /\ Uncommitted = pool
      /\ \A k \in 0..Len(batches) :
            LogOK(Applied(pool, batches, "pool")[k], Applied(Nyms, batches, "domain")[k])
  BY <1>1, <1>2, NoBatches DEF Uncommitted
<1>4. CacheOK(pool, cache, {})
  BY <1>1 DEF CacheOK
<1>5. "proposals" \in DOMAIN left /\ "undone" \in DOMAIN past /\ past.undone = {}
  BY <1>1, MembershipAssumption
<1>. QED BY <1>1, <1>2, <1>3, <1>4, <1>5 DEF LedgerInv

LEMMA LedgerStep ==
    ASSUME LedgerInv, [Next]_vars
    PROVE  LedgerInv'
<1>. "undone" \in DOMAIN past
  BY DEF LedgerInv
<1>1. ASSUME NEW p \in left.proposals, create3PCBatch(p) PROVE LedgerInv'
  BY <1>1, CreateKeeps
<1>2. ASSUME NEW p \in left.proposals, revert(p) PROVE LedgerInv'
  BY <1>2, RevertKeeps
<1>3. CASE executeBatch
  BY <1>3, ExecuteKeeps
<1>4. ASSUME NEW keep \in 0..Len(batches), startViewChange(keep) PROVE LedgerInv'
  BY <1>4, ViewChangeKeeps
<1>15. ASSUME NEW p \in Primaries, NEW keep \in 0..Len(batches), processPrimary(p, keep)
       PROVE  LedgerInv'
  BY <1>15, ElectionKeeps
<1>5. CASE start
  BY <1>5, StartKeeps
<1>6. ASSUME NEW p \in left.proposals, postRecvTxnFromCatchup(p.reqs[1]) PROVE LedgerInv'
  <2>. DEFINE t == p.reqs[1]
  <2>1. t \in Txns
    BY ProposalType
  <2>2. postRecvTxnFromCatchup(t)
    BY <1>6
  <2>. HIDE DEF t
  <2>. QED BY <2>1, <2>2, CatchupKeeps
<1>7. CASE postPoolLedgerCaughtUp
  <2>1. batches = <<>>
    BY <1>7, CatchingUp DEF postPoolLedgerCaughtUp
  <2>. QED BY <1>7, <2>1, SpendKeeps, LedgersSame DEF postPoolLedgerCaughtUp
<1>16. ASSUME NEW p \in left.proposals, ExecutedMeanwhile(p.reqs[1]) PROVE LedgerInv'
  <2>. DEFINE t == p.reqs[1]
  <2>1. t \in Txns
    BY ProposalType
  <2>2. ExecutedMeanwhile(t)
    BY <1>16
  <2>. HIDE DEF t
  <2>. QED BY <2>1, <2>2, MeanwhileKeeps
<1>17. CASE post_txn_from_catchup_added_to_domain_ledger
  BY <1>17, DomainKeeps
<1>18. CASE allLedgersCaughtUp
  <2>1. /\ UNCHANGED ledgers /\ past' = past /\ left' = left
        /\ mode' = "participating" /\ ahead = <<>>
    BY <1>18 DEF allLedgersCaughtUp
  <2>2. ProposalsKept
    BY <2>1, LeftSame
  <2>. QED BY <2>1, <2>2, LedgersSame
<1>8. ASSUME NEW name, Connect(name) PROVE LedgerInv'
  BY <1>8, SpendKeeps, LedgersSame DEF Connect, measuring
<1>9. ASSUME NEW i, sendToReplica(i) PROVE LedgerInv'
  BY <1>9, SpendKeeps, LedgersSame DEF sendToReplica, measuring
<1>10. ASSUME NEW r, forward(r) PROVE LedgerInv'
  BY <1>10, SpendKeeps, LedgersSame DEF forward, measuring
<1>11. ASSUME NEW i, NEW rs, processOrdered(i, rs) PROVE LedgerInv'
  BY <1>11, SpendKeeps, LedgersSame DEF processOrdered, measuring
<1>12. CASE checkPerformance
  BY <1>12, SpendKeeps, LedgersSame DEF checkPerformance, measuring
<1>13. CASE Tick
  BY <1>13, SpendKeeps, LedgersSame DEF Tick
<1>14. CASE UNCHANGED vars
  BY <1>14, SpendKeeps, LedgersSame DEF vars, ledgers
<1>. QED BY <1>1, <1>2, <1>3, <1>4, <1>5, <1>6, <1>7, <1>8, <1>9, <1>10, <1>11, <1>12, <1>13, <1>14,
            <1>15, <1>16, <1>17, <1>18
         DEF Next, Ledger, Restarted, Traffic

THEOREM LedgerInvariant == Spec => []LedgerInv
<1>1. Init => LedgerInv
  BY LedgerInit
<1>2. LedgerInv /\ [Next]_vars => LedgerInv'
  BY LedgerStep
<1>. QED BY <1>1, <1>2, PTL DEF Spec

\* OneNodePerSteward for every genesis and every proposals: no steward ever has
\* two nodes, in the uncommitted state of the pool.
THEOREM OneNodeEach == Spec => []OneNodePerSteward
<1>1. LedgerInv => OneNodePerSteward
  BY UncommittedOK, PlacesType DEF OneEach, OneNodePerSteward
<1>. QED BY <1>1, LedgerInvariant, PTL

\* Authorised for every genesis and every proposals: nodes are added and changed
\* by those that the domain ledger made stewards, and, across every revert, by
\* the steward that added the node, unless its addition was itself reverted.
THEOREM StewardsOnly == Spec => []Authorised
<1>1. ASSUME LedgerInv PROVE Authorised
  <2>1. /\ Uncommitted \in Seq(Txns) /\ UncommittedNyms \in Seq(Txns)
        /\ mode = "participating" => ByStewards(Uncommitted, UncommittedNyms)
        /\ Owned(Uncommitted, past.undone)
    BY <1>1, UncommittedOK DEF LogOK, LedgerInv
  <2>2. /\ DOMAIN Uncommitted = 1..Len(Uncommitted)
        /\ DOMAIN UncommittedNyms = 1..Len(UncommittedNyms)
    BY <2>1, LenProperties
  <2>3. \A nym : getNodeData(Uncommitted, nym).by = Owner(Uncommitted, nym)
    BY <2>1, PlacesType
  <2>4. \A i \in DOMAIN Uncommitted : Uncommitted[i].nym \notin past.undone =>
            getNodeData(Uncommitted, Uncommitted[i].nym).by = Uncommitted[i].by
    BY <2>1, <2>2, <2>3 DEF Owned
  <2>5. mode = "participating" =>
            \A i \in DOMAIN Uncommitted : \E j \in DOMAIN UncommittedNyms :
                UncommittedNyms[j].nym = Uncommitted[i].by /\ UncommittedNyms[j].role = "steward"
    BY <2>1, <2>2 DEF ByStewards, MadeSteward
  <2>. QED BY <2>4, <2>5 DEF Authorised
<1>. QED BY <1>1, LedgerInvariant, PTL


-----------------------------------------------------------------------------
(* The monitor, in a view that forwarded the requests fresh and in which    *)
(* the master ordered those measured                                        *)

IsSeq(s) == \E S : s \in Seq(S)

\* Nothing is known of the master.
Blank(m) ==
    /\ m.ordered # <<>> => m.ordered[1].tm = 0 /\ DOMAIN m.avgs[1] = {}
    /\ DOMAIN m.latencies = {}

MonitorOK(m, fresh, measured) ==
    /\ m \in [ordered : {m.ordered}, started : {m.started},
              latencies : {m.latencies}, avgs : {m.avgs}]
    /\ IsSeq(m.ordered) /\ IsSeq(m.avgs) /\ Len(m.ordered) = Len(m.avgs)
    /\ DOMAIN m.started \subseteq fresh
    /\ measured = {} => Blank(m)

LEMMA LongerSeq ==
    ASSUME NEW s, IsSeq(s), NEW x
    PROVE  /\ IsSeq(Append(s, x)) /\ Len(Append(s, x)) = Len(s) + 1 /\ Len(s) \in Nat
           /\ s = <<>> => Append(s, x)[1] = x
           /\ s # <<>> => Append(s, x)[1] = s[1]
<1>1. PICK S : s \in Seq(S)
  BY DEF IsSeq
<1>2. s \in Seq(S \cup {x})
  BY <1>1, SeqMonotonic
<1>3. /\ Append(s, x) \in Seq(S \cup {x}) /\ Len(Append(s, x)) = Len(s) + 1
      /\ \A i \in 1..Len(s) : Append(s, x)[i] = s[i]
      /\ Append(s, x)[Len(s) + 1] = x /\ Len(s) \in Nat
  BY <1>2, AppendProperties, LenProperties
<1>4. s # <<>> => 1 \in 1..Len(s)
  BY <1>2, <1>3, EmptySeq
<1>5. s = <<>> => Len(s) = 0
  OBVIOUS
<1>6. IsSeq(Append(s, x))
  BY <1>3 DEF IsSeq
<1>. QED BY <1>3, <1>4, <1>5, <1>6

LEMMA ChangedSeq ==
    ASSUME NEW s, IsSeq(s), NEW i, NEW x
    PROVE  LET t == [s EXCEPT ![i] = x]
           IN  IsSeq(t) /\ Len(t) = Len(s) /\ (t = <<>> <=> s = <<>>)
<1>. DEFINE t == [s EXCEPT ![i] = x]
<1>1. PICK S : s \in Seq(S)
  BY DEF IsSeq
<1>2. s \in [1..Len(s) -> S] /\ Len(s) \in Nat
  BY <1>1, LenProperties
<1>3. t \in [1..Len(s) -> S \cup {x}]
  BY <1>2
<1>. HIDE DEF t
<1>4. t \in Seq(S \cup {x})
  BY <1>2, <1>3, SeqDef
<1>5. Len(t) = Len(s)
  BY <1>2, <1>3, <1>4, LenProperties
<1>6. t = <<>> <=> s = <<>>
  BY <1>1, <1>4, <1>5, EmptySeq
<1>. QED BY <1>4, <1>5, <1>6 DEF IsSeq, t

LEMMA ConstantSeq ==
    ASSUME NEW n \in Nat, NEW x
    PROVE  IsSeq([i \in 1..n |-> x]) /\ Len([i \in 1..n |-> x]) = n
<1>. DEFINE t == [i \in 1..n |-> x]
<1>1. t \in [1..n -> {x}]
  OBVIOUS
<1>. HIDE DEF t
<1>2. t \in Seq({x})
  BY <1>1, SeqDef
<1>3. Len(t) = n
  BY <1>1, <1>2, LenProperties
<1>. QED BY <1>2, <1>3 DEF IsSeq, t

LEMMA NewMonitorOK ==
    ASSUME NEW fresh, NEW measured
    PROVE  MonitorOK(NewMonitor, fresh, measured)
<1>. DEFINE none == <<>>
<1>1. none \in Seq({}) /\ DOMAIN none = {}
  OBVIOUS
<1>2. NewMonitor = [ordered |-> none, started |-> none, latencies |-> none, avgs |-> none]
  BY DEF NewMonitor
<1>. HIDE DEF none
<1>. QED BY <1>1, <1>2 DEF MonitorOK, Blank, IsSeq, none

LEMMA AddInstanceOK ==
    ASSUME NEW m, NEW fresh, NEW measured, MonitorOK(m, fresh, measured)
    PROVE  MonitorOK(addInstance(m), fresh, measured)
<1>. DEFINE o == Append(m.ordered, [reqs |-> 0, tm |-> 0])
            a == Append(m.avgs, <<>>)
            zero == [reqs |-> 0, tm |-> 0]
            w == addInstance(m)
<1>1. /\ IsSeq(o) /\ IsSeq(a) /\ Len(o) = Len(a) /\ Len(m.ordered) \in Nat
      /\ m.ordered = <<>> => o[1] = zero
      /\ m.ordered # <<>> => o[1] = m.ordered[1]
      /\ m.avgs = <<>> => a[1] = <<>>
      /\ m.avgs # <<>> => a[1] = m.avgs[1]
  BY LongerSeq DEF MonitorOK
<1>2. m.ordered = <<>> <=> m.avgs = <<>>
  <2>1. PICK S : m.ordered \in Seq(S)
    BY DEF MonitorOK, IsSeq
  <2>2. PICK T : m.avgs \in Seq(T)
    BY DEF MonitorOK, IsSeq
  <2>. QED BY <2>1, <2>2, EmptySeq DEF MonitorOK
<1>3. DOMAIN <<>> = {} /\ zero.tm = 0
  OBVIOUS
<1>. HIDE DEF o, a, zero
<1>4. w = [m EXCEPT !.ordered = o, !.avgs = a]
  BY DEF addInstance, o, a
<1>5. /\ w \in [ordered : {o}, started : {m.started}, latencies : {m.latencies}, avgs : {a}]
  BY <1>4 DEF MonitorOK
<1>. HIDE DEF w
<1>6. w.ordered = o /\ w.avgs = a /\ w.started = m.started /\ w.latencies = m.latencies
  BY <1>5
<1>7. Blank(m) => Blank(w)
  BY <1>1, <1>2, <1>3, <1>6 DEF Blank
<1>8. MonitorOK(w, fresh, measured)
  BY <1>1, <1>5, <1>6, <1>7 DEF MonitorOK
<1>. QED BY <1>8 DEF w

LEMMA ResetOK ==
    ASSUME NEW m, NEW fresh, NEW measured, MonitorOK(m, fresh, measured)
    PROVE  MonitorOK(reset(m), {}, {})
<1>. DEFINE n == Len(m.ordered)
            zero == [reqs |-> 0, tm |-> 0]
            none == <<>>
            o == [i \in 1..n |-> zero]
            a == [i \in 1..n |-> none]
            w == reset(m)
<1>1. n \in Nat
  BY LenProperties DEF MonitorOK, IsSeq
<1>2. DOMAIN none = {} /\ zero.tm = 0
  OBVIOUS
<1>3. w = [ordered |-> o, started |-> none, latencies |-> none, avgs |-> a]
  BY DEF reset, ids, count
<1>. HIDE DEF n, zero, none
<1>4. IsSeq(o) /\ IsSeq(a) /\ Len(o) = n /\ Len(a) = n
  BY <1>1, ConstantSeq
<1>5. o # <<>> => o[1] = zero /\ a[1] = none
  <2>1. o # <<>> => n # 0
    BY <1>1
  <2>. QED BY <1>1, <2>1
<1>. HIDE DEF o, a, w
<1>6. MonitorOK(w, {}, {})
  BY <1>2, <1>3, <1>4, <1>5 DEF MonitorOK, Blank
<1>. QED BY <1>6 DEF w

LEMMA UnOrderedOK ==
    ASSUME NEW m, NEW fresh, NEW measured, MonitorOK(m, fresh, measured), NEW r, NEW now
    PROVE  MonitorOK(requestUnOrdered(m, r, now), fresh \cup {r}, measured)
<1>. DEFINE g == Put(m.started, r, now)
            w == requestUnOrdered(m, r, now)
<1>1. DOMAIN g \subseteq fresh \cup {r}
  BY DEF Put, MonitorOK
<1>. HIDE DEF g
<1>2. w = [m EXCEPT !.started = g]
  BY DEF requestUnOrdered, g
<1>3. w \in [ordered : {m.ordered}, started : {g}, latencies : {m.latencies}, avgs : {m.avgs}]
  BY <1>2 DEF MonitorOK
<1>. HIDE DEF w
<1>4. MonitorOK(w, fresh \cup {r}, measured)
  BY <1>1, <1>3 DEF MonitorOK, Blank
<1>. QED BY <1>4 DEF w


LEMMA OrderedOK ==
    ASSUME NEW m, NEW fresh, NEW measured, MonitorOK(m, fresh, measured),
           NEW rs, NEW i \in Nat, NEW now,
           NEW others, others = IF i = master THEN measured \cup (rs \cap fresh) ELSE measured
    PROVE  MonitorOK(requestOrdered(m, rs, i, now), fresh, others)
<1>. DEFINE known == rs \cap DOMAIN m.started
            duration(r) == now - m.started[r]
            clients == {ClientOf(r) : r \in known}
            late == IF i = master
                    THEN [r \in DOMAIN m.latencies \cup known |->
                             IF r \in known THEN duration(r) ELSE m.latencies[r]]
                    ELSE m.latencies
            avg == [c \in DOMAIN m.avgs[i] \cup clients |->
                       CountClient(m.avgs[i], known, c, duration)]
            sum == MapThenSumSet(duration, known)
            num == [reqs |-> m.ordered[i].reqs + Cardinality(known),
                    tm |-> m.ordered[i].tm + sum]
            a == [m.avgs EXCEPT ![i] = avg]
            o == [m.ordered EXCEPT ![i] = num]
            w == requestOrdered(m, rs, i, now)
<1>1. w = [m EXCEPT !.latencies = late, !.avgs[i] = avg, !.ordered[i] = num]
  BY DEF requestOrdered
<1>2. i = master /\ others = {} => known = {}
  BY DEF MonitorOK
<1>3. known = {} => sum = 0
  <2>1. MapThenSumSet(duration, {}) = 0
    BY DEF MapThenSumSet, MapThenFoldSet
  <2>. QED BY <2>1
<1>4. known = {} => DOMAIN avg = DOMAIN m.avgs[i] /\ (i = master => DOMAIN late = DOMAIN m.latencies)
  OBVIOUS
<1>5. num.tm = m.ordered[i].tm + sum /\ (i # master => late = m.latencies)
  OBVIOUS
<1>. HIDE DEF known, duration, clients, late, avg, sum, num, w
<1>6. w = [m EXCEPT !.latencies = late, !.avgs = a, !.ordered = o]
  BY <1>1 DEF MonitorOK
<1>7. /\ IsSeq(a) /\ Len(a) = Len(m.avgs) /\ (a = <<>> <=> m.avgs = <<>>)
      /\ IsSeq(o) /\ Len(o) = Len(m.ordered) /\ (o = <<>> <=> m.ordered = <<>>)
  BY ZenonT(60), ChangedSeq DEF MonitorOK
<1>8. measured = {} /\ o # <<>> => m.ordered[1].tm = 0 /\ DOMAIN m.avgs[1] = {}
  BY <1>7 DEF MonitorOK, Blank
<1>9. 1 \in DOMAIN m.avgs => a[1] = IF i = 1 THEN avg ELSE m.avgs[1]
  OBVIOUS
<1>10. 1 \in DOMAIN m.ordered => o[1] = IF i = 1 THEN num ELSE m.ordered[1]
  OBVIOUS
<1>11. o # <<>> => 1 \in DOMAIN m.avgs /\ 1 \in DOMAIN m.ordered
  <2>1. PICK S : m.ordered \in Seq(S)
    BY DEF MonitorOK, IsSeq
  <2>2. PICK T : m.avgs \in Seq(T)
    BY DEF MonitorOK, IsSeq
  <2>. QED BY <1>7, <2>1, <2>2, EmptySeq, LenProperties DEF MonitorOK
<1>12. others = {} => measured = {}
  OBVIOUS
<1>13. w \in [ordered : {o}, started : {m.started}, latencies : {late}, avgs : {a}]
  <2>. HIDE DEF o, a
  <2>. QED BY <1>6 DEF MonitorOK
<1>. HIDE DEF o, a
<1>14. others = {} => Blank(w)
  <2>. SUFFICES ASSUME others = {} PROVE Blank(w)
    OBVIOUS
  <2>1. measured = {} /\ Blank(m)
    BY <1>12 DEF MonitorOK
  <2>2. DOMAIN late = {}
    BY <1>2, <1>4, <1>5, <2>1 DEF Blank
  <2>3. ASSUME o # <<>> PROVE o[1].tm = 0 /\ DOMAIN a[1] = {}
    <3>1. m.ordered[1].tm = 0 /\ DOMAIN m.avgs[1] = {}
      BY <1>8, <2>1, <2>3
    <3>2. CASE i = 1
      <4>1. o[1] = num /\ a[1] = avg /\ known = {}
        BY <1>2, <1>9, <1>10, <1>11, <2>3, <3>2 DEF master
      <4>2. m.ordered[i].tm = 0
        BY <3>1, <3>2
      <4>3. DOMAIN m.avgs[i] = {}
        BY <3>1, <3>2, Zenon
      <4>4. num.tm = 0
        BY <1>3, <1>5, <4>1, <4>2
      <4>5. DOMAIN avg = {}
        BY <1>4, <4>1, <4>3
      <4>. QED BY <4>1, <4>4, <4>5
    <3>3. CASE i # 1
      BY <1>9, <1>10, <1>11, <2>3, <3>1, <3>3
    <3>. QED BY <3>2, <3>3
  <2>. QED BY <1>13, <2>2, <2>3 DEF Blank
<1>15. MonitorOK(w, fresh, others)
  BY <1>7, <1>13, <1>14 DEF MonitorOK
<1>. QED BY <1>15 DEF w

\* Whom nothing is known of is not degraded.
LEMMA BlankIsFine ==
    ASSUME NEW m, IsSeq(m.ordered), Blank(m)
    PROVE  ~isMasterDegraded(m)
<1>. SUFFICES ASSUME isMasterDegraded(m) PROVE FALSE
  OBVIOUS
<1>1. m.ordered # <<>>
  BY DEF isMasterDegraded, count
<1>2. m.ordered[1].tm = 0 /\ DOMAIN m.avgs[1] = {} /\ DOMAIN m.latencies = {}
  BY <1>1 DEF Blank
<1>3. ~isMasterThroughputTooLow(m)
  BY <1>2 DEF isMasterThroughputTooLow, Measurable, getThroughput, master
<1>4. ~isMasterReqLatencyTooHigh(m)
  BY <1>2 DEF isMasterReqLatencyTooHigh
<1>5. ClientsOf(m, {master}) = {}
  BY <1>2 DEF ClientsOf, master
<1>6. ~isMasterAvgReqLatencyTooHigh(m)
  BY <1>5 DEF isMasterAvgReqLatencyTooHigh
<1>. QED BY <1>3, <1>4, <1>6 DEF isMasterDegraded


-----------------------------------------------------------------------------
(* The node and its replicas                                                *)

NodeShape(n) ==
    n \in [reg : {n.reg}, conns : {n.conns}, f : Nat, replicas : Nat,
           inbox : [Instances -> Nat], stash : [Instances -> Nat], got : [Instances -> Nat],
           voted : BOOLEAN, unsized : BOOLEAN, monitor : {n.monitor}]

\* Every message is with its replica, or waits for it.
MessagesOK(n) ==
    \A i \in Instances :
        n.got[i] = n.inbox[i] + n.stash[i] /\ (n.stash[i] > 0 => i > n.replicas)

Workable(n, fresh, measured) ==
    /\ NodeShape(n)
    /\ IsFiniteSet(DOMAIN n.reg) /\ Me \in DOMAIN n.reg
    /\ MessagesOK(n)
    /\ MonitorOK(n.monitor, fresh, measured)

\* What changing the number of replicas leaves alone.
SameButReplicas(m, n) ==
    m.reg = n.reg /\ m.conns = n.conns /\ m.f = n.f /\ m.voted = n.voted /\ m.unsized = n.unsized

LEMMA CountAt ==
    ASSUME NEW x \in [Instances -> Nat], NEW y \in [Instances -> Nat], NEW i
    PROVE  /\ [x EXCEPT ![i] = @ + y[i]] \in [Instances -> Nat]
           /\ [x EXCEPT ![i] = 0] \in [Instances -> Nat]
           /\ [x EXCEPT ![i] = @ + 1] \in [Instances -> Nat]
<1>1. [x EXCEPT ![i] = 0] \in [Instances -> Nat]
  OBVIOUS
<1>2. CASE i \in Instances
  <2>1. x[i] + y[i] \in Nat /\ x[i] + 1 \in Nat
    BY <1>2
  <2>. QED BY <1>1, <2>1
<1>3. CASE i \notin Instances
  <2>1. [x EXCEPT ![i] = @ + y[i]] = x /\ [x EXCEPT ![i] = @ + 1] = x
    BY <1>3
  <2>. QED BY <1>1, <2>1
<1>. QED BY <1>2, <1>3

LEMMA GrowOne ==
    ASSUME NEW n, NEW fresh, NEW measured, Workable(n, fresh, measured)
    PROVE  LET m == processStashedMsgsForReplica(addReplica(n), n.replicas + 1)
           IN  /\ Workable(m, fresh, measured) /\ SameButReplicas(m, n)
               /\ m.replicas = n.replicas + 1
<1>. DEFINE a == addReplica(n)
            i == n.replicas + 1
            m == processStashedMsgsForReplica(a, i)
            mon == addInstance(n.monitor)
            inbox == [n.inbox EXCEPT ![i] = @ + n.stash[i]]
            stash == [n.stash EXCEPT ![i] = 0]
<1>1. MonitorOK(mon, fresh, measured)
  BY AddInstanceOK DEF Workable
<1>2. /\ n.replicas \in Nat /\ n.inbox \in [Instances -> Nat] /\ n.stash \in [Instances -> Nat]
      /\ n.got \in [Instances -> Nat]
  BY DEF Workable, NodeShape
<1>3. i \in Nat /\ inbox \in [Instances -> Nat] /\ stash \in [Instances -> Nat]
  <2>1. i \in Nat
    BY <1>2
  <2>. HIDE DEF i
  <2>. QED BY <1>2, <2>1, CountAt
<1>4. a = [n EXCEPT !.replicas = i, !.monitor = mon]
  BY DEF addReplica
<1>. HIDE DEF mon
<1>5. a.inbox = n.inbox /\ a.stash = n.stash
  BY <1>4 DEF Workable, NodeShape
<1>6. m = [a EXCEPT !.inbox[i] = @ + a.stash[i], !.stash[i] = 0]
  BY DEF processStashedMsgsForReplica
<1>. HIDE DEF a, m
<1>7. m = [a EXCEPT !.inbox = inbox, !.stash = stash]
  BY <1>5, <1>6
<1>. HIDE DEF inbox, stash, i
<1>8. m \in [reg : {n.reg}, conns : {n.conns}, f : {n.f}, replicas : {i},
             inbox : {inbox}, stash : {stash}, got : {n.got},
             voted : {n.voted}, unsized : {n.unsized}, monitor : {mon}]
  BY <1>4, <1>7 DEF Workable, NodeShape
<1>9. NodeShape(m) /\ SameButReplicas(m, n) /\ m.replicas = i
  BY <1>3, <1>8 DEF Workable, NodeShape, SameButReplicas
<1>10. MessagesOK(m)
  <2>. SUFFICES ASSUME NEW j \in Instances
                PROVE  n.got[j] = inbox[j] + stash[j] /\ (stash[j] > 0 => j > i)
    BY <1>8 DEF MessagesOK
  <2>1. /\ j \in Nat /\ n.inbox[j] \in Nat /\ n.stash[j] \in Nat
        /\ n.got[j] = n.inbox[j] + n.stash[j] /\ (n.stash[j] > 0 => j > n.replicas)
    BY <1>2, MembershipAssumption DEF Workable, MessagesOK
  <2>2. CASE j = i
    <3>1. inbox[j] = n.inbox[j] + n.stash[j] /\ stash[j] = 0
      BY <1>2, <2>2 DEF inbox, stash
    <3>. QED BY <2>1, <3>1
  <2>3. CASE j # i
    <3>1. inbox[j] = n.inbox[j] /\ stash[j] = n.stash[j]
      BY <1>2, <2>3 DEF inbox, stash
    <3>. QED BY <1>2, <2>1, <2>3, <3>1 DEF i
  <2>. QED BY <2>2, <2>3
<1>11. Workable(m, fresh, measured)
  BY <1>1, <1>8, <1>9, <1>10 DEF Workable
<1>. QED BY <1>9, <1>11 DEF m, a, i

LEMMA ShrinkOne ==
    ASSUME NEW n, NEW fresh, NEW measured, Workable(n, fresh, measured), n.replicas > 0
    PROVE  LET m == removeReplica(n)
           IN  /\ Workable(m, fresh, measured) /\ SameButReplicas(m, n)
               /\ m.replicas = n.replicas - 1
<1>. DEFINE r == n.replicas
            m == removeReplica(n)
            mon == addInstance(n.monitor)
            inbox == [n.inbox EXCEPT ![r] = 0]
            got == [n.got EXCEPT ![r] = 0]
<1>1. MonitorOK(mon, fresh, measured)
  BY AddInstanceOK DEF Workable
<1>2. /\ r \in Nat /\ r > 0 /\ n.inbox \in [Instances -> Nat] /\ n.stash \in [Instances -> Nat]
      /\ n.got \in [Instances -> Nat]
  BY DEF Workable, NodeShape
<1>3. r - 1 \in Nat /\ inbox \in [Instances -> Nat] /\ got \in [Instances -> Nat]
  <2>1. r - 1 \in Nat
    BY <1>2
  <2>. HIDE DEF r
  <2>. QED BY <1>2, <2>1, CountAt
<1>4. m = [n EXCEPT !.replicas = r - 1, !.inbox = inbox, !.got = got, !.monitor = mon]
  BY DEF removeReplica
<1>. HIDE DEF mon, inbox, got, m
<1>5. m \in [reg : {n.reg}, conns : {n.conns}, f : {n.f}, replicas : {r - 1},
             inbox : {inbox}, stash : {n.stash}, got : {got},
             voted : {n.voted}, unsized : {n.unsized}, monitor : {mon}]
  BY <1>4 DEF Workable, NodeShape
<1>. HIDE DEF r
<1>6. NodeShape(m) /\ SameButReplicas(m, n) /\ m.replicas = r - 1
  BY <1>2, <1>3, <1>5 DEF Workable, NodeShape, SameButReplicas
<1>7. MessagesOK(m)
  <2>. SUFFICES ASSUME NEW j \in Instances
                PROVE  got[j] = inbox[j] + n.stash[j] /\ (n.stash[j] > 0 => j > r - 1)
    BY <1>5 DEF MessagesOK
  <2>1. /\ j \in Nat /\ n.inbox[j] \in Nat /\ n.stash[j] \in Nat
        /\ n.got[j] = n.inbox[j] + n.stash[j] /\ (n.stash[j] > 0 => j > r)
    BY <1>2, MembershipAssumption DEF Workable, MessagesOK, r
  <2>2. CASE j = r
    <3>1. inbox[j] = 0 /\ got[j] = 0
      BY <1>2, <2>2 DEF inbox, got
    <3>. QED BY <1>2, <2>1, <2>2, <3>1
  <2>3. CASE j # r
    <3>1. inbox[j] = n.inbox[j] /\ got[j] = n.got[j]
      BY <1>2, <2>3 DEF inbox, got
    <3>. QED BY <1>2, <2>1, <3>1
  <2>. QED BY <2>2, <2>3
<1>8. Workable(m, fresh, measured)
  BY <1>1, <1>5, <1>6, <1>7 DEF Workable
<1>. QED BY <1>6, <1>8 DEF m, r


\* The numbers of replicas in between.
LEMMA GrowDef ==
    ASSUME NEW n, NEW number \in Nat
    PROVE  \E more : /\ more[0] = n /\ grow(n, number) = more[number]
                    /\ \A k \in 1..number :
                          more[k] = processStashedMsgsForReplica(addReplica(more[k - 1]), more[k - 1].replicas + 1)
<1>. DEFINE N == number
            step(k, x) == processStashedMsgsForReplica(addReplica(x), x.replicas + 1)
            Is(g, n0) == g = [k \in 0..n0 |-> IF k = 0 THEN n ELSE step(k, g[k - 1])]
            S == {k \in 0..N : \E g : Is(g, k)}
            done == CHOOSE g : Is(g, N)
<1>1. N \in Nat
  OBVIOUS
<1>2. grow(n, number) = done[N]
  BY DEF grow
<1>. HIDE DEF step, N
<1>3. 0 \in S
  <2>. DEFINE g == [k \in 0..0 |-> n]
  <2>1. Is(g, 0)
    OBVIOUS
  <2>. HIDE DEF Is, g
  <2>. QED BY <1>1, <2>1
<1>4. ASSUME NEW k \in 0..(N - 1), k \in S PROVE k + 1 \in S
  <2>1. PICK g : Is(g, k)
    BY <1>4
  <2>2. k \in Nat /\ k + 1 \in 0..N /\ (k + 1) - 1 = k /\ k + 1 # 0
    BY <1>1
  <2>. DEFINE h == [i \in 0..(k + 1) |-> IF i = k + 1 THEN step(k + 1, g[k]) ELSE g[i]]
  <2>3. ASSUME NEW i \in 0..(k + 1)
        PROVE  h[i] = IF i = 0 THEN n ELSE step(i, h[i - 1])
    <3>1. CASE i = k + 1
      <4>1. h[k] = g[k] /\ h[k + 1] = step(k + 1, g[k])
        BY <2>2
      <4>. HIDE DEF h
      <4>. QED BY <2>2, <3>1, <4>1
    <3>2. CASE i # k + 1
      <4>1. i \in 0..k
        BY <2>2, <3>2
      <4>2. g[i] = IF i = 0 THEN n ELSE step(i, g[i - 1])
        BY <2>1, <4>1, Zenon
      <4>3. h[i] = g[i] /\ (i # 0 => h[i - 1] = g[i - 1])
        BY <2>2, <3>2, <4>1
      <4>. HIDE DEF h
      <4>. QED BY <4>2, <4>3
    <3>. QED BY <3>1, <3>2
  <2>4. h = [i \in 0..(k + 1) |-> h[i]]
    OBVIOUS
  <2>. HIDE DEF h
  <2>5. Is(h, k + 1)
    BY <2>3, <2>4
  <2>. HIDE DEF Is
  <2>. QED BY <2>2, <2>5
<1>. HIDE DEF S
<1>5. N \in S
  <2>1. 0..N \subseteq S
    BY <1>1, <1>3, <1>4, InductionUpTo
  <2>. QED BY <1>1, <2>1
<1>6. Is(done, N)
  <2>. HIDE DEF Is
  <2>. QED BY <1>5 DEF S
<1>7. \A k \in 0..N : done[k] = IF k = 0 THEN n ELSE step(k, done[k - 1])
  <2>. HIDE DEF done
  <2>. QED BY <1>6, Zenon
<1>. HIDE DEF done, Is
<1>8. done[0] = n /\ \A k \in 1..N : done[k] = step(k, done[k - 1])
  BY <1>1, <1>7
<1>. QED BY <1>2, <1>8 DEF step, N

\* The same for fewer replicas.
LEMMA ShrinkDef ==
    ASSUME NEW n, NEW number \in Nat
    PROVE  \E fewer : /\ fewer[0] = n /\ shrink(n, number) = fewer[number]
                    /\ \A k \in 1..number :
                          fewer[k] = removeReplica(fewer[k - 1])
<1>. DEFINE N == number
            step(k, x) == removeReplica(x)
            Is(g, n0) == g = [k \in 0..n0 |-> IF k = 0 THEN n ELSE step(k, g[k - 1])]
            S == {k \in 0..N : \E g : Is(g, k)}
            done == CHOOSE g : Is(g, N)
<1>1. N \in Nat
  OBVIOUS
<1>2. shrink(n, number) = done[N]
  BY DEF shrink
<1>. HIDE DEF step, N
<1>3. 0 \in S
  <2>. DEFINE g == [k \in 0..0 |-> n]
  <2>1. Is(g, 0)
    OBVIOUS
  <2>. HIDE DEF Is, g
  <2>. QED BY <1>1, <2>1
<1>4. ASSUME NEW k \in 0..(N - 1), k \in S PROVE k + 1 \in S
  <2>1. PICK g : Is(g, k)
    BY <1>4
  <2>2. k \in Nat /\ k + 1 \in 0..N /\ (k + 1) - 1 = k /\ k + 1 # 0
    BY <1>1
  <2>. DEFINE h == [i \in 0..(k + 1) |-> IF i = k + 1 THEN step(k + 1, g[k]) ELSE g[i]]
  <2>3. ASSUME NEW i \in 0..(k + 1)
        PROVE  h[i] = IF i = 0 THEN n ELSE step(i, h[i - 1])
    <3>1. CASE i = k + 1
      <4>1. h[k] = g[k] /\ h[k + 1] = step(k + 1, g[k])
        BY <2>2
      <4>. HIDE DEF h
      <4>. QED BY <2>2, <3>1, <4>1
    <3>2. CASE i # k + 1
      <4>1. i \in 0..k
        BY <2>2, <3>2
      <4>2. g[i] = IF i = 0 THEN n ELSE step(i, g[i - 1])
        BY <2>1, <4>1, Zenon
      <4>3. h[i] = g[i] /\ (i # 0 => h[i - 1] = g[i - 1])
        BY <2>2, <3>2, <4>1
      <4>. HIDE DEF h
      <4>. QED BY <4>2, <4>3
    <3>. QED BY <3>1, <3>2
  <2>4. h = [i \in 0..(k + 1) |-> h[i]]
    OBVIOUS
  <2>. HIDE DEF h
  <2>5. Is(h, k + 1)
    BY <2>3, <2>4
  <2>. HIDE DEF Is
  <2>. QED BY <2>2, <2>5
<1>. HIDE DEF S
<1>5. N \in S
  <2>1. 0..N \subseteq S
    BY <1>1, <1>3, <1>4, InductionUpTo
  <2>. QED BY <1>1, <2>1
<1>6. Is(done, N)
  <2>. HIDE DEF Is
  <2>. QED BY <1>5 DEF S
<1>7. \A k \in 0..N : done[k] = IF k = 0 THEN n ELSE step(k, done[k - 1])
  <2>. HIDE DEF done
  <2>. QED BY <1>6, Zenon
<1>. HIDE DEF done, Is
<1>8. done[0] = n /\ \A k \in 1..N : done[k] = step(k, done[k - 1])
  BY <1>1, <1>7
<1>. QED BY <1>2, <1>8 DEF step, N

\* The node after each of the transactions.
LEMMA ApplyTxnsDef ==
    ASSUME NEW log, NEW n, NEW batch \in Seq(Txns)
    PROVE  \E after : /\ after[0] = n /\ applyTxns(log, n, batch) = after[Len(batch)]
                    /\ \A k \in 1..Len(batch) :
                          after[k] = onPoolMembershipChange(log, after[k - 1], batch[k])
<1>. DEFINE N == Len(batch)
            step(k, x) == onPoolMembershipChange(log, x, batch[k])
            Is(g, n0) == g = [k \in 0..n0 |-> IF k = 0 THEN n ELSE step(k, g[k - 1])]
            S == {k \in 0..N : \E g : Is(g, k)}
            done == CHOOSE g : Is(g, N)
<1>1. N \in Nat
  BY LenProperties
<1>2. applyTxns(log, n, batch) = done[N]
  BY DEF applyTxns
<1>. HIDE DEF step, N
<1>3. 0 \in S
  <2>. DEFINE g == [k \in 0..0 |-> n]
  <2>1. Is(g, 0)
    OBVIOUS
  <2>. HIDE DEF Is, g
  <2>. QED BY <1>1, <2>1
<1>4. ASSUME NEW k \in 0..(N - 1), k \in S PROVE k + 1 \in S
  <2>1. PICK g : Is(g, k)
    BY <1>4
  <2>2. k \in Nat /\ k + 1 \in 0..N /\ (k + 1) - 1 = k /\ k + 1 # 0
    BY <1>1
  <2>. DEFINE h == [i \in 0..(k + 1) |-> IF i = k + 1 THEN step(k + 1, g[k]) ELSE g[i]]
  <2>3. ASSUME NEW i \in 0..(k + 1)
        PROVE  h[i] = IF i = 0 THEN n ELSE step(i, h[i - 1])
    <3>1. CASE i = k + 1
      <4>1. h[k] = g[k] /\ h[k + 1] = step(k + 1, g[k])
        BY <2>2
      <4>. HIDE DEF h
      <4>. QED BY <2>2, <3>1, <4>1
    <3>2. CASE i # k + 1
      <4>1. i \in 0..k
        BY <2>2, <3>2
      <4>2. g[i] = IF i = 0 THEN n ELSE step(i, g[i - 1])
        BY <2>1, <4>1, Zenon
      <4>3. h[i] = g[i] /\ (i # 0 => h[i - 1] = g[i - 1])
        BY <2>2, <3>2, <4>1
      <4>. HIDE DEF h
      <4>. QED BY <4>2, <4>3
    <3>. QED BY <3>1, <3>2
  <2>4. h = [i \in 0..(k + 1) |-> h[i]]
    OBVIOUS
  <2>. HIDE DEF h
  <2>5. Is(h, k + 1)
    BY <2>3, <2>4
  <2>. HIDE DEF Is
  <2>. QED BY <2>2, <2>5
<1>. HIDE DEF S
<1>5. N \in S
  <2>1. 0..N \subseteq S
    BY <1>1, <1>3, <1>4, InductionUpTo
  <2>. QED BY <1>1, <2>1
<1>6. Is(done, N)
  <2>. HIDE DEF Is
  <2>. QED BY <1>5 DEF S
<1>7. \A k \in 0..N : done[k] = IF k = 0 THEN n ELSE step(k, done[k - 1])
  <2>. HIDE DEF done
  <2>. QED BY <1>6, Zenon
<1>. HIDE DEF done, Is
<1>8. done[0] = n /\ \A k \in 1..N : done[k] = step(k, done[k - 1])
  BY <1>1, <1>7
<1>. QED BY <1>2, <1>8 DEF step, N


\* m is n with another number of replicas.
Resized(m, n, replicas, fresh, measured) ==
    Workable(m, fresh, measured) /\ SameButReplicas(m, n) /\ m.replicas = replicas

LEMMA GrowOK ==
    ASSUME NEW n, NEW fresh, NEW measured, Workable(n, fresh, measured), NEW number \in Nat
    PROVE  Resized(grow(n, number), n, n.replicas + number, fresh, measured)
<1>. DEFINE r == n.replicas
            S(g) == {k \in 0..number : Resized(g[k], n, r + k, fresh, measured)}
<1>1. PICK more : /\ more[0] = n /\ grow(n, number) = more[number]
                  /\ \A k \in 1..number : more[k] =
                        processStashedMsgsForReplica(addReplica(more[k - 1]), more[k - 1].replicas + 1)
  BY GrowDef
<1>2. r \in Nat
  BY DEF Workable, NodeShape
<1>. HIDE DEF r
<1>3. 0 \in S(more)
  BY <1>1, <1>2 DEF Resized, SameButReplicas, r
<1>4. ASSUME NEW k \in 0..(number - 1), k \in S(more) PROVE k + 1 \in S(more)
  <2>. DEFINE x == more[k]
              y == processStashedMsgsForReplica(addReplica(x), x.replicas + 1)
  <2>1. k + 1 \in 1..number /\ (k + 1) - 1 = k /\ k + 1 \in 0..number /\ (r + k) + 1 = r + (k + 1)
    BY <1>2
  <2>2. more[k + 1] = y
    BY <1>1, <2>1
  <2>3. Resized(x, n, r + k, fresh, measured)
    BY <1>4
  <2>. HIDE DEF x
  <2>4. Workable(y, fresh, measured) /\ SameButReplicas(y, x) /\ y.replicas = x.replicas + 1
    BY <2>3, GrowOne DEF Resized
  <2>. HIDE DEF y
  <2>5. Resized(y, n, r + (k + 1), fresh, measured)
    BY <2>1, <2>3, <2>4 DEF Resized, SameButReplicas
  <2>. QED BY <2>1, <2>2, <2>5
<1>. HIDE DEF S
<1>5. 0..number \subseteq S(more)
  BY <1>3, <1>4, InductionUpTo
<1>6. number \in S(more)
  BY <1>5
<1>. QED BY <1>1, <1>6 DEF S, r

LEMMA ShrinkOK ==
    ASSUME NEW n, NEW fresh, NEW measured, Workable(n, fresh, measured),
           NEW number \in Nat, number <= n.replicas
    PROVE  Resized(shrink(n, number), n, n.replicas - number, fresh, measured)
<1>. DEFINE r == n.replicas
            S(g) == {k \in 0..number : Resized(g[k], n, r - k, fresh, measured)}
<1>1. PICK fewer : /\ fewer[0] = n /\ shrink(n, number) = fewer[number]
                   /\ \A k \in 1..number : fewer[k] = removeReplica(fewer[k - 1])
  BY ShrinkDef
<1>2. r \in Nat /\ number <= r
  BY DEF Workable, NodeShape
<1>. HIDE DEF r
<1>3. 0 \in S(fewer)
  BY <1>1, <1>2 DEF Resized, SameButReplicas, r
<1>4. ASSUME NEW k \in 0..(number - 1), k \in S(fewer) PROVE k + 1 \in S(fewer)
  <2>. DEFINE x == fewer[k]
              y == removeReplica(x)
  <2>1. /\ k + 1 \in 1..number /\ (k + 1) - 1 = k /\ k + 1 \in 0..number
        /\ (r - k) - 1 = r - (k + 1) /\ r - k > 0
    BY <1>2
  <2>2. fewer[k + 1] = y
    BY <1>1, <2>1
  <2>3. Resized(x, n, r - k, fresh, measured)
    BY <1>4
  <2>. HIDE DEF x
  <2>4. Workable(y, fresh, measured) /\ SameButReplicas(y, x) /\ y.replicas = x.replicas - 1
    BY <2>1, <2>3, ShrinkOne DEF Resized
  <2>. HIDE DEF y
  <2>5. Resized(y, n, r - (k + 1), fresh, measured)
    BY <2>1, <2>3, <2>4 DEF Resized, SameButReplicas
  <2>. QED BY <2>1, <2>2, <2>5
<1>. HIDE DEF S
<1>5. 0..number \subseteq S(fewer)
  BY <1>3, <1>4, InductionUpTo
<1>6. number \in S(fewer)
  BY <1>5
<1>. QED BY <1>1, <1>6 DEF S, r

\* There are as many replicas as f asks for, whatever there were.
LEMMA AdjustOK ==
    ASSUME NEW n, NEW fresh, NEW measured, Workable(n, fresh, measured)
    PROVE  Resized(adjustReplicas(n), n, n.f + 1, fresh, measured)
<1>. DEFINE required == n.f + 1
            done == IF n.replicas <= required THEN grow(n, required - n.replicas)
                    ELSE shrink(n, n.replicas - required)
            stash == [i \in Instances |-> IF i <= done.replicas THEN 0 ELSE done.stash[i]]
            m == adjustReplicas(n)
<1>1. n.f \in Nat /\ n.replicas \in Nat
  BY DEF Workable, NodeShape
<1>2. Resized(done, n, required, fresh, measured)
  <2>1. CASE n.replicas <= required
    <3>. DEFINE number == required - n.replicas
    <3>1. number \in Nat /\ n.replicas + number = required /\ done = grow(n, number)
      BY <1>1, <2>1
    <3>. HIDE DEF number, done, required
    <3>2. Resized(grow(n, number), n, n.replicas + number, fresh, measured)
      BY <3>1, GrowOK
    <3>. QED BY <3>1, <3>2
  <2>2. CASE ~(n.replicas <= required)
    <3>. DEFINE number == n.replicas - required
    <3>1. /\ number \in Nat /\ number <= n.replicas /\ n.replicas - number = required
          /\ done = shrink(n, number)
      BY <1>1, <2>2
    <3>. HIDE DEF number, done, required
    <3>2. Resized(shrink(n, number), n, n.replicas - number, fresh, measured)
      BY <3>1, ShrinkOK
    <3>. QED BY <3>1, <3>2
  <2>. QED BY <2>1, <2>2
<1>3. m = [done EXCEPT !.stash = [i \in Instances |-> IF i <= done.replicas THEN 0 ELSE @[i]]]
  BY DEF adjustReplicas
<1>. HIDE DEF required, done
<1>4. /\ NodeShape(done) /\ MessagesOK(done) /\ done.replicas = required
      /\ done.replicas \in Nat /\ done.stash \in [Instances -> Nat]
  BY <1>2 DEF Resized, Workable, NodeShape
<1>5. ASSUME NEW i \in Instances PROVE stash[i] = done.stash[i]
  <2>1. i \in Nat /\ done.stash[i] \in Nat /\ (done.stash[i] > 0 => i > done.replicas)
    BY <1>4, MembershipAssumption DEF MessagesOK
  <2>. QED BY <1>4, <2>1
<1>6. stash = done.stash
  BY <1>4, <1>5
<1>7. m = [done EXCEPT !.stash = stash]
  BY <1>3, <1>4 DEF NodeShape
<1>. HIDE DEF stash, m
<1>8. m = done
  BY <1>4, <1>6, <1>7 DEF NodeShape
<1>. QED BY <1>2, <1>8 DEF m, required


-----------------------------------------------------------------------------
(* What a node makes of a transaction                                       *)

\* f and the number of replicas follow the registry.
Sized(n) ==
    /\ ~n.unsized => n.f = MaxFailures(Cardinality(DOMAIN n.reg))
    /\ n.replicas = n.f + 1

\* The primary, if it was a validator when it was elected.
Voter == IF past.late THEN None ELSE primary

LEMMA VoterSame ==
    ASSUME primary' = primary, past'.late = past.late
    PROVE  Voter' = Voter
BY DEF Voter

\* The node voted if the primary is no validator.
Watched(n, voter) == voter \notin {None} \cup DOMAIN n.reg => n.voted

NodeOK(n, voter, fresh, measured) ==
    Workable(n, fresh, measured) /\ Sized(n) /\ Watched(n, voter)

\* m is n with another registry, other connections, and vote and size as given.
Changed(m, n, reg, conns, voted, unsized) ==
    m \in [reg : {reg}, conns : {conns}, f : {n.f}, replicas : {n.replicas},
           inbox : {n.inbox}, stash : {n.stash}, got : {n.got},
           voted : {voted}, unsized : {unsized}, monitor : {n.monitor}]

LEMMA ChangedOK ==
    ASSUME NEW n, NEW fresh, NEW measured, Workable(n, fresh, measured), NEW m, NEW reg, NEW conns,
           NEW voted \in BOOLEAN, NEW unsized \in BOOLEAN,
           IsFiniteSet(DOMAIN reg), Me \in DOMAIN reg,
           Changed(m, n, reg, conns, voted, unsized)
    PROVE  /\ Workable(m, fresh, measured)
           /\ m.reg = reg /\ m.conns = conns /\ m.voted = voted /\ m.unsized = unsized
           /\ m.f = n.f /\ m.replicas = n.replicas
<1>1. /\ m.reg = reg /\ m.conns = conns /\ m.voted = voted /\ m.unsized = unsized
      /\ m.f = n.f /\ m.replicas = n.replicas /\ m.monitor = n.monitor
      /\ m.inbox = n.inbox /\ m.stash = n.stash /\ m.got = n.got
  BY DEF Changed
<1>2. NodeShape(m)
  BY <1>1 DEF Changed, Workable, NodeShape
<1>3. MessagesOK(m)
  BY <1>1 DEF Workable, MessagesOK
<1>. QED BY <1>1, <1>2, <1>3 DEF Workable

LEMMA MaxFailuresType ==
    ASSUME NEW n \in Nat
    PROVE  MaxFailures(n) \in Nat
BY DEF MaxFailures

\* setF and adjustReplicas make the size right, whatever it was.
LEMMA ResizeOK ==
    ASSUME NEW n, NEW fresh, NEW measured, Workable(n, fresh, measured)
    PROVE  LET m == adjustReplicas(setF(n))
           IN  /\ Workable(m, fresh, measured) /\ Sized(m)
               /\ m.reg = n.reg /\ m.voted = n.voted
<1>. DEFINE s == setF(n)
            m == adjustReplicas(s)
            size == MaxFailures(Cardinality(DOMAIN n.reg))
<1>1. /\ NodeShape(n) /\ IsFiniteSet(DOMAIN n.reg) /\ Me \in DOMAIN n.reg
      /\ MessagesOK(n) /\ MonitorOK(n.monitor, fresh, measured)
  BY DEF Workable
<1>2. DOMAIN n.reg \cup {Me} = DOMAIN n.reg
  BY <1>1
<1>3. size \in Nat
  BY <1>1, FS_CardinalityType, MaxFailuresType
<1>4. s = [n EXCEPT !.f = size, !.unsized = FALSE]
  BY <1>2 DEF setF
<1>. HIDE DEF size, s, m
<1>5. s \in [reg : {n.reg}, conns : {n.conns}, f : {size}, replicas : {n.replicas},
             inbox : {n.inbox}, stash : {n.stash}, got : {n.got},
             voted : {n.voted}, unsized : {FALSE}, monitor : {n.monitor}]
  BY <1>1, <1>4 DEF NodeShape
<1>6. NodeShape(s)
  BY <1>1, <1>3, <1>5 DEF NodeShape
<1>7. MessagesOK(s)
  BY <1>1, <1>5 DEF MessagesOK
<1>8. Workable(s, fresh, measured)
  BY <1>1, <1>5, <1>6, <1>7 DEF Workable
<1>9. Resized(m, s, s.f + 1, fresh, measured)
  BY <1>8, AdjustOK DEF m
<1>10. /\ Workable(m, fresh, measured) /\ m.reg = n.reg /\ m.voted = n.voted
       /\ m.unsized = FALSE /\ m.f = size /\ m.replicas = m.f + 1
  BY <1>5, <1>9 DEF Resized, SameButReplicas
<1>11. Sized(m)
  BY <1>10 DEF Sized, size
<1>. QED BY <1>10, <1>11 DEF m, s

LEMMA DisconnectOK ==
    ASSUME NEW n, NEW fresh, NEW measured, Workable(n, fresh, measured), Sized(n), NEW name,
           primary = name \/ Watched(n, Voter)
    PROVE  LET m == node_about_to_be_disconnected(n, name)
           IN  NodeOK(m, Voter, fresh, measured) /\ m.reg = n.reg
<1>. DEFINE m == node_about_to_be_disconnected(n, name)
<1>1. CASE primary = name
  <2>. DEFINE vote == TRUE
  <2>1. m = [n EXCEPT !.voted = vote]
    BY <1>1 DEF node_about_to_be_disconnected
  <2>. vote \in BOOLEAN
    OBVIOUS
  <2>. HIDE DEF m, vote
  <2>2. Changed(m, n, n.reg, n.conns, vote, n.unsized)
    BY <2>1 DEF Changed, Workable, NodeShape
  <2>3. n.unsized \in BOOLEAN /\ IsFiniteSet(DOMAIN n.reg) /\ Me \in DOMAIN n.reg
    BY DEF Workable, NodeShape
  <2>4. /\ Workable(m, fresh, measured) /\ m.reg = n.reg /\ m.voted = vote
        /\ m.unsized = n.unsized /\ m.f = n.f /\ m.replicas = n.replicas
    BY <2>2, <2>3, ChangedOK
  <2>5. NodeOK(m, Voter, fresh, measured)
    BY <2>4 DEF NodeOK, Sized, Watched, vote
  <2>. QED BY <2>4, <2>5 DEF m
<1>2. CASE primary # name
  BY <1>2 DEF node_about_to_be_disconnected, NodeOK
<1>. QED BY <1>1, <1>2

LEMMA RemoveRemoteOK ==
    ASSUME NEW n, NEW voter, NEW fresh, NEW measured, NEW name
    PROVE  LET m == removeRemote(n, name)
           IN  /\ Workable(n, fresh, measured) => Workable(m, fresh, measured) /\ m.reg = n.reg /\ m.voted = n.voted
               /\ NodeOK(n, voter, fresh, measured) => NodeOK(m, voter, fresh, measured)
<1>. DEFINE m == removeRemote(n, name)
            conns == n.conns \ {name}
<1>1. m = [n EXCEPT !.conns = conns]
  BY DEF removeRemote
<1>. HIDE DEF m, conns
<1>. SUFFICES ASSUME Workable(n, fresh, measured)
              PROVE  /\ Workable(m, fresh, measured) /\ m.reg = n.reg /\ m.voted = n.voted
                     /\ NodeOK(n, voter, fresh, measured) => NodeOK(m, voter, fresh, measured)
  BY DEF NodeOK, m
<1>2. Changed(m, n, n.reg, conns, n.voted, n.unsized)
  BY <1>1 DEF Changed, Workable, NodeShape
<1>3. /\ n.unsized \in BOOLEAN /\ n.voted \in BOOLEAN
      /\ IsFiniteSet(DOMAIN n.reg) /\ Me \in DOMAIN n.reg
  BY DEF Workable, NodeShape
<1>4. /\ Workable(m, fresh, measured) /\ m.reg = n.reg /\ m.voted = n.voted
      /\ m.unsized = n.unsized /\ m.f = n.f /\ m.replicas = n.replicas
  BY <1>2, <1>3, ChangedOK
<1>5. NodeOK(n, voter, fresh, measured) => NodeOK(m, voter, fresh, measured)
  BY <1>4 DEF NodeOK, Sized, Watched
<1>. QED BY <1>4, <1>5

\* One more in the registry, or another address, if setF need not know.
LEMMA PutOK ==
    ASSUME NEW n, NEW voter, NEW fresh, NEW measured, NodeOK(n, voter, fresh, measured),
           NEW name, NEW ha, NEW unsized \in BOOLEAN,
           unsized \/ (name \in DOMAIN n.reg /\ unsized = n.unsized)
    PROVE  LET m == [n EXCEPT !.reg = Put(@, name, ha), !.unsized = unsized]
           IN  NodeOK(m, voter, fresh, measured) /\ DOMAIN m.reg = DOMAIN n.reg \cup {name}
<1>. DEFINE reg == Put(n.reg, name, ha)
            m == [n EXCEPT !.reg = Put(@, name, ha), !.unsized = unsized]
<1>1. Workable(n, fresh, measured) /\ Sized(n) /\ Watched(n, voter)
  BY DEF NodeOK
<1>2. /\ DOMAIN reg = DOMAIN n.reg \cup {name} /\ Me \in DOMAIN reg /\ IsFiniteSet(DOMAIN reg)
      /\ n.voted \in BOOLEAN
  <2>1. DOMAIN reg = DOMAIN n.reg \cup {name}
    BY DEF Put
  <2>2. IsFiniteSet(DOMAIN n.reg) /\ Me \in DOMAIN n.reg /\ n.voted \in BOOLEAN
    BY <1>1 DEF Workable, NodeShape
  <2>. QED BY <2>1, <2>2, FS_AddElement
<1>3. m = [n EXCEPT !.reg = reg, !.unsized = unsized]
  OBVIOUS
<1>. HIDE DEF reg, m
<1>4. Changed(m, n, reg, n.conns, n.voted, unsized)
  BY <1>1, <1>3 DEF Changed, Workable, NodeShape
<1>5. /\ Workable(m, fresh, measured) /\ m.reg = reg /\ m.voted = n.voted
      /\ m.unsized = unsized /\ m.f = n.f /\ m.replicas = n.replicas
  BY <1>1, <1>2, <1>4, ChangedOK
<1>6. Sized(m)
  <2>1. name \in DOMAIN n.reg => DOMAIN reg = DOMAIN n.reg
    BY <1>2
  <2>. QED BY <1>1, <1>5, <2>1 DEF Sized
<1>7. Watched(m, voter)
  BY <1>1, <1>2, <1>5 DEF Watched
<1>. QED BY <1>2, <1>5, <1>6, <1>7 DEF NodeOK, m


LEMMA SwitchedOffOK ==
    ASSUME NEW n, NEW fresh, NEW measured, NodeOK(n, Voter, fresh, measured),
           NEW name, name # Me
    PROVE  /\ NodeOK(disableService(n, name), Voter, fresh, measured)
           /\ disableService(n, name).reg = Restrict(n.reg, DOMAIN n.reg \ {name})
<1>. DEFINE reg == Restrict(n.reg, DOMAIN n.reg \ {name})
            gone == [n EXCEPT !.reg = reg]
            apart == removeRemote(gone, name)
            sized == nodeLeft(apart)
            m == node_about_to_be_disconnected(sized, name)
<1>1. disableService(n, name) = m
  BY DEF disableService
<1>2. Workable(n, fresh, measured) /\ Watched(n, Voter)
  BY DEF NodeOK
<1>3. /\ DOMAIN reg = DOMAIN n.reg \ {name} /\ Me \in DOMAIN reg /\ IsFiniteSet(DOMAIN reg)
      /\ n.voted \in BOOLEAN /\ n.unsized \in BOOLEAN
  <2>1. DOMAIN reg = DOMAIN n.reg \ {name}
    BY DEF Restrict
  <2>2. /\ IsFiniteSet(DOMAIN n.reg) /\ Me \in DOMAIN n.reg
        /\ n.voted \in BOOLEAN /\ n.unsized \in BOOLEAN
    BY <1>2 DEF Workable, NodeShape
  <2>. QED BY <2>1, <2>2, FS_RemoveElement
<1>. HIDE DEF reg
<1>4. Changed(gone, n, reg, n.conns, n.voted, n.unsized)
  BY <1>2 DEF Changed, Workable, NodeShape
<1>. HIDE DEF gone
<1>5. Workable(gone, fresh, measured) /\ gone.reg = reg /\ gone.voted = n.voted
  BY <1>2, <1>3, <1>4, ChangedOK
<1>6. Workable(apart, fresh, measured) /\ apart.reg = reg /\ apart.voted = n.voted
  BY <1>5, RemoveRemoteOK
<1>. HIDE DEF apart
<1>7. /\ Workable(sized, fresh, measured) /\ Sized(sized)
      /\ sized.reg = reg /\ sized.voted = n.voted
  BY <1>6, ResizeOK DEF nodeLeft
<1>. HIDE DEF sized
<1>8. primary = name \/ Watched(sized, Voter)
  BY <1>2, <1>3, <1>7 DEF Watched, Voter
<1>9. NodeOK(m, Voter, fresh, measured) /\ m.reg = reg
  BY <1>7, <1>8, DisconnectOK
<1>. QED BY <1>1, <1>9 DEF reg

\* A transaction of the log: the node's name is the one it always had.
LEMMA NameIsAlias ==
    ASSUME NEW log \in Seq(Txns), SameAlias(log), NEW i \in 1..Len(log)
    PROVE  getNodeInfoFromLedger(log, log[i].nym).alias = log[i].alias
<1>. DEFINE P == TxnsOf(log, log[i].nym)
            older == P \ {Max(P)}
            places == IF older = {} THEN P ELSE older
            v == [j \in places |-> log[j].alias]
<1>1. P \subseteq 1..Len(log) /\ i \in P /\ Len(log) \in Nat
  BY LenProperties DEF TxnsOf
<1>2. \A j \in P : log[j].alias = log[i].alias
  BY <1>1 DEF TxnsOf, SameAlias
<1>3. getNodeInfoFromLedger(log, log[i].nym).alias = Latest(v)
  BY DEF getNodeInfoFromLedger, updateState
<1>. HIDE DEF P
<1>4. places \subseteq P /\ places # {}
  BY <1>1
<1>. HIDE DEF places
<1>5. DOMAIN v \subseteq 1..Len(log) /\ DOMAIN v # {} /\ \A j \in DOMAIN v : v[j] = log[i].alias
  BY <1>1, <1>2, <1>4
<1>. HIDE DEF v
<1>. QED BY <1>1, <1>3, <1>5, LatestIsSame

(* What a transaction t makes of the registry reg, see _updateNode and          *)
(* onPoolMembershipChange.                                                  *)

\* The address of another node is changed at once.
Readdressed(reg, t) ==
    IF t.ha # None /\ t.alias # Me THEN Put(reg, t.alias, t.ha) ELSE reg

UpdatedReg(log, reg, t) ==
    LET info == getNodeInfoFromLedger(log, t.nym)
        r == Readdressed(reg, t)
    IN  IF t.services = None \/ t.alias = Me \/ (info.services = "on") = (t.services = "on") THEN r
        ELSE IF info.services = "on" THEN Restrict(r, DOMAIN r \ {t.alias})
        ELSE Put(r, t.alias, IF t.ha = None THEN info.ha ELSE t.ha)

TxnReg(log, reg, t) ==
    IF t.alias \in DOMAIN reg THEN UpdatedReg(log, reg, t)
    ELSE IF Cardinality(TxnsOf(log, t.nym)) = 1
    THEN IF t.services = "on" /\ t.alias # Me THEN Put(reg, t.alias, t.ha) ELSE reg
    ELSE UpdatedReg(log, Put(reg, t.alias, getNodeInfoFromLedger(log, t.nym).ha), t)

LEMMA UpdateOK ==
    ASSUME NEW n, NEW fresh, NEW measured, NodeOK(n, Voter, fresh, measured),
           NEW log \in Seq(Txns), SameAlias(log), NEW i \in 1..Len(log), NEW t, t = log[i],
           t.alias \in DOMAIN n.reg
    PROVE  /\ NodeOK(_updateNode(log, n, t), Voter, fresh, measured)
           /\ _updateNode(log, n, t).reg = UpdatedReg(log, n.reg, t)
<1>. DEFINE name == t.alias
            n1 == IF t.ha # None THEN nodeHaChanged(log, n, t) ELSE n
            n2 == IF t.key THEN nodeKeysChanged(log, n1, t) ELSE n1
            m == IF t.services # None THEN nodeServicesChanged(log, n2, t) ELSE n2
<1>1. getNodeInfoFromLedger(log, t.nym).alias = name
  BY NameIsAlias
<1>2. getNodeName(log, t.nym) = name
  BY <1>1 DEF getNodeName
<1>3. _updateNode(log, n, t) = m
  BY DEF _updateNode
<1>. HIDE DEF name
<1>4. NodeOK(n1, Voter, fresh, measured) /\ n1.reg = Readdressed(n.reg, t)
  <2>1. CASE t.ha = None
    BY <2>1 DEF Readdressed
  <2>2. CASE t.ha # None
    <3>. DEFINE p == [n EXCEPT !.reg = Put(@, name, t.ha), !.unsized = n.unsized]
                h == stackHaChanged(n, name, t.ha)
                r == removeRemote(p, name)
                x == IF name = Me THEN n ELSE h
    <3>1. n1 = node_about_to_be_disconnected(x, name)
      BY <1>2, <2>2 DEF nodeHaChanged
    <3>2. NodeOK(p, Voter, fresh, measured)
      <4>1. n.unsized \in BOOLEAN /\ name \in DOMAIN n.reg
        BY DEF NodeOK, Workable, NodeShape, name
      <4>. QED BY <4>1, PutOK
    <3>6. p.reg = Put(n.reg, name, t.ha)
      BY DEF NodeOK, Workable, NodeShape
    <3>3. r = h
      BY DEF NodeOK, Workable, NodeShape, removeRemote, stackHaChanged
    <3>. HIDE DEF p, h
    <3>4. NodeOK(r, Voter, fresh, measured) /\ r.reg = p.reg
      BY <3>2, RemoveRemoteOK DEF NodeOK
    <3>5. NodeOK(x, Voter, fresh, measured) /\ x.reg = Readdressed(n.reg, t)
      BY <2>2, <3>3, <3>4, <3>6 DEF Readdressed, name
    <3>. HIDE DEF x, n1
    <3>. QED BY <3>1, <3>5, DisconnectOK DEF NodeOK
  <2>. QED BY <2>1, <2>2
<1>. HIDE DEF n1
<1>5. NodeOK(n2, Voter, fresh, measured) /\ n2.reg = n1.reg
  <2>1. CASE ~t.key \/ name = Me
    BY <1>2, <1>4, <2>1 DEF nodeKeysChanged
  <2>2. CASE t.key /\ name # Me
    <3>. DEFINE r == removeRemote(n1, name)
    <3>1. n2 = node_about_to_be_disconnected(r, name)
      BY <1>2, <2>2 DEF nodeKeysChanged, stackKeysChanged
    <3>2. NodeOK(r, Voter, fresh, measured) /\ r.reg = n1.reg
      BY <1>4, RemoveRemoteOK DEF NodeOK
    <3>. HIDE DEF r, n2
    <3>. QED BY <3>1, <3>2, DisconnectOK DEF NodeOK
  <2>. QED BY <2>1, <2>2
<1>. HIDE DEF n2
<1>6. NodeOK(m, Voter, fresh, measured) /\ m.reg = UpdatedReg(log, n.reg, t)
  <2>. DEFINE info == getNodeInfoFromLedger(log, t.nym)
              ha == IF t.ha = None THEN info.ha ELSE t.ha
              on == info.services = "on"
              e == enableService(n2, name, ha)
              off == disableService(n2, name)
              same == t.services = None \/ name = Me \/ on = (t.services = "on")
              r == Readdressed(n.reg, t)
  <2>1. info.alias = name
    BY <1>1
  <2>2. m = IF same THEN n2 ELSE IF on THEN off ELSE e
    BY <2>1 DEF nodeServicesChanged
  <2>4. /\ UpdatedReg(log, n.reg, t) = IF same THEN r ELSE IF on THEN Restrict(r, DOMAIN r \ {name})
                                       ELSE Put(r, name, ha)
        /\ same \/ name # Me
    BY DEF UpdatedReg, name
  <2>5. n2.reg = r
    BY <1>4, <1>5
  <2>3. NodeOK(e, Voter, fresh, measured) /\ e.reg = Put(n2.reg, name, ha)
    <3>. DEFINE u == TRUE
                p == [n2 EXCEPT !.reg = Put(@, name, ha), !.unsized = u]
    <3>1. e = p
      BY <1>5 DEF enableService, connectNewRemote, NodeOK, Workable, NodeShape
    <3>2. p.reg = Put(n2.reg, name, ha)
      BY <1>5 DEF NodeOK, Workable, NodeShape
    <3>. HIDE DEF ha, e
    <3>3. u \in BOOLEAN /\ u
      OBVIOUS
    <3>. HIDE DEF u
    <3>4. NodeOK(p, Voter, fresh, measured)
      BY <1>5, <3>3, PutOK
    <3>. QED BY <3>1, <3>2, <3>4
  <2>6. name # Me => /\ NodeOK(off, Voter, fresh, measured)
                     /\ off.reg = Restrict(n2.reg, DOMAIN n2.reg \ {name})
    <3>. HIDE DEF n2
    <3>. QED BY <1>5, SwitchedOffOK
  <2>. HIDE DEF e, m, off, same, on, ha, r
  <2>. QED BY <1>5, <2>2, <2>3, <2>4, <2>5, <2>6
<1>. QED BY <1>3, <1>6

LEMMA TxnOK ==
    ASSUME NEW n, NEW fresh, NEW measured, NodeOK(n, Voter, fresh, measured),
           NEW log \in Seq(Txns), SameAlias(log), NEW i \in 1..Len(log), NEW t, t = log[i]
    PROVE  /\ NodeOK(onPoolMembershipChange(log, n, t), Voter, fresh, measured)
           /\ onPoolMembershipChange(log, n, t).reg = TxnReg(log, n.reg, t)
<1>. DEFINE m == onPoolMembershipChange(log, n, t)
            info == getNodeInfoFromLedger(log, t.nym)
            ha == info.ha
            u == TRUE
            name == t.alias
            known == [n EXCEPT !.reg = Put(@, name, ha), !.unsized = u]
            new == addNewNodeAndConnect(n, t)
            first == Cardinality(TxnsOf(log, t.nym)) = 1
<1>1. m = IF t.alias \in DOMAIN n.reg THEN _updateNode(log, n, t)
          ELSE IF first THEN IF t.services = "on" THEN new ELSE n
          ELSE _updateNode(log, known, t)
  BY DEF onPoolMembershipChange
<1>6. TxnReg(log, n.reg, t) =
          IF t.alias \in DOMAIN n.reg THEN UpdatedReg(log, n.reg, t)
          ELSE IF first THEN IF t.services = "on" /\ t.alias # Me THEN Put(n.reg, t.alias, t.ha) ELSE n.reg
          ELSE UpdatedReg(log, Put(n.reg, name, ha), t)
  BY DEF TxnReg
<1>2. /\ NodeOK(new, Voter, fresh, measured)
      /\ new.reg = IF t.alias # Me THEN Put(n.reg, t.alias, t.ha) ELSE n.reg
  <2>1. CASE t.alias = Me
    BY <2>1 DEF addNewNodeAndConnect
  <2>2. CASE t.alias # Me
    <3>. DEFINE uns == TRUE
                p == [n EXCEPT !.reg = Put(@, t.alias, t.ha), !.unsized = uns]
                addr == Put(n.reg, t.alias, t.ha)
                c == connectNewRemote(n, t.alias, t.ha)
    <3>1. new = adjustReplicas(setF(c))
      BY <2>2 DEF addNewNodeAndConnect, newNodeJoined
    <3>2. c = [n EXCEPT !.reg = addr]
      BY DEF connectNewRemote
    <3>3. DOMAIN addr = DOMAIN n.reg \cup {t.alias}
      BY DEF Put
    <3>4. /\ IsFiniteSet(DOMAIN addr) /\ Me \in DOMAIN addr
          /\ n.voted \in BOOLEAN /\ n.unsized \in BOOLEAN
      <4>1. /\ IsFiniteSet(DOMAIN n.reg) /\ Me \in DOMAIN n.reg
            /\ n.voted \in BOOLEAN /\ n.unsized \in BOOLEAN
        BY DEF NodeOK, Workable, NodeShape
      <4>. QED BY <3>3, <4>1, FS_AddElement
    <3>. HIDE DEF addr, c, new
    <3>5. Changed(c, n, addr, n.conns, n.voted, n.unsized)
      BY <3>2 DEF Changed, NodeOK, Workable, NodeShape
    <3>6. Workable(c, fresh, measured) /\ c.reg = addr /\ c.voted = n.voted
      BY <3>4, <3>5, ChangedOK DEF NodeOK
    <3>7. Workable(new, fresh, measured) /\ Sized(new) /\ new.reg = addr /\ new.voted = n.voted
      BY <3>1, <3>6, ResizeOK
    <3>8. NodeOK(new, Voter, fresh, measured)
      BY <3>3, <3>7 DEF NodeOK, Watched
    <3>. QED BY <2>2, <3>7, <3>8 DEF addr
  <2>. QED BY <2>1, <2>2
<1>3. /\ NodeOK(known, Voter, fresh, measured) /\ t.alias \in DOMAIN known.reg
      /\ known.reg = Put(n.reg, name, ha)
  <2>1. u \in BOOLEAN /\ u
    OBVIOUS
  <2>. HIDE DEF u, ha, name
  <2>2. NodeOK(known, Voter, fresh, measured)
    BY <2>1, PutOK
  <2>3. known.reg = Put(n.reg, name, ha)
    BY DEF NodeOK, Workable, NodeShape
  <2>4. name \in DOMAIN known.reg
    BY <2>3 DEF Put
  <2>. HIDE DEF known
  <2>. QED BY <2>2, <2>3, <2>4 DEF name
<1>. HIDE DEF m, new, known, first, ha, name
<1>4. t.alias \in DOMAIN n.reg =>
          /\ NodeOK(_updateNode(log, n, t), Voter, fresh, measured)
          /\ _updateNode(log, n, t).reg = UpdatedReg(log, n.reg, t)
  BY UpdateOK
<1>5. /\ NodeOK(_updateNode(log, known, t), Voter, fresh, measured)
      /\ _updateNode(log, known, t).reg = UpdatedReg(log, known.reg, t)
  BY <1>3, UpdateOK
<1>7. NodeOK(m, Voter, fresh, measured) /\ m.reg = TxnReg(log, n.reg, t)
  BY <1>1, <1>2, <1>3, <1>4, <1>5, <1>6
<1>. QED BY <1>7 DEF m


\* A batch of transactions of the log.
LEMMA TxnsOK ==
    ASSUME NEW n, NEW fresh, NEW measured, NodeOK(n, Voter, fresh, measured),
           NEW log \in Seq(Txns), SameAlias(log), NEW batch \in Seq(Txns),
           \A k \in 1..Len(batch) : \E i \in 1..Len(log) : batch[k] = log[i]
    PROVE  NodeOK(applyTxns(log, n, batch), Voter, fresh, measured)
<1>. DEFINE N == Len(batch)
            S(g) == {k \in 0..N : NodeOK(g[k], Voter, fresh, measured)}
<1>1. PICK after : /\ after[0] = n /\ applyTxns(log, n, batch) = after[N]
                   /\ \A k \in 1..N : after[k] = onPoolMembershipChange(log, after[k - 1], batch[k])
  BY ApplyTxnsDef
<1>2. N \in Nat
  BY LenProperties
<1>3. 0 \in S(after)
  BY <1>1, <1>2
<1>4. ASSUME NEW k \in 0..(N - 1), k \in S(after) PROVE k + 1 \in S(after)
  <2>. DEFINE x == after[k]
              t == batch[k + 1]
              y == onPoolMembershipChange(log, x, t)
  <2>1. k + 1 \in 1..N /\ (k + 1) - 1 = k /\ k + 1 \in 0..N
    BY <1>2
  <2>2. after[k + 1] = y
    BY <1>1, <2>1
  <2>3. PICK i \in 1..Len(log) : t = log[i]
    BY <2>1
  <2>4. NodeOK(x, Voter, fresh, measured)
    BY <1>4
  <2>. HIDE DEF x, t
  <2>5. NodeOK(y, Voter, fresh, measured)
    BY <2>3, <2>4, TxnOK
  <2>. HIDE DEF y
  <2>. QED BY <2>1, <2>2, <2>5
<1>. HIDE DEF S, N
<1>5. 0..N \subseteq S(after)
  BY <1>2, <1>3, <1>4, InductionUpTo
<1>6. N \in S(after)
  BY <1>2, <1>5
<1>. QED BY <1>1, <1>6 DEF S

LEMMA NewNodeOK ==
    ASSUME NEW log \in Seq(Txns), NEW fresh, NEW measured
    PROVE  /\ Workable(NewNode(log), fresh, measured) /\ Sized(NewNode(log))
           /\ NewNode(log).reg = getStackParamsAndNodeReg(log)
<1>. DEFINE reg == getStackParamsAndNodeReg(log)
            zeros == [i \in Instances |-> 0]
            n == [reg |-> reg, conns |-> {}, f |-> 0, replicas |-> 0,
                  inbox |-> zeros, stash |-> zeros, voted |-> FALSE, monitor |-> NewMonitor,
                  got |-> zeros, unsized |-> FALSE]
            names == {log[i].alias : i \in DOMAIN log}
            alias == [i \in 1..Len(log) |-> log[i].alias]
<1>1. IsFiniteSet(names)
  <2>1. DOMAIN log = 1..Len(log) /\ Len(log) \in Nat
    BY LenProperties
  <2>2. IsFiniteSet(1..Len(log))
    BY <2>1, FS_Interval
  <2>3. alias \in Surjection(1..Len(log), names)
    BY <2>1 DEF Surjection
  <2>. QED BY <2>2, <2>3, FS_Surjection
<1>2. DOMAIN reg \subseteq names \cup {Me} /\ Me \in DOMAIN reg
  BY DEF getStackParamsAndNodeReg, parseLedgerForHaAndKeys, Put
<1>3. IsFiniteSet(DOMAIN reg)
  <2>. HIDE DEF names
  <2>1. IsFiniteSet(names \cup {Me})
    BY <1>1, FS_AddElement
  <2>. QED BY <1>2, <2>1, FS_Subset
<1>4. zeros \in [Instances -> Nat] /\ \A i \in Instances : zeros[i] = 0
  OBVIOUS
<1>5. MonitorOK(NewMonitor, fresh, measured)
  BY NewMonitorOK
<1>6. NewNode(log) = adjustReplicas(setF(n))
  BY DEF NewNode
<1>. HIDE DEF reg, zeros
<1>7. NodeShape(n)
  BY <1>4 DEF NodeShape
<1>8. MessagesOK(n)
  BY <1>4 DEF MessagesOK
<1>9. Workable(n, fresh, measured)
  BY <1>2, <1>3, <1>5, <1>7, <1>8 DEF Workable
<1>10. n.reg = reg
  OBVIOUS
<1>. HIDE DEF n
<1>. QED BY <1>6, <1>9, <1>10, ResizeOK DEF reg

\* m is n with another monitor, and the vote as given.
Remonitored(m, n, voted, mon) == m = [n EXCEPT !.voted = voted, !.monitor = mon]

LEMMA MonitorChange ==
    ASSUME NEW n, NEW fresh, NEW measured, Workable(n, fresh, measured), Sized(n),
           NEW mon, NEW fresh2, NEW measured2, MonitorOK(mon, fresh2, measured2),
           NEW voted \in BOOLEAN, NEW m, Remonitored(m, n, voted, mon)
    PROVE  /\ Workable(m, fresh2, measured2) /\ Sized(m)
           /\ m.reg = n.reg /\ m.voted = voted
<1>1. m \in [reg : {n.reg}, conns : {n.conns}, f : {n.f}, replicas : {n.replicas},
             inbox : {n.inbox}, stash : {n.stash}, got : {n.got},
             voted : {voted}, unsized : {n.unsized}, monitor : {mon}]
  BY DEF Workable, NodeShape, Remonitored
<1>2. NodeShape(m)
  BY <1>1 DEF Workable, NodeShape
<1>3. MessagesOK(m)
  BY <1>1 DEF Workable, MessagesOK
<1>4. Workable(m, fresh2, measured2)
  BY <1>1, <1>2, <1>3 DEF Workable
<1>5. Sized(m)
  BY <1>1 DEF Sized
<1>. QED BY <1>1, <1>4, <1>5


-----------------------------------------------------------------------------
(* Every step                                                               *)

PastShape(p) ==
    p \in [apart : {p.apart}, undone : {p.undone}, late : {p.late}, forwarded : {p.forwarded},
           ordered : {p.ordered}, fresh : {p.fresh}, measured : {p.measured}]

NodeInv == PastShape(past) /\ NodeOK(node, Voter, past.fresh, past.measured)

LEMMA NodeInit ==
    ASSUME Init
    PROVE  NodeInv
<1>. DEFINE n == NewNode(Genesis)
            conns == DOMAIN n.reg \ {Me}
            fresh == past.fresh
            measured == past.measured
<1>1. /\ node = [n EXCEPT !.conns = conns] /\ primary \in Primaries \cap DOMAIN node.reg
      /\ past = [apart |-> {}, undone |-> {}, late |-> FALSE, forwarded |-> {}, ordered |-> {},
                 fresh |-> {}, measured |-> {}]
  BY DEF Init
<1>2. PastShape(past)
  BY <1>1 DEF PastShape
<1>. HIDE DEF fresh, measured
<1>3. Workable(n, fresh, measured) /\ Sized(n)
  BY GenesisOK, NewNodeOK
<1>. HIDE DEF n, conns
<1>4. Changed(node, n, n.reg, conns, n.voted, n.unsized)
  BY <1>1, <1>3 DEF Changed, Workable, NodeShape
<1>5. /\ n.unsized \in BOOLEAN /\ n.voted \in BOOLEAN
      /\ IsFiniteSet(DOMAIN n.reg) /\ Me \in DOMAIN n.reg
  BY <1>3 DEF Workable, NodeShape
<1>6. /\ Workable(node, fresh, measured) /\ node.reg = n.reg
      /\ node.unsized = n.unsized /\ node.f = n.f /\ node.replicas = n.replicas
  BY <1>3, <1>4, <1>5, ChangedOK
<1>7. Sized(node) /\ Watched(node, Voter)
  BY <1>1, <1>3, <1>6 DEF Sized, Watched, Voter
<1>. QED BY <1>2, <1>6, <1>7 DEF NodeInv, NodeOK, fresh, measured

LEMMA NodeSame ==
    ASSUME NodeInv, node' = node, primary' = primary, PastShape(past'),
           past'.late = past.late, past'.fresh = past.fresh, past'.measured = past.measured
    PROVE  NodeInv'
BY VoterSame DEF NodeInv

LEMMA NodeExecutes ==
    ASSUME LedgerInv, NodeInv, executeBatch
    PROVE  NodeInv'
<1>. DEFINE b == Head(batches)
            fresh == past.fresh
            measured == past.measured
<1>1. /\ primary' = primary /\ PastShape(past) /\ pool \in Seq(Txns)
      /\ NodeOK(node, Voter, fresh, measured)
  BY DEF executeBatch, measuring, NodeInv, LedgerInv
<1>2. pool' = Over(pool, b, "pool") /\ b \in Batch /\ LogOK(pool', Nyms')
  BY ExecuteKeeps
<1>3. CASE b.ledger = "pool" /\ executePoolTxnBatch(b.txns)
  <2>. DEFINE log == pool \o b.txns
              batch == b.txns
  <2>1. batch \in Seq(Txns)
    BY <1>2 DEF Batch
  <2>2. /\ pool' = log /\ node' = applyTxns(log, node, batch)
        /\ PastShape(past') /\ past'.fresh = fresh /\ past'.measured = measured
        /\ past'.late = past.late
    BY <1>1, <1>3 DEF executePoolTxnBatch, PastShape
  <2>. HIDE DEF batch, fresh, measured, b
  <2>3. /\ log \in Seq(Txns) /\ Len(log) = Len(pool) + Len(batch)
        /\ Len(pool) \in Nat /\ Len(batch) \in Nat
        /\ \A k \in 1..Len(batch) : Len(pool) + k \in 1..Len(log) /\ batch[k] = log[Len(pool) + k]
    BY <1>1, <2>1, ConcatProperties, LenProperties DEF batch
  <2>4. SameAlias(log)
    BY <1>2, <2>2 DEF LogOK
  <2>. HIDE DEF log
  <2>5. \A k \in 1..Len(batch) : \E i \in 1..Len(log) : batch[k] = log[i]
    BY <2>3
  <2>6. NodeOK(applyTxns(log, node, batch), Voter, fresh, measured)
    BY <1>1, <2>1, <2>3, <2>4, <2>5, TxnsOK
  <2>. QED BY <1>1, <2>2, <2>6, VoterSame DEF NodeInv
<1>4. CASE b.ledger = "domain" /\ executeDomainTxns(b.txns)
  BY <1>1, <1>4, NodeSame DEF executeDomainTxns
<1>. QED BY <1>3, <1>4 DEF executeBatch

LEMMA NodeCatchesUp ==
    ASSUME LedgerInv, NodeInv, NEW t \in Txns, postRecvTxnFromCatchup(t)
    PROVE  NodeInv'
<1>. DEFINE log == Append(pool, t)
            fresh == past.fresh
            measured == past.measured
            i == Len(pool) + 1
<1>1. /\ primary' = primary /\ PastShape(past) /\ pool \in Seq(Txns)
      /\ NodeOK(node, Voter, fresh, measured)
  BY DEF postRecvTxnFromCatchup, measuring, NodeInv, LedgerInv
<1>2. pool' = log /\ log \in Seq(Txns) /\ SameAlias(log)
  BY CatchupKeeps DEF LogOK
<1>3. i \in 1..Len(log) /\ t = log[i]
  BY <1>1, AppendStarts
<1>4. /\ node' = onPoolMembershipChange(log, node, t)
      /\ PastShape(past') /\ past'.fresh = fresh /\ past'.measured = measured
      /\ past'.late = past.late
  BY <1>1, <1>2 DEF postRecvTxnFromCatchup, PastShape
<1>. HIDE DEF log, i, fresh, measured
<1>5. NodeOK(onPoolMembershipChange(log, node, t), Voter, fresh, measured)
  BY <1>1, <1>2, <1>3, TxnOK
<1>. QED BY <1>1, <1>4, <1>5, VoterSame DEF NodeInv

LEMMA NodeStarts ==
    ASSUME LedgerInv, NodeInv, start
    PROVE  NodeInv'
<1>. DEFINE none == {}
<1>1. /\ node' = NewNode(pool) /\ primary' = None /\ pool \in Seq(Txns)
      /\ past' = [past EXCEPT !.apart = {}, !.late = FALSE, !.fresh = none, !.measured = none]
  BY DEF start, onStopping, LedgerInv
<1>. HIDE DEF none
<1>2. PastShape(past') /\ past'.fresh = none /\ past'.measured = none
  BY <1>1 DEF NodeInv, PastShape
<1>3. Workable(NewNode(pool), none, none) /\ Sized(NewNode(pool))
  BY <1>1, NewNodeOK
<1>4. Watched(node', Voter')
  BY <1>1 DEF Watched, Voter
<1>. QED BY <1>1, <1>2, <1>3, <1>4 DEF NodeInv, NodeOK

LEMMA NodeVotes ==
    ASSUME NodeInv, node' = [node EXCEPT !.voted = TRUE], primary' = primary,
           PastShape(past'), past'.late = past.late, past'.fresh = past.fresh, past'.measured = past.measured
    PROVE  NodeInv'
<1>. DEFINE fresh == past.fresh
            measured == past.measured
            m == node_about_to_be_disconnected(node, primary)
<1>1. node' = m
  BY DEF node_about_to_be_disconnected
<1>2. Workable(node, fresh, measured) /\ Sized(node)
  BY DEF NodeInv, NodeOK
<1>. HIDE DEF fresh, measured
<1>3. NodeOK(m, Voter, fresh, measured)
  BY <1>2, DisconnectOK
<1>. QED BY <1>1, <1>3, VoterSame DEF NodeInv, fresh, measured

LEMMA NodeChangesView ==
    ASSUME NodeInv, NEW keep, startViewChange(keep)
    PROVE  NodeInv'
<1>. DEFINE none == {}
            mon == reset(node.monitor)
            no == FALSE
            m == [node EXCEPT !.voted = no, !.monitor = mon]
<1>1. /\ node' = m /\ primary' = None
      /\ past' = [past EXCEPT !.undone = Undone(keep), !.late = FALSE, !.fresh = none, !.measured = none]
  BY DEF startViewChange
<1>2. Workable(node, past.fresh, past.measured) /\ Sized(node)
  BY DEF NodeInv, NodeOK
<1>3. MonitorOK(mon, none, none)
  BY <1>2, ResetOK DEF Workable
<1>4. no \in BOOLEAN
  OBVIOUS
<1>. HIDE DEF none, mon, no
<1>5. PastShape(past') /\ past'.fresh = none /\ past'.measured = none
  BY <1>1 DEF NodeInv, PastShape
<1>. DEFINE fresh == past.fresh
            measured == past.measured
            n == node
<1>6. Remonitored(m, n, no, mon)
  BY DEF Remonitored
<1>. HIDE DEF m, fresh, measured, n
<1>8. Workable(n, fresh, measured) /\ Sized(n)
  BY <1>2 DEF fresh, measured, n
<1>9. Workable(m, none, none) /\ Sized(m) /\ m.reg = n.reg
  BY <1>8, <1>3, <1>4, <1>6, MonitorChange
<1>7. Watched(m, Voter')
  BY <1>1 DEF Watched, Voter
<1>. QED BY <1>1, <1>5, <1>9, <1>7 DEF NodeInv, NodeOK


\* The primary is known, and it is a validator or set apart.
LEMMA NodeElects ==
    ASSUME NodeInv, NEW p, NEW keep, processPrimary(p, keep)
    PROVE  NodeInv'
<1>. DEFINE late == p \notin DOMAIN node.reg
<1>1. /\ node' = node /\ primary' = p /\ PastShape(past)
      /\ past' = [past EXCEPT !.undone = Undone(keep), !.late = late]
  BY DEF processPrimary, NodeInv
<1>2. late = FALSE => p \in DOMAIN node.reg
  OBVIOUS
<1>. HIDE DEF late
<1>3. /\ PastShape(past') /\ past'.late = late
      /\ past'.fresh = past.fresh /\ past'.measured = past.measured
  BY <1>1 DEF PastShape
<1>4. Watched(node, Voter')
  <2>1. late \in BOOLEAN
    BY DEF late
  <2>. QED BY <1>1, <1>2, <1>3, <2>1 DEF Watched, Voter
<1>. QED BY <1>1, <1>3, <1>4 DEF NodeInv, NodeOK

LEMMA NodeConnects ==
    ASSUME NodeInv, NEW name, Connect(name)
    PROVE  NodeInv'
<1>. DEFINE n == node
            m == node'
            conns == n.conns \cup {name}
            fresh == past.fresh
            measured == past.measured
<1>1. /\ m = [n EXCEPT !.conns = conns] /\ primary' = primary /\ past' = past
      /\ Workable(n, fresh, measured) /\ Sized(n) /\ Watched(n, Voter) /\ PastShape(past)
  BY DEF Connect, measuring, NodeInv, NodeOK
<1>. HIDE DEF n, m, conns, fresh, measured
<1>2. Changed(m, n, n.reg, conns, n.voted, n.unsized)
  BY <1>1 DEF Changed, Workable, NodeShape
<1>3. /\ n.unsized \in BOOLEAN /\ n.voted \in BOOLEAN
      /\ IsFiniteSet(DOMAIN n.reg) /\ Me \in DOMAIN n.reg
  BY <1>1 DEF Workable, NodeShape
<1>4. /\ Workable(m, fresh, measured) /\ m.reg = n.reg /\ m.voted = n.voted
      /\ m.unsized = n.unsized /\ m.f = n.f /\ m.replicas = n.replicas
  BY <1>1, <1>2, <1>3, ChangedOK
<1>5. Sized(m) /\ Watched(m, Voter)
  BY <1>1, <1>4 DEF Sized, Watched
<1>. QED BY <1>1, <1>4, <1>5, VoterSame DEF NodeInv, NodeOK, fresh, measured, m

\* A message is put where the replica is, or will be.
LEMMA NodeReceives ==
    ASSUME NodeInv, NEW i \in Instances, sendToReplica(i)
    PROVE  NodeInv'
<1>. DEFINE n == node
            m == node'
            fresh == past.fresh
            measured == past.measured
            got == [n.got EXCEPT ![i] = @ + 1]
            stash == IF i > n.replicas THEN [n.stash EXCEPT ![i] = @ + 1] ELSE n.stash
            inbox == IF i > n.replicas THEN n.inbox ELSE [n.inbox EXCEPT ![i] = @ + 1]
<1>1. /\ primary' = primary /\ past' = past
      /\ Workable(n, fresh, measured) /\ Sized(n) /\ Watched(n, Voter) /\ PastShape(past)
  BY DEF sendToReplica, measuring, NodeInv, NodeOK
<1>2. m = [n EXCEPT !.got = got, !.stash = stash, !.inbox = inbox]
  <2>1. NodeShape(n)
    BY <1>1 DEF Workable
  <2>2. CASE i > n.replicas
    BY <2>1, <2>2 DEF sendToReplica, NodeShape
  <2>3. CASE ~(i > n.replicas)
    BY <2>1, <2>3 DEF sendToReplica, NodeShape
  <2>. QED BY <2>2, <2>3
<1>3. /\ n.got \in [Instances -> Nat] /\ n.stash \in [Instances -> Nat]
      /\ n.inbox \in [Instances -> Nat] /\ n.replicas \in Nat /\ i \in Nat
  BY <1>1, MembershipAssumption DEF Workable, NodeShape
<1>4. got \in [Instances -> Nat] /\ stash \in [Instances -> Nat] /\ inbox \in [Instances -> Nat]
  BY <1>3, CountAt
<1>5. \A j \in Instances :
          got[j] = inbox[j] + stash[j] /\ (stash[j] > 0 => j > n.replicas)
  <2>. TAKE j \in Instances
  <2>1. /\ n.got[j] = n.inbox[j] + n.stash[j] /\ (n.stash[j] > 0 => j > n.replicas)
        /\ n.got[j] \in Nat /\ n.inbox[j] \in Nat /\ n.stash[j] \in Nat
    BY <1>1, <1>3 DEF Workable, MessagesOK
  <2>2. CASE i # j
    BY <1>3, <2>1, <2>2
  <2>3. CASE i = j
    <3>1. got[j] = n.got[j] + 1
      BY <1>3, <2>3
    <3>2. CASE i > n.replicas
      <4>1. stash[j] = n.stash[j] + 1 /\ inbox[j] = n.inbox[j]
        BY <1>3, <2>3, <3>2
      <4>. QED BY <2>1, <2>3, <3>1, <3>2, <4>1
    <3>3. CASE ~(i > n.replicas)
      <4>1. stash[j] = n.stash[j] /\ inbox[j] = n.inbox[j] + 1
        BY <1>3, <2>3, <3>3
      <4>. QED BY <2>1, <2>3, <3>1, <3>3, <4>1
    <3>. QED BY <3>2, <3>3
  <2>. QED BY <2>2, <2>3
<1>. HIDE DEF n, m, fresh, measured, got, stash, inbox
<1>6. m \in [reg : {n.reg}, conns : {n.conns}, f : {n.f}, replicas : {n.replicas},
             inbox : {inbox}, stash : {stash}, got : {got},
             voted : {n.voted}, unsized : {n.unsized}, monitor : {n.monitor}]
  BY <1>1, <1>2 DEF Workable, NodeShape
<1>7. NodeShape(m)
  BY <1>1, <1>4, <1>6 DEF Workable, NodeShape
<1>8. MessagesOK(m)
  BY <1>5, <1>6 DEF MessagesOK
<1>9. Workable(m, fresh, measured)
  BY <1>1, <1>6, <1>7, <1>8 DEF Workable
<1>10. Sized(m) /\ Watched(m, Voter)
  BY <1>1, <1>6 DEF Sized, Watched
<1>. QED BY <1>1, <1>9, <1>10, VoterSame DEF NodeInv, NodeOK, fresh, measured, m

\* The monitor of a request that is forwarded, or ordered.
LEMMA NodeMeasures ==
    ASSUME NodeInv, NEW mon, NEW fresh, NEW measured, MonitorOK(mon, fresh, measured),
           node' = [node EXCEPT !.monitor = mon], primary' = primary,
           PastShape(past'), past'.late = past.late, past'.fresh = fresh, past'.measured = measured
    PROVE  NodeInv'
<1>. DEFINE n == node
            m == node'
            voted == n.voted
            fresh0 == past.fresh
            measured0 == past.measured
<1>1. /\ Workable(n, fresh0, measured0) /\ Sized(n) /\ Watched(n, Voter)
  BY DEF NodeInv, NodeOK
<1>2. voted \in BOOLEAN /\ Remonitored(m, n, voted, mon)
  <2>1. m = [n EXCEPT !.voted = voted, !.monitor = mon]
    BY <1>1 DEF Workable, NodeShape
  <2>. QED BY <1>1, <2>1 DEF Workable, NodeShape, Remonitored
<1>3. m = node' /\ n = node /\ voted = n.voted
  OBVIOUS
<1>. HIDE DEF n, m, voted, fresh0, measured0
<1>4. /\ Workable(m, fresh, measured) /\ Sized(m)
      /\ m.reg = n.reg /\ m.voted = voted
  BY <1>1, <1>2, MonitorChange
<1>5. Watched(m, Voter)
  BY <1>1, <1>3, <1>4 DEF Watched
<1>. QED BY <1>3, <1>4, <1>5, VoterSame DEF NodeInv, NodeOK

LEMMA NodeForwards ==
    ASSUME NodeInv, NEW r, forward(r)
    PROVE  NodeInv'
<1>. DEFINE mon == requestUnOrdered(node.monitor, r, clock)
            fresh == past.fresh \cup {r}
            measured == past.measured
            fresh0 == past.fresh
            watch == node.monitor
            now == clock
<1>1. /\ node' = [node EXCEPT !.monitor = mon] /\ primary' = primary
      /\ past' = [past EXCEPT !.forwarded = @ \cup {r}, !.fresh = fresh]
      /\ PastShape(past) /\ MonitorOK(watch, fresh0, measured)
  BY DEF forward, measuring, NodeInv, NodeOK, Workable
<1>2. MonitorOK(mon, fresh, measured)
  <2>. HIDE DEF fresh0, measured, watch, now
  <2>1. MonitorOK(requestUnOrdered(watch, r, now), fresh0 \cup {r}, measured)
    BY <1>1, UnOrderedOK
  <2>. QED BY <2>1 DEF fresh0, watch, now
<1>. HIDE DEF mon, fresh
<1>3. /\ PastShape(past') /\ past'.fresh = fresh /\ past'.measured = measured
      /\ past'.late = past.late
  BY <1>1 DEF PastShape
<1>. HIDE DEF measured
<1>. QED BY <1>1, <1>2, <1>3, NodeMeasures

LEMMA NodeOrders ==
    ASSUME NodeInv, NEW i \in Instances, NEW rs, processOrdered(i, rs)
    PROVE  NodeInv'
<1>. DEFINE mon == requestOrdered(node.monitor, rs, i, clock)
            fresh == past.fresh
            measured0 == past.measured
            measured == IF i = master THEN past.measured \cup (rs \cap past.fresh) ELSE past.measured
            watch == node.monitor
            now == clock
<1>1. /\ node' = [node EXCEPT !.monitor = mon] /\ primary' = primary
      /\ past' = [past EXCEPT !.ordered = @ \cup {<<i, r>> : r \in rs}, !.measured = measured]
      /\ PastShape(past) /\ MonitorOK(watch, fresh, measured0)
  BY DEF processOrdered, measuring, NodeInv, NodeOK, Workable
<1>2. i \in Nat
  BY MembershipAssumption
<1>3. MonitorOK(mon, fresh, measured)
  <2>1. measured = IF i = master THEN measured0 \cup (rs \cap fresh) ELSE measured0
    OBVIOUS
  <2>. HIDE DEF fresh, measured0, measured, watch, now
  <2>2. MonitorOK(requestOrdered(watch, rs, i, now), fresh, measured)
    BY <1>1, <1>2, <2>1, OrderedOK
  <2>. QED BY <2>2 DEF watch, now
<1>. HIDE DEF mon, measured
<1>4. /\ PastShape(past') /\ past'.fresh = fresh /\ past'.measured = measured
      /\ past'.late = past.late
  BY <1>1 DEF PastShape
<1>. HIDE DEF fresh
<1>. QED BY <1>1, <1>3, <1>4, NodeMeasures

LEMMA NodeRefuses ==
    ASSUME NodeInv, NEW p, revert(p)
    PROVE  NodeInv'
<1>. DEFINE lost == past.undone \cup Added(ProcessReqs(p).log, Uncommitted)
<1>1. /\ node' = [node EXCEPT !.voted = TRUE] /\ primary' = primary
      /\ past' = [past EXCEPT !.undone = lost] /\ PastShape(past)
  BY DEF revert, reportSuspiciousNode, measuring, NodeInv
<1>. HIDE DEF lost
<1>2. /\ PastShape(past') /\ past'.fresh = past.fresh /\ past'.measured = past.measured
      /\ past'.late = past.late
  BY <1>1 DEF PastShape
<1>. QED BY <1>1, <1>2, NodeVotes

\* The monitor is reset once more when all ledgers are caught up.
LEMMA NodeParticipates ==
    ASSUME NodeInv, allLedgersCaughtUp
    PROVE  NodeInv'
<1>. DEFINE mon == reset(node.monitor)
            fresh == past.fresh
            measured == past.measured
<1>1. /\ node' = [node EXCEPT !.monitor = mon] /\ primary' = primary /\ past' = past
      /\ MonitorOK(node.monitor, fresh, measured) /\ PastShape(past)
  BY DEF allLedgersCaughtUp, NodeInv, NodeOK, Workable
<1>2. MonitorOK(mon, {}, {})
  BY <1>1, ResetOK
<1>. HIDE DEF mon
<1>3. MonitorOK(mon, fresh, measured)
  BY <1>2 DEF MonitorOK
<1>4. PastShape(past') /\ past'.fresh = fresh /\ past'.measured = measured /\ past'.late = past.late
  BY <1>1
<1>. HIDE DEF fresh, measured
<1>. QED BY <1>1, <1>3, <1>4, NodeMeasures

LEMMA NodeStep ==
    ASSUME LedgerInv, NodeInv, [Next]_vars
    PROVE  NodeInv'
<1>. PastShape(past)
  BY DEF NodeInv
<1>1. ASSUME NEW p \in left.proposals, create3PCBatch(p) PROVE NodeInv'
  BY <1>1, NodeSame DEF create3PCBatch, measuring
<1>2. ASSUME NEW p \in left.proposals, revert(p) PROVE NodeInv'
  BY <1>2, NodeRefuses
<1>3. CASE executeBatch
  BY <1>3, NodeExecutes
<1>4. ASSUME NEW keep \in 0..Len(batches), startViewChange(keep) PROVE NodeInv'
  BY <1>4, NodeChangesView
<1>15. ASSUME NEW p \in Primaries, NEW keep \in 0..Len(batches), processPrimary(p, keep)
       PROVE  NodeInv'
  BY <1>15, NodeElects
<1>5. CASE start
  BY <1>5, NodeStarts
<1>6. ASSUME NEW p \in left.proposals, postRecvTxnFromCatchup(p.reqs[1]) PROVE NodeInv'
  <2>. DEFINE t == p.reqs[1]
  <2>1. t \in Txns
    BY ProposalType
  <2>2. postRecvTxnFromCatchup(t)
    BY <1>6
  <2>. HIDE DEF t
  <2>. QED BY <2>1, <2>2, NodeCatchesUp
<1>7. CASE postPoolLedgerCaughtUp
  BY <1>7, NodeSame DEF postPoolLedgerCaughtUp
<1>16. ASSUME NEW t, ExecutedMeanwhile(t) PROVE NodeInv'
  BY <1>16, NodeSame DEF ExecutedMeanwhile, measuring
<1>17. CASE post_txn_from_catchup_added_to_domain_ledger
  BY <1>17, NodeSame DEF post_txn_from_catchup_added_to_domain_ledger, measuring
<1>18. CASE allLedgersCaughtUp
  BY <1>18, NodeParticipates
<1>8. ASSUME NEW name, Connect(name) PROVE NodeInv'
  BY <1>8, NodeConnects
<1>9. ASSUME NEW i \in Instances, sendToReplica(i) PROVE NodeInv'
  BY <1>9, NodeReceives
<1>10. ASSUME NEW r, forward(r) PROVE NodeInv'
  BY <1>10, NodeForwards
<1>11. ASSUME NEW i \in Instances, NEW rs, processOrdered(i, rs) PROVE NodeInv'
  BY <1>11, NodeOrders
<1>12. CASE checkPerformance
  BY <1>12, NodeVotes DEF checkPerformance, measuring
<1>13. CASE Tick
  BY <1>13, NodeSame DEF Tick
<1>14. CASE UNCHANGED vars
  BY <1>14, NodeSame DEF vars
<1>. QED BY <1>1, <1>2, <1>3, <1>4, <1>5, <1>6, <1>7, <1>8, <1>9, <1>10, <1>11, <1>12, <1>13, <1>14,
            <1>15, <1>16, <1>17, <1>18
         DEF Next, Ledger, Restarted, Traffic

\* What holds of the node in every state: its registry is finite and has the
\* node itself, its size follows the registry, every message is accounted for,
\* and the monitor has measured the master in this view only.
THEOREM NodeInvariant == Spec => [](LedgerInv /\ NodeInv)
<1>1. Init => LedgerInv /\ NodeInv
  BY LedgerInit, NodeInit
<1>2. (LedgerInv /\ NodeInv) /\ [Next]_vars => (LedgerInv /\ NodeInv)'
  BY LedgerStep, NodeStep
<1>. QED BY <1>1, <1>2, PTL DEF Spec

\* PoolSizeKnown for every pool: f and the number of replicas follow the
\* registry through every NODE transaction, alone, in a batch or caught up.
THEOREM SizeFollowsRegistry == Spec => []PoolSizeKnown
<1>1. LedgerInv /\ NodeInv => PoolSizeKnown
  BY DEF NodeInv, NodeOK, Sized, PoolSizeKnown
<1>. QED BY <1>1, NodeInvariant, PTL

\* PrimaryLossNoticed for every pool: a master primary that a transaction takes
\* out of the registry has this node's INSTANCE_CHANGE, unless that happened
\* before the election that made it the primary was over.
THEOREM LossIsVoted == Spec => []PrimaryLossNoticed
<1>1. LedgerInv /\ NodeInv => PrimaryLossNoticed
  BY DEF NodeInv, NodeOK, Watched, Voter, PrimaryLossNoticed
<1>. QED BY <1>1, NodeInvariant, PTL

\* NoneOverlooked for any number of instances: messages that came for a replica
\* this node does not have yet reach it when adjustReplicas adds it.
THEOREM StashedAreDelivered == Spec => []NoneOverlooked
<1>1. LedgerInv /\ NodeInv => NoneOverlooked
  BY DEF NodeInv, NodeOK, Workable, MessagesOK, NoneOverlooked
<1>. QED BY <1>1, NodeInvariant, PTL

\* NewMasterUnblamed for all values of Delta, Lambda and Omega: isMasterDegraded
\* says yes only of a master that ordered, in this view, a request forwarded in
\* this view, since the monitor's reset leaves nothing of an earlier master.
THEOREM MasterMeasuredAnew == Spec => []NewMasterUnblamed
<1>1. LedgerInv /\ NodeInv => NewMasterUnblamed
  <2>. SUFFICES ASSUME NodeInv, past.measured = {} PROVE ~isMasterDegraded(node.monitor)
    BY DEF NewMasterUnblamed
  <2>. DEFINE m == node.monitor
  <2>1. IsSeq(m.ordered) /\ Blank(m)
    BY DEF NodeInv, NodeOK, Workable, MonitorOK
  <2>. HIDE DEF m
  <2>2. ~isMasterDegraded(m)
    BY <2>1, BlankIsFine
  <2>. QED BY <2>2 DEF m
<1>. QED BY <1>1, NodeInvariant, PTL

-----------------------------------------------------------------------------
(* The registry and the ledger                                              *)

\* The NODE requests of a scene, and with the genesis transactions all that the
\* pool ledger may hold.
NodeReqs(proposals) == UNION {Range(p.reqs) : p \in {q \in proposals : q.ledger = "pool"}}
NodeTxns(proposals) == Range(Genesis) \cup NodeReqs(proposals)

\* No two nodes are given one name, and nobody asks to move this node.
OwnNames ==
    \A s \in Scenes :
        /\ \A t, u \in NodeTxns(s.proposals) : t.alias = u.alias => t.nym = u.nym
        /\ \A t \in NodeReqs(s.proposals) : t.alias = Me => t.ha = None

\* The places of a name in a log, and the latest data under that name.
NamePlaces(log, name) == {i \in DOMAIN log : log[i].alias = name}
LatestServices(log, name) == Latest([i \in NamePlaces(log, name) |-> log[i].services])
LatestHa(log, name) == Latest([i \in NamePlaces(log, name) |-> log[i].ha])

\* The name is in the registry as parseLedgerForHaAndKeys would put it there.
RegAs(log, reg, name) ==
    /\ name \in DOMAIN reg <=>
           NamePlaces(log, name) # {} /\ LatestServices(log, name) = "on"
    /\ name \in DOMAIN reg => reg[name] = LatestHa(log, name)

\* A name belongs to one node.
NamesApart(log) ==
    \A i, j \in 1..Len(log) : log[i].alias = log[j].alias => log[i].nym = log[j].nym

\* A later value counts, if it is given.
OneMore(v, w, m, n) ==
    /\ n \in Nat /\ m \in Nat /\ m > n
    /\ DOMAIN w \subseteq 1..n /\ DOMAIN v = DOMAIN w \cup {m}
    /\ \A i \in DOMAIN w : v[i] = w[i]

LEMMA LatestOfMore ==
    ASSUME NEW v, NEW w, NEW m, NEW n, OneMore(v, w, m, n)
    PROVE  Latest(v) = IF v[m] # None THEN v[m] ELSE Latest(w)
<1>. DEFINE P == DOMAIN w
<1>. /\ n \in Nat /\ m \in Nat /\ m > n
     /\ P \subseteq 1..n /\ DOMAIN v = P \cup {m} /\ \A i \in P : v[i] = w[i]
  BY DEF OneMore
<1>. HIDE DEF P
<1>. DOMAIN w = P
  BY DEF P
<1>. DEFINE given == {i \in DOMAIN v : v[i] # None}
            older == {i \in DOMAIN w : w[i] # None}
<1>1. CASE v[m] # None
  <2>1. given \subseteq 1..m /\ m \in given
    <3>1. DOMAIN v \subseteq 1..m /\ m \in DOMAIN v
      <4>1. m \in 1..m /\ \A i \in 1..n : i \in 1..m
        OBVIOUS
      <4>2. P \subseteq 1..m
        BY <4>1
      <4>. QED BY <4>1, <4>2
    <3>. QED BY <1>1, <3>1
  <2>2. Max(given) \in given /\ \A x \in given : Max(given) >= x
    BY <2>1, GreatestIsThere
  <2>3. \A x \in given : x <= m /\ x \in Nat
    BY <2>1
  <2>. HIDE DEF given
  <2>4. Max(given) = m
    <3>. DEFINE x == Max(given)
    <3>1. x \in Nat /\ x <= m /\ x >= m
      BY <2>1, <2>2, <2>3
    <3>. HIDE DEF x
    <3>2. x = m
      BY <3>1
    <3>. QED BY <3>2 DEF x
  <2>. QED BY <1>1, <2>1, <2>4 DEF Latest, given
<1>2. CASE v[m] = None
  <2>1. given = older
    BY <1>2
  <2>2. CASE older = {}
    BY <1>2, <2>1, <2>2 DEF Latest
  <2>3. CASE older # {}
    <3>1. older \subseteq 1..n /\ older \subseteq P
      OBVIOUS
    <3>2. Max(older) \in older
      BY <2>3, <3>1, GreatestIsThere
    <3>3. v[Max(older)] = w[Max(older)]
      BY <3>1, <3>2
    <3>. QED BY <1>2, <2>1, <2>3, <3>3 DEF Latest
  <2>. QED BY <2>2, <2>3
<1>. QED BY <1>1, <1>2

\* The rest of the registry stays.
LEMMA OthersKept ==
    ASSUME NEW log, NEW reg, NEW t, NEW name, name # t.alias
    PROVE  /\ name \in DOMAIN TxnReg(log, reg, t) <=> name \in DOMAIN reg
           /\ name \in DOMAIN reg => TxnReg(log, reg, t)[name] = reg[name]
<1>. DEFINE Kept(r) == /\ name \in DOMAIN r <=> name \in DOMAIN reg
                       /\ name \in DOMAIN reg => r[name] = reg[name]
<1>1. ASSUME NEW r, Kept(r), NEW ha PROVE Kept(Put(r, t.alias, ha))
  BY <1>1 DEF Put
<1>2. ASSUME NEW r, Kept(r) PROVE Kept(Restrict(r, DOMAIN r \ {t.alias}))
  BY <1>2 DEF Restrict
<1>3. ASSUME NEW r, Kept(r) PROVE Kept(Readdressed(r, t))
  BY <1>1, <1>3 DEF Readdressed
<1>4. Kept(reg)
  OBVIOUS
<1>. HIDE DEF Kept
<1>5. ASSUME NEW r, Kept(r) PROVE Kept(UpdatedReg(log, r, t))
  BY <1>1, <1>2, <1>3, <1>5 DEF UpdatedReg
<1>6. Kept(TxnReg(log, reg, t))
  BY <1>1, <1>4, <1>5 DEF TxnReg
<1>. QED BY <1>6 DEF Kept

\* t is in the log after s, and the only one of its node there.
Single(s, log, m, t) ==
    /\ s \in Seq(Txns) /\ log \in Seq(Txns) /\ StartsWith(log, s)
    /\ SameAlias(log) /\ NamesApart(log)
    /\ m \in 1..Len(log) /\ m > Len(s) /\ t = log[m]
    /\ \A j \in 1..Len(log) : j > Len(s) /\ log[j].nym = t.nym => j = m

\* getNodeInfoFromLedger returns what the log had of the node before.
LEMMA InfoIsOlder ==
    ASSUME NEW s, NEW log, NEW m, NEW t, Single(s, log, m, t)
    PROVE  /\ NamePlaces(log, t.alias) = NamePlaces(s, t.alias) \cup {m}
           /\ NamePlaces(s, t.alias) \subseteq 1..Len(s)
           /\ NamePlaces(s, t.alias) = TxnsOf(s, t.nym)
           /\ Cardinality(TxnsOf(log, t.nym)) = 1 <=> NamePlaces(s, t.alias) = {}
           /\ NamePlaces(s, t.alias) # {} =>
                 /\ getNodeInfoFromLedger(log, t.nym).services = LatestServices(s, t.alias)
                 /\ getNodeInfoFromLedger(log, t.nym).ha = LatestHa(s, t.alias)
<1>. /\ s \in Seq(Txns) /\ log \in Seq(Txns) /\ StartsWith(log, s)
     /\ SameAlias(log) /\ NamesApart(log)
     /\ m \in 1..Len(log) /\ m > Len(s) /\ t = log[m]
     /\ \A j \in 1..Len(log) : j > Len(s) /\ log[j].nym = t.nym => j = m
  BY DEF Single
<1>. DEFINE nym == t.nym
            name == t.alias
            P == NamePlaces(s, name)
            Q == TxnsOf(log, nym)
<1>1. /\ Len(s) \in Nat /\ Len(log) \in Nat /\ DOMAIN s = 1..Len(s) /\ DOMAIN log = 1..Len(log)
      /\ Len(s) <= Len(log) /\ \A i \in 1..Len(s) : log[i] = s[i]
  BY LenProperties DEF StartsWith
<1>2. \A i \in 1..Len(s) : i \in 1..Len(log) /\ i # m
  BY <1>1
<1>3. \A i \in 1..Len(log) : log[i].alias = name <=> log[i].nym = nym
  BY DEF SameAlias, NamesApart
<1>4. \A i \in 1..Len(log) : i \in 1..Len(s) \/ i > Len(s)
  BY <1>1
<1>5. P \subseteq 1..Len(s) /\ P = TxnsOf(s, nym)
  BY <1>1, <1>2, <1>3 DEF NamePlaces, TxnsOf
<1>6. \A i : i \in Q <=> i \in 1..Len(log) /\ log[i].nym = nym
  BY <1>1 DEF TxnsOf
<1>7. \A i : i \in P <=> i \in 1..Len(s) /\ s[i].alias = name
  BY <1>1 DEF NamePlaces
<1>8. Q = P \cup {m} /\ NamePlaces(log, name) = Q
  <2>1. \A i : i \in Q <=> i \in P \/ i = m
    BY <1>1, <1>2, <1>3, <1>4, <1>6, <1>7
  <2>2. \A i : i \in NamePlaces(log, name) <=> i \in 1..Len(log) /\ log[i].alias = name
    BY <1>1 DEF NamePlaces
  <2>3. \A i : i \in NamePlaces(log, name) <=> i \in Q
    BY <1>3, <1>6, <2>2
  <2>. QED BY <2>1, <2>3
<1>9. m \notin P
  BY <1>2, <1>5
<1>10. Cardinality(Q) = 1 <=> P = {}
  <2>. HIDE DEF P, Q, nym, name
  <2>1. IsFiniteSet(P)
    <3>1. IsFiniteSet(1..Len(s))
      BY <1>1, FS_Interval
    <3>. QED BY <1>5, <3>1, FS_Subset
  <2>2. Cardinality(Q) = Cardinality(P) + 1 /\ Cardinality(P) \in Nat
    <3>1. Cardinality(P \cup {m}) = Cardinality(P) + 1
      BY <1>9, <2>1, FS_AddElement
    <3>. QED BY <1>8, <2>1, <3>1, FS_CardinalityType
  <2>3. Cardinality(P) = 0 <=> P = {}
    BY <2>1, FS_EmptySet
  <2>. QED BY <2>2, <2>3
<1>11. Max(Q) = m
  <2>. HIDE DEF P, Q, nym, name
  <2>1. Q \subseteq 1..m /\ m \in Q
    <3>1. m \in 1..m /\ \A i \in 1..Len(s) : i \in 1..m
      BY <1>1
    <3>2. P \subseteq 1..m
      BY <1>5, <3>1
    <3>. QED BY <1>8, <3>1, <3>2
  <2>2. Max(Q) \in Q /\ \A x \in Q : Max(Q) >= x
    <3>1. m \in Nat /\ Q # {}
      BY <1>1, <2>1
    <3>. QED BY <2>1, <3>1, GreatestIsThere
  <2>. DEFINE x == Max(Q)
  <2>3. x \in 1..m /\ x >= m
    BY <2>1, <2>2
  <2>. HIDE DEF x
  <2>4. x = m
    BY <2>3
  <2>. QED BY <2>4 DEF x
<1>12. ASSUME P # {}
       PROVE  /\ getNodeInfoFromLedger(log, nym).services = LatestServices(s, name)
              /\ getNodeInfoFromLedger(log, nym).ha = LatestHa(s, name)
  <2>1. Q \ {Max(Q)} = P
    BY <1>8, <1>9, <1>11
  <2>2. getNodeInfoFromLedger(log, nym) = updateState(log, P)
    BY <1>12, <2>1 DEF getNodeInfoFromLedger
  <2>. DEFINE v == [i \in P |-> log[i].services]
              w == [i \in P |-> log[i].ha]
  <2>3. v = [i \in P |-> s[i].services]
    BY <1>1, <1>5
  <2>4. w = [i \in P |-> s[i].ha]
    BY <1>1, <1>5
  <2>5. LatestServices(s, name) = Latest([i \in P |-> s[i].services])
    BY DEF LatestServices
  <2>6. LatestHa(s, name) = Latest([i \in P |-> s[i].ha])
    BY DEF LatestHa
  <2>7. updateState(log, P).services = Latest(v) /\ updateState(log, P).ha = Latest(w)
    BY DEF updateState
  <2>. HIDE DEF v, w, P, name, nym
  <2>. QED BY <2>2, <2>3, <2>4, <2>5, <2>6, <2>7
<1>. HIDE DEF P, Q, nym, name
<1>13. /\ NamePlaces(log, name) = P \cup {m}
       /\ P \subseteq 1..Len(s) /\ P = TxnsOf(s, nym)
       /\ Cardinality(TxnsOf(log, nym)) = 1 <=> P = {}
       /\ P # {} => /\ getNodeInfoFromLedger(log, nym).services = LatestServices(s, name)
                    /\ getNodeInfoFromLedger(log, nym).ha = LatestHa(s, name)
  BY <1>5, <1>8, <1>10, <1>12 DEF Q
<1>. QED BY <1>13 DEF P, nym, name

\* A transaction that is the only new one of its node, which was not out of
\* service unless it comes back, leaves the name in the registry as the ledger
\* has it.
LEMMA TxnMatches ==
    ASSUME NEW s, NEW log, NEW m, NEW t, Single(s, log, m, t), t.alias # Me,
           ~(Exists(s, t.nym) /\ getNodeData(s, t.nym).services # "on" /\ t.services # "on"),
           NEW reg, RegAs(s, reg, t.alias)
    PROVE  RegAs(log, TxnReg(log, reg, t), t.alias)
<1>. DEFINE name == t.alias
            P == NamePlaces(s, name)
            info == getNodeInfoFromLedger(log, t.nym)
            was == LatestServices(s, name)
            lay == LatestHa(s, name)
            new == TxnReg(log, reg, t)
            first == Cardinality(TxnsOf(log, t.nym)) = 1
            addr == IF t.ha # None THEN t.ha ELSE lay
            now == IF t.services # None THEN t.services ELSE was
<1>1. /\ NamePlaces(log, name) = P \cup {m} /\ P \subseteq 1..Len(s) /\ P = TxnsOf(s, t.nym)
      /\ first <=> P = {}
      /\ P # {} => info.services = was /\ info.ha = lay
  BY InfoIsOlder
<1>2. /\ Len(s) \in Nat /\ m \in Nat /\ DOMAIN s = 1..Len(s)
      /\ \A i \in 1..Len(s) : log[i] = s[i]
      /\ s \in Seq(Txns) /\ m > Len(s) /\ t = log[m]
  BY LenProperties DEF StartsWith, Single
<1>3. LatestServices(log, name) = now
  <2>. DEFINE v == [i \in P \cup {m} |-> log[i].services]
              w == [i \in P |-> s[i].services]
  <2>1. OneMore(v, w, m, Len(s)) /\ v[m] = t.services
    BY <1>1, <1>2 DEF OneMore
  <2>2. LatestServices(log, name) = Latest(v) /\ was = Latest(w)
    BY <1>1 DEF LatestServices
  <2>. HIDE DEF v, w, P, was, name
  <2>3. Latest(v) = IF v[m] # None THEN v[m] ELSE Latest(w)
    BY <2>1, LatestOfMore
  <2>. QED BY <2>1, <2>2, <2>3
<1>4. LatestHa(log, name) = addr
  <2>. DEFINE v == [i \in P \cup {m} |-> log[i].ha]
              w == [i \in P |-> s[i].ha]
  <2>1. OneMore(v, w, m, Len(s)) /\ v[m] = t.ha
    BY <1>1, <1>2 DEF OneMore
  <2>2. LatestHa(log, name) = Latest(v) /\ lay = Latest(w)
    BY <1>1 DEF LatestHa
  <2>. HIDE DEF v, w, P, lay, name
  <2>3. Latest(v) = IF v[m] # None THEN v[m] ELSE Latest(w)
    BY <2>1, LatestOfMore
  <2>. QED BY <2>1, <2>2, <2>3
<1>5. P # {} /\ was # "on" => t.services = "on"
  <2>1. P # {} => Exists(s, t.nym)
    BY <1>1, <1>2, PlacesType DEF Exists
  <2>2. getNodeData(s, t.nym).services = was
    BY <1>1 DEF getNodeData, updateState, LatestServices
  <2>. QED BY <2>1, <2>2
<1>6. /\ name \in DOMAIN reg <=> P # {} /\ was = "on"
      /\ name \in DOMAIN reg => reg[name] = lay
  BY DEF RegAs
<1>7. P = {} => was = None /\ lay = None
  <2>1. ASSUME NEW v, DOMAIN v = {} PROVE Latest(v) = None
    BY <2>1 DEF Latest
  <2>. QED BY <2>1 DEF LatestServices, LatestHa
<1>8. None # "on"
  BY MembershipAssumption
\* What _updateNode makes of a registry r that has the name.
<1>9. ASSUME NEW r, name \in DOMAIN r, r[name] = lay, P # {}, NEW u, u = UpdatedReg(log, r, t)
      PROVE  /\ name \in DOMAIN u <=> (was = "on" => now = "on")
             /\ name \in DOMAIN u => u[name] = addr
  <2>. DEFINE a == Readdressed(r, t)
              gone == Restrict(a, DOMAIN a \ {name})
              back == Put(a, name, addr)
              same == t.services = None \/ t.alias = Me
                          \/ (info.services = "on") = (t.services = "on")
  <2>1. name \in DOMAIN a /\ a[name] = addr
    BY <1>9 DEF Readdressed, Put
  <2>2. u = IF same THEN a ELSE IF info.services = "on" THEN gone
            ELSE Put(a, name, IF t.ha = None THEN info.ha ELSE t.ha)
    BY <1>9 DEF UpdatedReg
  <2>3. (IF t.ha = None THEN info.ha ELSE t.ha) = addr
    BY <1>1, <1>9
  <2>4. same <=> t.services = None \/ (was = "on" <=> t.services = "on")
    BY <1>1, <1>9
  <2>5. u = IF same THEN a ELSE IF was = "on" THEN gone ELSE back
    BY <1>1, <1>9, <2>2, <2>3
  <2>6. name \notin DOMAIN gone
    BY DEF Restrict
  <2>7. name \in DOMAIN back /\ back[name] = addr
    BY DEF Put
  <2>8. now = IF t.services # None THEN t.services ELSE was
    OBVIOUS
  <2>. HIDE DEF a, gone, back, same, name, was, lay, P, addr, now
  <2>9. CASE same
    BY <1>5, <1>8, <1>9, <2>1, <2>4, <2>5, <2>8, <2>9
  <2>10. CASE ~same /\ was = "on"
    BY <2>4, <2>5, <2>6, <2>8, <2>10
  <2>11. CASE ~same /\ was # "on"
    BY <2>5, <2>7, <2>11
  <2>. QED BY <2>9, <2>10, <2>11
<1>10. new = IF name \in DOMAIN reg THEN UpdatedReg(log, reg, t)
             ELSE IF first THEN IF t.services = "on" THEN Put(reg, name, t.ha) ELSE reg
             ELSE UpdatedReg(log, Put(reg, name, info.ha), t)
  BY DEF TxnReg
<1>11. RegAs(log, new, name) <=>
           /\ name \in DOMAIN new <=> now = "on"
           /\ name \in DOMAIN new => new[name] = addr
  BY <1>1, <1>3, <1>4 DEF RegAs
<1>15. /\ now = IF t.services # None THEN t.services ELSE was
       /\ addr = IF t.ha # None THEN t.ha ELSE lay
  OBVIOUS
<1>. HIDE DEF P, was, lay, first, info, addr, now, new, name
<1>12. ASSUME name \in DOMAIN reg PROVE RegAs(log, new, name)
  BY <1>6, <1>9, <1>10, <1>11, <1>12
<1>13. ASSUME name \notin DOMAIN reg, P = {} PROVE RegAs(log, new, name)
  <2>1. new = IF t.services = "on" THEN Put(reg, name, t.ha) ELSE reg
    BY <1>1, <1>10, <1>13
  <2>2. CASE t.services = "on"
    BY <1>7, <1>8, <1>11, <1>13, <1>15, <2>1, <2>2 DEF Put
  <2>3. CASE t.services # "on"
    BY <1>7, <1>8, <1>11, <1>13, <1>15, <2>1, <2>3
  <2>. QED BY <2>2, <2>3
<1>14. ASSUME name \notin DOMAIN reg, P # {} PROVE RegAs(log, new, name)
  <2>. DEFINE r == Put(reg, name, info.ha)
  <2>1. name \in DOMAIN r /\ r[name] = lay
    BY <1>1, <1>14 DEF Put
  <2>2. new = UpdatedReg(log, r, t)
    BY <1>1, <1>10, <1>14
  <2>. HIDE DEF r
  <2>. QED BY <1>5, <1>6, <1>8, <1>9, <1>11, <1>14, <1>15, <2>1, <2>2
<1>. QED BY <1>12, <1>13, <1>14 DEF new, name

\* The pool ledger, and the batches for it, hold what was proposed.
NamesInv ==
    /\ \A i \in 1..Len(pool) : pool[i] \in NodeTxns(left.proposals)
    /\ \A k \in 1..Len(batches) : batches[k].ledger = "pool" =>
          \A i \in 1..Len(batches[k].txns) : batches[k].txns[i] \in NodeReqs(left.proposals)

LEMMA NamesGiven ==
    ASSUME OwnNames, LedgerInv, NEW log \in Seq(Txns),
           \A i \in 1..Len(log) : log[i] \in NodeTxns(left.proposals)
    PROVE  NamesApart(log)
<1>1. PICK s \in Scenes : left.proposals = s.proposals
  BY DEF LedgerInv
<1>2. \A t, u \in NodeTxns(left.proposals) : t.alias = u.alias => t.nym = u.nym
  BY <1>1 DEF OwnNames
<1>. QED BY <1>2 DEF NamesApart

LEMMA MeStays ==
    ASSUME OwnNames, LedgerInv, NEW t \in NodeReqs(left.proposals)
    PROVE  t.alias = Me => t.ha = None
<1>1. PICK s \in Scenes : left.proposals = s.proposals
  BY DEF LedgerInv
<1>. QED BY <1>1 DEF OwnNames

\* What a batch for the pool ledger has applied is among its requests.
LEMMA AppliedReqs ==
    ASSUME NEW p, p.reqs \in Seq(Txns), Before \in Logs
    PROVE  LET log == ProcessReqs(p).log
           IN  \A i \in 1..Len(log) : i > Len(Uncommitted) => log[i] \in Range(p.reqs)
<1>1. Uncommitted \in Seq(Txns)
  BY DEF Before, Logs
<1>2. PICK after :
          /\ after[0] = Before /\ ProcessReqs(p) = after[Len(p.reqs)]
          /\ Len(p.reqs) \in Nat
          /\ \A k \in 1..Len(p.reqs) : /\ p.reqs[k] \in Txns
                                       /\ after[k] = processReqDuringBatch(p.ledger, after[k - 1], p.reqs[k])
  BY ProcessReqsDef
<1>. DEFINE New(log) == \A i \in 1..Len(log) : i > Len(Uncommitted) => log[i] \in Range(p.reqs)
            V == {s \in Logs : New(s.log)}
            N == Len(p.reqs)
<1>3. after[0] \in V
  <2>1. Before.log = Uncommitted
    BY DEF Before
  <2>2. Len(Uncommitted) \in Nat
    BY <1>1, LenProperties
  <2>. QED BY <1>2, <2>1, <2>2
<1>4. ASSUME NEW k \in 1..N, after[k - 1] \in V PROVE after[k] \in V
  <2>. DEFINE s == after[k - 1]
              t == p.reqs[k]
              u == processReqDuringBatch(p.ledger, s, t)
  <2>1. s \in Logs /\ New(s.log) /\ t \in Txns /\ after[k] = u /\ t \in Range(p.reqs)
    <3>1. k \in DOMAIN p.reqs
      BY LenProperties
    <3>2. t \in Range(p.reqs)
      BY <3>1 DEF Range
    <3>. QED BY <1>2, <1>4, <3>2
  <2>. HIDE DEF s, t
  <2>2. s.log \in Seq(Txns)
    BY <2>1 DEF Logs
  <2>3. u.log = s.log \/ u.log = Append(s.log, t)
    BY <2>1 DEF processReqDuringBatch, Logs
  <2>4. New(Append(s.log, t))
    BY <2>1, <2>2, AppendStarts DEF StartsWith
  <2>5. u \in Logs
    BY <2>1, ProcessType
  <2>. HIDE DEF u, New
  <2>6. New(u.log)
    BY <2>1, <2>3, <2>4
  <2>. QED BY <2>1, <2>5, <2>6
<1>. HIDE DEF V
<1>5. after[N] \in V
  BY <1>2, <1>3, <1>4, StaysIn
<1>. QED BY <1>2, <1>5 DEF V

LEMMA NamesSame ==
    ASSUME NamesInv, ProposalsKept, pool' = pool, batches' = batches
    PROVE  NamesInv'
BY DEF NamesInv, ProposalsKept

LEMMA NamesCreated ==
    ASSUME LedgerInv, NamesInv, NEW p \in left.proposals, create3PCBatch(p)
    PROVE  NamesInv'
<1>. DEFINE done == ProcessReqs(p)
            log == done.log
            after == IF p.ledger = "pool" THEN done.log ELSE done.nyms
            before == IF p.ledger = "pool" THEN Uncommitted ELSE UncommittedNyms
            valid == SubSeq(after, Len(before) + 1, Len(after))
            b == [ledger |-> p.ledger, txns |-> valid]
            N == Len(batches)
<1>1. p.ledger \in {"pool", "domain"} /\ p.reqs \in Seq(Txns)
  BY ProposalType
<1>2. /\ pool' = pool /\ batches' = (IF valid = <<>> THEN batches ELSE Append(batches, b))
      /\ ProposalsKept /\ batches \in Seq(Batch)
  BY SpendKeeps DEF create3PCBatch, LedgerInv
<1>3. /\ Uncommitted \in Seq(Txns) /\ UncommittedNyms \in Seq(Txns)
      /\ Processed(Before, p.ledger, past.undone) /\ Before \in Logs
  BY UncommittedOK DEF Processed, create3PCBatch
<1>4. Processed(done, p.ledger, past.undone)
  BY <1>1, <1>3, ProcessReqsKeeps
<1>5. \A i \in 1..Len(log) : i > Len(Uncommitted) => log[i] \in Range(p.reqs)
  BY <1>1, <1>3, AppliedReqs
<1>. HIDE DEF done
<1>6. /\ done.log \in Seq(Txns) /\ done.nyms \in Seq(Txns)
      /\ StartsWith(done.log, Uncommitted) /\ StartsWith(done.nyms, UncommittedNyms)
  BY <1>4 DEF Processed, Logs
<1>7. valid \in Seq(Txns)
  <2>1. after \in Seq(Txns) /\ before \in Seq(Txns) /\ StartsWith(after, before)
    BY <1>3, <1>6
  <2>. HIDE DEF after, before
  <2>. QED BY <2>1, Rest
<1>8. b \in Batch /\ b.ledger = p.ledger /\ b.txns = valid
  BY <1>1, <1>7 DEF Batch
<1>9. p.ledger = "pool" => \A i \in 1..Len(valid) : valid[i] \in NodeReqs(left.proposals)
  <2>. SUFFICES ASSUME p.ledger = "pool", NEW i \in 1..Len(valid)
                PROVE  valid[i] \in NodeReqs(left.proposals)
    OBVIOUS
  <2>. DEFINE j == Len(Uncommitted) + i
  <2>1. Len(log) \in Nat /\ Len(Uncommitted) \in Nat
    BY <1>3, <1>6, LenProperties
  <2>2. valid = SubSeq(log, Len(Uncommitted) + 1, Len(log))
    OBVIOUS
  <2>. HIDE DEF valid, log
  <2>3. j \in 1..Len(log) /\ j > Len(Uncommitted) /\ valid[i] = log[j]
    <3>1. i \in 1..(Len(log) - Len(Uncommitted))
      BY <1>6, <2>1, <2>2, LenProperties DEF log, StartsWith
    <3>. QED BY <1>6, <2>1, <2>2, <3>1 DEF log
  <2>4. valid[i] \in Range(p.reqs)
    BY <1>5, <2>3
  <2>. QED BY <2>4 DEF NodeReqs
<1>. HIDE DEF valid, b, log, after, before
<1>10. CASE valid = <<>>
  BY <1>2, <1>10, NamesSame
<1>11. CASE valid # <<>>
  <2>1. /\ batches' = Append(batches, b) /\ left'.proposals = left.proposals /\ pool' = pool
    BY <1>2, <1>11 DEF ProposalsKept
  <2>2. /\ Len(Append(batches, b)) = N + 1 /\ N \in Nat
        /\ \A k \in 1..N : Append(batches, b)[k] = batches[k]
        /\ Append(batches, b)[N + 1] = b
    BY <1>2, <1>8, AppendProperties, LenProperties
  <2>3. ASSUME NEW k \in 1..Len(batches'), batches'[k].ledger = "pool"
        PROVE  \A i \in 1..Len(batches'[k].txns) : batches'[k].txns[i] \in NodeReqs(left.proposals)
    <3>1. k \in 1..N \/ k = N + 1
      BY <2>1, <2>2, <2>3
    <3>. QED BY <1>8, <1>9, <2>1, <2>2, <2>3, <3>1 DEF NamesInv
  <2>. QED BY <2>1, <2>3 DEF NamesInv
<1>. QED BY <1>10, <1>11

\* A name that does not come after s has in the log what it had in s.
LEMMA NotChanged ==
    ASSUME NEW s \in Seq(Txns), NEW log \in Seq(Txns), StartsWith(log, s), NEW name,
           \A i \in 1..Len(log) : i > Len(s) => log[i].alias # name
    PROVE  /\ LatestHa(log, name) = LatestHa(s, name)
           /\ \A reg : RegAs(s, reg, name) => RegAs(log, reg, name)
<1>. DEFINE P == NamePlaces(s, name)
<1>1. /\ Len(s) \in Nat /\ Len(log) \in Nat /\ DOMAIN s = 1..Len(s) /\ DOMAIN log = 1..Len(log)
      /\ Len(s) <= Len(log) /\ \A i \in 1..Len(s) : log[i] = s[i]
  BY LenProperties DEF StartsWith
<1>2. \A i \in 1..Len(log) : i \in 1..Len(s) \/ i > Len(s)
  BY <1>1
<1>3. NamePlaces(log, name) = P /\ P \subseteq 1..Len(s)
  BY <1>1, <1>2 DEF NamePlaces
<1>4. LatestHa(log, name) = LatestHa(s, name)
  <2>1. [i \in P |-> log[i].ha] = [i \in P |-> s[i].ha]
    BY <1>1, <1>3
  <2>. QED BY <1>3, <2>1 DEF LatestHa
<1>5. LatestServices(log, name) = LatestServices(s, name)
  <2>1. [i \in P |-> log[i].services] = [i \in P |-> s[i].services]
    BY <1>1, <1>3
  <2>. QED BY <1>3, <2>1 DEF LatestServices
<1>6. \A reg : RegAs(s, reg, name) => RegAs(log, reg, name)
  <2>. HIDE DEF P
  <2>. QED BY <1>3, <1>4, <1>5 DEF RegAs, P
<1>. QED BY <1>4, <1>6

\* Transactions without an address leave the address.
LEMMA HaNotChanged ==
    ASSUME NEW s \in Seq(Txns), NEW log \in Seq(Txns), StartsWith(log, s), NEW name,
           \A i \in 1..Len(log) : i > Len(s) /\ log[i].alias = name => log[i].ha = None
    PROVE  LatestHa(log, name) = LatestHa(s, name)
<1>. DEFINE v == [i \in NamePlaces(log, name) |-> log[i].ha]
            w == [i \in NamePlaces(s, name) |-> s[i].ha]
            given == {i \in DOMAIN w : w[i] # None}
<1>1. /\ Len(s) \in Nat /\ Len(log) \in Nat /\ DOMAIN s = 1..Len(s) /\ DOMAIN log = 1..Len(log)
      /\ Len(s) <= Len(log) /\ \A i \in 1..Len(s) : log[i] = s[i]
  BY LenProperties DEF StartsWith
<1>2. \A i \in 1..Len(log) : i \in 1..Len(s) \/ i > Len(s)
  BY <1>1
<1>3. given = {i \in DOMAIN v : v[i] # None} /\ given \subseteq 1..Len(s)
      /\ \A i \in given : v[i] = w[i]
  BY <1>1, <1>2 DEF NamePlaces
<1>. HIDE DEF given
<1>4. given # {} => Max(given) \in given
  BY <1>1, <1>3, GreatestIsThere
<1>5. /\ Latest(w) = IF given = {} THEN None ELSE w[Max(given)]
      /\ Latest(v) = IF given = {} THEN None ELSE v[Max(given)]
  <2>. HIDE DEF v, w
  <2>. QED BY <1>3 DEF Latest, given
<1>6. Latest(v) = Latest(w)
  BY <1>3, <1>4, <1>5
<1>. QED BY <1>6 DEF LatestHa

\* Two places of a small set are one.
LEMMA OnePlace ==
    ASSUME NEW n \in Nat, NEW S, S \subseteq 1..n, ~(Cardinality(S) > 1), NEW a \in S, NEW b \in S
    PROVE  a = b
<1>1. IsFiniteSet(S)
  <2>1. IsFiniteSet(1..n)
    BY FS_Interval
  <2>. QED BY <2>1, FS_Subset
<1>. SUFFICES ASSUME a # b PROVE FALSE
  OBVIOUS
<1>2. IsFiniteSet({a}) /\ Cardinality({a}) = 1
  BY FS_Singleton
<1>3. IsFiniteSet({a} \cup {b}) /\ Cardinality({a} \cup {b}) = 2
  BY <1>2, FS_AddElement
<1>. DEFINE T == {a} \cup {b}
<1>4. T \subseteq S
  OBVIOUS
<1>. HIDE DEF T
<1>5. Cardinality(T) <= Cardinality(S)
  BY <1>1, <1>4, FS_Subset
<1>6. Cardinality(S) \in Nat
  BY <1>1, FS_CardinalityType
<1>. QED BY <1>3, <1>5, <1>6 DEF T

\* A batch that the ledger s got, as log has it.
Committed(s, batch, log, apart) ==
    /\ s \in Seq(Txns) /\ batch \in Seq(Txns) /\ log = s \o batch
    /\ SameAlias(log) /\ NamesApart(log)
    /\ \A k \in 1..Len(batch) : /\ batch[k].alias = Me => batch[k].ha = None
                                /\ Apart(s, batch[k], batch) => batch[k].alias \in apart

LEMMA CommittedIs ==
    ASSUME NEW s, NEW batch, NEW log, NEW apart, Committed(s, batch, log, apart)
    PROVE  /\ log \in Seq(Txns) /\ StartsWith(log, s)
           /\ Len(s) \in Nat /\ Len(batch) \in Nat /\ Len(log) = Len(s) + Len(batch)
           /\ \A k \in 1..Len(batch) : Len(s) + k \in 1..Len(log) /\ log[Len(s) + k] = batch[k]
           /\ \A i \in 1..Len(log) : i > Len(s) =>
                 i - Len(s) \in 1..Len(batch) /\ log[i] = batch[i - Len(s)]
<1>1. s \in Seq(Txns) /\ batch \in Seq(Txns) /\ log = s \o batch
  BY DEF Committed
<1>2. Len(s) \in Nat /\ Len(batch) \in Nat
  BY <1>1, LenProperties
<1>3. log \in Seq(Txns) /\ StartsWith(log, s)
  BY <1>1, ConcatStarts
<1>4. Len(log) = Len(s) + Len(batch)
      /\ \A i \in 1..(Len(s) + Len(batch)) :
            log[i] = IF i <= Len(s) THEN s[i] ELSE batch[i - Len(s)]
  BY <1>1, ConcatProperties
<1>. QED BY <1>2, <1>3, <1>4

\* A transaction of the batch that is not set apart is the only one of its node.
LEMMA AloneInBatch ==
    ASSUME NEW s, NEW batch, NEW log, NEW apart, Committed(s, batch, log, apart),
           NEW k \in 1..Len(batch), batch[k].alias \notin apart
    PROVE  /\ Single(s, log, Len(s) + k, batch[k])
           /\ ~(Exists(s, batch[k].nym) /\ getNodeData(s, batch[k].nym).services # "on"
                   /\ batch[k].services # "on")
           /\ \A j \in 1..Len(batch) : batch[j].alias = batch[k].alias => j = k
<1>. DEFINE t == batch[k]
            S == {i \in DOMAIN batch : batch[i].nym = t.nym}
            m == Len(s) + k
<1>1. /\ log \in Seq(Txns) /\ StartsWith(log, s) /\ s \in Seq(Txns)
      /\ Len(s) \in Nat /\ Len(batch) \in Nat /\ Len(log) = Len(s) + Len(batch)
      /\ \A j \in 1..Len(batch) : Len(s) + j \in 1..Len(log) /\ log[Len(s) + j] = batch[j]
      /\ \A i \in 1..Len(log) : i > Len(s) =>
            i - Len(s) \in 1..Len(batch) /\ log[i] = batch[i - Len(s)]
      /\ SameAlias(log) /\ NamesApart(log) /\ DOMAIN batch = 1..Len(batch)
  <2>1. s \in Seq(Txns) /\ batch \in Seq(Txns) /\ SameAlias(log) /\ NamesApart(log)
    BY DEF Committed
  <2>2. DOMAIN batch = 1..Len(batch)
    BY <2>1, LenProperties
  <2>. QED BY <2>1, <2>2, CommittedIs
<1>2. ~Apart(s, t, batch)
  BY DEF Committed
<1>3. ~(Cardinality(S) > 1)
  BY <1>2 DEF Apart
<1>4. \A j \in 1..Len(batch) : batch[j].nym = t.nym => j = k
  <2>. SUFFICES ASSUME NEW j \in 1..Len(batch), batch[j].nym = t.nym PROVE j = k
    OBVIOUS
  <2>1. S \subseteq 1..Len(batch) /\ k \in S /\ j \in S
    BY <1>1
  <2>. HIDE DEF S
  <2>. QED BY <1>1, <1>3, <2>1, OnePlace
<1>5. \A j \in 1..Len(batch) : batch[j].alias = t.alias => j = k
  <2>. SUFFICES ASSUME NEW j \in 1..Len(batch), batch[j].alias = t.alias PROVE j = k
    OBVIOUS
  <2>2. /\ Len(s) + j \in 1..Len(log) /\ log[Len(s) + j] = batch[j]
        /\ Len(s) + k \in 1..Len(log) /\ log[Len(s) + k] = t
    BY <1>1
  <2>3. \A a, b \in 1..Len(log) : log[a].alias = log[b].alias => log[a].nym = log[b].nym
    BY <1>1 DEF NamesApart
  <2>4. log[Len(s) + j].nym = log[Len(s) + k].nym
    BY <2>2, <2>3, Zenon
  <2>1. batch[j].nym = t.nym
    BY <2>2, <2>4
  <2>. QED BY <1>4, <2>1
<1>6. \A j \in 1..Len(log) : j > Len(s) /\ log[j].nym = t.nym => j = m
  <2>. SUFFICES ASSUME NEW j \in 1..Len(log), j > Len(s), log[j].nym = t.nym PROVE j = m
    OBVIOUS
  <2>1. j - Len(s) = k
    BY <1>1, <1>4
  <2>. QED BY <1>1, <2>1
<1>7. m \in 1..Len(log) /\ m > Len(s) /\ t = log[m]
  BY <1>1
<1>. HIDE DEF m, t
<1>8. Single(s, log, m, t)
  BY <1>1, <1>6, <1>7 DEF Single
<1>. QED BY <1>2, <1>5, <1>8 DEF Apart, m, t

\* A node does not change its own entry.
LEMMA MeKept ==
    ASSUME NEW log, NEW reg, NEW t, Me \in DOMAIN reg
    PROVE  TxnReg(log, reg, t)[Me] = reg[Me]
<1>1. CASE t.alias # Me
  BY <1>1, OthersKept
<1>2. CASE t.alias = Me
  BY <1>2 DEF TxnReg, UpdatedReg, Readdressed
<1>. QED BY <1>1, <1>2

\* The registry r after the first k transactions of the batch, as to one name.
MatchedUpTo(s, batch, log, name, k, r) ==
    IF \E j \in 1..k : batch[j].alias = name THEN RegAs(log, r, name) ELSE RegAs(s, r, name)

LEMMA NextMatches ==
    ASSUME NEW s, NEW batch, NEW log, NEW apart, Committed(s, batch, log, apart),
           NEW name, name \notin apart, name # Me, NEW k \in Nat, k + 1 \in 1..Len(batch),
           NEW reg, MatchedUpTo(s, batch, log, name, k, reg)
    PROVE  MatchedUpTo(s, batch, log, name, k + 1, TxnReg(log, reg, batch[k + 1]))
<1>. DEFINE t == batch[k + 1]
            new == TxnReg(log, reg, t)
            m == Len(s) + (k + 1)
<1>1. \A j \in 1..(k + 1) : j = k + 1 \/ j \in 1..k
  OBVIOUS
<1>2. k + 1 \in 1..(k + 1) /\ \A j \in 1..k : j \in 1..(k + 1) /\ j # k + 1 /\ j \in 1..Len(batch)
  <2>1. Len(batch) \in Nat
    BY CommittedIs
  <2>. QED BY <2>1
<1>. HIDE DEF t, new, m
<1>3. CASE t.alias = name
  <2>1. /\ Single(s, log, m, t)
        /\ ~(Exists(s, t.nym) /\ getNodeData(s, t.nym).services # "on" /\ t.services # "on")
        /\ \A j \in 1..Len(batch) : batch[j].alias = name => j = k + 1
    BY <1>3, AloneInBatch DEF t, m
  <2>2. ~\E j \in 1..k : batch[j].alias = name
    BY <1>2, <2>1
  <2>3. RegAs(s, reg, t.alias)
    BY <1>3, <2>2 DEF MatchedUpTo
  <2>4. t.alias # Me
    BY <1>3
  <2>5. RegAs(log, new, t.alias)
    BY <2>1, <2>3, <2>4, TxnMatches DEF new
  <2>. QED BY <1>2, <1>3, <2>5 DEF MatchedUpTo, t, new
<1>4. CASE t.alias # name
  <2>1. /\ name \in DOMAIN new <=> name \in DOMAIN reg
        /\ name \in DOMAIN reg => new[name] = reg[name]
    BY <1>4, OthersKept DEF new
  <2>2. \A l : RegAs(l, reg, name) => RegAs(l, new, name)
    BY <2>1 DEF RegAs
  <2>3. (\E j \in 1..(k + 1) : batch[j].alias = name) <=> (\E j \in 1..k : batch[j].alias = name)
    BY <1>1, <1>2, <1>4 DEF t
  <2>. QED BY <2>2, <2>3 DEF MatchedUpTo, t, new
<1>. QED BY <1>3, <1>4

\* What a batch leaves of the registry and of this node's own address.
LEMMA TxnsMatch ==
    ASSUME NEW n, NEW fresh, NEW measured, NodeOK(n, Voter, fresh, measured),
           NEW s, NEW batch, NEW log, NEW apart, Committed(s, batch, log, apart),
           NEW name, name = Me \/ (name \notin apart /\ RegAs(s, n.reg, name))
    PROVE  /\ name # Me => RegAs(log, applyTxns(log, n, batch).reg, name)
           /\ applyTxns(log, n, batch).reg[Me] = n.reg[Me]
           /\ LatestHa(log, Me) = LatestHa(s, Me)
<1>. DEFINE N == Len(batch)
            Right(k, x) == /\ NodeOK(x, Voter, fresh, measured)
                           /\ name # Me => MatchedUpTo(s, batch, log, name, k, x.reg)
                           /\ x.reg[Me] = n.reg[Me]
            S(g) == {k \in 0..N : Right(k, g[k])}
<1>1. /\ s \in Seq(Txns) /\ batch \in Seq(Txns) /\ SameAlias(log)
      /\ \A k \in 1..N : batch[k].alias = Me => batch[k].ha = None
  BY DEF Committed
<1>2. /\ log \in Seq(Txns) /\ StartsWith(log, s) /\ N \in Nat /\ Len(s) \in Nat
      /\ \A k \in 1..N : Len(s) + k \in 1..Len(log) /\ log[Len(s) + k] = batch[k]
      /\ \A i \in 1..Len(log) : i > Len(s) => i - Len(s) \in 1..N /\ log[i] = batch[i - Len(s)]
  BY CommittedIs
<1>3. PICK after : /\ after[0] = n /\ applyTxns(log, n, batch) = after[N]
                   /\ \A k \in 1..N : after[k] = onPoolMembershipChange(log, after[k - 1], batch[k])
  BY <1>1, ApplyTxnsDef
<1>4. 0 \in S(after)
  BY <1>2, <1>3 DEF MatchedUpTo
<1>5. ASSUME NEW k \in 0..(N - 1), k \in S(after) PROVE k + 1 \in S(after)
  <2>. DEFINE x == after[k]
              t == batch[k + 1]
              i == Len(s) + (k + 1)
              y == onPoolMembershipChange(log, x, t)
  <2>1. k \in Nat /\ k + 1 \in 1..N /\ (k + 1) - 1 = k /\ k + 1 \in 0..N
    BY <1>2
  <2>2. after[k + 1] = y
    BY <1>3, <2>1
  <2>3. i \in 1..Len(log) /\ t = log[i]
    BY <1>2, <2>1
  <2>4. /\ NodeOK(x, Voter, fresh, measured)
        /\ name # Me => MatchedUpTo(s, batch, log, name, k, x.reg)
        /\ x.reg[Me] = n.reg[Me]
    BY <1>5
  <2>. HIDE DEF x, i
  <2>5. name # Me => MatchedUpTo(s, batch, log, name, k + 1, TxnReg(log, x.reg, t))
    <3>. SUFFICES ASSUME name # Me
                  PROVE  MatchedUpTo(s, batch, log, name, k + 1, TxnReg(log, x.reg, t))
      OBVIOUS
    <3>. QED BY <2>1, <2>4, NextMatches
  <2>. HIDE DEF t
  <2>6. NodeOK(y, Voter, fresh, measured) /\ y.reg = TxnReg(log, x.reg, t)
    BY <1>1, <1>2, <2>3, <2>4, TxnOK
  <2>7. Me \in DOMAIN x.reg
    BY <2>4 DEF NodeOK, Workable
  <2>8. y.reg[Me] = n.reg[Me]
    BY <2>4, <2>6, <2>7, MeKept
  <2>. HIDE DEF y
  <2>9. Right(k + 1, y)
    BY <2>5, <2>6, <2>8
  <2>. HIDE DEF Right
  <2>. QED BY <2>1, <2>2, <2>9
<1>. HIDE DEF S, N
<1>6. 0..N \subseteq S(after)
  BY <1>2, <1>4, <1>5, InductionUpTo
<1>7. N \in S(after)
  BY <1>2, <1>6
<1>8. Right(N, after[N])
  <2>. HIDE DEF Right
  <2>. QED BY <1>7 DEF S
<1>. DEFINE m == applyTxns(log, n, batch)
<1>9. /\ name # Me => MatchedUpTo(s, batch, log, name, N, m.reg)
      /\ m.reg[Me] = n.reg[Me]
  BY <1>3, <1>8
<1>. HIDE DEF m, Right
<1>10. LatestHa(log, Me) = LatestHa(s, Me)
  <2>1. \A i \in 1..Len(log) : i > Len(s) /\ log[i].alias = Me => log[i].ha = None
    BY <1>1, <1>2
  <2>. QED BY <1>1, <1>2, <2>1, HaNotChanged
<1>11. ASSUME name # Me PROVE RegAs(log, m.reg, name)
  <2>1. CASE \E j \in 1..N : batch[j].alias = name
    BY <1>9, <1>11, <2>1 DEF MatchedUpTo
  <2>2. CASE ~\E j \in 1..N : batch[j].alias = name
    <3>1. RegAs(s, m.reg, name)
      BY <1>9, <1>11, <2>2 DEF MatchedUpTo
    <3>2. \A i \in 1..Len(log) : i > Len(s) => log[i].alias # name
      BY <1>2, <2>2
    <3>3. \A reg : RegAs(s, reg, name) => RegAs(log, reg, name)
      BY <1>1, <1>2, <3>2, NotChanged
    <3>. QED BY <3>1, <3>3
  <2>. QED BY <2>1, <2>2
<1>. QED BY <1>9, <1>10, <1>11 DEF m

LEMMA NamesInit ==
    ASSUME Init
    PROVE  NamesInv
<1>1. pool = Genesis /\ batches = <<>>
  BY DEF Init
<1>2. \A i \in 1..Len(Genesis) : Genesis[i] \in Range(Genesis)
  BY GenesisOK, LenProperties DEF Range
<1>. QED BY <1>1, <1>2 DEF NamesInv, NodeTxns

LEMMA NamesExecuted ==
    ASSUME LedgerInv, NamesInv, executeBatch
    PROVE  NamesInv'
<1>. DEFINE b == Head(batches)
            N == Len(batches)
<1>1. /\ pool \in Seq(Txns) /\ batches \in Seq(Batch) /\ batches # <<>>
      /\ batches' = Tail(batches) /\ left' = left
      /\ pool' = Over(pool, b, "pool") /\ b \in Batch
  BY ExecuteKeeps DEF LedgerInv, executeBatch
<1>2. /\ b = batches[1] /\ 1 \in 1..N /\ N \in Nat /\ Len(batches') = N - 1
      /\ \A k \in 1..Len(batches') : k + 1 \in 1..N /\ batches'[k] = batches[k + 1]
  BY <1>1, HeadTailProperties, LenProperties, EmptySeq
<1>3. b.ledger = "pool" =>
          \A i \in 1..Len(b.txns) : b.txns[i] \in NodeReqs(left.proposals)
  BY <1>2 DEF NamesInv
<1>. HIDE DEF b, N
<1>4. \A i \in 1..Len(pool') : pool'[i] \in NodeTxns(left.proposals)
  <2>1. CASE b.ledger # "pool"
    BY <1>1, <2>1 DEF Over, NamesInv
  <2>2. CASE b.ledger = "pool"
    <3>. DEFINE x == b.txns
    <3>1. x \in Seq(Txns) /\ pool' = pool \o x
      BY <1>1, <2>2 DEF Over, Batch
    <3>2. \A i \in 1..Len(x) : x[i] \in NodeTxns(left.proposals)
      BY <1>3, <2>2 DEF NodeTxns
    <3>. HIDE DEF x
    <3>3. /\ Len(pool') = Len(pool) + Len(x) /\ Len(pool) \in Nat /\ Len(x) \in Nat
          /\ \A i \in 1..Len(pool') : pool'[i] = IF i <= Len(pool) THEN pool[i] ELSE x[i - Len(pool)]
      BY <1>1, <3>1, ConcatProperties, LenProperties
    <3>. SUFFICES ASSUME NEW i \in 1..Len(pool') PROVE pool'[i] \in NodeTxns(left.proposals)
      OBVIOUS
    <3>4. CASE i <= Len(pool)
      <4>1. i \in 1..Len(pool) /\ pool'[i] = pool[i]
        BY <3>3, <3>4
      <4>. QED BY <4>1 DEF NamesInv
    <3>5. CASE ~(i <= Len(pool))
      <4>1. i - Len(pool) \in 1..Len(x) /\ pool'[i] = x[i - Len(pool)]
        BY <3>3, <3>5
      <4>. QED BY <3>2, <4>1
    <3>. QED BY <3>4, <3>5
  <2>. QED BY <2>1, <2>2
<1>5. \A k \in 1..Len(batches') : batches'[k].ledger = "pool" =>
          \A i \in 1..Len(batches'[k].txns) : batches'[k].txns[i] \in NodeReqs(left.proposals)
  BY <1>2 DEF NamesInv, N
<1>. QED BY <1>1, <1>4, <1>5 DEF NamesInv

LEMMA NamesReverted ==
    ASSUME LedgerInv, NamesInv, NEW p, NEW keep \in 0..Len(batches),
           startViewChange(keep) \/ processPrimary(p, keep)
    PROVE  NamesInv'
<1>1. /\ batches \in Seq(Batch) /\ pool' = pool
      /\ batches' = SubSeq(batches, 1, keep) /\ ProposalsKept
  BY SpendKeeps DEF LedgerInv, startViewChange, processPrimary, removeObsoletePpReqs
<1>2. /\ Len(batches') = keep
      /\ \A k \in 1..Len(batches') : k \in 1..Len(batches) /\ batches'[k] = batches[k]
  <2>1. Len(batches) \in Nat
    BY <1>1, LenProperties
  <2>. QED BY <1>1, <2>1, LenProperties
<1>. QED BY <1>1, <1>2 DEF NamesInv, ProposalsKept

LEMMA NamesStarted ==
    ASSUME LedgerInv, NamesInv, start
    PROVE  NamesInv'
<1>1. pool' = pool /\ batches' = <<>> /\ ProposalsKept
  BY SpendKeeps DEF start, onStopping
<1>. QED BY <1>1 DEF NamesInv, ProposalsKept

LEMMA NamesCaughtUp ==
    ASSUME LedgerInv, NamesInv, NEW t \in NodeReqs(left.proposals), t \in Txns,
           postRecvTxnFromCatchup(t)
    PROVE  NamesInv'
<1>1. pool' = Append(pool, t) /\ batches' = batches /\ ProposalsKept /\ pool \in Seq(Txns)
  BY SpendKeeps DEF postRecvTxnFromCatchup, LedgerInv
<1>2. /\ Len(pool) \in Nat /\ Len(pool') = Len(pool) + 1
      /\ \A i \in 1..Len(pool) : pool'[i] = pool[i]
      /\ pool'[Len(pool) + 1] = t
  BY <1>1, AppendProperties, LenProperties
<1>3. \A i \in 1..Len(pool') : i \in 1..Len(pool) \/ i = Len(pool) + 1
  BY <1>2
<1>4. \A i \in 1..Len(pool') : pool'[i] \in NodeTxns(left.proposals)
  BY <1>2, <1>3 DEF NamesInv, NodeTxns
<1>. QED BY <1>1, <1>4 DEF NamesInv, ProposalsKept

\* The request that catch-up brings.
LEMMA FirstReq ==
    ASSUME LedgerInv, NEW p \in left.proposals, p.ledger = "pool"
    PROVE  p.reqs[1] \in NodeReqs(left.proposals)
<1>1. PICK s \in Scenes : left.proposals = s.proposals
  BY DEF LedgerInv
<1>2. p.reqs \in Seq(Range(p.reqs)) /\ p.reqs # <<>>
  BY <1>1, MembershipAssumption
<1>3. 1 \in 1..Len(p.reqs)
  BY <1>2, LenProperties, EmptySeq
<1>4. p.reqs[1] \in Range(p.reqs)
  BY <1>2, <1>3, ElementOfSeq
<1>. QED BY <1>4 DEF NodeReqs

LEMMA NamesStep ==
    ASSUME LedgerInv, NamesInv, [Next]_vars
    PROVE  NamesInv'
<1>1. ASSUME NEW p \in left.proposals, create3PCBatch(p) PROVE NamesInv'
  BY <1>1, NamesCreated
<1>2. ASSUME NEW p \in left.proposals, revert(p) PROVE NamesInv'
  BY <1>2, NamesSame, SpendKeeps DEF revert
<1>3. CASE executeBatch
  BY <1>3, NamesExecuted
<1>4. ASSUME NEW keep \in 0..Len(batches), startViewChange(keep) PROVE NamesInv'
  BY <1>4, NamesReverted
<1>15. ASSUME NEW p \in Primaries, NEW keep \in 0..Len(batches), processPrimary(p, keep)
       PROVE  NamesInv'
  BY <1>15, NamesReverted
<1>5. CASE start
  BY <1>5, NamesStarted
<1>6. ASSUME NEW p \in left.proposals, p.ledger = "pool", postRecvTxnFromCatchup(p.reqs[1])
      PROVE  NamesInv'
  <2>. DEFINE t == p.reqs[1]
  <2>1. t \in Txns /\ t \in NodeReqs(left.proposals) /\ postRecvTxnFromCatchup(t)
    BY <1>6, ProposalType, FirstReq
  <2>. HIDE DEF t
  <2>. QED BY <2>1, NamesCaughtUp
<1>7. CASE postPoolLedgerCaughtUp
  BY <1>7, NamesSame, SpendKeeps DEF postPoolLedgerCaughtUp, ledgers
<1>16. ASSUME NEW t, ExecutedMeanwhile(t) PROVE NamesInv'
  BY <1>16, NamesSame, SpendKeeps DEF ExecutedMeanwhile
<1>17. CASE post_txn_from_catchup_added_to_domain_ledger
  <2>1. pool' = pool /\ batches' = batches /\ left' = left
    BY <1>17 DEF post_txn_from_catchup_added_to_domain_ledger
  <2>. QED BY <2>1, LeftSame, NamesSame
<1>18. CASE allLedgersCaughtUp
  BY <1>18, NamesSame, SpendKeeps DEF allLedgersCaughtUp, ledgers
<1>8. ASSUME NEW name, Connect(name) PROVE NamesInv'
  BY <1>8, NamesSame, SpendKeeps DEF Connect, ledgers
<1>9. ASSUME NEW i \in Instances, sendToReplica(i) PROVE NamesInv'
  BY <1>9, NamesSame, SpendKeeps DEF sendToReplica, ledgers
<1>10. ASSUME NEW r, forward(r) PROVE NamesInv'
  BY <1>10, NamesSame, SpendKeeps DEF forward, ledgers
<1>11. ASSUME NEW i \in Instances, NEW rs, processOrdered(i, rs) PROVE NamesInv'
  BY <1>11, NamesSame, SpendKeeps DEF processOrdered, ledgers
<1>12. CASE checkPerformance
  BY <1>12, NamesSame, SpendKeeps DEF checkPerformance, ledgers
<1>13. CASE Tick
  BY <1>13, NamesSame, SpendKeeps DEF Tick, ledgers
<1>14. CASE UNCHANGED vars
  BY <1>14, NamesSame, SpendKeeps DEF vars
<1>. QED BY <1>1, <1>2, <1>3, <1>4, <1>5, <1>6, <1>7, <1>8, <1>9, <1>10, <1>11, <1>12, <1>13, <1>14,
            <1>15, <1>16, <1>17, <1>18
         DEF Next, Ledger, Restarted, Traffic

\* The registry is what the log says, but for the names set apart.
RegOK(log, reg, apart) ==
    /\ \A name : name \notin apart \cup {Me} => RegAs(log, reg, name)
    /\ Me \in DOMAIN reg /\ reg[Me] = LatestHa(log, Me)
RegInv == RegOK(pool, node.reg, past.apart)

LEMMA RegParsed ==
    ASSUME NEW log, NEW apart
    PROVE  RegOK(log, getStackParamsAndNodeReg(log), apart)
<1>. DEFINE active == {name \in {log[i].alias : i \in DOMAIN log} : LatestServices(log, name) = "on"}
            reg == getStackParamsAndNodeReg(log)
            parsed == parseLedgerForHaAndKeys(log)
<1>1. parsed = [name \in active |-> LatestHa(log, name)]
  BY DEF parseLedgerForHaAndKeys, LatestServices, LatestHa, NamePlaces
<1>2. reg = Put(parsed, Me, LatestHa(log, Me))
  BY DEF getStackParamsAndNodeReg, LatestHa, NamePlaces
<1>3. \A name : name \in active <=> NamePlaces(log, name) # {} /\ LatestServices(log, name) = "on"
  BY DEF NamePlaces
<1>. HIDE DEF active, reg, parsed
<1>4. /\ Me \in DOMAIN reg /\ reg[Me] = LatestHa(log, Me)
      /\ \A name : name # Me => /\ name \in DOMAIN reg <=> name \in active
                                /\ name \in active => reg[name] = LatestHa(log, name)
  BY <1>1, <1>2 DEF Put
<1>5. \A name : name # Me => RegAs(log, reg, name)
  BY <1>3, <1>4 DEF RegAs
<1>. QED BY <1>4, <1>5 DEF RegOK, reg

LEMMA RegSame ==
    ASSUME RegInv, pool' = pool, node'.reg = node.reg, past'.apart = past.apart
    PROVE  RegInv'
BY DEF RegInv

LEMMA RegBatch ==
    ASSUME NEW n, NEW fresh, NEW measured, NodeOK(n, Voter, fresh, measured),
           NEW s, NEW batch, NEW log, NEW apart, NEW apart0, apart0 \subseteq apart,
           Committed(s, batch, log, apart), RegOK(s, n.reg, apart0)
    PROVE  RegOK(log, applyTxns(log, n, batch).reg, apart)
<1>. DEFINE m == applyTxns(log, n, batch)
<1>1. \A name : name \notin apart \cup {Me} => RegAs(s, n.reg, name)
  BY DEF RegOK
<1>2. \A name : name \notin apart \cup {Me} => RegAs(log, m.reg, name)
  <2>. SUFFICES ASSUME NEW name, name \notin apart \cup {Me} PROVE RegAs(log, m.reg, name)
    OBVIOUS
  <2>1. name \notin apart /\ name # Me /\ RegAs(s, n.reg, name)
    BY <1>1
  <2>. QED BY <2>1, TxnsMatch
<1>3. m.reg[Me] = LatestHa(log, Me)
  <2>. DEFINE name == Me
  <2>1. name = Me
    OBVIOUS
  <2>. HIDE DEF name
  <2>2. m.reg[Me] = n.reg[Me] /\ LatestHa(log, Me) = LatestHa(s, Me)
    BY <2>1, TxnsMatch
  <2>. QED BY <2>2 DEF RegOK
<1>4. NodeOK(m, Voter, fresh, measured)
  <2>1. /\ s \in Seq(Txns) /\ batch \in Seq(Txns) /\ SameAlias(log)
        /\ log \in Seq(Txns)
        /\ \A k \in 1..Len(batch) : Len(s) + k \in 1..Len(log) /\ log[Len(s) + k] = batch[k]
    BY CommittedIs DEF Committed
  <2>2. \A k \in 1..Len(batch) : \E i \in 1..Len(log) : batch[k] = log[i]
    BY <2>1
  <2>. HIDE DEF m
  <2>. QED BY <2>1, <2>2, TxnsOK DEF m
<1>. HIDE DEF m
<1>5. Me \in DOMAIN m.reg
  BY <1>4 DEF NodeOK, Workable
<1>. QED BY <1>2, <1>3, <1>5 DEF RegOK, m

LEMMA RegExecuted ==
    ASSUME OwnNames, LedgerInv, NodeInv, NamesInv, RegInv, executeBatch
    PROVE  RegInv'
<1>. DEFINE b == Head(batches)
            batch == b.txns
            log == pool \o batch
            fresh == past.fresh
            measured == past.measured
            apart == past'.apart
            apart0 == past.apart
<1>1. /\ pool' = Over(pool, b, "pool") /\ b \in Batch /\ LogOK(pool', Nyms')
      /\ LedgerInv' /\ left' = left /\ batches \in Seq(Batch) /\ batches # <<>>
      /\ PastShape(past) /\ pool \in Seq(Txns)
  BY ExecuteKeeps DEF executeBatch, LedgerInv, NodeInv
<1>2. CASE b.ledger = "domain" /\ executeDomainTxns(b.txns)
  BY <1>2, RegSame DEF executeDomainTxns
<1>3. CASE b.ledger = "pool" /\ executePoolTxnBatch(b.txns)
  <2>1. /\ pool' = log /\ node' = applyTxns(log, node, batch)
        /\ apart = apart0 \cup {batch[i].alias : i \in {j \in DOMAIN batch :
                                                       Apart(pool, batch[j], batch)}}
    BY <1>1, <1>3 DEF executePoolTxnBatch, PastShape
  <2>2. batch \in Seq(Txns) /\ DOMAIN batch = 1..Len(batch)
    BY <1>1, LenProperties DEF Batch
  <2>3. \A i \in 1..Len(batch) : batch[i] \in NodeReqs(left.proposals)
    <3>1. b = batches[1] /\ 1 \in 1..Len(batches)
      BY <1>1, HeadTailProperties, LenProperties, EmptySeq
    <3>. QED BY <1>3, <3>1 DEF NamesInv
  <2>4. \A i \in 1..Len(batch) : batch[i].alias = Me => batch[i].ha = None
    <3>. HIDE DEF batch
    <3>. QED BY <2>3, MeStays
  <2>5. NamesApart(log)
    <3>1. log \in Seq(Txns)
      BY <1>1, <2>2, ConcatProperties
    <3>2. \A i \in 1..Len(log) : log[i] \in NodeTxns(left.proposals)
      <4>1. NamesInv'
        BY NamesExecuted
      <4>. QED BY <1>1, <2>1, <4>1 DEF NamesInv
    <3>. HIDE DEF log
    <3>. QED BY <3>1, <3>2, NamesGiven
  <2>6. \A i \in 1..Len(batch) : Apart(pool, batch[i], batch) => batch[i].alias \in apart
    <3>. HIDE DEF batch, apart, apart0
    <3>. QED BY <2>1, <2>2
  <2>7. SameAlias(log)
    BY <1>1, <2>1 DEF LogOK
  <2>8. Committed(pool, batch, log, apart)
    <3>. DEFINE x == log
    <3>1. x = pool \o batch /\ SameAlias(x) /\ NamesApart(x)
      BY <2>5, <2>7
    <3>. HIDE DEF batch, apart, apart0, x
    <3>2. Committed(pool, batch, x, apart)
      BY <1>1, <2>2, <2>4, <2>6, <3>1 DEF Committed
    <3>. QED BY <3>2 DEF x
  <2>9. NodeOK(node, Voter, fresh, measured) /\ RegOK(pool, node.reg, apart0) /\ apart0 \subseteq apart
    BY <2>1 DEF NodeInv, RegInv
  <2>. HIDE DEF batch, log, fresh, measured, apart0, apart, b
  <2>10. RegOK(log, applyTxns(log, node, batch).reg, apart)
    BY <2>8, <2>9, RegBatch
  <2>. QED BY <2>1, <2>10 DEF RegInv, apart
<1>. QED BY <1>2, <1>3 DEF executeBatch

LEMMA RegCaughtUp ==
    ASSUME OwnNames, LedgerInv, NodeInv, NamesInv, RegInv,
           NEW t \in NodeReqs(left.proposals), t \in Txns, postRecvTxnFromCatchup(t)
    PROVE  RegInv'
<1>. DEFINE batch == <<t>>
            log == pool \o batch
            fresh == past.fresh
            measured == past.measured
            apart == past'.apart
            apart0 == past.apart
<1>1. /\ pool' = Append(pool, t) /\ pool \in Seq(Txns) /\ LogOK(pool', Nyms')
      /\ left'.proposals = left.proposals /\ PastShape(past) /\ pool' \in Seq(Txns)
  BY CatchupKeeps, SpendKeeps DEF LedgerInv, NodeInv, postRecvTxnFromCatchup, ProposalsKept
<1>2. /\ batch \in Seq(Txns) /\ Len(batch) = 1 /\ batch[1] = t
      /\ \A i \in 1..Len(batch) : i = 1
  OBVIOUS
<1>3. pool' = log
  <2>. HIDE DEF batch
  <2>1. /\ log \in Seq(Txns) /\ Len(log) = Len(pool) + Len(batch)
        /\ \A i \in 1..Len(log) : log[i] = IF i <= Len(pool) THEN pool[i] ELSE batch[i - Len(pool)]
    BY <1>1, <1>2, ConcatProperties
  <2>2. /\ Len(pool) \in Nat /\ Len(pool') = Len(pool) + 1
        /\ \A i \in 1..Len(pool) : pool'[i] = pool[i]
        /\ pool'[Len(pool) + 1] = t
    BY <1>1, AppendProperties, LenProperties
  <2>. HIDE DEF log
  <2>3. \A i \in 1..Len(log) : pool'[i] = log[i]
    BY <1>2, <2>1, <2>2
  <2>4. Len(pool') = Len(log)
    BY <1>2, <2>1, <2>2
  <2>. QED BY <1>1, <2>1, <2>3, <2>4, SeqEqual
<1>. HIDE DEF batch, log
<1>4. /\ node' = onPoolMembershipChange(log, node, t)
      /\ apart = IF Apart(pool, t, batch) THEN apart0 \cup {t.alias} ELSE apart0
  BY <1>1, <1>3 DEF postRecvTxnFromCatchup, PastShape, batch
<1>5. applyTxns(log, node, batch) = node'
  <2>1. PICK after : /\ after[0] = node /\ applyTxns(log, node, batch) = after[Len(batch)]
                     /\ \A k \in 1..Len(batch) :
                           after[k] = onPoolMembershipChange(log, after[k - 1], batch[k])
    BY <1>2, ApplyTxnsDef
  <2>2. 1 \in 1..Len(batch) /\ 1 - 1 = 0
    BY <1>2
  <2>3. after[1] = onPoolMembershipChange(log, after[0], batch[1])
    BY <2>1, <2>2
  <2>. QED BY <1>2, <1>4, <2>1, <2>3
<1>6. NamesApart(log)
  <2>1. NamesInv'
    BY NamesCaughtUp
  <2>2. \A i \in 1..Len(log) : log[i] \in NodeTxns(left.proposals)
    BY <1>1, <1>3, <2>1 DEF NamesInv
  <2>. QED BY <1>1, <1>3, <2>2, NamesGiven
<1>7. t.alias = Me => t.ha = None
  BY MeStays
<1>8. Committed(pool, batch, log, apart)
  <2>1. log = pool \o batch /\ SameAlias(log)
    BY <1>1, <1>3 DEF LogOK, log
  <2>2. \A k \in 1..Len(batch) : /\ batch[k].alias = Me => batch[k].ha = None
                                 /\ Apart(pool, batch[k], batch) => batch[k].alias \in apart
    <3>. HIDE DEF apart, apart0
    <3>. QED BY <1>2, <1>4, <1>7
  <2>. HIDE DEF apart, apart0
  <2>. QED BY <1>1, <1>2, <1>6, <2>1, <2>2 DEF Committed
<1>9. /\ NodeOK(node, Voter, fresh, measured) /\ RegOK(pool, node.reg, apart0)
      /\ apart0 \subseteq apart
  BY <1>4 DEF NodeInv, RegInv
<1>. HIDE DEF fresh, measured, apart0, apart
<1>10. RegOK(log, applyTxns(log, node, batch).reg, apart)
  BY <1>8, <1>9, RegBatch
<1>. QED BY <1>3, <1>5, <1>10 DEF RegInv, apart

LEMMA RegStarted ==
    ASSUME LedgerInv, NodeInv, start
    PROVE  RegInv'
<1>. DEFINE none == {}
<1>1. /\ pool \in Seq(Txns) /\ pool' = pool /\ node' = NewNode(pool)
      /\ PastShape(past) /\ past' = [past EXCEPT !.apart = none, !.late = FALSE, !.fresh = none, !.measured = none]
  BY DEF start, LedgerInv, NodeInv
<1>. HIDE DEF none
<1>2. past'.apart = none
  BY <1>1 DEF PastShape
<1>3. NewNode(pool).reg = getStackParamsAndNodeReg(pool)
  BY <1>1, NewNodeOK
<1>4. RegOK(pool, getStackParamsAndNodeReg(pool), none)
  BY RegParsed
<1>. QED BY <1>1, <1>2, <1>3, <1>4 DEF RegInv

LEMMA RegInit ==
    ASSUME Init
    PROVE  RegInv
<1>. DEFINE n == NewNode(Genesis)
            conns == DOMAIN n.reg \ {Me}
            none == {}
<1>1. pool = Genesis /\ node = [n EXCEPT !.conns = conns] /\ past.apart = none
  BY DEF Init
<1>. HIDE DEF none, conns
<1>2. n.reg = getStackParamsAndNodeReg(Genesis) /\ Workable(n, none, none)
  BY GenesisOK, NewNodeOK
<1>. HIDE DEF n
<1>3. node.reg = n.reg
  BY <1>1, <1>2 DEF Workable, NodeShape
<1>4. RegOK(Genesis, getStackParamsAndNodeReg(Genesis), none)
  BY RegParsed
<1>. QED BY <1>1, <1>2, <1>3, <1>4 DEF RegInv

LEMMA RegStep ==
    ASSUME OwnNames, LedgerInv, NodeInv, NamesInv, RegInv, [Next]_vars
    PROVE  RegInv'
<1>. PastShape(past) /\ NodeShape(node)
  BY DEF NodeInv, NodeOK, Workable
<1>1. ASSUME NEW p \in left.proposals, create3PCBatch(p) PROVE RegInv'
  BY <1>1, RegSame DEF create3PCBatch
<1>2. ASSUME NEW p \in left.proposals, revert(p) PROVE RegInv'
  BY <1>2, RegSame DEF revert, reportSuspiciousNode, NodeShape, PastShape
<1>3. CASE executeBatch
  BY <1>3, RegExecuted
<1>4. ASSUME NEW keep, startViewChange(keep) PROVE RegInv'
  BY <1>4, RegSame DEF startViewChange, NodeShape, PastShape
<1>15. ASSUME NEW p, NEW keep, processPrimary(p, keep) PROVE RegInv'
  BY <1>15, RegSame DEF processPrimary, PastShape
<1>5. CASE start
  BY <1>5, RegStarted
<1>6. ASSUME NEW p \in left.proposals, p.ledger = "pool", postRecvTxnFromCatchup(p.reqs[1])
      PROVE  RegInv'
  <2>. DEFINE t == p.reqs[1]
  <2>1. t \in Txns /\ t \in NodeReqs(left.proposals) /\ postRecvTxnFromCatchup(t)
    BY <1>6, ProposalType, FirstReq
  <2>. HIDE DEF t
  <2>. QED BY <2>1, RegCaughtUp
<1>7. CASE postPoolLedgerCaughtUp
  BY <1>7, RegSame DEF postPoolLedgerCaughtUp, ledgers
<1>16. ASSUME NEW t, ExecutedMeanwhile(t) PROVE RegInv'
  BY <1>16, RegSame DEF ExecutedMeanwhile
<1>17. CASE post_txn_from_catchup_added_to_domain_ledger
  BY <1>17, RegSame DEF post_txn_from_catchup_added_to_domain_ledger
<1>18. CASE allLedgersCaughtUp
  BY <1>18, RegSame DEF allLedgersCaughtUp, ledgers, NodeShape
<1>8. ASSUME NEW name, Connect(name) PROVE RegInv'
  BY <1>8, RegSame DEF Connect, ledgers, NodeShape
<1>9. ASSUME NEW i \in Instances, sendToReplica(i) PROVE RegInv'
  BY <1>9, RegSame DEF sendToReplica, ledgers, NodeShape
<1>10. ASSUME NEW r, forward(r) PROVE RegInv'
  BY <1>10, RegSame DEF forward, ledgers, NodeShape, PastShape
<1>11. ASSUME NEW i \in Instances, NEW rs, processOrdered(i, rs) PROVE RegInv'
  BY <1>11, RegSame DEF processOrdered, ledgers, NodeShape, PastShape
<1>12. CASE checkPerformance
  BY <1>12, RegSame DEF checkPerformance, ledgers, NodeShape
<1>13. CASE Tick
  BY <1>13, RegSame DEF Tick, ledgers
<1>14. CASE UNCHANGED vars
  BY <1>14, RegSame DEF vars
<1>. QED BY <1>1, <1>2, <1>3, <1>4, <1>5, <1>6, <1>7, <1>8, <1>9, <1>10, <1>11, <1>12, <1>13, <1>14,
            <1>15, <1>16, <1>17, <1>18
         DEF Next, Ledger, Restarted, Traffic

\* RegistryMatches for every pool in which no two nodes are given one name and
\* nobody moves this node to another address: however NODE transactions are batched,
\* caught up or interleaved with restarts, onPoolMembershipChange keeps of every
\* node, unless it is set apart, what parseLedgerForHaAndKeys would read.
THEOREM RegistryFollowsLedger == OwnNames => (Spec => []RegistryMatches)
<1>. SUFFICES ASSUME OwnNames PROVE Spec => []RegistryMatches
  OBVIOUS
<1>1. Init => LedgerInv /\ NodeInv /\ NamesInv /\ RegInv
  BY LedgerInit, NodeInit, NamesInit, RegInit
<1>2. (LedgerInv /\ NodeInv /\ NamesInv /\ RegInv) /\ [Next]_vars
          => (LedgerInv /\ NodeInv /\ NamesInv /\ RegInv)'
  BY LedgerStep, NodeStep, NamesStep, RegStep
<1>3. LedgerInv /\ NodeInv /\ NamesInv /\ RegInv => RegistryMatches
  <2>. SUFFICES ASSUME RegInv PROVE RegistryMatches
    OBVIOUS
  <2>. DEFINE parsed == getStackParamsAndNodeReg(pool)
              apart == past.apart
              reg == node.reg
  <2>1. RegOK(pool, parsed, apart) /\ RegOK(pool, reg, apart)
    BY RegParsed DEF RegInv
  <2>. HIDE DEF parsed, apart, reg
  <2>. SUFFICES ASSUME NEW name \in (DOMAIN parsed \cup DOMAIN reg) \ apart
                PROVE  /\ name \in DOMAIN parsed /\ name \in DOMAIN reg
                       /\ parsed[name] = reg[name]
    BY DEF RegistryMatches, parsed, apart, reg
  <2>2. CASE name = Me
    BY <2>1, <2>2 DEF RegOK
  <2>3. CASE name # Me
    <3>1. RegAs(pool, parsed, name) /\ RegAs(pool, reg, name)
      BY <2>1, <2>3 DEF RegOK
    <3>. QED BY <3>1 DEF RegAs
  <2>. QED BY <2>2, <2>3
<1>. QED BY <1>1, <1>2, <1>3, PTL DEF Spec
=============================================================================
