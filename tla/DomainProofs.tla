---------------------------- MODULE DomainProofs ----------------------------
(***************************************************************************)
(* Theorems of Domain, for any number of search roots, components and     *)
(* drop-ins, and whatever definitions lie in any of their directories.    *)
(***************************************************************************)
EXTENDS Domain, WellFoundedInduction, TLAPS

-----------------------------------------------------------------------------
\* Facts about numbers and recursive functions.

LEMMA LeastExists ==
    ASSUME NEW S \in SUBSET Nat, S # {}
    PROVE  \E x \in S : \A y \in S : x <= y
<1>1. PICK x \in S : \A y \in S : <<y, x>> \notin OpToRel(<, Nat)
  BY NatLessThanWellFounded, WFMin
<1>2. \A y \in S : x <= y
  <2>1. ASSUME NEW y \in S, y < x
        PROVE  <<y, x>> \in OpToRel(<, Nat)
    BY <2>1 DEF OpToRel
  <2>2. \A y \in S : ~(y < x)
    BY <1>1, <2>1
  <2>3. QED
    BY <2>2
<1>3. QED
  BY <1>2

LEMMA MinIsLeast ==
    ASSUME NEW S \in SUBSET Nat, S # {}
    PROVE  Min(S) \in S /\ \A y \in S : Min(S) <= y
  BY LeastExists DEF Min

LEMMA MaxIsGreatest ==
    ASSUME NEW N \in Nat, NEW S \in SUBSET (0 .. N), S # {}
    PROVE  Max(S) \in S /\ \A y \in S : y <= Max(S)
<1>. DEFINE T == {n \in Nat : \E s \in S : n = N - s}
<1>1. T \subseteq Nat /\ T # {}
  <2>1. PICK s \in S : TRUE
    OBVIOUS
  <2>2. N - s \in T
    OBVIOUS
  <2>3. QED
    BY <2>2
<1>2. PICK x \in T : \A y \in T : x <= y
  BY <1>1, LeastExists
<1>3. PICK s \in S : x = N - s
  OBVIOUS
<1>4. \A y \in S : s >= y
  <2>1. ASSUME NEW y \in S PROVE s >= y
    <3>1. N - y \in T
      OBVIOUS
    <3>2. x <= N - y
      BY <1>2, <3>1
    <3>3. QED
      BY <1>3, <3>2
  <2>2. QED
    BY <2>1
<1>5. Max(S) \in S /\ \A y \in S : Max(S) >= y
  BY <1>4 DEF Max
<1>6. QED
  BY <1>5

\* The recursion of LoadFeature, LoadTransfer and Applied: a value replaces the
\* one before where there is one.
Replaces(g, N, W, val, base) ==
    g = [n \in 0 .. N |-> IF n \in W THEN val[n] ELSE IF n = 0 THEN base ELSE g[n - 1]]

\* It is well defined ...
LEMMA ReplacesExists ==
    ASSUME NEW N \in Nat, NEW W, NEW val, NEW base
    PROVE  \E g : Replaces(g, N, W, val, base)
<1>. DEFINE K(n) == {k \in 0 .. n : k \in W}
            h == [n \in 0 .. N |-> IF K(n) = {} THEN base ELSE val[Max(K(n))]]
<1>1. ASSUME NEW n \in 0 .. N
      PROVE  h[n] = IF n \in W THEN val[n] ELSE IF n = 0 THEN base ELSE h[n - 1]
  <2>1. CASE n \in W
    <3>1. n \in K(n) /\ K(n) \in SUBSET (0 .. n)
      BY <2>1
    <3>2. Max(K(n)) \in K(n) /\ n <= Max(K(n))
      BY <3>1, MaxIsGreatest
    <3>3. Max(K(n)) = n
      BY <3>2
    <3>4. QED
      BY <2>1, <3>1, <3>3
  <2>2. CASE n \notin W /\ n = 0
    <3>1. K(n) = {}
      BY <2>2
    <3>2. QED
      BY <2>2, <3>1
  <2>3. CASE n \notin W /\ n # 0
    <3>1. K(n) = K(n - 1)
      BY <2>3
    <3>2. QED
      BY <2>3, <3>1
  <2>4. QED
    BY <2>1, <2>2, <2>3
<1>2. Replaces(h, N, W, val, base)
  BY <1>1 DEF Replaces
<1>3. QED
  BY <1>2

\* ... and ends with the last value there is.
LEMMA LastReplaces ==
    ASSUME NEW N \in Nat, NEW W, NEW val, NEW base, NEW g, Replaces(g, N, W, val, base)
    PROVE  /\ (\A k \in 0 .. N : k \notin W) => g[N] = base
           /\ \A k \in 0 .. N : (k \in W /\ \A j \in k + 1 .. N : j \notin W) => g[N] = val[k]
<1>. DEFINE Good(n) ==
              /\ (\A k \in 0 .. n : k \notin W) => g[n] = base
              /\ \A k \in 0 .. n : (k \in W /\ \A j \in k + 1 .. n : j \notin W) => g[n] = val[k]
            Bad == {n \in 0 .. N : ~Good(n)}
<1>1. \A n \in 0 .. N : g[n] = IF n \in W THEN val[n] ELSE IF n = 0 THEN base ELSE g[n - 1]
  BY DEF Replaces
<1>2. Bad = {}
  <2>. SUFFICES ASSUME Bad # {} PROVE FALSE
    OBVIOUS
  <2>0. Bad \subseteq Nat
    OBVIOUS
  <2>1. PICK n \in Bad : \A m \in Bad : n <= m
    <3>. HIDE DEF Bad
    <3>1. QED
      BY <2>0, LeastExists
  <2>2. n \in 0 .. N /\ ~Good(n)
    OBVIOUS
  <2>3. CASE n \in W
    <3>1. \A k \in 0 .. n : (\A j \in k + 1 .. n : j \notin W) => k = n
      BY <2>2, <2>3
    <3>2. QED
      BY <1>1, <2>2, <2>3, <3>1
  <2>4. CASE n \notin W /\ n = 0
    BY <1>1, <2>2, <2>4
  <2>5. CASE n \notin W /\ n # 0
    <3>1. n - 1 \in 0 .. N /\ ~(n <= n - 1)
      BY <2>2, <2>5
    <3>2. Good(n - 1)
      BY <2>1, <3>1
    <3>3. g[n] = g[n - 1]
      BY <1>1, <2>2, <2>5
    <3>4. ASSUME \A k \in 0 .. n : k \notin W PROVE g[n] = base
      BY <2>2, <3>2, <3>3, <3>4
    <3>5. ASSUME NEW k \in 0 .. n, k \in W, \A j \in k + 1 .. n : j \notin W
          PROVE  g[n] = val[k]
      <4>1. k \in 0 .. n - 1 /\ \A j \in k + 1 .. n - 1 : j \notin W
        BY <2>2, <2>5, <3>5
      <4>2. QED
        BY <3>2, <3>3, <3>5, <4>1
    <3>6. QED
      BY <2>2, <3>4, <3>5
  <2>6. QED
    BY <2>3, <2>4, <2>5
<1>3. Good(N)
  BY <1>2
<1>4. QED
  BY <1>3

-----------------------------------------------------------------------------
\* What is loaded of one name.

\* A drop-in that says something about Enabled.
Sets(path, n) == DropIn(path, n) \in {"on", "off"}

\* The last drop-in that says something decides, and the file if none does.
LEMMA AppliedIs ==
    ASSUME NEW path, NEW enabled
    PROVE  /\ (\A n \in DropIns : ~Sets(path, n)) => Applied(path, enabled) = enabled
           /\ \A k \in DropIns :
                (Sets(path, k) /\ \A j \in k + 1 .. NDropIns : ~Sets(path, j)) =>
                  Applied(path, enabled) = (DropIn(path, k) = "on")
<1>. DEFINE upto[n \in DropIns] ==
              LET before == IF n = UpdexDropIn THEN enabled ELSE upto[n - 1]
                  at == DropIn(path, n)
              IN IF at \in {"on", "off"} THEN at = "on" ELSE before
            W == {n \in DropIns : Sets(path, n)}
            val == [n \in DropIns |-> DropIn(path, n) = "on"]
            Body(g) == [n \in DropIns |->
                          LET before == IF n = UpdexDropIn THEN enabled ELSE g[n - 1]
                              at == DropIn(path, n)
                          IN IF at \in {"on", "off"} THEN at = "on" ELSE before]
<1>1. Applied(path, enabled) = upto[NDropIns]
  BY DEF Applied
<1>2. DropIns = 0 .. NDropIns /\ NDropIns \in Nat
  BY DomainAssumption DEF DropIns, UpdexDropIn
<1>3. ASSUME NEW g PROVE Replaces(g, NDropIns, W, val, enabled) <=> g = Body(g)
  <2>1. \A n \in DropIns : Body(g)[n] = IF n \in W THEN val[n] ELSE IF n = 0 THEN enabled ELSE g[n - 1]
    BY DEF Sets, UpdexDropIn
  <2>2. Body(g) = [n \in 0 .. NDropIns |-> IF n \in W THEN val[n] ELSE IF n = 0 THEN enabled ELSE g[n - 1]]
    BY <1>2, <2>1
  <2>3. QED
    BY <2>2 DEF Replaces
<1>4. \E g : g = Body(g)
  BY <1>2, <1>3, ReplacesExists
<1>5. upto = Body(upto)
  BY <1>4
<1>6. Replaces(upto, NDropIns, W, val, enabled)
  BY <1>3, <1>5
<1>7. /\ \A n \in 0 .. NDropIns : n \in W <=> Sets(path, n)
      /\ \A n \in 0 .. NDropIns : val[n] = (DropIn(path, n) = "on")
  BY <1>2
<1>8. /\ (\A k \in 0 .. NDropIns : k \notin W) => upto[NDropIns] = enabled
      /\ \A k \in 0 .. NDropIns :
           (k \in W /\ \A j \in k + 1 .. NDropIns : j \notin W) => upto[NDropIns] = val[k]
  <2>. HIDE DEF W, val, upto
  <2>1. QED
    BY <1>2, <1>6, LastReplaces
<1>9. \A k \in 0 .. NDropIns : \A j \in k + 1 .. NDropIns : j \in 0 .. NDropIns
  BY <1>2
<1>. HIDE DEF W, val, upto
<1>10. QED
  BY <1>1, <1>2, <1>7, <1>8, <1>9

\* A scope that domain d reads and that has the feature, or the transfer.
HasFeature(d, s) == s \in d /\ FeatureOf(ComponentSearchPaths(s)) # NoFeature
HasTransfer(d, s) == s \in d /\ TransferOf(ComponentSearchPaths(s)) # NoTransfer

\* The last scope that has the feature gives it.
LEMMA LoadFeatureIs ==
    ASSUME NEW d, d # {}
    PROVE  /\ (\A s \in Scopes : ~HasFeature(d, s)) => LoadFeature(d) = NoFeature
           /\ \A k \in Scopes :
                (HasFeature(d, k) /\ \A j \in k + 1 .. NComponents : ~HasFeature(d, j)) =>
                  LoadFeature(d) = FeatureOf(ComponentSearchPaths(k))
<1>. DEFINE put[s \in Scopes] ==
              LET f == IF s \in d THEN FeatureOf(ComponentSearchPaths(s)) ELSE NoFeature
              IN IF s = Legacy \/ f # NoFeature THEN f ELSE put[s - 1]
            W == {s \in Scopes : HasFeature(d, s)}
            val == [s \in Scopes |-> FeatureOf(ComponentSearchPaths(s))]
            Body(g) == [s \in Scopes |->
                          LET f == IF s \in d THEN FeatureOf(ComponentSearchPaths(s)) ELSE NoFeature
                          IN IF s = Legacy \/ f # NoFeature THEN f ELSE g[s - 1]]
<1>1. LoadFeature(d) = put[NComponents]
  BY DEF LoadFeature
<1>2. Scopes = 0 .. NComponents /\ NComponents \in Nat
  BY DomainAssumption DEF Scopes, Legacy
<1>3. ASSUME NEW g PROVE Replaces(g, NComponents, W, val, NoFeature) <=> g = Body(g)
  <2>1. \A s \in Scopes : Body(g)[s] = IF s \in W THEN val[s] ELSE IF s = 0 THEN NoFeature ELSE g[s - 1]
    BY DEF HasFeature, Legacy
  <2>2. Body(g) = [s \in 0 .. NComponents |-> IF s \in W THEN val[s] ELSE IF s = 0 THEN NoFeature ELSE g[s - 1]]
    BY <1>2, <2>1
  <2>3. QED
    BY <2>2 DEF Replaces
<1>4. \E g : g = Body(g)
  BY <1>2, <1>3, ReplacesExists
<1>5. put = Body(put)
  BY <1>4
<1>6. Replaces(put, NComponents, W, val, NoFeature)
  BY <1>3, <1>5
<1>7. /\ \A s \in 0 .. NComponents : s \in W <=> HasFeature(d, s)
      /\ \A s \in 0 .. NComponents : val[s] = FeatureOf(ComponentSearchPaths(s))
  BY <1>2
<1>8. /\ (\A k \in 0 .. NComponents : k \notin W) => put[NComponents] = NoFeature
      /\ \A k \in 0 .. NComponents :
           (k \in W /\ \A j \in k + 1 .. NComponents : j \notin W) => put[NComponents] = val[k]
  <2>. HIDE DEF W, val, put
  <2>1. QED
    BY <1>2, <1>6, LastReplaces
<1>9. \A k \in 0 .. NComponents : \A j \in k + 1 .. NComponents : j \in 0 .. NComponents
  BY <1>2
<1>. HIDE DEF W, val, put
<1>10. QED
  BY <1>1, <1>2, <1>7, <1>8, <1>9

\* The last scope that has a transfer gives it.
LEMMA LoadTransferIs ==
    ASSUME NEW d, d # {}
    PROVE  /\ (\A s \in Scopes : ~HasTransfer(d, s)) => LoadTransfer(d) = NoTransfer
           /\ \A k \in Scopes :
                (HasTransfer(d, k) /\ \A j \in k + 1 .. NComponents : ~HasTransfer(d, j)) =>
                  LoadTransfer(d) = TransferOf(ComponentSearchPaths(k))
<1>. DEFINE put[s \in Scopes] ==
              LET t == IF s \in d THEN TransferOf(ComponentSearchPaths(s)) ELSE NoTransfer
              IN IF s = Legacy \/ t # NoTransfer THEN t ELSE put[s - 1]
            W == {s \in Scopes : HasTransfer(d, s)}
            val == [s \in Scopes |-> TransferOf(ComponentSearchPaths(s))]
            Body(g) == [s \in Scopes |->
                          LET t == IF s \in d THEN TransferOf(ComponentSearchPaths(s)) ELSE NoTransfer
                          IN IF s = Legacy \/ t # NoTransfer THEN t ELSE g[s - 1]]
<1>1. LoadTransfer(d) = put[NComponents]
  BY DEF LoadTransfer
<1>2. Scopes = 0 .. NComponents /\ NComponents \in Nat
  BY DomainAssumption DEF Scopes, Legacy
<1>3. ASSUME NEW g PROVE Replaces(g, NComponents, W, val, NoTransfer) <=> g = Body(g)
  <2>1. \A s \in Scopes : Body(g)[s] = IF s \in W THEN val[s] ELSE IF s = 0 THEN NoTransfer ELSE g[s - 1]
    BY DEF HasTransfer, Legacy
  <2>2. Body(g) = [s \in 0 .. NComponents |-> IF s \in W THEN val[s] ELSE IF s = 0 THEN NoTransfer ELSE g[s - 1]]
    BY <1>2, <2>1
  <2>3. QED
    BY <2>2 DEF Replaces
<1>4. \E g : g = Body(g)
  BY <1>2, <1>3, ReplacesExists
<1>5. put = Body(put)
  BY <1>4
<1>6. Replaces(put, NComponents, W, val, NoTransfer)
  BY <1>3, <1>5
<1>7. /\ \A s \in 0 .. NComponents : s \in W <=> HasTransfer(d, s)
      /\ \A s \in 0 .. NComponents : val[s] = TransferOf(ComponentSearchPaths(s))
  BY <1>2
<1>8. /\ (\A k \in 0 .. NComponents : k \notin W) => put[NComponents] = NoTransfer
      /\ \A k \in 0 .. NComponents :
           (k \in W /\ \A j \in k + 1 .. NComponents : j \notin W) => put[NComponents] = val[k]
  <2>. HIDE DEF W, val, put
  <2>1. QED
    BY <1>2, <1>6, LastReplaces
<1>9. \A k \in 0 .. NComponents : \A j \in k + 1 .. NComponents : j \in 0 .. NComponents
  BY <1>2
<1>. HIDE DEF W, val, put
<1>10. QED
  BY <1>1, <1>2, <1>7, <1>8, <1>9

\* The scope a feature is loaded from, if any has it.
LEMMA FeatureFrom ==
    ASSUME NEW d, d # {}, d \subseteq Scopes
    PROVE  \/ LoadFeature(d) = NoFeature /\ \A s \in Scopes : ~HasFeature(d, s)
           \/ \E k \in Scopes : /\ HasFeature(d, k)
                                /\ \A j \in Scopes : j > k => ~HasFeature(d, j)
                                /\ LoadFeature(d) = FeatureOf(ComponentSearchPaths(k))
<1>. DEFINE W == {s \in Scopes : HasFeature(d, s)}
<1>1. Scopes = 0 .. NComponents /\ NComponents \in Nat
  BY DomainAssumption DEF Scopes, Legacy
<1>2. CASE W = {}
  BY <1>2, LoadFeatureIs
<1>3. CASE W # {}
  <2>1. W \in SUBSET (0 .. NComponents)
    BY <1>1
  <2>2. PICK k \in W : \A j \in W : j <= k
    <3>. HIDE DEF W
    <3>1. QED
      BY <1>1, <1>3, <2>1, MaxIsGreatest
  <2>3. k \in Scopes /\ HasFeature(d, k) /\ \A j \in Scopes : j > k => ~HasFeature(d, j)
    BY <1>1, <2>2
  <2>4. \A j \in k + 1 .. NComponents : ~HasFeature(d, j)
    BY <1>1, <2>3
  <2>5. QED
    BY <2>3, <2>4, LoadFeatureIs
<1>4. QED
  BY <1>2, <1>3

LEMMA TransferFrom ==
    ASSUME NEW d, d # {}, d \subseteq Scopes
    PROVE  \/ LoadTransfer(d) = NoTransfer /\ \A s \in Scopes : ~HasTransfer(d, s)
           \/ \E k \in Scopes : /\ HasTransfer(d, k)
                                /\ \A j \in Scopes : j > k => ~HasTransfer(d, j)
                                /\ LoadTransfer(d) = TransferOf(ComponentSearchPaths(k))
<1>. DEFINE W == {s \in Scopes : HasTransfer(d, s)}
<1>1. Scopes = 0 .. NComponents /\ NComponents \in Nat
  BY DomainAssumption DEF Scopes, Legacy
<1>2. CASE W = {}
  BY <1>2, LoadTransferIs
<1>3. CASE W # {}
  <2>1. W \in SUBSET (0 .. NComponents)
    BY <1>1
  <2>2. PICK k \in W : \A j \in W : j <= k
    <3>. HIDE DEF W
    <3>1. QED
      BY <1>1, <1>3, <2>1, MaxIsGreatest
  <2>3. k \in Scopes /\ HasTransfer(d, k) /\ \A j \in Scopes : j > k => ~HasTransfer(d, j)
    BY <1>1, <2>2
  <2>4. \A j \in k + 1 .. NComponents : ~HasTransfer(d, j)
    BY <1>1, <2>3
  <2>5. QED
    BY <2>3, <2>4, LoadTransferIs
<1>4. QED
  BY <1>2, <1>3

\* The first directory of a search path that has the file, or 0.
LEMMA CollectIs ==
    ASSUME NEW M \in Nat, NEW path, DOMAIN path = 1 .. M, NEW files
    PROVE  \/ /\ Collect(path, files) = 0
              /\ \A i \in 1 .. M : files[path[i]] = "none"
           \/ /\ Collect(path, files) \in 1 .. M
              /\ files[path[Collect(path, files)]] # "none"
              /\ \A i \in 1 .. M : i < Collect(path, files) => files[path[i]] = "none"
<1>. DEFINE F == {i \in DOMAIN path : files[path[i]] # "none"}
<1>1. CASE F = {}
  BY <1>1 DEF Collect, First
<1>2. CASE F # {}
  <2>1. Collect(path, files) = Min(F)
    BY <1>2 DEF Collect, First
  <2>2. F \in SUBSET Nat
    OBVIOUS
  <2>3. Min(F) \in F /\ \A i \in F : Min(F) <= i
    <3>. HIDE DEF F
    <3>1. QED
      BY <1>2, <2>2, MinIsLeast
  <2>4. Min(F) \in 1 .. M /\ files[path[Min(F)]] # "none"
    BY <2>3
  <2>5. ASSUME NEW j \in 1 .. M, j < Min(F) PROVE files[path[j]] = "none"
    <3>1. j \notin F
      <4>. HIDE DEF F
      <4>1. QED
        BY <2>2, <2>3, <2>4, <2>5
    <3>2. QED
      BY <3>1
  <2>. HIDE DEF F
  <2>6. QED
    BY <2>1, <2>4, <2>5
<1>3. QED
  BY <1>1, <1>2

LEMMA PathIs ==
    ASSUME NEW s
    PROVE  /\ NRoots \in Nat /\ NRoots # 0 /\ Roots = 1 .. NRoots
           /\ DOMAIN ComponentSearchPaths(s) = 1 .. NRoots
           /\ \A r \in Roots : ComponentSearchPaths(s)[r] = <<r, s>>
           /\ DOMAIN OverridePath = 1 .. 1 /\ OverridePath[1] = Override
  BY DomainAssumption DEF ComponentSearchPaths, OverridePath, Roots

\* What counts in a search path is what nothing is above.
LEMMA ChosenIs ==
    ASSUME NEW s, NEW files, NEW bad, "none" \notin bad
    PROVE  Chosen(ComponentSearchPaths(s), files) \in bad <=> Exposed(s, files, bad)
<1>. DEFINE path == ComponentSearchPaths(s)
            i == Collect(path, files)
<1>1. \/ i = 0 /\ \A j \in 1 .. NRoots : files[path[j]] = "none"
      \/ /\ i \in 1 .. NRoots /\ files[path[i]] # "none"
         /\ \A j \in 1 .. NRoots : j < i => files[path[j]] = "none"
  BY PathIs, CollectIs
<1>2. Chosen(path, files) = IF i = 0 THEN "none" ELSE files[path[i]]
  BY DEF Chosen
<1>3. Roots = 1 .. NRoots /\ NRoots \in Nat /\ \A r \in Roots : path[r] = <<r, s>>
  BY PathIs
<1>. HIDE DEF path, i
<1>4. CASE i = 0
  <2>1. \A r \in Roots : files[<<r, s>>] = "none"
    BY <1>1, <1>3, <1>4
  <2>2. Chosen(path, files) = "none"
    BY <1>2, <1>4
  <2>3. QED
    BY <2>1, <2>2 DEF Exposed, path
<1>5. CASE i # 0
  <2>1. /\ i \in 1 .. NRoots /\ files[<<i, s>>] # "none"
        /\ \A j \in 1 .. NRoots : j < i => files[<<j, s>>] = "none"
        /\ Chosen(path, files) = files[<<i, s>>]
    BY <1>1, <1>2, <1>3, <1>5
  <2>2. ASSUME files[<<i, s>>] \in bad PROVE Exposed(s, files, bad)
    <3>1. \A q \in 1 .. i - 1 : files[<<q, s>>] = "none"
      BY <1>3, <2>1
    <3>2. QED
      BY <1>3, <2>1, <2>2, <3>1 DEF Exposed
  <2>3. ASSUME NEW r \in Roots, files[<<r, s>>] \in bad, \A q \in 1 .. r - 1 : files[<<q, s>>] = "none"
        PROVE  r = i
    <3>1. ~(r < i)
      BY <1>3, <2>1, <2>3
    <3>2. ~(i < r)
      BY <1>3, <2>1, <2>3
    <3>3. QED
      BY <1>3, <2>1, <3>1, <3>2
  <2>4. QED
    BY <2>1, <2>2, <2>3 DEF Exposed, path
<1>6. QED
  BY <1>4, <1>5

\* Of the drop-ins of one name, Sets and "broken" are about the one that counts.
DropInFile(n) == [d \in Dirs |-> dropin[d][n]]

-----------------------------------------------------------------------------
\* Types.

Types ==
    /\ feature \in [Dirs -> FeatureFiles]
    /\ transfer \in [Dirs -> TransferFiles]
    /\ dropin \in [Dirs -> [DropIns -> DropInFiles]]
    /\ cmd \in [pc : {"idle", "write"}, domain : Domains, on : BOOLEAN, scope : Scopes,
                res : {"none", "ok", "unreadable", "missing", "masked"}, edited : BOOLEAN]

LEMMA DirTypes ==
    /\ Override \in Dirs
    /\ \A r \in Roots, s \in Scopes : <<r, s>> \in Dirs /\ <<r, s>> # Override
    /\ \A s \in Scopes : <<1, s>> \in Dirs
    /\ Legacy \in Scopes /\ NoScope \notin Scopes
    /\ UpdexDropIn \in DropIns
    /\ \A d \in Domains : d \subseteq Scopes
  BY DomainAssumption
     DEF Dirs, Roots, Scopes, Legacy, NoScope, Override, DropIns, UpdexDropIn, Domains

\* A feature that is found lies in a directory of the path it is found in, and
\* nothing of its name is above it there.
LEMMA FeatureOfIs ==
    ASSUME NEW s \in Scopes
    PROVE  LET f == FeatureOf(ComponentSearchPaths(s)) IN
             \/ /\ f = NoFeature
                /\ \A r \in Roots : feature[<<r, s>>] = "none"
             \/ \E i \in Roots :
                  /\ f.dir = <<i, s>> /\ f # NoFeature
                  /\ feature[<<i, s>>] # "none"
                  /\ \A r \in Roots : r < i => feature[<<r, s>>] = "none"
                  /\ f.masked <=> feature[<<i, s>>] = "mask"
                  /\ Chosen(ComponentSearchPaths(s), feature) = feature[<<i, s>>]
                  /\ ~f.masked => f.enabled = Applied(ComponentSearchPaths(s), feature[<<i, s>>] = "on")
<1>. DEFINE path == ComponentSearchPaths(s)
            i == Collect(path, feature)
            f == FeatureOf(path)
<1>1. \/ i = 0 /\ \A j \in 1 .. NRoots : feature[path[j]] = "none"
      \/ /\ i \in 1 .. NRoots /\ feature[path[i]] # "none"
         /\ \A j \in 1 .. NRoots : j < i => feature[path[j]] = "none"
  BY PathIs, CollectIs
<1>2. Roots = 1 .. NRoots /\ NRoots \in Nat /\ \A r \in Roots : path[r] = <<r, s>>
  BY PathIs
<1>3. f = IF i = 0 THEN NoFeature
          ELSE IF feature[path[i]] = "mask"
          THEN [dir |-> path[i], masked |-> TRUE, enabled |-> FALSE]
          ELSE [dir |-> path[i], masked |-> FALSE,
                enabled |-> Applied(path, feature[path[i]] = "on")]
  BY DEF FeatureOf
<1>4. Chosen(path, feature) = IF i = 0 THEN "none" ELSE feature[path[i]]
  BY DEF Chosen
<1>. HIDE DEF path, i, f
<1>5. CASE i = 0
  BY <1>1, <1>2, <1>3, <1>5 DEF f, path
<1>6. CASE i # 0
  <2>1. /\ i \in Roots /\ path[i] = <<i, s>> /\ feature[<<i, s>>] # "none"
        /\ \A r \in Roots : r < i => feature[<<r, s>>] = "none"
    BY <1>1, <1>2, <1>6
  <2>2. f.dir = <<i, s>>
    BY <1>3, <1>6, <2>1
  <2>3. f # NoFeature
    <3>1. <<i, s>> # <<0, NoScope>>
      BY DirTypes
    <3>2. QED
      BY <2>2, <3>1 DEF NoFeature
  <2>4. f.masked <=> feature[<<i, s>>] = "mask"
    BY <1>3, <1>6, <2>1
  <2>5. ~f.masked => f.enabled = Applied(path, feature[<<i, s>>] = "on")
    BY <1>3, <1>6, <2>1, <2>4
  <2>6. Chosen(path, feature) = feature[<<i, s>>]
    BY <1>4, <1>6, <2>1
  <2>7. QED
    BY <2>1, <2>2, <2>3, <2>4, <2>5, <2>6 DEF f, path
<1>7. QED
  BY <1>5, <1>6

LEMMA TransferOfIs ==
    ASSUME NEW s \in Scopes
    PROVE  LET t == TransferOf(ComponentSearchPaths(s)) IN
             \/ t = NoTransfer
             \/ \E i \in Roots :
                  /\ t = <<i, s>> /\ t # NoTransfer
                  /\ transfer[<<i, s>>] = "sysext"
                  /\ \A r \in Roots : r < i => transfer[<<r, s>>] = "none"
<1>. DEFINE path == ComponentSearchPaths(s)
            i == Collect(path, transfer)
            t == TransferOf(path)
<1>1. \/ i = 0 /\ \A j \in 1 .. NRoots : transfer[path[j]] = "none"
      \/ /\ i \in 1 .. NRoots /\ transfer[path[i]] # "none"
         /\ \A j \in 1 .. NRoots : j < i => transfer[path[j]] = "none"
  BY PathIs, CollectIs
<1>2. Roots = 1 .. NRoots /\ NRoots \in Nat /\ \A r \in Roots : path[r] = <<r, s>>
  BY PathIs
<1>3. t = IF i = 0 \/ transfer[path[i]] # "sysext" THEN NoTransfer ELSE path[i]
  BY DEF TransferOf
<1>. HIDE DEF path, i, t
<1>4. CASE i = 0 \/ transfer[path[i]] # "sysext"
  BY <1>3, <1>4 DEF t, path
<1>5. CASE i # 0 /\ transfer[path[i]] = "sysext"
  <2>1. /\ i \in Roots /\ path[i] = <<i, s>> /\ transfer[<<i, s>>] = "sysext"
        /\ \A r \in Roots : r < i => transfer[<<r, s>>] = "none"
    BY <1>1, <1>2, <1>5
  <2>2. t = <<i, s>>
    BY <1>3, <1>5, <2>1
  <2>3. t # NoTransfer
    BY <2>2, DirTypes DEF NoTransfer
  <2>4. QED
    BY <2>1, <2>2, <2>3 DEF t, path
<1>6. QED
  BY <1>4, <1>5

\* A --definitions directory is a search path of its own.
LEMMA OverrideIs ==
    /\ FeatureOf(OverridePath) = NoFeature \/ FeatureOf(OverridePath).dir = Override
    /\ TransferOf(OverridePath) \in {NoTransfer, Override}
<1>1. DOMAIN OverridePath = 1 .. 1 /\ OverridePath[1] = Override
  BY PathIs
<1>2. \A files : Collect(OverridePath, files) = 0 \/ Collect(OverridePath, files) \in 1 .. 1
  <2>1. 1 \in Nat
    OBVIOUS
  <2>2. QED
    BY <1>1, <2>1, CollectIs
<1>3. Collect(OverridePath, feature) \in {0, 1} /\ Collect(OverridePath, transfer) \in {0, 1}
  BY <1>2
<1>4. QED
  BY <1>1, <1>3 DEF FeatureOf, TransferOf

LEMMA LoadedScope ==
    ASSUME NEW d \in Domains, LoadFeature(d) # NoFeature
    PROVE  ComponentOf(LoadFeature(d).dir) \in Scopes
<1>1. CASE d = {}
  <2>1. LoadFeature(d) = FeatureOf(OverridePath)
    BY <1>1 DEF LoadFeature
  <2>2. LoadFeature(d).dir = Override
    BY <2>1, OverrideIs
  <2>3. QED
    BY <2>2, DirTypes DEF ComponentOf, Override
<1>2. CASE d # {}
  <2>1. PICK k \in Scopes : HasFeature(d, k) /\ LoadFeature(d) = FeatureOf(ComponentSearchPaths(k))
    BY <1>2, FeatureFrom, DirTypes
  <2>2. PICK i \in Roots : LoadFeature(d).dir = <<i, k>>
    BY <2>1, FeatureOfIs DEF HasFeature
  <2>3. QED
    BY <2>2 DEF ComponentOf
<1>3. QED
  BY <1>1, <1>2

LEMMA InitTypes == Init => Types
<1>. SUFFICES ASSUME Init PROVE Types
  OBVIOUS
<1>1. feature \in [Dirs -> FeatureFiles] /\ transfer \in [Dirs -> TransferFiles]
  BY DEF Init, FeatureFiles, TransferFiles
<1>2. dropin \in [Dirs -> [DropIns -> DropInFiles]]
  BY DEF Init, DropInFiles
<1>3. Scopes \in Domains
  BY DEF Domains
<1>4. QED
  BY <1>1, <1>2, <1>3, DirTypes DEF Init, Types, NoCommand

LEMMA NextTypes == Types /\ [Next]_vars => Types'
<1>. SUFFICES ASSUME Types, [Next]_vars PROVE Types'
  OBVIOUS
<1>1. ASSUME NEW d \in Domains, NEW on \in BOOLEAN, Begin(d, on) PROVE Types'
  <2>. DEFINE f == LoadFeature(d)
              res == IF LoadFails(d) THEN "unreadable"
                     ELSE IF f = NoFeature THEN "missing"
                     ELSE IF f.masked THEN "masked" ELSE "none"
  <2>1. CASE res = "none"
    <3>1. cmd' = [pc |-> "write", domain |-> d, on |-> on, scope |-> ComponentOf(f.dir),
                  res |-> res, edited |-> FALSE]
      BY <1>1, <2>1 DEF Begin
    <3>2. ComponentOf(f.dir) \in Scopes
      BY <2>1, LoadedScope
    <3>3. QED
      BY <1>1, <2>1, <3>1, <3>2 DEF Begin, Types, definitions
  <2>2. CASE res # "none"
    <3>1. cmd' = [NoCommand EXCEPT !.res = res]
      BY <1>1, <2>2 DEF Begin
    <3>2. res \in {"unreadable", "missing", "masked"}
      BY <2>2
    <3>3. Scopes \in Domains
      BY DEF Domains
    <3>. HIDE DEF res
    <3>4. QED
      BY <1>1, <3>1, <3>2, <3>3, DirTypes DEF Begin, Types, definitions, NoCommand
  <2>3. QED
    BY <2>1, <2>2
<1>2. CASE WriteDropIn
  BY <1>2 DEF WriteDropIn, Types, DropInFiles
<1>3. ASSUME NEW d \in Dirs, Edit(d) PROVE Types'
  <2>1. feature' = feature \/ \E x \in FeatureFiles : feature' = [feature EXCEPT ![d] = x]
    BY <1>3 DEF Edit
  <2>2. transfer' = transfer \/ \E x \in TransferFiles : transfer' = [transfer EXCEPT ![d] = x]
    BY <1>3 DEF Edit
  <2>3. dropin' = dropin \/ \E n \in DropIns, x \in DropInFiles : dropin' = [dropin EXCEPT ![d][n] = x]
    BY <1>3 DEF Edit
  <2>4. PICK e \in BOOLEAN : e = (cmd.pc = "write" \/ cmd.res = "ok")
    OBVIOUS
  <2>5. cmd' = [cmd EXCEPT !.edited = e]
    BY <1>3, <2>4 DEF Edit
  <2>6. feature' \in [Dirs -> FeatureFiles] /\ transfer' \in [Dirs -> TransferFiles]
    BY <2>1, <2>2 DEF Types
  <2>7. dropin' \in [Dirs -> [DropIns -> DropInFiles]]
    <3>1. ASSUME NEW n \in DropIns, NEW x \in DropInFiles
          PROVE  [dropin EXCEPT ![d][n] = x] \in [Dirs -> [DropIns -> DropInFiles]]
      <4>1. dropin[d] \in [DropIns -> DropInFiles]
        BY DEF Types
      <4>2. [dropin[d] EXCEPT ![n] = x] \in [DropIns -> DropInFiles]
        BY <4>1
      <4>3. QED
        BY <4>2 DEF Types
    <3>2. CASE dropin' = dropin
      BY <3>2 DEF Types
    <3>3. CASE \E n \in DropIns, x \in DropInFiles : dropin' = [dropin EXCEPT ![d][n] = x]
      <4>1. PICK n \in DropIns, x \in DropInFiles : dropin' = [dropin EXCEPT ![d][n] = x]
        BY <3>3
      <4>2. QED
        BY <3>1, <4>1
    <3>4. QED
      BY <2>3, <3>2, <3>3
  <2>8. cmd' \in [pc : {"idle", "write"}, domain : Domains, on : BOOLEAN, scope : Scopes,
                 res : {"none", "ok", "unreadable", "missing", "masked"}, edited : BOOLEAN]
    BY <2>5 DEF Types
  <2>9. QED
    BY <2>6, <2>7, <2>8 DEF Types
<1>4. CASE UNCHANGED vars
  BY <1>4 DEF Types, vars, definitions
<1>5. QED
  BY <1>1, <1>2, <1>3, <1>4 DEF Next

LEMMA TypesAlways == Spec => []Types
  BY InitTypes, NextTypes, PTL DEF Spec
-----------------------------------------------------------------------------
\* What a load promises of any definitions.

LEMMA Contained == Types => BrokenIsContained
<1>. SUFFICES ASSUME Types, NEW d \in Domains, d # {}
              PROVE  LoadFails(d) <=> \E s \in d : ExposedBroken(s)
  BY DEF BrokenIsContained
<1>1. d \subseteq Scopes
  BY DirTypes
<1>2. LoadFails(d) <=> \E s \in d : FeatureFails(ComponentSearchPaths(s)) \/ TransferFails(ComponentSearchPaths(s))
  BY DEF LoadFails, PathsOf
<1>3. ASSUME NEW s \in d
      PROVE  FeatureFails(ComponentSearchPaths(s)) \/ TransferFails(ComponentSearchPaths(s)) <=> ExposedBroken(s)
  <2>. DEFINE path == ComponentSearchPaths(s)
              f == Chosen(path, feature)
  <2>1. f \in FeatureFiles
    <3>1. f = "none" \/ \E i \in Roots : f = feature[path[i]]
      BY PathIs, CollectIs DEF Chosen
    <3>2. \A i \in Roots : path[i] \in Dirs
      <4>1. \A i \in Roots : path[i] = <<i, s>> /\ <<i, s>> \in Dirs
        BY <1>1, DirTypes DEF ComponentSearchPaths
      <4>2. QED
        BY <4>1
    <3>3. QED
      BY <3>1, <3>2 DEF Types, FeatureFiles
  <2>2. f \in {"broken"} <=> Exposed(s, feature, {"broken"})
    BY ChosenIs
  <2>3. f \in {"off", "on"} <=> Exposed(s, feature, {"off", "on"})
    BY ChosenIs
  <2>4. Chosen(path, transfer) \in {"broken"} <=> Exposed(s, transfer, {"broken"})
    BY ChosenIs
  <2>5. \A n \in DropIns : DropIn(path, n) \in {"broken"} <=> Exposed(s, [e \in Dirs |-> dropin[e][n]], {"broken"})
    BY ChosenIs DEF DropIn
  <2>. HIDE DEF path, f
  <2>6. FeatureFails(path) <=> f = "broken" \/ (f \in {"off", "on"} /\ \E n \in DropIns : DropIn(path, n) = "broken")
    BY <2>1 DEF FeatureFails, FeatureFiles, f
  <2>7. TransferFails(path) <=> Chosen(path, transfer) \in {"broken"}
    BY DEF TransferFails
  <2>8. QED
    BY <2>2, <2>3, <2>4, <2>5, <2>6, <2>7 DEF ExposedBroken, path
<1>4. QED
  BY <1>2, <1>3

LEMMA Masks == MaskHolds
<1>. SUFFICES ASSUME NEW d \in Domains
              PROVE  LET f == LoadFeature(d)
                         t == Updated(d)
                         above(dir) == {<<r, dir[2]>> : r \in 1 .. dir[1] - 1}
                     IN /\ f.masked => t = NoTransfer
                        /\ f # NoFeature => \A e \in above(f.dir) : feature[e] = "none"
                        /\ t # NoTransfer => \A e \in above(t) : transfer[e] = "none"
  BY DEF MaskHolds
<1>. DEFINE f == LoadFeature(d)
            t == Updated(d)
            above(dir) == {<<r, dir[2]>> : r \in 1 .. dir[1] - 1}
<1>1. f.masked => t = NoTransfer
  BY DEF Updated
<1>2. t # NoTransfer => t = LoadTransfer(d)
  BY DEF Updated
<1>3. above(Override) = {}
  BY DEF Override
<1>4. ASSUME NEW i \in Roots, NEW k \in Scopes
      PROVE  above(<<i, k>>) = {<<r, k>> : r \in 1 .. i - 1} /\ \A r \in 1 .. i - 1 : r \in Roots /\ r < i
  BY PathIs
<1>. HIDE DEF t, above
<1>5. f # NoFeature => \A e \in above(f.dir) : feature[e] = "none"
  <2>1. CASE d = {}
    <3>1. f = FeatureOf(OverridePath)
      BY <2>1 DEF LoadFeature
    <3>2. QED
      BY <1>3, <3>1, OverrideIs
  <2>2. CASE d # {}
    <3>. SUFFICES ASSUME f # NoFeature PROVE \A e \in above(f.dir) : feature[e] = "none"
      OBVIOUS
    <3>1. PICK k \in Scopes : HasFeature(d, k) /\ f = FeatureOf(ComponentSearchPaths(k))
      BY <2>2, FeatureFrom, DirTypes
    <3>2. PICK i \in Roots : f.dir = <<i, k>> /\ \A r \in Roots : r < i => feature[<<r, k>>] = "none"
      BY <3>1, FeatureOfIs DEF HasFeature
    <3>3. QED
      BY <1>4, <3>2
  <2>3. QED
    BY <2>1, <2>2
<1>6. t # NoTransfer => \A e \in above(t) : transfer[e] = "none"
  <2>. SUFFICES ASSUME t # NoTransfer PROVE \A e \in above(t) : transfer[e] = "none"
    OBVIOUS
  <2>1. CASE d = {}
    <3>1. t = TransferOf(OverridePath)
      BY <1>2, <2>1 DEF LoadTransfer
    <3>2. t = Override
      BY <3>1, OverrideIs
    <3>3. QED
      BY <1>3, <3>2
  <2>2. CASE d # {}
    <3>1. PICK k \in Scopes : HasTransfer(d, k) /\ t = TransferOf(ComponentSearchPaths(k))
      BY <1>2, <2>2, TransferFrom, DirTypes
    <3>2. PICK i \in Roots : t = <<i, k>> /\ \A r \in Roots : r < i => transfer[<<r, k>>] = "none"
      BY <3>1, TransferOfIs
    <3>3. QED
      BY <1>4, <3>2
  <2>3. QED
    BY <2>1, <2>2
<1>7. QED
  BY <1>1, <1>5, <1>6 DEF t, above

LEMMA Specific == UnionIsMostSpecific
<1>. DEFINE usable(s) == TransferOf(ComponentSearchPaths(s)) # NoTransfer
            t == LoadTransfer(Scopes)
<1>1. Scopes # {}
  BY DirTypes
<1>2. \A s \in Scopes : HasTransfer(Scopes, s) <=> usable(s)
  BY DEF HasTransfer
<1>3. CASE ~\E s \in Scopes : usable(s)
  <2>1. t = NoTransfer
    BY <1>1, <1>2, <1>3, TransferFrom
  <2>2. QED
    BY <1>3, <2>1 DEF UnionIsMostSpecific
<1>4. CASE \E s \in Scopes : usable(s)
  <2>1. PICK k \in Scopes : /\ HasTransfer(Scopes, k)
                            /\ \A j \in Scopes : j > k => ~HasTransfer(Scopes, j)
                            /\ t = TransferOf(ComponentSearchPaths(k))
    BY <1>1, <1>2, <1>4, TransferFrom
  <2>2. PICK i \in Roots : t = <<i, k>> /\ transfer[<<i, k>>] = "sysext"
    BY <1>2, <2>1, TransferOfIs
  <2>3. t[2] = k /\ usable(k) /\ transfer[t] = "sysext"
    <3>. HIDE DEF usable, t
    <3>1. QED
      BY <1>2, <2>1, <2>2
  <2>4. \A s \in Scopes : usable(s) => s <= k
    BY <1>2, <2>1, DomainAssumption DEF Scopes, Legacy
  <2>. HIDE DEF t
  <2>5. QED
    BY <1>4, <2>3, <2>4 DEF UnionIsMostSpecific, t
<1>5. QED
  BY <1>3, <1>4

-----------------------------------------------------------------------------
\* Across a step.  What AppliedIs, FeatureOfIs and FeatureFrom say holds of the
\* next state, too.

AppliedFact ==
    \A path, enabled :
      /\ (\A n \in DropIns : ~Sets(path, n)) => Applied(path, enabled) = enabled
      /\ \A k \in DropIns :
           (Sets(path, k) /\ \A j \in k + 1 .. NDropIns : ~Sets(path, j)) =>
             Applied(path, enabled) = (DropIn(path, k) = "on")

FoundFact ==
    \A s \in Scopes :
      LET f == FeatureOf(ComponentSearchPaths(s)) IN
        \/ f = NoFeature /\ \A r \in Roots : feature[<<r, s>>] = "none"
        \/ \E i \in Roots :
             /\ f.dir = <<i, s>> /\ f # NoFeature
             /\ feature[<<i, s>>] # "none"
             /\ \A r \in Roots : r < i => feature[<<r, s>>] = "none"
             /\ f.masked <=> feature[<<i, s>>] = "mask"
             /\ ~f.masked => f.enabled = Applied(ComponentSearchPaths(s), feature[<<i, s>>] = "on")

LoadedFact ==
    \A d \in Domains \ {{}} :
      \/ LoadFeature(d) = NoFeature /\ \A s \in Scopes : ~HasFeature(d, s)
      \/ \E k \in Scopes : /\ HasFeature(d, k)
                           /\ \A j \in Scopes : j > k => ~HasFeature(d, j)
                           /\ LoadFeature(d) = FeatureOf(ComponentSearchPaths(k))

LEMMA Facts == AppliedFact /\ FoundFact /\ LoadedFact
<1>1. AppliedFact
  BY AppliedIs DEF AppliedFact
<1>2. FoundFact
  BY FeatureOfIs DEF FoundFact
<1>3. LoadedFact
  BY FeatureFrom, DirTypes DEF LoadedFact
<1>4. QED
  BY <1>1, <1>2, <1>3

LEMMA FactsNext == AppliedFact' /\ FoundFact' /\ LoadedFact'
  BY Facts, PTL

\* The numbers the names of drop-ins sort by.
LEMMA DropInNumbers ==
    /\ NDropIns \in Nat /\ DropIns = 0 .. NDropIns /\ UpdexDropIn = 0
    /\ \A k \in DropIns : k + 1 .. NDropIns \subseteq DropIns \ {UpdexDropIn}
  BY DomainAssumption DEF DropIns, UpdexDropIn

\* A last one of some drop-ins.
LEMMA LastDropIn ==
    ASSUME NEW W \in SUBSET DropIns, W # {}
    PROVE  \E k \in W : \A j \in k + 1 .. NDropIns : j \notin W
<1>1. NDropIns \in Nat /\ W \in SUBSET (0 .. NDropIns)
  BY DropInNumbers
<1>2. PICK k \in W : \A y \in W : y <= k
  BY <1>1, MaxIsGreatest
<1>3. \A j \in k + 1 .. NDropIns : ~(j <= k)
  BY <1>1
<1>4. QED
  BY <1>2, <1>3

\* The state of a feature does not change where updex's drop-in, the first, is
\* the only one that does, and another says something.
LEMMA AppliedSame ==
    ASSUME NEW path,
           \A n \in DropIns \ {UpdexDropIn} : DropIn(path, n)' = DropIn(path, n),
           \/ DropIn(path, UpdexDropIn)' = DropIn(path, UpdexDropIn)
           \/ \E n \in DropIns \ {UpdexDropIn} : Sets(path, n)
    PROVE  \A enabled : Applied(path, enabled)' = Applied(path, enabled)
<1>. SUFFICES ASSUME NEW enabled PROVE Applied(path, enabled)' = Applied(path, enabled)
  OBVIOUS
<1>. DEFINE W == {n \in DropIns : Sets(path, n)}
<1>1. \A n \in DropIns \ {UpdexDropIn} : Sets(path, n)' <=> Sets(path, n)
  BY DEF Sets
<1>2. CASE W = {}
  <2>1. \A n \in DropIns : ~Sets(path, n) /\ ~Sets(path, n)'
    BY <1>1, <1>2 DEF Sets
  <2>2. Applied(path, enabled) = enabled
    BY <2>1, Facts DEF AppliedFact
  <2>3. Applied(path, enabled)' = enabled
    BY <2>1, FactsNext DEF AppliedFact
  <2>4. QED
    BY <2>2, <2>3
<1>3. CASE W # {}
  <2>1. PICK k \in W : \A j \in k + 1 .. NDropIns : j \notin W
    <3>1. W \in SUBSET DropIns
      OBVIOUS
    <3>. HIDE DEF W
    <3>2. QED
      BY <1>3, <3>1, LastDropIn
  <2>2. k \in DropIns /\ Sets(path, k) /\ \A j \in k + 1 .. NDropIns : j \in DropIns \ {UpdexDropIn} /\ ~Sets(path, j)
    BY <2>1, DropInNumbers
  <2>3. DropIn(path, k)' = DropIn(path, k)
    <3>1. CASE k # UpdexDropIn
      BY <2>2, <3>1
    <3>2. CASE k = UpdexDropIn
      <4>1. \A n \in DropIns \ {UpdexDropIn} : n \in k + 1 .. NDropIns
        BY <3>2, DropInNumbers
      <4>2. QED
        BY <2>2, <3>2, <4>1
    <3>3. QED
      BY <3>1, <3>2
  <2>4. Sets(path, k)' /\ \A j \in k + 1 .. NDropIns : ~Sets(path, j)'
    BY <1>1, <2>2, <2>3 DEF Sets
  <2>5. Applied(path, enabled) = (DropIn(path, k) = "on")
    BY <2>2, Facts DEF AppliedFact
  <2>6. Applied(path, enabled)' = (DropIn(path, k)' = "on")
    BY <2>2, <2>4, FactsNext DEF AppliedFact
  <2>7. QED
    BY <2>3, <2>5, <2>6
<1>4. QED
  BY <1>2, <1>3

LEMMA FeatureSame ==
    ASSUME NEW path, UNCHANGED feature,
           \A enabled : Applied(path, enabled)' = Applied(path, enabled)
    PROVE  FeatureOf(path)' = FeatureOf(path)
  BY DEF FeatureOf

LEMMA LoadSame ==
    ASSUME NEW d \in Domains \ {{}},
           \A s \in Scopes : FeatureOf(ComponentSearchPaths(s))' = FeatureOf(ComponentSearchPaths(s))
    PROVE  LoadFeature(d)' = LoadFeature(d)
<1>1. \A s \in Scopes : HasFeature(d, s)' <=> HasFeature(d, s)
  BY DEF HasFeature
<1>2. \/ LoadFeature(d) = NoFeature /\ \A s \in Scopes : ~HasFeature(d, s)
      \/ \E k \in Scopes : /\ HasFeature(d, k)
                           /\ \A j \in Scopes : j > k => ~HasFeature(d, j)
                           /\ LoadFeature(d) = FeatureOf(ComponentSearchPaths(k))
  BY Facts DEF LoadedFact
<1>3. \/ LoadFeature(d)' = NoFeature /\ \A s \in Scopes : ~HasFeature(d, s)'
      \/ \E k \in Scopes : /\ HasFeature(d, k)'
                           /\ \A j \in Scopes : j > k => ~HasFeature(d, j)'
                           /\ LoadFeature(d)' = FeatureOf(ComponentSearchPaths(k))'
  BY FactsNext DEF LoadedFact
<1>4. \A j, k \in Scopes : j > k \/ k > j \/ j = k
  BY DomainAssumption DEF Scopes, Legacy
<1>5. QED
  BY <1>1, <1>2, <1>3, <1>4

\* What counts of the files of one name, when those in a path are the same.
LEMMA ChosenSame ==
    ASSUME NEW M \in Nat, NEW path, DOMAIN path = 1 .. M, NEW old, NEW new,
           \A i \in 1 .. M : new[path[i]] = old[path[i]]
    PROVE  Chosen(path, new) = Chosen(path, old)
<1>1. \/ Collect(path, old) = 0 /\ \A i \in 1 .. M : old[path[i]] = "none"
      \/ /\ Collect(path, old) \in 1 .. M /\ old[path[Collect(path, old)]] # "none"
         /\ \A i \in 1 .. M : i < Collect(path, old) => old[path[i]] = "none"
  BY CollectIs
<1>2. \/ Collect(path, new) = 0 /\ \A i \in 1 .. M : new[path[i]] = "none"
      \/ /\ Collect(path, new) \in 1 .. M /\ new[path[Collect(path, new)]] # "none"
         /\ \A i \in 1 .. M : i < Collect(path, new) => new[path[i]] = "none"
  BY CollectIs
<1>3. Collect(path, new) = Collect(path, old)
  BY <1>1, <1>2
<1>4. QED
  BY <1>1, <1>3 DEF Chosen

\* writeFeatureDropIn writes the one file of that name that counts in its scope,
\* and touches no other that any search path has.
LEMMA Written ==
    ASSUME Types, WriteDropIn
    PROVE  /\ \A s \in Scopes, n \in DropIns :
                (s # cmd.scope \/ n # UpdexDropIn) =>
                  DropIn(ComponentSearchPaths(s), n)' = DropIn(ComponentSearchPaths(s), n)
           /\ \A n \in DropIns : DropIn(OverridePath, n)' = DropIn(OverridePath, n)
           /\ \A s \in Scopes :
                s = cmd.scope => DropIn(ComponentSearchPaths(s), UpdexDropIn)' = IF cmd.on THEN "on" ELSE "off"
<1>. DEFINE value == IF cmd.on THEN "on" ELSE "off"
            old(n) == [e \in Dirs |-> dropin[e][n]]
            new(n) == [e \in Dirs |-> dropin'[e][n]]
<1>1. cmd.scope \in Scopes /\ <<1, cmd.scope>> \in Dirs
  BY DirTypes DEF Types
<1>2. \A e \in Dirs, n \in DropIns :
        dropin'[e][n] = IF e = <<1, cmd.scope>> /\ n = UpdexDropIn THEN value ELSE dropin[e][n]
  BY DEF WriteDropIn, Types
<1>3. \A path, n : DropIn(path, n) = Chosen(path, old(n)) /\ DropIn(path, n)' = Chosen(path, new(n))
  BY DEF DropIn
<1>4. NRoots \in Nat /\ NRoots # 0 /\ Roots = 1 .. NRoots
  BY PathIs
<1>5. \A s \in Scopes : /\ DOMAIN ComponentSearchPaths(s) = 1 .. NRoots
                        /\ \A r \in 1 .. NRoots : ComponentSearchPaths(s)[r] = <<r, s>> /\ <<r, s>> \in Dirs
  BY <1>4, DirTypes DEF ComponentSearchPaths
<1>. HIDE DEF value
<1>6. ASSUME NEW s \in Scopes, NEW n \in DropIns, s # cmd.scope \/ n # UpdexDropIn
      PROVE  DropIn(ComponentSearchPaths(s), n)' = DropIn(ComponentSearchPaths(s), n)
  <2>1. ASSUME NEW r \in 1 .. NRoots
        PROVE  new(n)[ComponentSearchPaths(s)[r]] = old(n)[ComponentSearchPaths(s)[r]]
    <3>1. ComponentSearchPaths(s)[r] = <<r, s>> /\ <<r, s>> \in Dirs
      BY <1>5
    <3>2. dropin'[<<r, s>>][n] = dropin[<<r, s>>][n]
      BY <1>2, <1>6, <3>1
    <3>3. QED
      BY <3>1, <3>2
  <2>. HIDE DEF new, old
  <2>2. Chosen(ComponentSearchPaths(s), new(n)) = Chosen(ComponentSearchPaths(s), old(n))
    BY <1>4, <1>5, <2>1, ChosenSame
  <2>3. QED
    BY <1>3, <2>2
<1>7. ASSUME NEW n \in DropIns
      PROVE  DropIn(OverridePath, n)' = DropIn(OverridePath, n)
  <2>1. DOMAIN OverridePath = 1 .. 1 /\ OverridePath[1] = Override /\ Override \in Dirs /\ Override # <<1, cmd.scope>>
    BY PathIs, DirTypes DEF Override
  <2>2. PICK M \in Nat : M = 1
    OBVIOUS
  <2>3. ASSUME NEW r \in 1 .. M
        PROVE  new(n)[OverridePath[r]] = old(n)[OverridePath[r]]
    <3>1. r = 1
      BY <2>2
    <3>2. QED
      BY <1>2, <2>1, <3>1
  <2>4. DOMAIN OverridePath = 1 .. M
    BY <2>1, <2>2
  <2>. HIDE DEF new, old
  <2>5. Chosen(OverridePath, new(n)) = Chosen(OverridePath, old(n))
    BY <2>3, <2>4, ChosenSame
  <2>6. QED
    BY <1>3, <2>5
<1>8. ASSUME NEW s \in Scopes, s = cmd.scope
      PROVE  DropIn(ComponentSearchPaths(s), UpdexDropIn)' = value
  <2>. DEFINE path == ComponentSearchPaths(s)
              f == new(UpdexDropIn)
  <2>1. f[path[1]] = value /\ value # "none"
    BY <1>1, <1>2, <1>4, <1>5, <1>8, DirTypes DEF value
  <2>2. DOMAIN path = 1 .. NRoots /\ 1 \in 1 .. NRoots
    BY <1>4, <1>5
  <2>. HIDE DEF f, path
  <2>3. Collect(path, f) = 1
    <3>1. \/ Collect(path, f) = 0 /\ \A i \in 1 .. NRoots : f[path[i]] = "none"
          \/ /\ Collect(path, f) \in 1 .. NRoots /\ f[path[Collect(path, f)]] # "none"
             /\ \A i \in 1 .. NRoots : i < Collect(path, f) => f[path[i]] = "none"
      BY <1>4, <2>2, CollectIs
    <3>2. QED
      BY <1>4, <2>1, <2>2, <3>1
  <2>4. Chosen(path, f) = value
    BY <2>1, <2>3 DEF Chosen
  <2>5. QED
    BY <1>3, <2>4 DEF f, path
<1>9. QED
  BY <1>6, <1>7, <1>8 DEF value

LEMMA WriteDecides ==
    ASSUME Types, WriteDropIn
    PROVE  /\ \A s \in Scopes : (Pinned(s) \/ s # cmd.scope) =>
                FeatureOf(ComponentSearchPaths(s))' = FeatureOf(ComponentSearchPaths(s))
           /\ LoadFeature({})' = LoadFeature({})
<1>1. UNCHANGED feature
  BY DEF WriteDropIn
<1>2. UpdexDropIn \in DropIns
  BY DirTypes
<1>3. ASSUME NEW s \in Scopes, Pinned(s) \/ s # cmd.scope
      PROVE  FeatureOf(ComponentSearchPaths(s))' = FeatureOf(ComponentSearchPaths(s))
  <2>1. \A n \in DropIns \ {UpdexDropIn} :
          DropIn(ComponentSearchPaths(s), n)' = DropIn(ComponentSearchPaths(s), n)
    BY Written
  <2>2. \/ DropIn(ComponentSearchPaths(s), UpdexDropIn)' = DropIn(ComponentSearchPaths(s), UpdexDropIn)
        \/ \E n \in DropIns \ {UpdexDropIn} : Sets(ComponentSearchPaths(s), n)
    BY <1>2, <1>3, Written DEF Pinned, Sets
  <2>3. \A enabled : Applied(ComponentSearchPaths(s), enabled)' = Applied(ComponentSearchPaths(s), enabled)
    BY <2>1, <2>2, AppliedSame
  <2>4. QED
    BY <1>1, <2>3, FeatureSame
<1>4. FeatureOf(OverridePath)' = FeatureOf(OverridePath)
  <2>1. \A n \in DropIns : DropIn(OverridePath, n)' = DropIn(OverridePath, n)
    BY Written
  <2>2. \A enabled : Applied(OverridePath, enabled)' = Applied(OverridePath, enabled)
    BY <1>2, <2>1, AppliedSame
  <2>3. QED
    BY <1>1, <2>2, FeatureSame
<1>5. LoadFeature({})' = LoadFeature({})
  BY <1>4 DEF LoadFeature
<1>6. QED
  BY <1>3, <1>5

\* Nothing is written and nothing edited.
LEMMA SameDefinitions ==
    ASSUME Types, Types', UNCHANGED definitions, NEW d \in Domains \ {{}}
    PROVE  /\ LoadFails(d)' <=> LoadFails(d)
           /\ LoadFeature(d)' = LoadFeature(d)
           /\ \A s \in Scopes : Pinned(s)' <=> Pinned(s)
<1>1. UNCHANGED <<feature, transfer, dropin>>
  BY DEF definitions
<1>2. \A path, n : DropIn(path, n)' = DropIn(path, n)
  BY <1>1 DEF DropIn
<1>3. \A s \in Scopes : FeatureOf(ComponentSearchPaths(s))' = FeatureOf(ComponentSearchPaths(s))
  BY <1>1, <1>2, AppliedSame, FeatureSame
<1>4. LoadFeature(d)' = LoadFeature(d)
  BY <1>3, LoadSame
<1>5. \A s : ExposedBroken(s)' <=> ExposedBroken(s)
  BY <1>1 DEF ExposedBroken
<1>6. (LoadFails(d) <=> \E s \in d : ExposedBroken(s)) /\ (LoadFails(d)' <=> \E s \in d : ExposedBroken(s)')
  <2>1. Types' => BrokenIsContained'
    BY Contained, PTL
  <2>2. QED
    BY <2>1, Contained DEF BrokenIsContained
<1>7. \A s \in Scopes : Pinned(s)' <=> Pinned(s)
  BY <1>2 DEF Pinned
<1>8. QED
  BY <1>4, <1>5, <1>6, <1>7

\* The definitions a command has loaded, and the file it is about to write.
LoadedInv ==
    (cmd.pc = "write" /\ ~cmd.edited /\ cmd.domain # {}) =>
      /\ ~LoadFails(cmd.domain)
      /\ LoadFeature(cmd.domain) # NoFeature
      /\ ~LoadFeature(cmd.domain).masked
      /\ ComponentOf(LoadFeature(cmd.domain).dir) = cmd.scope

\* What it has written counts.
LEMMA WriteTakesEffect ==
    ASSUME Types, LoadedInv, WriteDropIn
    PROVE  EnableTakesEffect'
<1>1. PICK c \in Scopes, d \in Domains : c = cmd.scope /\ d = cmd.domain
  BY DEF Types
<1>2. /\ cmd.pc = "write" /\ UNCHANGED <<feature, transfer>>
      /\ cmd'.scope = c /\ cmd'.domain = d /\ cmd'.on = cmd.on /\ cmd'.edited = cmd.edited
  BY <1>1 DEF WriteDropIn, Types
<1>3. CASE cmd.edited \/ d = {}
  BY <1>1, <1>2, <1>3 DEF EnableTakesEffect
<1>4. CASE ~cmd.edited /\ d # {}
  <2>1. /\ ~LoadFails(d) /\ LoadFeature(d) # NoFeature
        /\ ~LoadFeature(d).masked /\ ComponentOf(LoadFeature(d).dir) = c
    BY <1>1, <1>2, <1>4 DEF LoadedInv
  <2>2. /\ \A s \in Scopes, n \in DropIns :
             (s # c \/ n # UpdexDropIn) =>
               DropIn(ComponentSearchPaths(s), n)' = DropIn(ComponentSearchPaths(s), n)
        /\ DropIn(ComponentSearchPaths(c), UpdexDropIn)' = IF cmd.on THEN "on" ELSE "off"
    BY <1>1, Written
  <2>3. ~LoadFails(d)'
    <3>1. \A s \in d : ~ExposedBroken(s)
      BY <1>4, <2>1, Contained DEF BrokenIsContained
    <3>2. Types' => BrokenIsContained'
      BY Contained, PTL
    <3>3. Types'
      BY NextTypes DEF Next
    <3>4. LoadFails(d)' <=> \E s \in d : ExposedBroken(s)'
      BY <1>4, <3>2, <3>3 DEF BrokenIsContained
    <3>5. ASSUME NEW s \in d, ExposedBroken(s)' PROVE ExposedBroken(s)
      <4>1. s \in Scopes
        BY DirTypes
      <4>2. ASSUME NEW n \in DropIns, Exposed(s, [e \in Dirs |-> dropin[e][n]], {"broken"})'
            PROVE  Exposed(s, [e \in Dirs |-> dropin[e][n]], {"broken"})
        <5>1. DropIn(ComponentSearchPaths(s), n)' = "broken"
          BY <4>2, ChosenIs DEF DropIn
        <5>2. DropIn(ComponentSearchPaths(s), n)' = DropIn(ComponentSearchPaths(s), n)
          BY <2>2, <4>1, <5>1
        <5>3. DropIn(ComponentSearchPaths(s), n) \in {"broken"}
          BY <5>1, <5>2
        <5>4. QED
          BY <5>3, ChosenIs DEF DropIn
      <4>3. QED
        BY <1>2, <3>5, <4>2 DEF ExposedBroken
    <3>6. QED
      BY <3>1, <3>4, <3>5
  <2>4. \A s \in Scopes : HasFeature(d, s)' <=> HasFeature(d, s)
    <3>1. \A s \in Scopes :
            FeatureOf(ComponentSearchPaths(s)) = NoFeature <=> \A r \in Roots : feature[<<r, s>>] = "none"
      BY Facts DEF FoundFact
    <3>2. \A s \in Scopes :
            FeatureOf(ComponentSearchPaths(s))' = NoFeature <=> \A r \in Roots : feature'[<<r, s>>] = "none"
      BY FactsNext DEF FoundFact
    <3>3. QED
      BY <1>2, <3>1, <3>2 DEF HasFeature
  <2>5. /\ HasFeature(d, c) /\ \A j \in Scopes : j > c => ~HasFeature(d, j)
        /\ LoadFeature(d) = FeatureOf(ComponentSearchPaths(c))
    <3>1. PICK k \in Scopes : /\ HasFeature(d, k)
                              /\ \A j \in Scopes : j > k => ~HasFeature(d, j)
                              /\ LoadFeature(d) = FeatureOf(ComponentSearchPaths(k))
      BY <1>4, <2>1, Facts DEF LoadedFact
    <3>2. PICK i \in Roots : LoadFeature(d).dir = <<i, k>>
      BY <2>1, <3>1, Facts DEF FoundFact
    <3>3. k = c
      BY <2>1, <3>2 DEF ComponentOf
    <3>4. QED
      BY <3>1, <3>3
  <2>6. LoadFeature(d)' = FeatureOf(ComponentSearchPaths(c))'
    <3>1. PICK k \in Scopes : /\ HasFeature(d, k)'
                              /\ \A j \in Scopes : j > k => ~HasFeature(d, j)'
                              /\ LoadFeature(d)' = FeatureOf(ComponentSearchPaths(k))'
      BY <1>4, <2>4, <2>5, FactsNext DEF LoadedFact
    <3>2. k = c
      BY <2>4, <2>5, <3>1, DomainAssumption DEF Scopes, Legacy
    <3>3. QED
      BY <3>1, <3>2
  <2>7. ~Pinned(c)' => FeatureOf(ComponentSearchPaths(c))'.enabled = cmd.on
    <3>. SUFFICES ASSUME ~Pinned(c)' PROVE FeatureOf(ComponentSearchPaths(c))'.enabled = cmd.on
      OBVIOUS
    <3>1. ASSUME NEW enabled PROVE Applied(ComponentSearchPaths(c), enabled)' = cmd.on
      <4>1. Sets(ComponentSearchPaths(c), UpdexDropIn)'
        BY <2>2 DEF Sets
      <4>2. \A j \in UpdexDropIn + 1 .. NDropIns : ~Sets(ComponentSearchPaths(c), j)'
        BY DropInNumbers DEF Pinned, Sets
      <4>3. Applied(ComponentSearchPaths(c), enabled)' = (DropIn(ComponentSearchPaths(c), UpdexDropIn)' = "on")
        BY <4>1, <4>2, DirTypes, FactsNext DEF AppliedFact
      <4>4. cmd.on \in BOOLEAN
        BY DEF Types
      <4>5. QED
        BY <2>2, <4>3, <4>4
    <3>2. PICK i \in Roots : /\ feature[<<i, c>>] # "none" /\ feature[<<i, c>>] # "mask"
                             /\ \A r \in Roots : r < i => feature[<<r, c>>] = "none"
      BY <2>1, <2>5, Facts DEF FoundFact
    <3>3. PICK h \in Roots : /\ feature[<<h, c>>] # "none"
                             /\ \A r \in Roots : r < h => feature[<<r, c>>] = "none"
                             /\ FeatureOf(ComponentSearchPaths(c))'.masked <=> feature[<<h, c>>] = "mask"
                             /\ ~FeatureOf(ComponentSearchPaths(c))'.masked =>
                                  FeatureOf(ComponentSearchPaths(c))'.enabled =
                                    Applied(ComponentSearchPaths(c), feature[<<h, c>>] = "on")'
      BY <1>2, <2>4, <2>5, FactsNext DEF FoundFact, HasFeature
    <3>4. h = i
      BY <3>2, <3>3, PathIs
    <3>5. QED
      BY <1>2, <3>1, <3>2, <3>3, <3>4
  <2>8. QED
    BY <1>1, <1>2, <2>3, <2>6, <2>7 DEF EnableTakesEffect
<1>5. QED
  BY <1>3, <1>4

LEMMA InitLoaded == Init => LoadedInv /\ EnableTakesEffect
  BY DEF Init, NoCommand, LoadedInv, EnableTakesEffect

LEMMA NextLoaded ==
    Types /\ LoadedInv /\ EnableTakesEffect /\ [Next]_vars => LoadedInv' /\ EnableTakesEffect'
<1>. SUFFICES ASSUME Types, LoadedInv, EnableTakesEffect, [Next]_vars
              PROVE  LoadedInv' /\ EnableTakesEffect'
  OBVIOUS
<1>0. Types'
  BY NextTypes
<1>1. ASSUME NEW d \in Domains, NEW on \in BOOLEAN, Begin(d, on)
      PROVE  LoadedInv' /\ EnableTakesEffect'
  <2>. DEFINE f == LoadFeature(d)
              res == IF LoadFails(d) THEN "unreadable"
                     ELSE IF f = NoFeature THEN "missing"
                     ELSE IF f.masked THEN "masked" ELSE "none"
  <2>1. UNCHANGED definitions
    BY <1>1 DEF Begin
  <2>2. CASE res = "none"
    <3>1. cmd' = [pc |-> "write", domain |-> d, on |-> on, scope |-> ComponentOf(f.dir),
                  res |-> res, edited |-> FALSE]
      BY <1>1, <2>2 DEF Begin
    <3>2. cmd'.pc = "write" /\ cmd'.domain = d /\ cmd'.scope = ComponentOf(f.dir)
      BY <3>1
    <3>3. ~LoadFails(d) /\ f # NoFeature /\ ~f.masked
      BY <2>2
    <3>4. d # {} => ~LoadFails(d)' /\ LoadFeature(d)' = f
      BY <1>0, <2>1, <3>3, SameDefinitions
    <3>5. LoadedInv'
      BY <3>2, <3>3, <3>4 DEF LoadedInv
    <3>6. QED
      BY <3>2, <3>5 DEF EnableTakesEffect
  <2>3. CASE res # "none"
    <3>1. cmd'.pc = "idle" /\ cmd'.res = res
      BY <1>1, <2>3 DEF Begin, NoCommand
    <3>2. QED
      BY <3>1 DEF LoadedInv, EnableTakesEffect
  <2>4. QED
    BY <2>2, <2>3
<1>2. CASE WriteDropIn
  <2>1. cmd'.pc = "idle"
    BY <1>2 DEF WriteDropIn, Types
  <2>2. QED
    BY <1>2, <2>1, WriteTakesEffect DEF LoadedInv
<1>3. ASSUME NEW d \in Dirs, Edit(d) PROVE LoadedInv' /\ EnableTakesEffect'
  <2>1. /\ cmd'.pc = cmd.pc /\ cmd'.res = cmd.res
        /\ cmd'.edited <=> (cmd.pc = "write" \/ cmd.res = "ok")
    BY <1>3 DEF Edit, Types
  <2>2. QED
    BY <2>1 DEF LoadedInv, EnableTakesEffect
<1>4. CASE UNCHANGED vars
  <2>1. UNCHANGED definitions /\ UNCHANGED cmd
    BY <1>4 DEF vars
  <2>2. PICK d \in Domains, c \in Scopes : d = cmd.domain /\ c = cmd.scope
    BY DEF Types
  <2>3. d # {} => /\ LoadFails(d)' <=> LoadFails(d)
                  /\ LoadFeature(d)' = LoadFeature(d)
                  /\ Pinned(c)' <=> Pinned(c)
    BY <1>0, <2>1, SameDefinitions
  <2>4. QED
    BY <2>1, <2>2, <2>3 DEF LoadedInv, EnableTakesEffect
<1>5. QED
  BY <1>1, <1>2, <1>3, <1>4 DEF Next
-----------------------------------------------------------------------------
\* An enable or a disable that reports success is what the next load of its
\* domain sees, wherever the feature was found, unless a drop-in that sorts after
\* updex's own decides: reads and writes agree.
THEOREM EnableIsLoaded == Spec => []EnableTakesEffect
  BY InitTypes, NextTypes, InitLoaded, NextLoaded, PTL DEF Spec

\* No command changes what an administrator's later drop-in has decided, what any
\* other scope loads, or what a --definitions directory does.
THEOREM AdministratorKeepsDeciding == Spec => AdministratorDecides
<1>1. Types /\ [Next]_vars =>
        [WriteDropIn =>
           /\ \A s \in Scopes : (Pinned(s) \/ s # cmd.scope) =>
                FeatureOf(ComponentSearchPaths(s))' = FeatureOf(ComponentSearchPaths(s))
           /\ LoadFeature({})' = LoadFeature({})]_vars
  BY WriteDecides
<1>2. QED
  BY <1>1, TypesAlways, PTL DEF Spec, AdministratorDecides

\* A mask hides every file of its name below it: nothing enables the feature, and
\* no update installs from there; and it hides nothing above it.
THEOREM MasksHold == Spec => []MaskHolds
  BY Masks, PTL

\* What an update installs is of the last component in the alphabet that has a
\* transfer, whatever the roots its files lie under; legacy is before them all.
THEOREM UnionGoesToTheMostSpecific == Spec => []UnionIsMostSpecific
  BY Specific, PTL

\* A broken file fails exactly the loads whose domain has its scope, and a file
\* of its name above it, good or a mask, always ends that.
THEOREM BrokenStaysContained == Spec => []BrokenIsContained
  BY Contained, TypesAlways, PTL
=============================================================================
