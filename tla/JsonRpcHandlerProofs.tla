------------------------ MODULE JsonRpcHandlerProofs ------------------------
(***************************************************************************)
(* Proofs about JsonRpcHandler: what a goroutine has decided about its     *)
(* requests stays true under the rules in force, whatever SetRules does,   *)
(* and every response, in the cache, in a batch or at the client, belongs  *)
(* to the request that it is given for.                                    *)
(***************************************************************************)
EXTENDS JsonRpcHandler, FiniteSetTheorems, TLAPS

-----------------------------------------------------------------------------
(* Places in a list, and the search of the rules *)

\* A set of positions that is not empty has a least one.
LEMMA LeastIndex ==
    ASSUME NEW S, S \subseteq Nat, S # {}
    PROVE  \E m \in S : \A n \in S : m <= n
<1>1. PICK m \in S : \A n \in S : ~(<<n, m>> \in OpToRel(<, Nat))
  BY NatLessThanWellFounded, WFMin
<1>2. \A n \in S : ~(n < m)
  BY <1>1 DEF OpToRel
<1> QED
  BY <1>2

\* Min and Max of a set of positions are in it and bound it.
LEMMA MinIn ==
    ASSUME NEW S, S \subseteq Nat, S # {}
    PROVE  Min(S) \in S
<1> DEFINE First(m) == \A n \in S : m <= n
<1>1. \E m \in S : First(m)
  BY LeastIndex, Zenon
<1> QED
  BY <1>1, Zenon DEF Min

\* The same of Max.
LEMMA MaxIn ==
    ASSUME NEW n \in Nat, NEW S, S \subseteq 1..n, S # {}
    PROVE  Max(S) \in S
<1> DEFINE T == {n - m : m \in S}
           Last(m) == \A x \in S : m >= x
<1>1. PICK t \in T : \A u \in T : t <= u
  <2>1. PICK m \in S : TRUE
    OBVIOUS
  <2>2. n - m \in T
    OBVIOUS
  <2>3. \A m0 \in S : n - m0 \in Nat
    OBVIOUS
  <2>4. T \subseteq Nat
    BY <2>3
  <2> HIDE DEF T
  <2> QED
    BY <2>2, <2>4, LeastIndex
<1>2. PICK m \in S : t = n - m
  OBVIOUS
<1>3. \A x \in S : n - m <= n - x
  BY <1>1, <1>2
<1>4. \E x \in S : Last(x)
  BY <1>3
<1> QED
  BY <1>4, Zenon DEF Max

\* The members of a set of places are numbered from 1, one number each.
LEMMA RankType ==
    ASSUME NEW n \in Nat, NEW S, S \subseteq 1..n
    PROVE  /\ IsFiniteSet(S) /\ Cardinality(S) \in 0..n
           /\ \A i \in S : Rank(S, i) \in 1..Cardinality(S)
<1>1. IsFiniteSet(S) /\ Cardinality(S) \in 0..n
  <2>1. IsFiniteSet(1..n) /\ Cardinality(1..n) = n
    BY FS_Interval
  <2>2. IsFiniteSet(S) /\ Cardinality(S) <= n
    BY <2>1, FS_Subset
  <2> QED
    BY <2>2, FS_CardinalityType
<1>2. ASSUME NEW i \in S PROVE Rank(S, i) \in 1..Cardinality(S)
  <2> DEFINE T == {j \in S : j <= i}
  <2>1. T \in SUBSET S /\ T # {}
    OBVIOUS
  <2>2. IsFiniteSet(T) /\ Cardinality(T) <= Cardinality(S)
    BY <1>1, <2>1, FS_Subset
  <2>3. Cardinality(T) \in Nat /\ Cardinality(T) # 0
    BY <2>1, <2>2, FS_CardinalityType, FS_EmptySet
  <2> QED
    BY <1>1, <2>2, <2>3 DEF Rank
<1> QED
  BY <1>1, <1>2

\* Rank numbers the members of a set in their order,
LEMMA RankIncreases ==
    ASSUME NEW n \in Nat, NEW S, S \subseteq 1..n, NEW i \in S, NEW j \in S, i < j
    PROVE  Rank(S, i) < Rank(S, j)
<1> DEFINE T == {k \in S : k <= i}
           U == {k \in S : k <= j}
<1>1. T \in SUBSET U /\ T # U
  <2>1. j \in U /\ ~(j \in T)
    OBVIOUS
  <2>2. \A k \in S : k <= i => k <= j
    OBVIOUS
  <2> QED
    BY <2>1, <2>2
<1>2. IsFiniteSet(U) /\ IsFiniteSet(T)
  BY RankType, FS_Subset
<1>3. Cardinality(T) <= Cardinality(U) /\ Cardinality(T) # Cardinality(U)
  BY <1>1, <1>2, FS_Subset
<1>4. Cardinality(T) \in Nat /\ Cardinality(U) \in Nat
  BY <1>2, FS_CardinalityType
<1> QED
  BY <1>3, <1>4 DEF Rank

\* and every number up to their count is the rank of one.
LEMMA RankOnto ==
    ASSUME NEW n \in Nat, NEW S, S \subseteq 1..n, NEW m \in 1..Cardinality(S)
    PROVE  \E i \in S : Rank(S, i) = m
<1> DEFINE c == Cardinality(S)
           f == [i \in S |-> Rank(S, i)]
<1>1. c \in 0..n /\ \A i \in S : Rank(S, i) \in 1..c
  BY RankType
<1>2. ASSUME NEW i \in S, NEW j \in S, Rank(S, i) = Rank(S, j) PROVE i = j
  <2>1. Rank(S, i) \in Int /\ Rank(S, j) \in Int
    BY <1>1
  <2>2. i < j => Rank(S, i) < Rank(S, j)
    BY RankIncreases
  <2>3. j < i => Rank(S, j) < Rank(S, i)
    BY RankIncreases
  <2>4. i \in Int /\ j \in Int
    OBVIOUS
  <2> QED
    BY <1>2, <2>1, <2>2, <2>3, <2>4
<1>3. f \in Injection(S, 1..c)
  BY <1>1, <1>2 DEF Injection, IsInjective
<1>4. IsFiniteSet(1..c) /\ Cardinality(1..c) = c
  BY <1>1, FS_Interval
<1>5. f \in Surjection(S, 1..c)
  BY <1>3, <1>4, FS_Injection
<1> QED
  BY <1>5 DEF Surjection

\* Whatever the rules say, a request is allowed or denied, with the settings of a
\* rule or none.
LEMMA DecisionType ==
    ASSUME NEW rs \in RuleSets, NEW kd, NEW k
    PROVE  /\ Decision(kd, rs, k).action \in {"allow", "deny"}
           /\ Decision(kd, rs, k).cache \in Caches \cup {None}
<1> DEFINE m == Considered(kd, rs, k)
           r == rs.rules[Min(m)]
<1>1. rs.rules \in Seq(Rules) /\ rs.default \in {"allow", "deny"}
  BY RuleSetsAssumption
<1>2. m \subseteq 1..Len(rs.rules)
  BY DEF Considered
<1>3. m # {} => r \in Rules
  BY <1>1, <1>2, MinIn
<1>4. m # {} => r.action \in {"allow", "deny", "other"} /\ r.cache \in Caches \cup {None}
  BY <1>3 DEF Rules
<1> HIDE DEF m
<1> QED
  BY <1>1, <1>4 DEF Decision, m

-----------------------------------------------------------------------------
(* The inductive invariant *)

\* some configuration allows k and has its answers cached with the settings c
Wanted(k, c) ==
    \E rs \in RuleSets, kd \in Kinds :
        LET d == Decision(kd, rs, k) IN d.action = "allow" /\ d.cache = c

\* what the locals of a goroutine are where they are used
Local(w) ==
    /\ pc[w] \in {"idle", "rlock", "aborted", "leaked"} => items[w] = <<>>
    /\ pc[w] \notin {"idle", "aborted", "leaked"} =>
          reqs[w] # <<>> /\ (kind[w] # "batch" => Len(reqs[w]) = 1)
    /\ out[w] # <<>> => pc[w] = "done" \/ (pc[w] = "store" /\ kind[w] # "batch")
    /\ pc[w] = "upstream" => Pending(w) # {}
    /\ pc[w] \in {"has", "get"} =>
          LET d == Decision(kind[w], RulesOf(w), Key(w))
          IN  d.action = "allow" /\ d.cache = ruleCache[w]

\* a response belongs to the request at its place; what is to be stored is wanted
\* by the rules under which it was decided, and does not come from them
Given(w) ==
    \A i \in DOMAIN items[w] :
        LET it == items[w][i]
        IN  /\ it.resp # None => it.resp.key \in {reqs[w][i], None}
            /\ it.cache # None => /\ Wanted(reqs[w][i], it.cache)
                                  /\ it.resp \in Cacheable \cup {None}

Denied(w, i) == items[w][i].resp # None /\ items[w][i].resp.kind = "denied"

\* DecisionsInForce for one goroutine
Ruled(w) ==
    HoldsRead(w) =>
        \A i \in DOMAIN items[w] :
            Denied(w, i) <=> Decision(kind[w], RulesOf(w), reqs[w][i]).action = "deny"

\* what RepliesMatch says of the answer to one client
Replied(w) ==
    \E kept \in SUBSET (DOMAIN reqs[w]) :
        /\ Cardinality(kept) = Len(out[w])
        /\ \A i \in kept : out[w][Rank(kept, i)].key \in {reqs[w][i], None}

Serving(w) == Local(w) /\ Given(w) /\ Ruled(w) /\ Replied(w)

IndInv == TypeOK /\ CachedIsWanted /\ \A w \in Workers : Serving(w)

\* The invariant holds at first.
LEMMA InitInv == Init => IndInv
<1> SUFFICES ASSUME Init PROVE IndInv
  OBVIOUS
<1>1. TypeOK
  <2>1. <<>> \in Seq(Keys) /\ <<>> \in Seq(Items) /\ <<>> \in Seq(Responses)
    OBVIOUS
  <2>2. Len(<<>>) = 0 /\ 0 <= MaxBatch
    BY BatchAssumption
  <2> QED
    BY <2>1, <2>2 DEF Init, TypeOK, Kinds
<1>2. CachedIsWanted
  BY DEF Init, CachedIsWanted
<1>3. ASSUME NEW w \in Workers PROVE Serving(w)
  <2>1. Local(w) /\ Given(w) /\ Ruled(w)
    BY <1>1 DEF Init, Local, Given, Ruled, HoldsRead
  <2>2. Replied(w)
    <3>1. Cardinality({}) = Len(out[w])
      BY FS_EmptySet DEF Init
    <3> QED
      BY <3>1 DEF Replied
  <2> QED
    BY <2>1, <2>2 DEF Serving
<1> QED
  BY <1>1, <1>2, <1>3 DEF IndInv

\* A goroutine that does not move keeps its part of the invariant, provided that
\* the rules do not change while it holds their lock.
LEMMA Untouched ==
    ASSUME NEW v \in Workers, Serving(v),
           pc'[v] = pc[v], kind'[v] = kind[v], reqs'[v] = reqs[v],
           ruleCache'[v] = ruleCache[v], items'[v] = items[v], out'[v] = out[v],
           HoldsRead(v) => RulesOf(v)' = RulesOf(v)
    PROVE  Serving(v)'
<1>1. Local(v)'
  BY DEF Serving, Local, Pending, Key, HoldsRead
<1>2. Given(v)'
  BY DEF Serving, Given
<1>3. Ruled(v)'
  BY DEF Serving, Ruled, Denied, HoldsRead
<1>4. Replied(v)'
  BY DEF Serving, Replied
<1> QED
  BY <1>1, <1>2, <1>3, <1>4 DEF Serving

\* Where one goroutine moves and the rules and the cache stay as they are, it is
\* enough to look at that goroutine.
LEMMA OneMoves ==
    ASSUME IndInv, NEW w \in Workers, UNCHANGED <<confVars, cache>>, TypeOK', Serving(w)',
           \A v \in Workers \ {w} :
              /\ pc'[v] = pc[v] /\ kind'[v] = kind[v] /\ reqs'[v] = reqs[v]
              /\ ruleCache'[v] = ruleCache[v] /\ items'[v] = items[v] /\ out'[v] = out[v]
    PROVE  IndInv'
<1>1. CachedIsWanted'
  BY DEF IndInv, CachedIsWanted
<1>2. ASSUME NEW v \in Workers \ {w} PROVE Serving(v)'
  <2>1. RulesOf(v)' = RulesOf(v)
    BY DEF RulesOf, confVars
  <2> QED
    BY <2>1, Untouched DEF IndInv
<1> QED
  BY <1>1, <1>2 DEF IndInv

-----------------------------------------------------------------------------
(* Deciding *)

\* A request is given a place in the list, with its response or without.
LEMMA AddKeeps ==
    ASSUME IndInv, NEW w \in Workers, pc[w] \in {"decide", "has", "get"},
           NEW c \in Caches \cup {None}, NEW r \in Responses \cup {None}, Add(w, c, r),
           r # None => c = None /\ r.key \in {Key(w), None},
           c # None => Wanted(Key(w), c),
           (r # None /\ r.kind = "denied")
                <=> Decision(kind[w], RulesOf(w), Key(w)).action = "deny"
    PROVE  IndInv'
<1> DEFINE it == [cache |-> c, resp |-> r]
           all == Append(items[w], it)
<1>1. it \in Items /\ items[w] \in Seq(Items) /\ reqs[w] \in Seq(Keys)
  BY DEF Items, IndInv, TypeOK
<1>2. /\ all \in Seq(Items) /\ Len(all) = Len(items[w]) + 1
      /\ \A i \in DOMAIN items[w] : all[i] = items[w][i]
      /\ all[Len(items[w]) + 1] = it
      /\ DOMAIN all = DOMAIN items[w] \cup {Len(items[w]) + 1}
  BY <1>1
<1>3. /\ Len(items[w]) < Len(reqs[w])
      /\ Len(items[w]) \in Nat /\ Len(reqs[w]) \in Nat
  BY <1>1 DEF IndInv, TypeOK
<1> HIDE DEF all
<1>4. /\ items' = [items EXCEPT ![w] = all] /\ ruleCache' = [ruleCache EXCEPT ![w] = None]
      /\ UNCHANGED <<confVars, cache, kind, reqs, out>>
  BY DEF Add, all
<1>5. items'[w] = all
  BY <1>4 DEF IndInv, TypeOK
<1>6. /\ pc' = [pc EXCEPT ![w] = pc'[w]]
      /\ pc'[w] = IF Len(all) < Len(reqs[w]) THEN "decide"
                  ELSE IF \E i \in DOMAIN all : all[i].resp = None THEN "upstream" ELSE "reply"
  <2>1. Len(all) < Len(reqs[w]) \/ Len(all) = Len(reqs[w])
    BY <1>2, <1>3
  <2>2. ~(Len(all) < Len(reqs[w]) /\ Len(all) = Len(reqs[w]))
    BY <1>2, <1>3
  <2> QED
    BY <2>1, <2>2 DEF Add, all, Goto, IndInv, TypeOK
<1>7. TypeOK'
  <2>1. /\ rules' \in RuleSets /\ wsRules' \in RuleSets /\ target' \in RuleSets
        /\ writer' \in {"none", "handler", "ws"}
        /\ cache' \in [Keys -> Cacheable \cup {None}]
        /\ kind' \in [Workers -> Kinds] /\ reqs' \in [Workers -> Seq(Keys)]
        /\ out' \in [Workers -> Seq(Responses)]
    BY <1>4 DEF IndInv, TypeOK, confVars
  <2>2. /\ items' \in [Workers -> Seq(Items)]
        /\ ruleCache' \in [Workers -> Caches \cup {None}]
    BY <1>2, <1>4 DEF IndInv, TypeOK
  <2>3. pc'[w] \in {"decide", "upstream", "reply"}
    BY <1>6
  <2>4. pc' \in [Workers -> {"idle", "rlock", "decide", "has", "get", "upstream",
                             "store", "reply", "done", "aborted", "leaked"}]
    BY <1>6, <2>3 DEF IndInv, TypeOK
  <2>5. /\ Len(reqs'[w]) <= MaxBatch /\ Len(items'[w]) <= Len(reqs'[w])
        /\ pc'[w] \in {"decide", "has", "get"} => Len(items'[w]) < Len(reqs'[w])
        /\ pc'[w] \in {"upstream", "store", "reply"} => Len(items'[w]) = Len(reqs'[w])
    <3>1. Len(reqs[w]) <= MaxBatch /\ MaxBatch \in Nat
      BY BatchAssumption DEF IndInv, TypeOK
    <3>2. reqs'[w] = reqs[w] /\ items'[w] = all
      BY <1>4, <1>5
    <3>3. Len(all) <= Len(reqs[w])
      BY <1>2, <1>3
    <3>4. ~(Len(all) < Len(reqs[w])) => Len(all) = Len(reqs[w])
      BY <1>2, <1>3
    <3> QED
      BY <1>6, <3>1, <3>2, <3>3, <3>4
  <2>6. \A v \in Workers \ {w} :
          pc'[v] = pc[v] /\ reqs'[v] = reqs[v] /\ items'[v] = items[v]
    BY <1>4, <1>6 DEF IndInv, TypeOK
  <2> QED
    BY <2>1, <2>2, <2>4, <2>5, <2>6 DEF IndInv, TypeOK
<1>8. HoldsRead(w) /\ RulesOf(w)' = RulesOf(w)
  BY <1>4 DEF HoldsRead, RulesOf, confVars
<1>9. Local(w)'
  <2>1. pc'[w] \in {"decide", "upstream", "reply"}
    BY <1>6
  <2>2. out[w] = <<>> /\ reqs[w] # <<>> /\ (kind[w] # "batch" => Len(reqs[w]) = 1)
    BY DEF IndInv, Serving, Local
  <2>3. pc'[w] = "upstream" => Pending(w)' # {}
    BY <1>5, <1>6 DEF Pending
  <2> QED
    BY <1>4, <2>1, <2>2, <2>3 DEF Local
<1>10. Given(w)'
  <2>1. Given(w) /\ Key(w) = reqs[w][Len(items[w]) + 1]
    BY DEF IndInv, Serving, Key
  <2> QED
    BY <1>2, <1>4, <1>5, <2>1 DEF Given, Wanted
<1>11. Ruled(w)'
  <2>1. Ruled(w) /\ Key(w) = reqs[w][Len(items[w]) + 1]
    BY DEF IndInv, Serving, Key
  <2> QED
    BY <1>2, <1>4, <1>5, <1>8, <2>1 DEF Ruled, Denied
<1>12. Replied(w)'
  BY <1>4 DEF IndInv, Serving, Replied
<1>13. Serving(w)'
  BY <1>9, <1>10, <1>11, <1>12 DEF Serving
<1> QED
  BY <1>4, <1>6, <1>7, <1>13, OneMoves DEF IndInv, TypeOK

\* The rules decide on a request, or on the next of a batch.
LEMMA DecideKeeps ==
    ASSUME IndInv, NEW w \in Workers, Decide(w)
    PROVE  IndInv'
<1> DEFINE d == Decision(kind[w], RulesOf(w), Key(w))
<1>1. /\ pc[w] = "decide" /\ Key(w) \in Keys /\ RulesOf(w) \in RuleSets
      /\ None \notin Keys
  BY NoneAssumption DEF Decide, IndInv, TypeOK, Key, RulesOf
<1>2. d.action \in {"allow", "deny"} /\ d.cache \in Caches \cup {None}
  BY <1>1, DecisionType
<1>3. CASE d.action = "deny" /\ Add(w, None, [key |-> Key(w), kind |-> "denied"])
  <2>1. [key |-> Key(w), kind |-> "denied"] \in Responses \ {None}
    BY <1>1, NoneAssumption DEF Responses
  <2> QED
    BY <1>1, <1>3, <2>1, AddKeeps
<1>4. CASE d.action = "allow" /\ ~LooksUp(w, d) /\ Add(w, None, None)
  BY <1>1, <1>4, AddKeeps
<1>5. CASE /\ d.action = "allow" /\ LooksUp(w, d)
           /\ ruleCache' = [ruleCache EXCEPT ![w] = d.cache]
           /\ Goto(w, "has")
           /\ UNCHANGED <<confVars, cache, kind, reqs, items, out>>
  <2> USE <1>5
  <2>1. TypeOK'
    BY <1>1, <1>2 DEF IndInv, TypeOK, Goto, confVars
  <2>2. Local(w)'
    BY <1>1 DEF IndInv, TypeOK, Serving, Local, Goto, Key, RulesOf, confVars
  <2>3. Given(w)'
    BY DEF IndInv, Serving, Given
  <2>4. Ruled(w)'
    BY <1>1 DEF IndInv, Serving, Ruled, Denied, HoldsRead, RulesOf, confVars
  <2>5. Replied(w)'
    BY DEF IndInv, Serving, Replied
  <2>6. Serving(w)'
    BY <2>2, <2>3, <2>4, <2>5 DEF Serving
  <2> QED
    BY <2>1, <2>6, OneMoves DEF IndInv, TypeOK, Goto
<1> QED
  BY <1>3, <1>4, <1>5 DEF Decide

\* What was looked for in the cache was allowed by a rule in force.
LEMMA LookedUp ==
    ASSUME IndInv, NEW w \in Workers, pc[w] \in {"has", "get"}
    PROVE  /\ Key(w) \in Keys /\ ruleCache[w] \in Caches \cup {None}
           /\ Decision(kind[w], RulesOf(w), Key(w)).action = "allow"
           /\ ruleCache[w] # None => Wanted(Key(w), ruleCache[w])
<1>1. /\ Key(w) \in Keys /\ RulesOf(w) \in RuleSets /\ kind[w] \in Kinds
      /\ ruleCache[w] \in Caches \cup {None}
  BY DEF IndInv, TypeOK, Key, RulesOf
<1>2. /\ Decision(kind[w], RulesOf(w), Key(w)).action = "allow"
      /\ Decision(kind[w], RulesOf(w), Key(w)).cache = ruleCache[w]
  BY DEF IndInv, Serving, Local
<1> QED
  BY <1>1, <1>2 DEF Wanted

\* The cache is asked whether it has a response.
LEMMA HasKeeps ==
    ASSUME IndInv, NEW w \in Workers, Has(w)
    PROVE  IndInv'
<1>1. pc[w] = "has"
  BY DEF Has
<1>2. CASE Add(w, ruleCache[w], None)
  BY <1>1, <1>2, LookedUp, AddKeeps
<1>3. CASE Goto(w, "get") /\ UNCHANGED <<confVars, cache, kind, reqs, ruleCache, items, out>>
  <2> USE <1>1, <1>3
  <2>1. TypeOK'
    BY DEF IndInv, TypeOK, Goto, confVars
  <2>2. Local(w)'
    BY DEF IndInv, TypeOK, Serving, Local, Goto, Key, RulesOf, confVars
  <2>3. Given(w)'
    BY DEF IndInv, Serving, Given
  <2>4. Ruled(w)'
    BY DEF IndInv, Serving, Ruled, Denied, HoldsRead, RulesOf, confVars
  <2>5. Replied(w)'
    BY DEF IndInv, Serving, Replied
  <2>6. Serving(w)'
    BY <2>2, <2>3, <2>4, <2>5 DEF Serving
  <2> QED
    BY <2>1, <2>6, OneMoves DEF IndInv, TypeOK, Goto
<1> QED
  BY <1>2, <1>3 DEF Has

\* A goroutine gives up or goes on to a place where it has nothing left to decide.
LEMMA MovesOn ==
    ASSUME IndInv, NEW w \in Workers, pc[w] \in {"get", "upstream", "reply"}, Drop(w)
    PROVE  IndInv'
<1> USE DEF Drop, Goto
<1>1. TypeOK'
  BY DEF IndInv, TypeOK, confVars
<1>2. pc'[w] = "done"
  BY DEF IndInv, TypeOK
<1>3. Local(w)'
  BY <1>2 DEF IndInv, Serving, Local
<1>4. Given(w)'
  BY DEF IndInv, Serving, Given
<1>5. Ruled(w)'
  BY <1>2 DEF Ruled, HoldsRead
<1>6. Replied(w)'
  BY DEF IndInv, Serving, Replied
<1>7. Serving(w)'
  BY <1>3, <1>4, <1>5, <1>6 DEF Serving
<1> QED
  BY <1>1, <1>7, OneMoves DEF IndInv, TypeOK

\* The cached response is read, or has gone.
LEMMA GetKeeps ==
    ASSUME IndInv, NEW w \in Workers, Get(w)
    PROVE  IndInv'
<1>1. pc[w] = "get"
  BY DEF Get
<1>2. CASE cache[Key(w)] # None /\ Add(w, None, cache[Key(w)])
  <2>1. cache[Key(w)] \in Cacheable /\ cache[Key(w)].key \in {Key(w), None}
    BY <1>1, <1>2, LookedUp DEF IndInv, TypeOK, CachedIsWanted
  <2>2. cache[Key(w)] \in Responses /\ cache[Key(w)].kind # "denied"
    BY <2>1 DEF Responses, Cacheable, Answers, Garbage
  <2>3. Decision(kind[w], RulesOf(w), Key(w)).action = "allow"
    BY <1>1, LookedUp
  <2> QED
    BY <1>1, <1>2, <2>1, <2>2, <2>3, AddKeeps
<1>3. CASE Drop(w)
  BY <1>1, <1>3, MovesOn
<1>4. CASE Add(w, ruleCache[w], None)
  BY <1>1, <1>4, LookedUp, AddKeeps
<1> QED
  BY <1>2, <1>3, <1>4 DEF Get

\* A websocket request fails upstream.
LEMMA WsFailsKeeps ==
    ASSUME IndInv, NEW w \in Workers, WsFails(w)
    PROVE  IndInv'
BY MovesOn DEF WsFails

-----------------------------------------------------------------------------
(* The node answers *)

\* The responses of the node are put at the places of the requests they answer.
LEMMA FilledPlaces ==
    ASSUME IndInv, NEW w \in Workers,
           NEW rs, rs \in NodeAnswers(w) \/ rs = <<Garbage>>,
           Len(rs) = Cardinality(Pending(w))
    PROVE  /\ Filled(w, rs) \in Seq(Items) /\ Len(Filled(w, rs)) = Len(items[w])
           /\ DOMAIN Filled(w, rs) = DOMAIN items[w]
           /\ \A i \in DOMAIN items[w] :
                 /\ Filled(w, rs)[i].cache = items[w][i].cache
                 /\ i \notin Pending(w) => Filled(w, rs)[i] = items[w][i]
                 /\ i \in Pending(w) => /\ Filled(w, rs)[i].resp \in Cacheable
                                       /\ Filled(w, rs)[i].resp.key \in {reqs[w][i], None}
<1>1. items[w] \in Seq(Items) /\ DOMAIN items[w] = 1..Len(items[w]) /\ Len(items[w]) \in Nat
  BY DEF IndInv, TypeOK
<1>2. /\ Pending(w) \subseteq 1..Len(items[w])
      /\ \A i \in Pending(w) : Rank(Pending(w), i) \in 1..Cardinality(Pending(w))
  <2>1. Pending(w) \subseteq 1..Len(items[w])
    BY <1>1 DEF Pending
  <2> QED
    BY <1>1, <2>1, RankType
<1>3. ASSUME NEW i \in Pending(w)
      PROVE  /\ rs[Rank(Pending(w), i)] \in Cacheable
             /\ rs[Rank(Pending(w), i)].key \in {reqs[w][i], None}
  <2>1. CASE rs \in NodeAnswers(w)
    BY <1>2, <2>1 DEF NodeAnswers, Cacheable
  <2>2. CASE rs = <<Garbage>>
    BY <1>2, <2>2 DEF Cacheable, Garbage
  <2> QED
    BY <2>1, <2>2
<1>4. DOMAIN Filled(w, rs) = 1..Len(items[w])
  BY <1>1 DEF Filled
<1>5. ASSUME NEW i \in DOMAIN items[w]
      PROVE  /\ Filled(w, rs)[i] \in Items
             /\ Filled(w, rs)[i].cache = items[w][i].cache
             /\ i \notin Pending(w) => Filled(w, rs)[i] = items[w][i]
             /\ i \in Pending(w) => /\ Filled(w, rs)[i].resp \in Cacheable
                                   /\ Filled(w, rs)[i].resp.key \in {reqs[w][i], None}
  <2>1. items[w][i] \in Items
    BY <1>1
  <2>2. CASE i \in Pending(w)
    <3>1. Filled(w, rs)[i] = [items[w][i] EXCEPT !.resp = rs[Rank(Pending(w), i)]]
      BY <2>2 DEF Filled
    <3> QED
      BY <1>3, <2>1, <2>2, <3>1 DEF Items, Responses
  <2>3. CASE i \notin Pending(w)
    <3>1. Filled(w, rs)[i] = items[w][i]
      BY <2>3 DEF Filled
    <3> QED
      BY <2>1, <2>3, <3>1
  <2> QED
    BY <2>2, <2>3
<1>6. Filled(w, rs) = [i \in 1..Len(items[w]) |-> Filled(w, rs)[i]]
  BY <1>1 DEF Filled
<1>7. Filled(w, rs) \in [1..Len(items[w]) -> Items]
  BY <1>1, <1>5, <1>6
<1> QED
  BY <1>1, <1>4, <1>5, <1>7

\* What is written to a client that sent one request answers this request.
LEMMA SingleReplied ==
    ASSUME IndInv, NEW w \in Workers, pc[w] = "upstream", kind[w] # "batch",
           NEW rs, rs \in NodeAnswers(w) \/ rs = <<Garbage>>
    PROVE  /\ Len(rs) = 1
           /\ rs[1].key \in {reqs[w][1], None}
<1>1. Len(reqs[w]) = 1 /\ Len(items[w]) = 1 /\ Pending(w) # {}
  BY DEF IndInv, TypeOK, Serving, Local
<1>2. DOMAIN items[w] = {1}
  BY <1>1 DEF IndInv, TypeOK
<1>3. Pending(w) = {1}
  BY <1>1, <1>2 DEF Pending
<1>4. Cardinality({1}) = 1
  BY FS_Singleton
<1>5. Rank({1}, 1) = 1
  BY <1>4, RankType
<1>6. CASE rs \in NodeAnswers(w)
  BY <1>3, <1>4, <1>5, <1>6 DEF NodeAnswers
<1>7. CASE rs = <<Garbage>>
  BY <1>7 DEF Garbage
<1> QED
  BY <1>6, <1>7

\* The node answers, and its responses are put in their places.
LEMMA UpstreamKeeps ==
    ASSUME IndInv, NEW w \in Workers, Upstream(w)
    PROVE  IndInv'
<1>1. PICK rs \in NodeAnswers(w) \cup (IF kind[w] = "ws" THEN {} ELSE {<<Garbage>>}) :
         /\ items' = [items EXCEPT ![w] =
                       IF Len(rs) = Cardinality(Pending(w)) THEN Filled(w, rs) ELSE items[w]]
         /\ out' = IF kind[w] = "batch" THEN out ELSE [out EXCEPT ![w] = rs]
         /\ Goto(w, "store")
  BY DEF Upstream
<1>2. rs \in NodeAnswers(w) \/ rs = <<Garbage>>
  BY <1>1
<1>3. /\ pc[w] = "upstream" /\ UNCHANGED <<confVars, cache, kind, reqs, ruleCache>>
      /\ pc' = [pc EXCEPT ![w] = "store"] /\ pc'[w] = "store"
  BY <1>1 DEF Upstream, Goto, IndInv, TypeOK
<1> DEFINE after == items'[w]
<1>4. items' = [items EXCEPT ![w] = after]
  BY <1>1 DEF IndInv, TypeOK
<1>5. /\ after \in Seq(Items) /\ Len(after) = Len(items[w])
      /\ DOMAIN after = DOMAIN items[w]
      /\ \A i \in DOMAIN items[w] :
            /\ after[i].cache = items[w][i].cache
            /\ \/ after[i] = items[w][i]
               \/ /\ items[w][i].resp = None
                  /\ after[i].resp \in Cacheable
                  /\ after[i].resp.key \in {reqs[w][i], None}
  <2>1. CASE Len(rs) = Cardinality(Pending(w))
    <3>1. after = Filled(w, rs)
      BY <1>1, <2>1 DEF IndInv, TypeOK
    <3>2. /\ Filled(w, rs) \in Seq(Items) /\ Len(Filled(w, rs)) = Len(items[w])
          /\ DOMAIN Filled(w, rs) = DOMAIN items[w]
      BY <1>2, <2>1, FilledPlaces
    <3>3. ASSUME NEW i \in DOMAIN items[w]
          PROVE  /\ Filled(w, rs)[i].cache = items[w][i].cache
                 /\ i \notin Pending(w) => Filled(w, rs)[i] = items[w][i]
                 /\ i \in Pending(w) => /\ Filled(w, rs)[i].resp \in Cacheable
                                       /\ Filled(w, rs)[i].resp.key \in {reqs[w][i], None}
      BY <1>2, <2>1, FilledPlaces
    <3>4. \A i \in Pending(w) : items[w][i].resp = None
      BY DEF Pending
    <3> QED
      BY <3>1, <3>2, <3>3, <3>4
  <2>2. CASE Len(rs) # Cardinality(Pending(w))
    <3>1. after = items[w]
      BY <1>1, <2>2 DEF IndInv, TypeOK
    <3> QED
      BY <3>1 DEF IndInv, TypeOK
  <2> QED
    BY <2>1, <2>2
<1> HIDE DEF after
<1>6. items'[w] = after
  BY DEF after
<1>7. out' \in [Workers -> Seq(Responses)]
  <2>1. Cardinality(Pending(w)) \in Nat
    <3>1. Len(items[w]) \in Nat /\ Pending(w) \subseteq 1..Len(items[w])
      BY DEF Pending, IndInv, TypeOK
    <3> QED
      BY <3>1, RankType
  <2>2. Answers \subseteq Responses /\ Garbage \in Responses
    BY DEF Responses, Cacheable
  <2>3. \A f \in NodeAnswers(w) : f \in [1..Cardinality(Pending(w)) -> Responses]
    BY <2>2 DEF NodeAnswers
  <2>4. <<Garbage>> \in Seq(Responses)
    BY <2>2
  <2>5. rs \in Seq(Responses)
    BY <1>2, <2>1, <2>3, <2>4
  <2> QED
    BY <1>1, <2>5 DEF IndInv, TypeOK
<1>8. TypeOK'
  <2>1. /\ rules' \in RuleSets /\ wsRules' \in RuleSets /\ target' \in RuleSets
        /\ writer' \in {"none", "handler", "ws"}
        /\ cache' \in [Keys -> Cacheable \cup {None}]
        /\ kind' \in [Workers -> Kinds] /\ reqs' \in [Workers -> Seq(Keys)]
        /\ ruleCache' \in [Workers -> Caches \cup {None}]
    BY <1>3 DEF IndInv, TypeOK, confVars
  <2>2. /\ items' \in [Workers -> Seq(Items)]
        /\ pc' \in [Workers -> {"idle", "rlock", "decide", "has", "get", "upstream",
                                "store", "reply", "done", "aborted", "leaked"}]
    BY <1>3, <1>4, <1>5 DEF IndInv, TypeOK
  <2>3. \A v \in Workers \ {w} :
          pc'[v] = pc[v] /\ reqs'[v] = reqs[v] /\ items'[v] = items[v]
    BY <1>3, <1>4 DEF IndInv, TypeOK
  <2>4. /\ reqs'[w] = reqs[w] /\ Len(items'[w]) = Len(items[w])
        /\ Len(reqs[w]) <= MaxBatch /\ Len(items[w]) <= Len(reqs[w])
        /\ Len(items[w]) = Len(reqs[w])
    BY <1>3, <1>5, <1>6 DEF IndInv, TypeOK
  <2> QED
    BY <1>3, <1>7, <2>1, <2>2, <2>3, <2>4 DEF IndInv, TypeOK
<1>9. RulesOf(w)' = RulesOf(w) /\ reqs'[w] = reqs[w] /\ kind'[w] = kind[w]
  BY <1>3 DEF RulesOf, confVars
<1>10. Local(w)'
  <2>1. out[w] = <<>> /\ reqs[w] # <<>> /\ (kind[w] # "batch" => Len(reqs[w]) = 1)
    BY <1>3 DEF IndInv, Serving, Local
  <2>2. out'[w] # <<>> => kind[w] # "batch"
    BY <1>1, <2>1
  <2> QED
    BY <1>3, <1>9, <2>1, <2>2 DEF Local
<1>11. Given(w)'
  <2>1. Given(w) /\ None \notin Cacheable
    BY NoneAssumption DEF IndInv, Serving, Responses
  <2> QED
    BY <1>5, <1>6, <1>9, <2>1 DEF Given, Wanted
<1>12. Ruled(w)'
  <2> SUFFICES ASSUME kind[w] # "batch" PROVE Ruled(w)'
    BY <1>3 DEF Ruled, HoldsRead
  <2>1. HoldsRead(w) /\ Ruled(w)
    BY <1>3 DEF HoldsRead, IndInv, Serving
  <2>2. \A r \in Cacheable : r.kind # "denied"
    BY DEF Cacheable, Answers, Garbage
  <2> QED
    BY <1>5, <1>6, <1>9, <2>1, <2>2 DEF Ruled, Denied
<1>13. Replied(w)'
  <2>1. CASE kind[w] = "batch"
    <3>1. out'[w] = out[w] /\ Replied(w)
      BY <1>1, <2>1 DEF IndInv, Serving
    <3> QED
      BY <1>9, <3>1 DEF Replied
  <2>2. CASE kind[w] # "batch"
    <3>1. out'[w] = rs
      BY <1>1, <2>2 DEF IndInv, TypeOK
    <3>2. Len(rs) = 1 /\ rs[1].key \in {reqs[w][1], None}
      BY <1>2, <1>3, <2>2, SingleReplied
    <3>3. Cardinality({1}) = 1
      BY FS_Singleton
    <3>4. Rank({1}, 1) = 1
      BY <3>3, RankType
    <3>5. {1} \in SUBSET (DOMAIN reqs[w])
      <4>1. pc[w] \notin {"idle", "aborted", "leaked"} /\ Local(w) /\ reqs[w] \in Seq(Keys)
        BY <1>3 DEF IndInv, TypeOK, Serving
      <4>2. Len(reqs[w]) = 1
        BY <2>2, <4>1 DEF Local
      <4> QED
        BY <4>1, <4>2
    <3> QED
      BY <1>9, <3>1, <3>2, <3>3, <3>4, <3>5 DEF Replied
  <2> QED
    BY <2>1, <2>2
<1>14. Serving(w)'
  BY <1>10, <1>11, <1>12, <1>13 DEF Serving
<1>15. \A v \in Workers \ {w} :
         /\ pc'[v] = pc[v] /\ kind'[v] = kind[v] /\ reqs'[v] = reqs[v]
         /\ ruleCache'[v] = ruleCache[v] /\ items'[v] = items[v] /\ out'[v] = out[v]
  BY <1>1, <1>3, <1>4 DEF IndInv, TypeOK
<1> QED
  BY <1>3, <1>8, <1>14, <1>15, OneMoves

\* The responses go into the cache: the last of a batch for a key, if its rule wants it.
LEMMA StoreKeeps ==
    ASSUME IndInv, NEW w \in Workers, Store(w)
    PROVE  IndInv'
<1>1. PICK n \in IF CacheMayFail THEN 0..Len(items[w]) ELSE {Len(items[w])} :
         cache' = [k \in Keys |->
             IF {i \in 1..n : Stores(w, items[w][i]) /\ reqs[w][i] = k} = {} THEN cache[k]
             ELSE items[w][Max({i \in 1..n : Stores(w, items[w][i]) /\ reqs[w][i] = k})].resp]
  BY DEF Store
<1> DEFINE put(k) == {i \in 1..n : Stores(w, items[w][i]) /\ reqs[w][i] = k}
           last(k) == Max(put(k))
<1>2. n \in Nat /\ 1..n \subseteq DOMAIN items[w]
  BY DEF IndInv, TypeOK
<1>3. ASSUME NEW k \in Keys, put(k) # {} PROVE last(k) \in put(k)
  <2>1. put(k) \subseteq 1..n
    OBVIOUS
  <2> HIDE DEF put
  <2> QED
    BY <1>2, <1>3, <2>1, MaxIn
<1>4. ASSUME NEW k \in Keys, put(k) # {}
      PROVE  /\ last(k) \in DOMAIN items[w] /\ reqs[w][last(k)] = k
             /\ Stores(w, items[w][last(k)])
  BY <1>2, <1>3, <1>4
<1>5. ASSUME NEW k \in Keys, put(k) # {}
      PROVE  /\ items[w][last(k)].resp \in Cacheable
             /\ items[w][last(k)].resp.key \in {k, None}
             /\ Wanted(k, items[w][last(k)].cache)
             /\ items[w][last(k)].cache # None
  BY <1>4, <1>5 DEF IndInv, Serving, Given, Stores
<1>6. \A k \in Keys : cache'[k] = IF put(k) = {} THEN cache[k] ELSE items[w][last(k)].resp
  BY <1>1
<1>7. DOMAIN cache' = Keys /\ cache' = [k \in Keys |-> cache'[k]]
  BY <1>1
<1> HIDE DEF put, last
<1>8. cache' \in [Keys -> Cacheable \cup {None}]
  BY <1>5, <1>6, <1>7 DEF IndInv, TypeOK
<1>9. CachedIsWanted'
  <2> SUFFICES ASSUME NEW k \in Keys, cache'[k] # None
               PROVE  /\ cache'[k].key \in {k, None}
                      /\ \E rs \in RuleSets, kd \in Kinds :
                            LET d == Decision(kd, rs, k)
                            IN  /\ d.action = "allow" /\ d.cache # None
                                /\ cache'[k].kind = "error" => d.cache.cacheError
                                /\ cache'[k].kind # "ok" => d.cache.cacheEmptyResult
    BY DEF CachedIsWanted
  <2>1. CASE put(k) = {}
    BY <1>6, <2>1 DEF IndInv, CachedIsWanted
  <2>2. CASE put(k) # {}
    <3> DEFINE it == items[w][last(k)]
    <3>1. Wanted(k, it.cache) /\ it.cache # None /\ cache'[k] = it.resp /\ Stores(w, it)
      BY <1>4, <1>5, <1>6, <2>2
    <3>2. PICK rs \in RuleSets, kd \in Kinds :
             Decision(kd, rs, k).action = "allow" /\ Decision(kd, rs, k).cache = it.cache
      BY <3>1 DEF Wanted
    <3> QED
      BY <1>5, <2>2, <3>1, <3>2 DEF Stores
  <2> QED
    BY <2>1, <2>2
<1>10. /\ pc[w] = "store" /\ UNCHANGED <<confVars, kind, reqs, ruleCache, items, out>>
       /\ pc' = [pc EXCEPT ![w] = IF kind[w] = "batch" THEN "reply" ELSE "done"]
  BY DEF Store, Goto
<1>11. pc'[w] = IF kind[w] = "batch" THEN "reply" ELSE "done"
  BY <1>10 DEF IndInv, TypeOK
<1>12. TypeOK'
  BY <1>8, <1>10 DEF IndInv, TypeOK, confVars
<1>13. Serving(w)'
  <2>1. Local(w)'
    BY <1>10, <1>11 DEF IndInv, Serving, Local
  <2>2. Given(w)'
    BY <1>10 DEF IndInv, Serving, Given
  <2>3. Ruled(w)'
    BY <1>10, <1>11 DEF Ruled, HoldsRead
  <2>4. Replied(w)'
    BY <1>10 DEF IndInv, Serving, Replied
  <2> QED
    BY <2>1, <2>2, <2>3, <2>4 DEF Serving
<1>14. ASSUME NEW v \in Workers \ {w} PROVE Serving(v)'
  <2>1. RulesOf(v)' = RulesOf(v) /\ pc'[v] = pc[v]
    BY <1>10 DEF RulesOf, confVars, IndInv, TypeOK
  <2> QED
    BY <1>10, <2>1, Untouched DEF IndInv
<1> QED
  BY <1>9, <1>12, <1>13, <1>14 DEF IndInv

-----------------------------------------------------------------------------
(* The answer to a batch, and the end of a request *)

\* the requests that have a response
Answered(w) == DOMAIN items[w] \ Pending(w)

\* GetFinal keeps the order of the responses: that of request i stands at the place
\* that i has among the requests that were answered.
LEMMA FinalPlaces ==
    ASSUME IndInv, NEW w \in Workers
    PROVE  /\ Final(w) \in Seq(Responses) /\ Len(Final(w)) = Cardinality(Answered(w))
           /\ \A i \in Answered(w) : Final(w)[Rank(Answered(w), i)] = items[w][i].resp
<1> DEFINE at(n) == CHOOSE i \in Answered(w) : Rank(Answered(w), i) = n
<1>1. /\ Len(items[w]) \in Nat /\ Answered(w) \subseteq 1..Len(items[w])
      /\ items[w] \in Seq(Items)
  BY DEF IndInv, TypeOK, Answered
<1>2. /\ Cardinality(Answered(w)) \in Nat
      /\ \A i \in Answered(w) : Rank(Answered(w), i) \in 1..Cardinality(Answered(w))
  BY <1>1, RankType
<1>3. Final(w) = [n \in 1..Cardinality(Answered(w)) |-> items[w][at(n)].resp]
  BY DEF Final, Answered
<1>4. ASSUME NEW n \in 1..Cardinality(Answered(w))
      PROVE  at(n) \in Answered(w) /\ Rank(Answered(w), at(n)) = n
  <2>1. \E i \in Answered(w) : Rank(Answered(w), i) = n
    BY <1>1, RankOnto
  <2> QED
    BY <2>1, Zenon
<1>5. ASSUME NEW i \in Answered(w) PROVE at(Rank(Answered(w), i)) = i
  <2> DEFINE j == at(Rank(Answered(w), i))
  <2>1. /\ j \in Answered(w) /\ Rank(Answered(w), j) = Rank(Answered(w), i)
        /\ Rank(Answered(w), i) \in Int
    BY <1>2, <1>4
  <2> HIDE DEF j
  <2>2. i < j => Rank(Answered(w), i) < Rank(Answered(w), j)
    BY <1>1, <2>1, RankIncreases
  <2>3. j < i => Rank(Answered(w), j) < Rank(Answered(w), i)
    BY <1>1, <2>1, RankIncreases
  <2>4. i \in Int /\ j \in Int
    BY <1>1, <2>1
  <2>5. i = j
    BY <2>1, <2>2, <2>3, <2>4
  <2> QED
    BY <2>5 DEF j
<1> HIDE DEF at
<1>6. \A i \in Answered(w) : items[w][i].resp \in Responses
  <2> TAKE i \in Answered(w)
  <2>1. items[w][i] \in Items
    BY <1>1
  <2>2. items[w][i].resp # None
    BY DEF Answered, Pending
  <2> QED
    BY <2>1, <2>2 DEF Items
<1>7. Final(w) \in [1..Cardinality(Answered(w)) -> Responses]
  BY <1>3, <1>4, <1>6
<1> QED
  BY <1>2, <1>3, <1>5, <1>7

\* The response is sent.
LEMMA ReplyKeeps ==
    ASSUME IndInv, NEW w \in Workers, Reply(w)
    PROVE  IndInv'
<1>1. /\ pc[w] = "reply" /\ UNCHANGED <<confVars, cache, kind, reqs, ruleCache, items>>
      /\ pc' = [pc EXCEPT ![w] = "done"] /\ out' = [out EXCEPT ![w] = Final(w)]
  BY DEF Reply, Goto
<1>2. pc'[w] = "done" /\ out'[w] = Final(w)
  BY <1>1 DEF IndInv, TypeOK
<1>3. /\ Final(w) \in Seq(Responses) /\ Len(Final(w)) = Cardinality(Answered(w))
      /\ \A i \in Answered(w) : Final(w)[Rank(Answered(w), i)] = items[w][i].resp
  BY FinalPlaces
<1>4. TypeOK'
  BY <1>1, <1>3 DEF IndInv, TypeOK, confVars
<1>5. Local(w)'
  BY <1>1, <1>2 DEF IndInv, Serving, Local
<1>6. Given(w)'
  BY <1>1 DEF IndInv, Serving, Given
<1>7. Ruled(w)'
  BY <1>2 DEF Ruled, HoldsRead
<1>8. Replied(w)'
  <2>1. Answered(w) \in SUBSET (DOMAIN reqs[w])
    BY <1>1 DEF IndInv, TypeOK, Answered
  <2>2. \A i \in Answered(w) : items[w][i].resp.key \in {reqs[w][i], None}
    BY DEF IndInv, Serving, Given, Answered, Pending
  <2> QED
    BY <1>1, <1>2, <1>3, <2>1, <2>2 DEF Replied
<1>9. Serving(w)'
  BY <1>5, <1>6, <1>7, <1>8 DEF Serving
<1> QED
  BY <1>1, <1>4, <1>9, OneMoves DEF IndInv, TypeOK

\* The handler returns.
LEMMA ReturnKeeps ==
    ASSUME IndInv, NEW w \in Workers, Return(w)
    PROVE  IndInv'
<1> USE DEF Return, Goto
<1>1. <<>> \in Seq(Keys) /\ <<>> \in Seq(Items) /\ <<>> \in Seq(Responses)
  OBVIOUS
<1>2. /\ pc'[w] = "idle" /\ reqs'[w] = <<>> /\ items'[w] = <<>> /\ out'[w] = <<>>
      /\ Len(<<>>) = 0 /\ 0 <= MaxBatch
  BY BatchAssumption DEF IndInv, TypeOK
<1>3. TypeOK'
  BY <1>1, <1>2 DEF IndInv, TypeOK, confVars, Kinds
<1>4. Local(w)' /\ Given(w)' /\ Ruled(w)'
  BY <1>2 DEF Local, Given, Ruled, HoldsRead
<1>5. Replied(w)'
  <2>1. Cardinality({}) = Len(out'[w])
    BY <1>2, FS_EmptySet
  <2> QED
    BY <2>1 DEF Replied
<1>6. Serving(w)'
  BY <1>4, <1>5 DEF Serving
<1> QED
  BY <1>3, <1>6, OneMoves DEF IndInv, TypeOK

\* The handler panics, and nothing is left of its request.
LEMMA PanicKeeps ==
    ASSUME IndInv, NEW w \in Workers, NEW l \in {"aborted", "leaked"}, Panic(w, l),
           pc[w] \in {"decide", "upstream"}
    PROVE  IndInv'
<1> USE DEF Panic, Goto
<1>1. <<>> \in Seq(Keys) /\ <<>> \in Seq(Items)
  OBVIOUS
<1>2. /\ pc'[w] = l /\ reqs'[w] = <<>> /\ items'[w] = <<>> /\ out'[w] = <<>>
      /\ Len(<<>>) = 0 /\ 0 <= MaxBatch
  BY BatchAssumption DEF IndInv, TypeOK, Serving, Local
<1>3. TypeOK'
  BY <1>1, <1>2 DEF IndInv, TypeOK, confVars
<1>4. Local(w)' /\ Given(w)' /\ Ruled(w)'
  BY <1>2 DEF Local, Given, Ruled
<1>5. Replied(w)'
  <2>1. Cardinality({}) = Len(out'[w])
    BY <1>2, FS_EmptySet
  <2> QED
    BY <2>1 DEF Replied
<1>6. Serving(w)'
  BY <1>4, <1>5 DEF Serving
<1> QED
  BY <1>3, <1>6, OneMoves DEF IndInv, TypeOK

\* A request comes.
LEMMA ReceiveKeeps ==
    ASSUME IndInv, NEW w \in Workers, NEW kd \in Kinds, NEW s \in Batches, Receive(w, kd, s)
    PROVE  IndInv'
<1> USE DEF Receive, Goto
<1>1. s \in Seq(Keys) /\ s # <<>> /\ Len(s) <= MaxBatch
  <2>1. PICK n \in 1..MaxBatch : s \in [1..n -> Keys]
    BY DEF Batches
  <2> QED
    BY <2>1, BatchAssumption
<1>2. /\ pc'[w] = "rlock" /\ reqs'[w] = s /\ kind'[w] = kd
      /\ items'[w] = <<>> /\ out'[w] = <<>> /\ Len(<<>>) = 0 /\ Len(s) \in Nat
  BY <1>1 DEF IndInv, TypeOK, Serving, Local
<1>3. TypeOK'
  BY <1>1, <1>2 DEF IndInv, TypeOK, confVars
<1>4. Local(w)' /\ Given(w)' /\ Ruled(w)'
  BY <1>1, <1>2 DEF Local, Given, Ruled, HoldsRead
<1>5. Replied(w)'
  <2>1. Cardinality({}) = Len(out'[w])
    BY <1>2, FS_EmptySet
  <2> QED
    BY <2>1 DEF Replied
<1>6. Serving(w)'
  BY <1>4, <1>5 DEF Serving
<1> QED
  BY <1>3, <1>6, OneMoves DEF IndInv, TypeOK

-----------------------------------------------------------------------------
(* The lock of the rules *)

\* The read lock is taken.
LEMMA RLockKeeps ==
    ASSUME IndInv, NEW w \in Workers, RLock(w)
    PROVE  IndInv'
<1> USE DEF RLock, Goto
<1>1. /\ pc'[w] = "decide" /\ items[w] = <<>> /\ out[w] = <<>> /\ reqs[w] # <<>>
      /\ kind[w] # "batch" => Len(reqs[w]) = 1
  BY DEF IndInv, TypeOK, Serving, Local
<1>2. Len(items[w]) < Len(reqs[w])
  BY <1>1 DEF IndInv, TypeOK
<1>3. TypeOK'
  BY <1>1, <1>2 DEF IndInv, TypeOK, confVars
<1>4. Local(w)' /\ Given(w)' /\ Ruled(w)'
  BY <1>1 DEF Local, Given, Ruled
<1>5. Replied(w)'
  BY DEF IndInv, Serving, Replied
<1>6. Serving(w)'
  BY <1>4, <1>5 DEF Serving
<1> QED
  BY <1>3, <1>6, OneMoves DEF IndInv, TypeOK

\* The rules are replaced when nobody reads them, and the answers to all requests
\* were wanted by one of the configurations that there have been.
LEMMA RulesKeep ==
    ASSUME IndInv, SetHandler \/ SetWebSocket \/ \E rs \in RuleSets : SetRules(rs)
    PROVE  IndInv'
<1>1. UNCHANGED <<cache, pc, kind, reqs, ruleCache, items, out>>
  BY DEF SetHandler, SetWebSocket, SetRules
<1>2. TypeOK'
  BY DEF SetHandler, SetWebSocket, SetRules, IndInv, TypeOK
<1>3. CachedIsWanted'
  BY <1>1 DEF IndInv, CachedIsWanted
<1>4. ASSUME NEW v \in Workers, HoldsRead(v) PROVE RulesOf(v)' = RulesOf(v)
  <2>1. CASE SetHandler
    BY <1>4, <2>1 DEF SetHandler, Readers, RulesOf
  <2>2. CASE SetWebSocket
    BY <1>4, <2>2 DEF SetWebSocket, Readers, RulesOf
  <2>3. CASE \E rs \in RuleSets : SetRules(rs)
    BY <2>3 DEF SetRules, RulesOf
  <2> QED
    BY <2>1, <2>2, <2>3
<1>5. \A v \in Workers : Serving(v)'
  BY <1>1, <1>4, Untouched DEF IndInv
<1> QED
  BY <1>2, <1>3, <1>5 DEF IndInv

\* A cached response expires.
LEMMA ExpireKeeps ==
    ASSUME IndInv, NEW k \in Keys, Expire(k)
    PROVE  IndInv'
<1>1. /\ UNCHANGED <<confVars, pc, kind, reqs, ruleCache, items, out>>
      /\ cache' = [cache EXCEPT ![k] = None]
  BY DEF Expire
<1>2. TypeOK'
  BY <1>1 DEF IndInv, TypeOK, confVars
<1>3. CachedIsWanted'
  BY <1>1 DEF IndInv, TypeOK, CachedIsWanted
<1>4. ASSUME NEW v \in Workers PROVE Serving(v)'
  <2>1. RulesOf(v)' = RulesOf(v)
    BY <1>1 DEF RulesOf, confVars
  <2> QED
    BY <1>1, <2>1, Untouched DEF IndInv
<1> QED
  BY <1>2, <1>3, <1>4 DEF IndInv

\* Every step keeps the invariant.
LEMMA InvPreserved == IndInv /\ [Next]_vars => IndInv'
<1> SUFFICES ASSUME IndInv, [Next]_vars PROVE IndInv'
  OBVIOUS
<1>1. CASE UNCHANGED vars
  <2>1. UNCHANGED <<confVars, cache, pc, kind, reqs, ruleCache, items, out>>
    BY <1>1 DEF vars
  <2>2. TypeOK' /\ CachedIsWanted'
    BY <2>1 DEF IndInv, TypeOK, CachedIsWanted, confVars
  <2>3. ASSUME NEW v \in Workers PROVE Serving(v)'
    <3>1. RulesOf(v)' = RulesOf(v)
      BY <2>1 DEF RulesOf, confVars
    <3> QED
      BY <2>1, <3>1, Untouched DEF IndInv
  <2> QED
    BY <2>2, <2>3 DEF IndInv
<1>2. CASE Next
  <2>1. CASE Replace \/ \E rs \in RuleSets : SetRules(rs)
    BY <2>1, RulesKeep DEF Replace
  <2>2. CASE \E w \in Workers, kd \in Kinds, s \in Batches : Receive(w, kd, s)
    BY <2>2, ReceiveKeeps
  <2>3. CASE \E w \in Workers : RLock(w)
    BY <2>3, RLockKeeps
  <2>4. ASSUME NEW w \in Workers, Advance(w) PROVE IndInv'
    <3>1. CASE DecidePanics(w)
      BY <3>1, PanicKeeps DEF DecidePanics
    <3> QED
      BY <2>4, <3>1, DecideKeeps, HasKeeps, GetKeeps, StoreKeeps, ReturnKeeps DEF Advance
  <2>5. ASSUME NEW w \in Workers, WaitEnds(w) PROVE IndInv'
    <3>1. CASE UpstreamPanics(w)
      BY <3>1, PanicKeeps DEF UpstreamPanics
    <3> QED
      BY <2>5, <3>1, UpstreamKeeps, WsFailsKeeps, ReplyKeeps DEF WaitEnds
  <2>6. CASE \E k \in Keys : Expire(k)
    BY <2>6, ExpireKeeps
  <2>7. CASE Stuck
    BY <1>1, <2>7 DEF Stuck
  <2> QED
    BY <1>2, <2>1, <2>2, <2>3, <2>4, <2>5, <2>6, <2>7 DEF Next, Serve
<1> QED
  BY <1>1, <1>2

-----------------------------------------------------------------------------
(* The theorems *)

\* The invariant of the handler: what a goroutine knows of a request agrees with the
\* rules it holds the lock of, and its responses stand where they belong.
THEOREM Invariance == Spec => []IndInv
BY InitInv, InvPreserved, PTL DEF Spec

\* Every variable keeps its type: the list of responses is never longer than the
\* batch, and complete when the node is asked (JsonRpcResponses).
THEOREM TypeCorrect == Spec => []TypeOK
<1>1. IndInv => TypeOK
  BY DEF IndInv
<1> QED
  BY <1>1, Invariance, PTL

\* While the read lock is held, what was decided about a request is what the rules in
\* force say (handleHttpSingle, handleHttpBatch, handleRequest against SetRules).
THEOREM DecisionsStand == Spec => []DecisionsInForce
<1>1. IndInv => DecisionsInForce
  BY DEF IndInv, Serving, Ruled, Denied, DecisionsInForce
<1> QED
  BY <1>1, Invariance, PTL

\* An entry of the cache answers its key, and a configuration that there has been has
\* such answers cached (getSingleUpstreamResponse, StoreInCache).
THEOREM CacheWanted == Spec => []CachedIsWanted
<1>1. IndInv => CachedIsWanted
  BY DEF IndInv
<1> QED
  BY <1>1, Invariance, PTL

\* Every response stands at the place of its request, and the client gets the answers
\* in the order of its requests (JsonRpcResponses.Set and GetFinal).
THEOREM ResponsesInPlace == Spec => []RepliesMatch
<1>1. IndInv => RepliesMatch
  BY DEF IndInv, Serving, Given, Replied, RepliesMatch
<1> QED
  BY <1>1, Invariance, PTL
=============================================================================
