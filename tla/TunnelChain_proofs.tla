-------------------------- MODULE TunnelChain_proofs --------------------------
(***************************************************************************)
(* The via graph stays free of cycles, the loop that looks for them is     *)
(* right, locks belong to the calls that took them, and Connects do not    *)
(* wait for one another in a circle, for any sessions, goroutines, clients *)
(* and changes.                                                            *)
(***************************************************************************)
EXTENDS TunnelChain, FiniteSetTheorems, SequenceTheorems, TLAPS

-----------------------------------------------------------------------------
(* The via graph *)

\* A graph that loses sessions gains no cycle.
LEMMA FewerSessions ==
  ASSUME NEW reg, NEW reg2, reg2 \subseteq reg, NEW f, NEW f2,
         \A n \in reg2 : f2[n] = f[n], AcyclicIn(reg, f, Names)
  PROVE  AcyclicIn(reg2, f2, Names)
BY DEF AcyclicIn, Jumps

\* What wouldCreateCycle lets pass leaves the graph without a cycle: a set that
\* is closed under the new graph meets the walk, and what they share was closed
\* under the old one.
LEMMA NoNewCycle ==
  ASSUME NEW reg \in SUBSET Names, NEW f \in [Names -> Names \cup {None}],
         NEW n \in Names, NEW v \in Names \cup {None},
         AcyclicIn(reg, f, Names), ~WouldCreateCycle(reg, f, n, v)
  PROVE  AcyclicIn(reg \cup {n}, [f EXCEPT ![n] = v], Names)
<1> DEFINE g == [f EXCEPT ![n] = v]
<1> DEFINE reg2 == reg \cup {n}
<1> SUFFICES ASSUME NEW S \in SUBSET Names, S # {}, \A m \in S : Jumps(reg2, g, m) \cap S # {}
             PROVE  FALSE
  BY DEF AcyclicIn
<1>1. \A m \in S : m \in reg2 /\ g[m] # None /\ g[m] \in S
  BY DEF Jumps
<1>2. \A m \in Names : m # n => g[m] = f[m]
  OBVIOUS
<1>3. CASE n \notin S
  <2>1. \A m \in S : Jumps(reg, f, m) \cap S # {}
    BY <1>1, <1>2, <1>3 DEF Jumps
  <2> QED BY <2>1 DEF AcyclicIn
<1>4. CASE n \in S
  <2>1. v # None /\ v \in S
    BY <1>1, <1>4
  <2>2. PICK V \in SUBSET (Names \ {n}) :
          v \in V /\ (\A m \in V : Jumps(reg, f, m) \subseteq V) /\ AcyclicIn(reg, f, V)
    BY <2>1 DEF WouldCreateCycle, WalkEnds
  <2>3. \A m \in S \cap V : f[m] \in S \cap V /\ Jumps(reg, f, m) = {f[m]}
    BY <1>1, <1>2, <2>2 DEF Jumps
  <2>4. S \cap V \in SUBSET V /\ S \cap V # {}
    BY <2>1, <2>2
  <2>5. PICK m \in S \cap V : Jumps(reg, f, m) \cap (S \cap V) = {}
    BY <2>2, <2>4 DEF AcyclicIn
  <2> QED BY <2>3, <2>5
<1> QED BY <1>3, <1>4

-----------------------------------------------------------------------------
(* The loop of wouldCreateCycle *)

\* One round of the loop, when what the next ones answer is known.
Round(reg, f, next, p) ==
  IF p[1] = None THEN FALSE
  ELSE IF p[1] \in p[2] THEN TRUE
  ELSE IF p[1] \notin reg THEN FALSE
  ELSE next[<<f[p[1]], p[2] \cup {p[1]}>>]

IsLoop(reg, f, t) == t = [p \in Places |-> Round(reg, f, t, p)]

\* A function that each round leaves as it is makes the recursive definition one.
LEMMA LoopRuns ==
  ASSUME NEW reg, NEW f, NEW t, IsLoop(reg, f, t)
  PROVE  IsLoop(reg, f, Steps(reg, f))
<1> DEFINE P(s) == s = [p \in Places |->
                          LET cur == p[1]  seen == p[2] IN
                          IF cur = None THEN FALSE
                          ELSE IF cur \in seen THEN TRUE
                          ELSE IF cur \notin reg THEN FALSE
                          ELSE s[<<f[cur], seen \cup {cur}>>]]
<1>1. P(t)
  BY DEF IsLoop, Round
<1>2. Steps(reg, f) = CHOOSE s : P(s)
  BY Zenon DEF Steps
<1>3. P(CHOOSE s : P(s))
  <2> HIDE DEF P
  <2> QED BY <1>1, Zenon
<1> QED BY <1>2, <1>3 DEF IsLoop, Round

\* A family of subsets of a finite set has one that contains no other.
LEMMA Smallest ==
  ASSUME NEW T, NEW S, IsFiniteSet(S), T \subseteq SUBSET S, T # {}
  PROVE  \E x \in T : \A y \in T : ~(y \subseteq x /\ y # x)
<1>1. T \subseteq FiniteSubsetsOf(S)
  BY FS_Subset DEF FiniteSubsetsOf
<1>2. \E x \in T : \A y \in T : <<y, x>> \notin StrictSubsetOrdering(S)
  BY <1>1, FS_StrictSubsetOrderingWellFounded, WFMin
<1> QED BY <1>1, <1>2 DEF StrictSubsetOrdering, FiniteSubsetsOf

\* Two such functions agree: where they differ with the fewest names left to
\* see, they differ already one name further.
LEMMA LoopIsUnique ==
  ASSUME NEW reg \in SUBSET Names, NEW f \in [Names -> Names \cup {None}],
         NEW s, NEW t, IsLoop(reg, f, s), IsLoop(reg, f, t)
  PROVE  \A p \in Places : s[p] = t[p]
<1> SUFFICES ASSUME \E p \in Places : s[p] # t[p] PROVE FALSE
  OBVIOUS
<1> DEFINE T == {Names \ p[2] : p \in {q \in Places : s[q] # t[q]}}
<1>1. T \subseteq SUBSET Names /\ T # {}
  OBVIOUS
<1>2. PICK x \in T : \A y \in T : ~(y \subseteq x /\ y # x)
  <2> HIDE DEF T
  <2> QED BY <1>1, FiniteNames, Smallest
<1>3. PICK p \in Places : s[p] # t[p] /\ x = Names \ p[2]
  OBVIOUS
<1>4. s[p] = Round(reg, f, s, p) /\ t[p] = Round(reg, f, t, p)
  BY DEF IsLoop
<1> DEFINE q == <<f[p[1]], p[2] \cup {p[1]}>>
<1>5. p[1] \in Names /\ p[1] \notin p[2] /\ p[2] \in SUBSET Names /\ s[q] # t[q]
  BY <1>3, <1>4 DEF Round, Places
<1>6. q \in Places /\ q[2] = p[2] \cup {p[1]}
  BY <1>5 DEF Places
<1>7. Names \ q[2] \in T
  <2> HIDE DEF q
  <2> QED BY <1>5, <1>6
<1>8. Names \ q[2] \subseteq x /\ Names \ q[2] # x
  <2> HIDE DEF q
  <2> QED BY <1>3, <1>5, <1>6
<1> QED BY <1>2, <1>7, <1>8

\* What the loop has to answer: the walk from cur ends outside of seen.
Ends(reg, f, cur, seen) ==
  \E V \in SUBSET (Names \ seen) :
    /\ cur \in V
    /\ \A m \in V : Jumps(reg, f, m) \subseteq V
    /\ AcyclicIn(reg, f, V)

\* A walk from a registered session ends where the one from its jump host does.
LEMMA EndsFurther ==
  ASSUME NEW reg \in SUBSET Names, NEW f \in [Names -> Names \cup {None}], None \notin Names,
         NEW cur \in reg, NEW seen \in SUBSET Names, cur \notin seen, f[cur] # None
  PROVE  Ends(reg, f, cur, seen) <=> Ends(reg, f, f[cur], seen \cup {cur})
<1> f[cur] \in Names /\ Jumps(reg, f, cur) = {f[cur]}
  BY DEF Jumps
<1>1. ASSUME Ends(reg, f, f[cur], seen \cup {cur}) PROVE Ends(reg, f, cur, seen)
  <2>1. PICK V \in SUBSET (Names \ (seen \cup {cur})) :
          f[cur] \in V /\ (\A m \in V : Jumps(reg, f, m) \subseteq V) /\ AcyclicIn(reg, f, V)
    BY <1>1 DEF Ends
  <2> DEFINE W == V \cup {cur}
  <2>2. W \in SUBSET (Names \ seen) /\ cur \in W /\ \A m \in W : Jumps(reg, f, m) \subseteq W
    BY <2>1
  <2>3. AcyclicIn(reg, f, W)
    <3> SUFFICES ASSUME NEW S \in SUBSET W, S # {} PROVE \E m \in S : Jumps(reg, f, m) \cap S = {}
      BY DEF AcyclicIn
    <3>1. CASE S \cap V = {}
      BY <2>1, <3>1
    <3>2. CASE S \cap V # {}
      <4>1. PICK m \in S \cap V : Jumps(reg, f, m) \cap (S \cap V) = {}
        BY <2>1, <3>2 DEF AcyclicIn
      <4> QED BY <2>1, <4>1
    <3> QED BY <3>1, <3>2
  <2> QED BY <2>2, <2>3 DEF Ends
<1>2. ASSUME Ends(reg, f, cur, seen) PROVE Ends(reg, f, f[cur], seen \cup {cur})
  <2>1. PICK V \in SUBSET (Names \ seen) :
          cur \in V /\ (\A m \in V : Jumps(reg, f, m) \subseteq V) /\ AcyclicIn(reg, f, V)
    BY <1>2 DEF Ends
  <2> DEFINE Rest == {X \in SUBSET (V \ {cur}) : \A m \in X : Jumps(reg, f, m) \subseteq X}
  <2> DEFINE U == UNION Rest
  <2>2. U \in SUBSET (V \ {cur}) /\ \A m \in U : Jumps(reg, f, m) \subseteq U
    OBVIOUS
  <2>3. f[cur] \in U
    <3> SUFFICES ASSUME f[cur] \notin U PROVE FALSE
      OBVIOUS
    <3>1. V \ U \in SUBSET V /\ cur \in V \ U
      BY <2>1, <2>2
    <3>2. PICK m \in V \ U : Jumps(reg, f, m) \cap (V \ U) = {}
      <4> HIDE DEF U
      <4> QED BY <2>1, <3>1 DEF AcyclicIn
    <3>3. m # cur
      <4> HIDE DEF U
      <4> QED BY <2>1, <3>2
    <3>4. Jumps(reg, f, m) \subseteq U
      <4> HIDE DEF U
      <4> QED BY <2>1, <3>2
    <3>5. U \cup {m} \in Rest
      <4>1. U \cup {m} \in SUBSET (V \ {cur})
        <5> HIDE DEF U
        <5> QED BY <2>2, <3>2, <3>3
      <4>2. \A k \in U \cup {m} : Jumps(reg, f, k) \subseteq U \cup {m}
        <5> HIDE DEF U
        <5> QED BY <2>2, <3>4
      <4> HIDE DEF U
      <4> QED BY <4>1, <4>2
    <3>6. m \in U
      <4>1. \A X \in Rest : X \subseteq U
        OBVIOUS
      <4> HIDE DEF U, Rest
      <4> QED BY <3>5, <4>1
    <3> QED BY <3>2, <3>6
  <2>4. AcyclicIn(reg, f, U)
    <3> HIDE DEF U
    <3> QED BY <2>1, <2>2 DEF AcyclicIn
  <2>5. U \in SUBSET (Names \ (seen \cup {cur}))
    <3> HIDE DEF U
    <3> QED BY <2>2
  <2> HIDE DEF U
  <2> QED BY <2>2, <2>3, <2>4, <2>5 DEF Ends
<1> QED BY <1>1, <1>2

\* So the answer that wouldCreateCycle has to give is left as it is by a round.
LEMMA AnswerIsLoop ==
  ASSUME NEW reg \in SUBSET Names, NEW f \in [Names -> Names \cup {None}], None \notin Names
  PROVE  IsLoop(reg, f, [p \in Places |-> p[1] # None /\ ~Ends(reg, f, p[1], p[2])])
<1> DEFINE a == [p \in Places |-> p[1] # None /\ ~Ends(reg, f, p[1], p[2])]
<1> SUFFICES ASSUME NEW p \in Places PROVE a[p] = Round(reg, f, a, p)
  BY DEF IsLoop
<1> DEFINE cur == p[1]
<1> DEFINE seen == p[2]
<1>1. cur \in Names \cup {None} /\ seen \in SUBSET Names /\ a[p] = (cur # None /\ ~Ends(reg, f, cur, seen))
  BY DEF Places
<1>2. CASE cur = None
  BY <1>1, <1>2 DEF Round
<1>3. CASE cur \in seen
  <2>1. ~Ends(reg, f, cur, seen) /\ cur # None
    BY <1>1, <1>3 DEF Ends
  <2> QED BY <1>1, <1>3, <2>1 DEF Round
<1>4. ASSUME cur \in Names, cur \notin seen, Jumps(reg, f, cur) = {} PROVE Ends(reg, f, cur, seen)
  <2>1. AcyclicIn(reg, f, {cur})
    BY <1>4 DEF AcyclicIn
  <2>2. {cur} \in SUBSET (Names \ seen) /\ \A m \in {cur} : Jumps(reg, f, m) \subseteq {cur}
    BY <1>4
  <2> QED BY <2>1, <2>2 DEF Ends
<1>5. CASE cur \in Names /\ cur \notin seen /\ cur \notin reg
  <2>1. Ends(reg, f, cur, seen)
    BY <1>4, <1>5 DEF Jumps
  <2> QED BY <1>1, <1>5, <2>1 DEF Round
<1>6. CASE cur \in reg /\ cur \notin seen
  <2> DEFINE q == <<f[cur], seen \cup {cur}>>
  <2>1. q \in Places /\ q[1] = f[cur] /\ q[2] = seen \cup {cur}
    BY <1>1, <1>6 DEF Places
  <2>2. a[q] = (f[cur] # None /\ ~Ends(reg, f, f[cur], seen \cup {cur}))
    BY <2>1
  <2>3. cur # None /\ Round(reg, f, a, p) = a[q]
    BY <1>6 DEF Round
  <2>4. CASE f[cur] = None
    BY <1>1, <1>4, <1>6, <2>2, <2>3, <2>4 DEF Jumps
  <2>5. CASE f[cur] # None
    BY <1>1, <1>6, <2>2, <2>3, <2>5, EndsFurther
  <2> QED BY <2>4, <2>5
<1> QED BY <1>1, <1>2, <1>3, <1>5, <1>6

\* The loop starts at v and has seen n.
LEMMA WalkAnswers ==
  ASSUME TypeOK
  PROVE  WalkAgrees
<1> SUFFICES ASSUME NEW n \in Names, NEW v \in Names \cup {None}
             PROVE  Walk(sessions, via, n, v) = WouldCreateCycle(sessions, via, n, v)
  BY DEF WalkAgrees
<1> DEFINE a == [p \in Places |-> p[1] # None /\ ~Ends(sessions, via, p[1], p[2])]
<1> DEFINE p == <<v, {n}>>
<1>1. sessions \in SUBSET Names /\ via \in [Names -> Names \cup {None}] /\ None \notin Names
  BY ChainAssumption DEF TypeOK
<1>2. IsLoop(sessions, via, a) /\ IsLoop(sessions, via, Steps(sessions, via))
  BY <1>1, AnswerIsLoop, LoopRuns
<1>3. p \in Places /\ p[1] = v /\ p[2] = {n}
  BY DEF Places
<1>4. Steps(sessions, via)[p] = a[p]
  <2> HIDE DEF a, p
  <2> QED BY <1>1, <1>2, <1>3, LoopIsUnique
<1>5. a[p] = (v # None /\ ~Ends(sessions, via, v, {n}))
  BY <1>3
<1>6. Ends(sessions, via, v, {n}) <=> WalkEnds(sessions, via, n, v)
  BY DEF Ends, WalkEnds
<1> QED BY <1>4, <1>5, <1>6 DEF Walk, Visited, WouldCreateCycle
-----------------------------------------------------------------------------
(* Types, and the calls of a goroutine *)

\* A stack that grows, or loses its last call.
LEMMA Push ==
  ASSUME NEW p \in Seq(Names), NEW v \in Names
  PROVE  /\ Append(p, v) \in Seq(Names) /\ Append(p, v) # <<>>
         /\ Len(p) \in Nat /\ Len(Append(p, v)) = Len(p) + 1 /\ Append(p, v)[Len(p) + 1] = v
         /\ \A i \in 1..Len(p) : Append(p, v)[i] = p[i]
OBVIOUS

LEMMA Prefix ==
  ASSUME NEW p, NEW m \in Nat, \A i \in 1..m : p[i] \in Names
  PROVE  /\ SubSeq(p, 1, m) \in Seq(Names) /\ Len(SubSeq(p, 1, m)) = m
         /\ \A i \in 1..m : SubSeq(p, 1, m)[i] = p[i]
<1>1. m \in Int /\ 1 \in Int
  OBVIOUS
<1>2. /\ SubSeq(p, 1, m) \in Seq(Names)
      /\ Len(SubSeq(p, 1, m)) = IF 1 <= m THEN m - 1 + 1 ELSE 0
      /\ \A i \in 1..m - 1 + 1 : SubSeq(p, 1, m)[i] = p[1 + i - 1]
  BY <1>1, SubSeqProperties
<1> QED BY <1>2

LEMMA Pop ==
  ASSUME NEW p \in Seq(Names), p # <<>>
  PROVE  /\ SubSeq(p, 1, Len(p) - 1) \in Seq(Names)
         /\ Len(p) \in Nat \ {0} /\ Len(SubSeq(p, 1, Len(p) - 1)) = Len(p) - 1
         /\ \A i \in 1..Len(p) - 1 : SubSeq(p, 1, Len(p) - 1)[i] = p[i]
         /\ p[Len(p)] \in Names
         /\ Len(p) = 1 <=> SubSeq(p, 1, Len(p) - 1) = <<>>
<1> DEFINE m == Len(p) - 1
<1>1. Len(p) \in Nat \ {0} /\ p[Len(p)] \in Names
  OBVIOUS
<1>2. m \in Nat /\ \A i \in 1..m : p[i] \in Names
  BY <1>1
<1>3. PICK q : q = SubSeq(p, 1, m)
  OBVIOUS
<1>4. q \in Seq(Names) /\ Len(q) = m /\ \A i \in 1..m : q[i] = p[i]
  BY <1>2, <1>3, Prefix
<1>5. Len(p) = 1 <=> q = <<>>
  BY <1>1, <1>4
<1> QED BY <1>1, <1>3, <1>4, <1>5

\* A goroutine never takes a lock twice.
Once ==
  \A g \in Goroutines : \A i, j \in 1..Len(path[g]) :
    i # j /\ path[g][i] = path[g][j] => st[g] = "lock" /\ (i = Len(path[g]) \/ j = Len(path[g]))

Inv == TypeOK /\ OwnedByCalls /\ Once /\ Acyclic

LEMMA InitInv == ASSUME Init PROVE Inv
<1>1. <<>> \in Seq(Names) /\ Len(<<>>) = 0
  OBVIOUS
<1>2. TypeOK
  <2>1. via \in [Names -> Names \cup {None}] /\ sessions \subseteq Names
    BY DEF Init, ViaOf, HasRow
  <2>2. path \in [Goroutines -> Seq(Names)]
    BY <1>1 DEF Init
  <2>3. 0 \in 0..MaxConn /\ 0 \in 0..MaxChange
    BY ChainAssumption
  <2> QED BY <2>1, <2>2, <2>3 DEF Init, TypeOK
<1>3. OwnedByCalls
  BY <1>1, ChainAssumption DEF Init, OwnedByCalls
<1>4. Once
  BY <1>1 DEF Init, Once
<1>5. Acyclic
  BY DEF Init, Acyclic
<1> QED BY <1>2, <1>3, <1>4, <1>5 DEF Inv

\* The last call returns.
LEMMA ReturnType ==
  ASSUME TypeOK, NEW g \in Goroutines, path[g] # <<>>, Return(g)
  PROVE  /\ owner' \in [Names -> Goroutines \cup {None}]
         /\ path' \in [Goroutines -> Seq(Names)]
         /\ st' \in [Goroutines -> {"idle", "lock", "lookup", "raw", "dial"}]
         /\ jump' \in [Goroutines -> Names \cup {None}]
         /\ \A h \in Goroutines : (st'[h] = "idle" <=> path'[h] = <<>>) /\ (st'[h] = "raw" => jump'[h] \in Names)
<1>1. path[g] \in Seq(Names) /\ Top(g) \in Names
  BY Pop DEF TypeOK, Top
<1>2. path' \in [Goroutines -> Seq(Names)]
  BY <1>1, Pop DEF TypeOK, Return
<1>3. Caller(g) \in {"idle", "raw"} /\ (Caller(g) = "idle" <=> path'[g] = <<>>)
  BY <1>1, Pop DEF TypeOK, Return, Caller
<1> QED BY <1>1, <1>2, <1>3 DEF TypeOK, Return

\* All its calls return.
LEMMA UnwindType ==
  ASSUME TypeOK, NEW g \in Goroutines, Unwind(g)
  PROVE  TypeOK'
<1>1. <<>> \in Seq(Names)
  OBVIOUS
<1>2. path' \in [Goroutines -> Seq(Names)]
  BY <1>1 DEF TypeOK, Unwind
<1>3. owner' \in [Names -> Goroutines \cup {None}]
  BY DEF TypeOK, Unwind, ReleaseAll
<1>4. 0 \in 0..MaxConn
  BY ChainAssumption
<1> QED BY <1>2, <1>3, <1>4 DEF TypeOK, Unwind, graphVars, connVars

LEMMA ResetType ==
  ASSUME TypeOK, Reset, changes' \in 0..MaxChange
  PROVE  TypeOK'
<1>1. <<>> \in Seq(Names)
  OBVIOUS
<1>2. path' \in [Goroutines -> Seq(Names)]
  BY <1>1 DEF Reset
<1>3. 0 \in 0..MaxConn
  BY ChainAssumption
<1>4. sessions' \subseteq Names /\ via' \in [Names -> Names \cup {None}] /\ drifted' \in BOOLEAN
  BY DEF TypeOK, Reset, HasRow, ViaOf
<1> QED BY <1>2, <1>3, <1>4 DEF TypeOK, Reset

LEMMA ConnectType ==
  ASSUME TypeOK, NEW g \in Goroutines, Connect(g)
  PROVE  TypeOK'
<1>1. CASE Lock(g)
  <2>1. path[g] # <<>> /\ Top(g) \in Names /\ 0 \in 0..MaxConn
    BY <1>1, Pop, ChainAssumption DEF TypeOK, Lock, Top
  <2>2. CASE conn[Top(g)] # 0
    <3> Return(g)
      BY <1>1, <2>2 DEF Lock
    <3> QED BY <1>1, <2>1, ReturnType DEF TypeOK, Lock, graphVars, connVars
  <2>3. CASE conn[Top(g)] = 0
    <3> DEFINE l == IF via[Top(g)] = None THEN "dial" ELSE "lookup"
    <3>1. /\ owner' = [owner EXCEPT ![Top(g)] = g] /\ st' = [st EXCEPT ![g] = l] /\ l \in {"dial", "lookup"}
          /\ UNCHANGED <<path, jump>> /\ UNCHANGED graphVars /\ UNCHANGED connVars
      BY <1>1, <2>3 DEF Lock
    <3> HIDE DEF l
    <3>2. owner' \in [Names -> Goroutines \cup {None}]
      BY <2>1, <3>1 DEF TypeOK
    <3> QED BY <1>1, <2>1, <3>1, <3>2 DEF TypeOK, Lock, graphVars, connVars
  <2> QED BY <2>2, <2>3
<1>2. CASE Lookup(g)
  <2> DEFINE v == via[Top(g)]
  <2>1. v \in Names /\ path[g] # <<>>
    BY <1>2 DEF TypeOK, Lookup
  <2>2. Append(path[g], v) \in Seq(Names) /\ Append(path[g], v) # <<>>
    BY <2>1, Push DEF TypeOK
  <2>3. CASE conn[v] # 0
    BY <1>2, <2>1, <2>3 DEF TypeOK, Lookup, graphVars, connVars
  <2>4. CASE conn[v] = 0
    <3>1. path' = [path EXCEPT ![g] = Append(path[g], v)] /\ st' = [st EXCEPT ![g] = "lock"] /\ jump' = [jump EXCEPT ![g] = None]
      BY <1>2, <2>4 DEF Lookup
    <3>2. path' \in [Goroutines -> Seq(Names)]
      BY <2>2, <3>1 DEF TypeOK
    <3> HIDE DEF v
    <3> QED BY <1>2, <2>2, <3>1, <3>2 DEF TypeOK, Lookup, graphVars, connVars
  <2> QED BY <2>3, <2>4
<1>3. CASE LookupFails(g)
  BY <1>3, UnwindType DEF LookupFails
<1>4. CASE RawConn(g)
  BY <1>4 DEF TypeOK, RawConn, graphVars, connVars
<1>5. CASE Dial(g)
  <2>1. path[g] # <<>> /\ Top(g) \in Names /\ 0 \in 0..MaxConn /\ dialed + 1 \in 0..MaxConn
    BY <1>5, Pop, ChainAssumption DEF TypeOK, Dial, Top
  <2>2. Return(g)
    BY <1>5 DEF Dial
  <2> QED BY <1>5, <2>1, <2>2, ReturnType DEF TypeOK, Dial, graphVars
<1>6. CASE DialFails(g)
  BY <1>6, UnwindType DEF DialFails
<1>7. CASE Panic(g)
  <2>1. CASE g \in Warm
    BY <1>7, <2>1, ResetType DEF Panic, TypeOK
  <2>2. CASE g \notin Warm
    BY <1>7, <2>2, UnwindType DEF Panic
  <2> QED BY <2>1, <2>2
<1> QED BY <1>1, <1>2, <1>3, <1>4, <1>5, <1>6, <1>7 DEF Connect

LEMMA RegistryType ==
  ASSUME TypeOK, Registry
  PROVE  TypeOK'
<1>0. Change => changes' \in 0..MaxChange
  BY ChainAssumption DEF TypeOK, Change
<1>1. CASE Restart
  BY <1>0, <1>1, ResetType DEF Restart
<1>2. ASSUME NEW n \in Names, Remove(n) PROVE TypeOK'
  BY <1>0, <1>2 DEF TypeOK, Remove, connVars, goVars
<1>3. ASSUME NEW n \in Names, RemoveEnds(n) PROVE TypeOK'
  <2>1. 0 \in 0..MaxConn
    BY ChainAssumption
  <2>2. rows' \in [Names -> Names \cup {None, NoRow}]
    BY <1>3 DEF TypeOK, RemoveEnds
  <2> QED BY <1>3, <2>1, <2>2 DEF TypeOK, RemoveEnds, goVars
<1>4. ASSUME NEW n \in Names, NEW v \in Names \cup {None}, Add(n, v) PROVE TypeOK'
  <2>1. 0 \in 0..MaxConn
    BY ChainAssumption
  <2> QED BY <1>0, <1>4, <2>1 DEF TypeOK, Add, Unused, goVars
<1>5. ASSUME NEW n \in Names, NEW v \in Names \cup {None}, Update(n, v) PROVE TypeOK'
  <2>1. rows' \in [Names -> Names \cup {None, NoRow}]
    <3>1. rows' = rows \/ rows' = [rows EXCEPT ![n] = IF rows[n] = NoRow THEN NoRow ELSE v]
      BY <1>5 DEF Update
    <3>2. rows \in [Names -> Names \cup {None, NoRow}] /\ v \in Names \cup {None, NoRow}
      BY DEF TypeOK
    <3>3. CASE rows' = rows
      BY <3>2, <3>3
    <3>4. CASE rows' = [rows EXCEPT ![n] = IF rows[n] = NoRow THEN NoRow ELSE v]
      BY <3>2, <3>4
    <3> QED BY <3>1, <3>3, <3>4
  <2> QED BY <1>0, <1>5, <2>1 DEF TypeOK, Update, connVars, goVars
<1> QED BY <1>1, <1>2, <1>3, <1>4, <1>5 DEF Registry

LEMMA StepType ==
  ASSUME TypeOK, [Next]_vars
  PROVE  TypeOK'
<1>1. CASE Registry
  BY <1>1, RegistryType
<1>2. ASSUME NEW n \in Names, Disconnect(n) PROVE TypeOK'
  <2>1. 0 \in 0..MaxConn
    BY ChainAssumption
  <2> QED BY <1>2, <2>1 DEF TypeOK, Disconnect, graphVars, goVars
<1>3. ASSUME NEW g \in Goroutines, Connect(g) PROVE TypeOK'
  BY <1>3, ConnectType
<1>4. ASSUME NEW g \in Goroutines, NEW n \in Names, Begin(g, n) PROVE TypeOK'
  <2>1. <<n>> \in Seq(Names) /\ <<n>> # <<>>
    OBVIOUS
  <2>2. path' \in [Goroutines -> Seq(Names)]
    BY <1>4, <2>1 DEF TypeOK, Begin
  <2> QED BY <1>4, <2>1, <2>2 DEF TypeOK, Begin, graphVars, connVars
<1>5. CASE UNCHANGED vars
  BY <1>5 DEF TypeOK, vars, graphVars, connVars, goVars
<1> QED BY <1>1, <1>2, <1>3, <1>4, <1>5 DEF Next

-----------------------------------------------------------------------------
(* Locks *)

\* What a goroutine holds: the locks of its calls, but not the one it waits for.
Held(g) == {n \in Names : \E i \in 1..Len(path[g]) : path[g][i] = n /\ (i < Len(path[g]) \/ st[g] # "lock")}

LEMMA OwnedIsHeld ==
  TypeOK => (OwnedByCalls <=> \A n \in Names, g \in Goroutines : owner[n] = g <=> n \in Held(g))
BY DEF OwnedByCalls, Held

\* Nothing about a goroutine changes for the others.
LEMMA OthersHold ==
  ASSUME TypeOK, NEW g \in Goroutines, NEW h \in Goroutines, g # h, NEW p, NEW s,
         path' = [path EXCEPT ![g] = p], st' = [st EXCEPT ![g] = s]
  PROVE  path'[h] = path[h] /\ st'[h] = st[h] /\ Held(h)' = Held(h)
BY DEF TypeOK, Held

LEMMA ReturnHeld ==
  ASSUME TypeOK, OwnedByCalls, Once, NEW g \in Goroutines, path[g] # <<>>, Return(g),
         st[g] = "lock" => ~Locked(Top(g))
  PROVE  (OwnedByCalls /\ Once)'
<1> DEFINE m == Len(path[g]) - 1
<1>1. /\ path[g] \in Seq(Names) /\ m \in Nat /\ Len(path[g]) = m + 1 /\ Top(g) = path[g][m + 1] /\ Top(g) \in Names
      /\ path'[g] \in Seq(Names) /\ Len(path'[g]) = m /\ \A i \in 1..m : path'[g][i] = path[g][i]
      /\ st'[g] # "lock"
  BY Pop DEF TypeOK, Return, Top, Caller
<1>2. \A h \in Goroutines : h # g => path'[h] = path[h] /\ st'[h] = st[h] /\ Held(h)' = Held(h)
  BY OthersHold DEF Return
<1>3. \A i \in 1..m : path[g][i] # Top(g)
  <2> SUFFICES ASSUME NEW i \in 1..m, path[g][i] = Top(g) PROVE FALSE
    OBVIOUS
  <2>1. i \in 1..Len(path[g]) /\ m + 1 \in 1..Len(path[g]) /\ i # m + 1 /\ i < Len(path[g])
    BY <1>1
  <2>2. owner[Top(g)] = g
    BY <1>1, <2>1 DEF OwnedByCalls
  <2>3. CASE st[g] = "lock"
    BY <2>2, <2>3, ChainAssumption DEF Locked
  <2>4. CASE st[g] # "lock"
    BY <1>1, <2>1, <2>4 DEF Once
  <2> QED BY <2>3, <2>4
<1>4. \A n \in Names : n \in Held(g)' <=> \E i \in 1..m : path[g][i] = n
  BY <1>1 DEF Held
<1>5. \A n \in Names : n # Top(g) => (owner[n] = g <=> \E i \in 1..m : path[g][i] = n)
  <2>1. 1..Len(path[g]) = (1..m) \cup {m + 1} /\ \A i \in 1..m : i < Len(path[g])
    BY <1>1
  <2> HIDE DEF m
  <2> QED BY <1>1, <2>1 DEF OwnedByCalls
<1>6. owner' = [owner EXCEPT ![Top(g)] = None] /\ None \notin Goroutines
  BY ChainAssumption DEF Return
<1>7. \A h \in Goroutines, n \in Names : owner'[n] = h <=> n \in Held(h)'
  <2> SUFFICES ASSUME NEW h \in Goroutines, NEW n \in Names PROVE owner'[n] = h <=> n \in Held(h)'
    OBVIOUS
  <2>1. CASE h = g
    BY <1>1, <1>3, <1>4, <1>5, <1>6, <2>1 DEF TypeOK
  <2>2. CASE h # g
    <3>1. owner[n] = h <=> n \in Held(h)'
      BY <1>2, <2>2, OwnedIsHeld
    <3>2. n = Top(g) => owner[n] # h
      <4> SUFFICES ASSUME n = Top(g), st[g] # "lock" PROVE owner[n] = g
        BY <2>2, <1>6 DEF Locked
      <4>1. m + 1 \in 1..Len(path[g]) /\ path[g][m + 1] = n
        BY <1>1
      <4> QED BY <4>1 DEF OwnedByCalls
    <3> QED BY <1>6, <3>1, <3>2, <1>1 DEF TypeOK
  <2> QED BY <2>1, <2>2
<1>8. OwnedByCalls'
  BY <1>7 DEF OwnedByCalls, Held
<1>9. Once'
  <2> SUFFICES ASSUME NEW h \in Goroutines, NEW i \in 1..Len(path'[h]), NEW j \in 1..Len(path'[h]),
                      i # j, path'[h][i] = path'[h][j]
               PROVE  st'[h] = "lock" /\ (i = Len(path'[h]) \/ j = Len(path'[h]))
    BY DEF Once
  <2>1. CASE h = g
    <3>1. i \in 1..Len(path[g]) /\ j \in 1..Len(path[g]) /\ i # Len(path[g]) /\ j # Len(path[g]) /\ path[g][i] = path[g][j]
      BY <1>1, <2>1, SMTT(30)
    <3> QED BY <3>1 DEF Once
  <2>2. CASE h # g
    BY <1>2, <2>2 DEF Once
  <2> QED BY <2>1, <2>2
<1> QED BY <1>8, <1>9

LEMMA UnwindHeld ==
  ASSUME TypeOK, OwnedByCalls, Once, NEW g \in Goroutines, Unwind(g)
  PROVE  (OwnedByCalls /\ Once)'
<1>1. path'[g] = <<>> /\ Len(path'[g]) = 0 /\ Held(g)' = {}
  BY DEF TypeOK, Unwind, Held
<1>2. \A h \in Goroutines : h # g => path'[h] = path[h] /\ st'[h] = st[h] /\ Held(h)' = Held(h)
  BY OthersHold DEF Unwind
<1>3. owner' = [n \in Names |-> IF owner[n] = g THEN None ELSE owner[n]] /\ None \notin Goroutines
  BY ChainAssumption DEF Unwind, ReleaseAll
<1>4. \A h \in Goroutines, n \in Names : owner'[n] = h <=> n \in Held(h)'
  BY <1>1, <1>2, <1>3, OwnedIsHeld
<1> QED BY <1>1, <1>2, <1>4 DEF OwnedByCalls, Once, Held

LEMMA ResetHeld == ASSUME Reset PROVE (OwnedByCalls /\ Once)'
<1>1. \A g \in Goroutines : Len(path'[g]) = 0
  BY DEF Reset
<1> QED BY <1>1, ChainAssumption DEF Reset, OwnedByCalls, Once

\* A goroutine whose stack or place changes, but not what it holds.
LEMMA SameHeld ==
  ASSUME TypeOK, OwnedByCalls, NEW g \in Goroutines, NEW p, NEW s,
         path' = [path EXCEPT ![g] = p], st' = [st EXCEPT ![g] = s], owner' = owner,
         \A n \in Names : n \in Held(g)' <=> n \in Held(g)
  PROVE  OwnedByCalls'
<1>1. ASSUME NEW h \in Goroutines, NEW n \in Names PROVE owner'[n] = h <=> n \in Held(h)'
  <2>1. owner[n] = h <=> n \in Held(h)
    BY OwnedIsHeld
  <2>2. CASE h = g
    BY <2>1, <2>2
  <2>3. CASE h # g
    <3>1. Held(h)' = Held(h)
      BY <2>3, OthersHold
    <3> QED BY <2>1, <3>1
  <2> QED BY <2>2, <2>3
<1> QED BY <1>1 DEF OwnedByCalls, Held

LEMMA SameOnce ==
  ASSUME TypeOK, Once, NEW g \in Goroutines, NEW p, NEW s,
         path' = [path EXCEPT ![g] = p], st' = [st EXCEPT ![g] = s],
         \A i, j \in 1..Len(p) : i # j /\ p[i] = p[j] => s = "lock" /\ (i = Len(p) \/ j = Len(p))
  PROVE  Once'
BY DEF TypeOK, Once

LEMMA LockHeld ==
  ASSUME TypeOK, OwnedByCalls, Once, NEW g \in Goroutines, Lock(g), conn[Top(g)] = 0
  PROVE  (OwnedByCalls /\ Once)'
<1> DEFINE m == Len(path[g])
<1>1. /\ path[g] \in Seq(Names) /\ m \in Nat \ {0} /\ Top(g) = path[g][m] /\ Top(g) \in Names
      /\ st[g] = "lock" /\ owner[Top(g)] = None
  BY Pop DEF TypeOK, Lock, Locked, Top
<1>2. /\ owner' = [owner EXCEPT ![Top(g)] = g] /\ path' = path
      /\ st' = [st EXCEPT ![g] = IF via[Top(g)] = None THEN "dial" ELSE "lookup"]
      /\ st'[g] # "lock"
  BY DEF Lock, TypeOK
<1>3. \A h \in Goroutines : h # g => path'[h] = path[h] /\ st'[h] = st[h] /\ Held(h)' = Held(h)
  BY <1>2 DEF TypeOK, Held
<1>4. \A i \in 1..m : i < m => path[g][i] # Top(g)
  BY <1>1, ChainAssumption DEF OwnedByCalls
<1>5. \A n \in Names : n \in Held(g)' <=> n = Top(g) \/ n \in Held(g)
  <2>1. \A n \in Names : n \in Held(g)' <=> \E i \in 1..m : path[g][i] = n
    BY <1>2 DEF Held
  <2>2. \A n \in Names : n \in Held(g) <=> \E i \in 1..m : path[g][i] = n /\ i < m
    BY <1>1 DEF Held
  <2>3. m \in 1..m /\ \A i \in 1..m : i < m \/ i = m
    BY <1>1
  <2> HIDE DEF m
  <2> QED BY <1>1, <2>1, <2>2, <2>3
<1>6. \A h \in Goroutines, n \in Names : owner'[n] = h <=> n \in Held(h)'
  <2>1. \A h \in Goroutines : Top(g) \notin Held(h)
    BY <1>1, OwnedIsHeld, ChainAssumption
  <2> SUFFICES ASSUME NEW h \in Goroutines, NEW n \in Names PROVE owner'[n] = h <=> n \in Held(h)'
    OBVIOUS
  <2>2. owner[n] = h <=> n \in Held(h)
    BY OwnedIsHeld
  <2>3. CASE n = Top(g)
    BY <1>1, <1>2, <1>3, <1>5, <2>1, <2>3 DEF TypeOK
  <2>4. CASE n # Top(g)
    BY <1>1, <1>2, <1>3, <1>5, <2>2, <2>4 DEF TypeOK
  <2> QED BY <2>3, <2>4
<1>7. OwnedByCalls'
  BY <1>6 DEF OwnedByCalls, Held
<1>8. Once'
  <2> SUFFICES ASSUME NEW h \in Goroutines, NEW i \in 1..Len(path'[h]), NEW j \in 1..Len(path'[h]),
                      i # j, path'[h][i] = path'[h][j]
               PROVE  st'[h] = "lock" /\ (i = Len(path'[h]) \/ j = Len(path'[h]))
    BY DEF Once
  <2>1. CASE h = g
    <3>1. i \in 1..m /\ j \in 1..m /\ path[g][i] = path[g][j] /\ (i = m \/ j = m)
      BY <1>2, <2>1 DEF Once
    <3>2. CASE i = m
      BY <1>1, <1>4, <3>1, <3>2
    <3>3. CASE j = m
      BY <1>1, <1>4, <3>1, <3>3
    <3> QED BY <3>1, <3>2, <3>3
  <2>2. CASE h # g
    BY <1>3, <2>2 DEF Once
  <2> QED BY <2>1, <2>2
<1> QED BY <1>7, <1>8

LEMMA LookupHeld ==
  ASSUME TypeOK, OwnedByCalls, Once, NEW g \in Goroutines, Lookup(g)
  PROVE  (OwnedByCalls /\ Once)'
<1> DEFINE v == via[Top(g)]
<1> DEFINE m == Len(path[g])
<1>1. v \in Names /\ path[g] # <<>> /\ path[g] \in Seq(Names) /\ m \in Nat /\ st[g] = "lookup" /\ owner' = owner
  BY DEF TypeOK, Lookup
<1>2. CASE conn[v] # 0
  <2>1. path' = [path EXCEPT ![g] = path[g]] /\ st' = [st EXCEPT ![g] = "raw"]
    BY <1>1, <1>2 DEF Lookup, TypeOK
  <2>2. \A n \in Names : n \in Held(g)' <=> n \in Held(g)
    BY <1>1, <2>1 DEF Held, TypeOK
  <2>3. \A i, j \in 1..m : i # j /\ path[g][i] = path[g][j] => FALSE
    BY <1>1 DEF Once
  <2> QED BY <1>1, <2>1, <2>2, <2>3, SameHeld, SameOnce
<1>3. CASE conn[v] = 0
  <2> DEFINE p == Append(path[g], v)
  <2>1. path' = [path EXCEPT ![g] = p] /\ st' = [st EXCEPT ![g] = "lock"] /\ path'[g] = p /\ st'[g] = "lock"
    BY <1>1, <1>3 DEF Lookup, TypeOK
  <2>2. p \in Seq(Names) /\ Len(p) = m + 1 /\ \A i \in 1..m : p[i] = path[g][i]
    BY <1>1, Push
  <2> HIDE DEF p, v
  <2>3. \A n \in Names : n \in Held(g)' <=> n \in Held(g)
    <3>1. \A n \in Names : n \in Held(g)' <=> \E i \in 1..m + 1 : p[i] = n /\ i < m + 1
      BY <2>1, <2>2 DEF Held
    <3>2. \A n \in Names : n \in Held(g) <=> \E i \in 1..m : path[g][i] = n
      BY <1>1 DEF Held
    <3>3. \A i : i \in 1..m <=> i \in 1..m + 1 /\ i < m + 1
      BY <1>1
    <3> HIDE DEF m
    <3> QED BY <3>1, <3>2, <3>3, <2>2
  <2>4. \A i, j \in 1..Len(p) : i # j /\ p[i] = p[j] => i = Len(p) \/ j = Len(p)
    <3> SUFFICES ASSUME NEW i \in 1..Len(p), NEW j \in 1..Len(p), i # Len(p), j # Len(p), i # j, p[i] = p[j] PROVE FALSE
      OBVIOUS
    <3>1. i \in 1..m /\ j \in 1..m /\ path[g][i] = path[g][j]
      BY <1>1, <2>2
    <3> QED BY <1>1, <3>1 DEF Once
  <2> QED BY <1>1, <2>1, <2>3, <2>4, SameHeld, SameOnce
<1> QED BY <1>2, <1>3

LEMMA StepHeld ==
  ASSUME TypeOK, OwnedByCalls, Once, [Next]_vars
  PROVE  (OwnedByCalls /\ Once)'
<1>1. ASSUME NEW g \in Goroutines, Lock(g) PROVE (OwnedByCalls /\ Once)'
  <2>1. CASE conn[Top(g)] # 0
    <3>1. Return(g) /\ ~Locked(Top(g)) /\ path[g] # <<>>
      BY <1>1, <2>1 DEF Lock, TypeOK
    <3> QED BY <3>1, ReturnHeld
  <2>2. CASE conn[Top(g)] = 0
    BY <1>1, <2>2, LockHeld
  <2> QED BY <2>1, <2>2
<1>2. ASSUME NEW g \in Goroutines, Lookup(g) PROVE (OwnedByCalls /\ Once)'
  BY <1>2, LookupHeld
<1>3. ASSUME NEW g \in Goroutines, Unwind(g) PROVE (OwnedByCalls /\ Once)'
  BY <1>3, UnwindHeld
<1>4. ASSUME NEW g \in Goroutines, RawConn(g) PROVE (OwnedByCalls /\ Once)'
  <2>1. path' = [path EXCEPT ![g] = path[g]] /\ st' = [st EXCEPT ![g] = "dial"] /\ owner' = owner /\ st[g] = "raw"
    BY <1>4 DEF RawConn, TypeOK
  <2>2. \A n \in Names : n \in Held(g)' <=> n \in Held(g)
    BY <2>1 DEF Held, TypeOK
  <2>3. \A i, j \in 1..Len(path[g]) : i # j /\ path[g][i] = path[g][j] => FALSE
    BY <2>1 DEF Once
  <2> QED BY <2>1, <2>2, <2>3, SameHeld, SameOnce
<1>5. ASSUME NEW g \in Goroutines, Dial(g) PROVE (OwnedByCalls /\ Once)'
  <2>1. Return(g) /\ st[g] = "dial" /\ path[g] # <<>>
    BY <1>5 DEF Dial, TypeOK
  <2> QED BY <2>1, ReturnHeld
<1>6. CASE Reset
  BY <1>6, ResetHeld
<1>7. ASSUME NEW g \in Goroutines, NEW n \in Names, Begin(g, n) PROVE (OwnedByCalls /\ Once)'
  <2>1. /\ path' = [path EXCEPT ![g] = <<n>>] /\ st' = [st EXCEPT ![g] = "lock"] /\ owner' = owner
        /\ path[g] = <<>> /\ path'[g] = <<n>> /\ st'[g] = "lock"
    BY <1>7 DEF Begin, TypeOK
  <2>2. Len(<<n>>) = 1 /\ Len(path[g]) = 0
    BY <2>1
  <2>3. \A k \in Names : k \in Held(g)' <=> k \in Held(g)
    BY <2>1, <2>2 DEF Held
  <2>4. \A i, j \in 1..Len(<<n>>) : i # j => FALSE
    BY <2>2
  <2> QED BY <2>1, <2>3, <2>4, SameHeld, SameOnce
<1>8. CASE UNCHANGED <<goVars, owner>>
  BY <1>8 DEF goVars, OwnedByCalls, Once
<1>9. ASSUME NEW g \in Goroutines, Connect(g) PROVE (OwnedByCalls /\ Once)'
  BY <1>1, <1>2, <1>3, <1>4, <1>5, <1>6, <1>9 DEF Connect, LookupFails, DialFails, Panic
<1>10. CASE Registry
  <2>1. Reset \/ UNCHANGED <<goVars, owner>>
    BY <1>10 DEF Registry, Restart, Remove, RemoveEnds, Add, Update
  <2> QED BY <2>1, <1>6, <1>8
<1>11. ASSUME NEW n \in Names, Disconnect(n) PROVE (OwnedByCalls /\ Once)'
  BY <1>8, <1>11 DEF Disconnect
<1> QED BY <1>7, <1>8, <1>9, <1>10, <1>11 DEF Next, vars

-----------------------------------------------------------------------------
(* The graph *)

LEMMA StepAcyclic ==
  ASSUME TypeOK, Acyclic, [Next]_vars
  PROVE  Acyclic'
<1>1. CASE Reset
  <2> SUFFICES ASSUME ~drifted' PROVE AcyclicIn(sessions', via', Names)
    BY DEF Acyclic
  <2>1. ~drifted /\ sessions' = sessions /\ \A n \in sessions : via'[n] = via[n]
    BY <1>1 DEF Reset, ViaOf, HasRow
  <2> QED BY <2>1, FewerSessions DEF Acyclic
<1>2. ASSUME NEW n \in Names, Remove(n) PROVE Acyclic'
  BY <1>2, FewerSessions DEF Remove, Acyclic
<1>3. ASSUME NEW n \in Names, NEW v \in Names \cup {None}, Add(n, v) PROVE Acyclic'
  BY <1>3, NoNewCycle DEF Add, MayAdd, Acyclic, TypeOK
<1>4. ASSUME NEW n \in Names, NEW v \in Names \cup {None}, Update(n, v) PROVE Acyclic'
  <2>1. /\ sessions' = sessions \cup {n} /\ via' = [via EXCEPT ![n] = v] /\ drifted' = drifted
        /\ ~WouldCreateCycle(sessions, via, n, v)
    BY <1>4 DEF Update
  <2>2. sessions \in SUBSET Names /\ via \in [Names -> Names \cup {None}]
    BY DEF TypeOK
  <2>3. ~drifted => AcyclicIn(sessions \cup {n}, [via EXCEPT ![n] = v], Names)
    BY <2>1, <2>2, NoNewCycle DEF Acyclic
  <2> QED BY <2>1, <2>3 DEF Acyclic
<1>5. CASE UNCHANGED <<sessions, via, drifted>>
  BY <1>5 DEF Acyclic
<1>6. ASSUME NEW g \in Goroutines, Connect(g) PROVE Acyclic'
  BY <1>1, <1>5, <1>6
  DEF Connect, Lock, Lookup, LookupFails, RawConn, Dial, DialFails, Panic, Unwind, graphVars
<1>7. CASE Registry
  BY <1>1, <1>2, <1>3, <1>4, <1>5, <1>7 DEF Registry, Restart, RemoveEnds
<1> QED BY <1>5, <1>6, <1>7 DEF Next, vars, graphVars, Disconnect, Begin

-----------------------------------------------------------------------------
(* The theorems *)

THEOREM Invariant == Spec => []Inv
<1>1. Init => Inv
  BY InitInv
<1>2. Inv /\ [Next]_vars => Inv'
  BY StepType, StepHeld, StepAcyclic DEF Inv
<1> QED BY <1>1, <1>2, PTL DEF Spec

\* The variables keep their types, and a goroutine has a stack of calls exactly
\* while it is in Connect.
THEOREM TypeCorrect == Spec => []TypeOK
<1>1. Inv => TypeOK
  BY DEF Inv
<1> QED BY <1>1, Invariant, PTL

\* Every way out of Connect, a panic included, gives back the locks of all its
\* calls; none is given back early or by another.
THEOREM LocksBelongToCalls == Spec => []OwnedByCalls
<1>1. Inv => OwnedByCalls
  BY DEF Inv
<1> QED BY <1>1, Invariant, PTL

\* The checks of Add and Update keep the via graph free of cycles.
THEOREM GraphAcyclic == Spec => []Acyclic
<1>1. Inv => Acyclic
  BY DEF Inv
<1> QED BY <1>1, Invariant, PTL

\* What the stacks of goroutines that wait for one another hold, closed under
\* via: each name has its jump host on top of it, and the last one is held by
\* another of them.
LEMMA CircleHasNoEnd ==
  ASSUME Inv, ~drifted, Steady, NEW D \in SUBSET Goroutines, Deadlocked(D)
  PROVE  FALSE
<1> DEFINE S == {n \in Names : \E g \in D : \E i \in 1..Len(path[g]) - 1 : path[g][i] = n}
<1>1. \A g \in D : st[g] = "lock" /\ path[g] \in Seq(Names) /\ Len(path[g]) \in Nat \ {0} /\ Top(g) \in Names
  BY Pop DEF Deadlocked, Inv, TypeOK, Top
<1>2. \A g \in D : Top(g) \in S
  <2> SUFFICES ASSUME NEW g \in D PROVE Top(g) \in S
    OBVIOUS
  <2>1. PICK h \in D : owner[Top(g)] = h
    BY DEF Deadlocked
  <2>2. PICK i \in 1..Len(path[h]) : path[h][i] = Top(g) /\ i < Len(path[h])
    BY <1>1, <2>1 DEF Inv, OwnedByCalls
  <2>3. i \in 1..Len(path[h]) - 1
    BY <1>1, <2>2
  <2> QED BY <1>1, <2>2, <2>3
<1>3. S # {}
  BY <1>2 DEF Deadlocked
<1>4. \A n \in S : Jumps(sessions, via, n) \cap S # {}
  <2> SUFFICES ASSUME NEW n \in S PROVE Jumps(sessions, via, n) \cap S # {}
    OBVIOUS
  <2>0. PICK g \in D : (\E i \in 1..Len(path[g]) - 1 : path[g][i] = n)
    OBVIOUS
  <2>1. PICK i \in 1..Len(path[g]) - 1 : (path[g][i] = n)
    BY <2>0
  <2>2. n \in sessions /\ via[n] = path[g][i + 1]
    BY <2>1 DEF Steady
  <2>3. i + 1 \in 1..Len(path[g]) /\ path[g][i + 1] \in Names /\ (i + 1 = Len(path[g]) \/ i + 1 \in 1..Len(path[g]) - 1)
    BY <1>1, <2>1
  <2>4. via[n] \in S
    <3>1. CASE i + 1 = Len(path[g])
      BY <1>2, <2>2, <3>1 DEF Top
    <3>2. CASE i + 1 \in 1..Len(path[g]) - 1
      BY <2>2, <2>3, <3>2
    <3> QED BY <2>3, <3>1, <3>2
  <2>5. via[n] # None
    BY <2>4, ChainAssumption
  <2> QED BY <2>2, <2>4, <2>5 DEF Jumps
<1> QED BY <1>3, <1>4 DEF Inv, Acyclic, AcyclicIn

\* Connects never wait for one another's locks in a circle.
THEOREM NoCircularWait == Spec => []NoLockCycle
<1>1. Inv => NoLockCycle
  BY CircleHasNoEnd DEF NoLockCycle
<1> QED BY <1>1, Invariant, PTL

\* The loop of wouldCreateCycle ends and answers whether the new jump host would
\* lead back to the session or to a cycle, on every registry.
THEOREM WalkIsRight == Spec => []WalkAgrees
<1> QED BY WalkAnswers, TypeCorrect, PTL
=============================================================================
