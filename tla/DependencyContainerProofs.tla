---------------------- MODULE DependencyContainerProofs ----------------------
(***************************************************************************)
(* Theorems about DependencyContainer, for every set of tasks, keys,       *)
(* providers, needs and overrides.                                         *)
(*                                                                         *)
(* Three accounts are kept apart: what the entered overrides have put into *)
(* the table of providers (Overriding), who holds or waits for a lock and  *)
(* what that says of the singleton (Resolving), and where the instances of *)
(* the scope are on their way to being closed (Scoping).                   *)
(***************************************************************************)
EXTENDS DependencyContainer, SequenceTheorems, FiniteSetTheorems, TLAPS

Contexts == ToSet(Overrides)
Instances == Providers \X Nat
Frames == [key : Keys, stored : Keys, provider : Providers, inScope : BOOLEAN,
           needed : Nat, waiting : BOOLEAN]

\* Every variable stays in its range.
StateOK ==
    /\ providers \in [Keys -> Providers \cup {None}]
    /\ kind \in [Providers -> {None, "singleton", "scoped", "transient"}]
    /\ singleton \in [Providers -> Instances \cup {NoInstance}]
    /\ lock \in [Providers -> Seq(Tasks)]
    /\ made \in [Providers -> Nat]
    /\ stack \in [Tasks -> Seq(Frames)]
    /\ instances \in [Keys -> Instances \cup {NoInstance}]
    /\ teardown \in Seq(Instances) /\ left \in Seq(Instances)
    /\ scope \in {"open", "closing", "closed"}
    /\ closed \subseteq Instances /\ late \subseteq Instances
    /\ entered \in Seq(Contexts)
    /\ original \in [Contexts -> Providers \cup {None}]
    /\ scopeGot \in [Keys -> SUBSET Instances]
    /\ raced \subseteq Keys

-----------------------------------------------------------------------------
(* Overriding                                                              *)

Registered(k) == IF Lifecycle[k] = None THEN None ELSE k

\* Once the first n of the overrides s have been entered, k leads to p.
LeadsTo(s, n, k, p) ==
    \/ p = Registered(k) /\ \A j \in 1..n : OverrideKey[s[j]] # k
    \/ \E i \in 1..n : /\ p = s[i] /\ OverrideKey[s[i]] = k
                       /\ \A j \in (i + 1)..n : OverrideKey[s[j]] # k

\* Each context remembers what its key led to before it.
Overriding ==
    /\ \A k \in Keys : LeadsTo(entered, Len(entered), k, providers[k])
    /\ \A n \in DOMAIN entered :
          LeadsTo(entered, n - 1, OverrideKey[entered[n]], original[entered[n]])
    /\ \A m, n \in DOMAIN entered : entered[m] = entered[n] => m = n
    /\ \A n \in DOMAIN entered : kind[entered[n]] # None
    /\ \A p \in Keys \cap Providers : kind[p] = Lifecycle[p]

-----------------------------------------------------------------------------
(* Resolving                                                               *)

Rank == CHOOSE rank \in [Keys -> 0..Cardinality(Keys)] : Ranks(rank)

\* What is true of each call a task is in.
CallOK(t, i) ==
    LET c == stack[t][i]
        p == c.provider
    IN  /\ kind[p] # None
        /\ p \in Keys => p \in {c.key, Unnamed[c.key]}
        /\ p \notin Keys => i = Len(stack[t])
        /\ c.inScope => i = 1
        /\ c.waiting => kind[p] = "singleton" /\ i = Len(stack[t])
        /\ kind[p] = "singleton" => t \in ToSet(lock[p])
        /\ kind[p] = "singleton" /\ ~c.waiting => lock[p][1] = t /\ singleton[p] = NoInstance

\* A factory resolves what is below it in the ranks.
Descending(t) ==
    \A i, j \in DOMAIN stack[t] :
        LET p == stack[t][i].provider
            q == stack[t][j].provider
        IN  i < j => p \in Keys /\ (q \in Keys => Rank[q] < Rank[p])

\* Whoever is in the queue of a lock is there once, for a call it is in.
LockOK(p) ==
    /\ \A i, j \in DOMAIN lock[p] : lock[p][i] = lock[p][j] => i = j
    /\ \A t \in ToSet(lock[p]) :
          kind[p] = "singleton" /\ \E i \in DOMAIN stack[t] : stack[t][i].provider = p

MadeOK(p) ==
    /\ kind[p] = "singleton" => made[p] = IF singleton[p] = NoInstance THEN 0 ELSE 1
    /\ kind[p] = None => made[p] = 0
    /\ kind[p] # "singleton" => singleton[p] = NoInstance

Resolving ==
    /\ \A t \in Tasks : Descending(t) /\ \A i \in DOMAIN stack[t] : CallOK(t, i)
    /\ \A p \in Providers : LockOK(p) /\ MadeOK(p)

-----------------------------------------------------------------------------
(* Scoping                                                                 *)

\* Task t resolves a key in the scope.
InScope(t) == stack[t] # <<>> /\ stack[t][1].inScope

\* The cache is asked about the key under which its instances are stored.
OwnEntry(k) == Lifecycle[k] # None \/ Unnamed[k] = k

\* What holds of k while nobody has interfered with its entry in the cache.
EntryOK(k) ==
    scope = "open" /\ k \notin raced /\ ~FellBack(k) /\ OwnEntry(k) =>
        /\ \A i \in scopeGot[k] : instances[k] = i
        /\ \A t \in Tasks : InScope(t) /\ stack[t][1].key = k => instances[k] = NoInstance

\* An instance is closed, on the way there, or late.
Covered(i) ==
    \/ i \in late
    \/ scope = "open" /\ i \in ToSet(teardown)
    \/ scope # "open" /\ i \in closed
    \/ scope = "closing" /\ i \in ToSet(left)

\* The walk goes through what was there when it began, from the last.
WalkOK ==
    scope = "closing" =>
        /\ Len(left) <= Len(teardown)
        /\ \A m \in 1..Len(left) : left[m] = teardown[Len(left) + 1 - m]
        /\ \A j \in DOMAIN teardown :
              IF j <= Len(left) THEN teardown[j] \notin closed
                                ELSE teardown[j] \in closed \cup late

Scoping ==
    /\ \A t \in Tasks : InScope(t) =>
          LET c == stack[t][1]
          IN  IF OwnEntry(c.key) THEN c.stored = c.key
              ELSE c.stored \in {c.key, Unnamed[c.key]}
    /\ \A t, u \in Tasks :
          t # u /\ InScope(t) /\ InScope(u) /\ stack[t][1].stored = stack[u][1].stored =>
             stack[t][1].stored \in raced
    /\ \A k \in Keys : EntryOK(k)
    /\ \A k \in Keys : /\ instances[k] # NoInstance => Covered(instances[k])
                       /\ \A i \in scopeGot[k] : Covered(i)
    /\ \A i \in ToSet(teardown) \cup closed : i[2] <= made[i[1]]
    /\ \A i, j \in DOMAIN teardown : teardown[i] = teardown[j] => i = j
    /\ scope = "open" => closed = {}
    /\ WalkOK

IInv == StateOK /\ Overriding /\ Resolving /\ Scoping

-----------------------------------------------------------------------------
(* Sequences and calls                                                     *)

\* Who is removed from a queue he stands in once leaves the rest in order.
LEMMA RemoveFirstFacts ==
  ASSUME NEW S, NEW s \in Seq(S), NEW k \in DOMAIN s,
         \A i, j \in DOMAIN s : s[i] = s[j] => i = j
  PROVE  /\ RemoveFirst(s, s[k]) \in Seq(S)
         /\ Len(RemoveFirst(s, s[k])) = Len(s) - 1
         /\ \A j \in DOMAIN RemoveFirst(s, s[k]) :
               RemoveFirst(s, s[k])[j] = IF j < k THEN s[j] ELSE s[j + 1]
  <1> DEFINE I == {i \in 1..Len(s) : s[i] = s[k]}
             a == SubSeq(s, 1, k - 1)
             b == SubSeq(s, k + 1, Len(s))
  <1>1. I = {k} /\ k \in 1..Len(s) /\ Len(s) \in Nat
    OBVIOUS
  <1>2. SelectInSeq(s, LAMBDA v : v = s[k]) = k
    <2>1. SelectInSeq(s, LAMBDA v : v = s[k]) = IF I # {} THEN Min(I) ELSE 0
      BY DEF SelectInSeq
    <2>2. Min(I) = k
      BY <1>1 DEF Min
    <2> QED
      BY <1>1, <2>1, <2>2
  <1>3. RemoveFirst(s, s[k]) = a \o b
    <2>1. \E i \in 1..Len(s) : s[i] = s[k]
      BY <1>1
    <2>2. RemoveFirst(s, s[k]) = RemoveAt(s, SelectInSeq(s, LAMBDA v : v = s[k]))
      BY <2>1 DEF RemoveFirst
    <2> QED
      BY <1>2, <2>2 DEF RemoveAt
  <1>4. a \in Seq(S) /\ Len(a) = k - 1 /\ \A i \in 1..(k - 1) : a[i] = s[i]
    BY <1>1, SubSeqProperties
  <1>5. b \in Seq(S) /\ Len(b) = Len(s) - k /\ \A i \in 1..(Len(s) - k) : b[i] = s[k + i]
    BY <1>1, SubSeqProperties
  <1> HIDE DEF a, b
  <1>6. /\ a \o b \in Seq(S) /\ Len(a \o b) = Len(a) + Len(b)
        /\ \A i \in 1..(Len(a) + Len(b)) : (a \o b)[i] = IF i <= Len(a) THEN a[i] ELSE b[i - Len(a)]
    <2>1. a \in Seq(S) /\ b \in Seq(S)
      BY <1>4, <1>5
    <2> QED
      BY ONLY <2>1, ConcatProperties, Zenon
  <1>7. DOMAIN (a \o b) = 1..(Len(s) - 1) /\ Len(a) + Len(b) = Len(s) - 1
    BY <1>1, <1>4, <1>5, <1>6, SMTT(30)
  <1>8. ASSUME NEW j \in 1..(Len(s) - 1)
        PROVE  (a \o b)[j] = IF j < k THEN s[j] ELSE s[j + 1]
    <2>1. (a \o b)[j] = IF j <= Len(a) THEN a[j] ELSE b[j - Len(a)]
      BY <1>6, <1>7
    <2>2. CASE j < k
      BY <1>1, <1>4, <2>1, <2>2
    <2>3. CASE ~(j < k)
      BY <1>1, <1>4, <1>5, <2>1, <2>3
    <2> QED
      BY <2>2, <2>3
  <1> QED
    BY <1>3, <1>6, <1>7, <1>8

\* What is to be known of a queue after someone has left it.
LEMMA LeaveQueue ==
  ASSUME NEW S, NEW s \in Seq(S), NEW e,
         \A i, j \in DOMAIN s : s[i] = s[j] => i = j
  PROVE  /\ RemoveFirst(s, e) \in Seq(S)
         /\ ToSet(RemoveFirst(s, e)) = ToSet(s) \ {e}
         /\ \A i, j \in DOMAIN RemoveFirst(s, e) :
               RemoveFirst(s, e)[i] = RemoveFirst(s, e)[j] => i = j
         /\ s # <<>> /\ s[1] # e => RemoveFirst(s, e)[1] = s[1]
  <1>1. CASE e \notin ToSet(s)
    <2>1. RemoveFirst(s, e) = s
      BY <1>1 DEF RemoveFirst, ToSet
    <2> QED
      BY <1>1, <2>1
  <1>2. CASE e \in ToSet(s)
    <2> DEFINE r == RemoveFirst(s, e)
    <2>1. PICK k \in DOMAIN s : s[k] = e
      BY <1>2 DEF ToSet
    <2>2. /\ r \in Seq(S) /\ Len(r) = Len(s) - 1
          /\ \A j \in DOMAIN r : r[j] = IF j < k THEN s[j] ELSE s[j + 1]
      BY <2>1, RemoveFirstFacts
    <2> HIDE DEF r
    <2>3. DOMAIN s = 1..Len(s) /\ DOMAIN r = 1..Len(r) /\ Len(s) \in Nat /\ Len(r) \in Nat
      BY <2>2
    <2>4. ASSUME NEW x \in ToSet(s) \ {e} PROVE x \in ToSet(r)
      <3>1. PICK i \in DOMAIN s : s[i] = x
        BY DEF ToSet
      <3>2. CASE i < k
        BY <2>1, <2>2, <2>3, <3>1, <3>2 DEF ToSet
      <3>3. CASE i > k
        <4>1. i - 1 \in DOMAIN r /\ r[i - 1] = x
          BY <2>1, <2>2, <2>3, <3>1, <3>3
        <4> QED
          BY <4>1 DEF ToSet
      <3> QED
        BY <2>1, <2>3, <3>1, <3>2, <3>3
    <2>5. ASSUME NEW j \in DOMAIN r PROVE r[j] \in ToSet(s) \ {e}
      BY <2>1, <2>2, <2>3 DEF ToSet
    <2>6. ToSet(r) = ToSet(s) \ {e}
      BY <2>4, <2>5, ZenonT(30) DEF ToSet
    <2>7. \A i, j \in DOMAIN r : r[i] = r[j] => i = j
      BY <2>1, <2>2, <2>3
    <2>8. s # <<>> /\ s[1] # e => r[1] = s[1]
      BY <2>1, <2>2, <2>3
    <2> QED
      BY <2>2, <2>6, <2>7, <2>8 DEF r
  <1> QED
    BY <1>1, <1>2

\* There are ranks.
LEMMA RankFacts ==
  /\ Rank \in [Keys -> Int]
  /\ \A k \in Keys : \A n \in ToSet(Needs[k]) : Rank[n] < Rank[k] /\ Rank[Unnamed[n]] < Rank[k]
  <1>1. Rank \in [Keys -> 0..Cardinality(Keys)] /\ Ranks(Rank)
    BY NeedsAssumption DEF Rank
  <1>2. Rank \in [Keys -> Int]
    BY <1>1
  <1>3. \A k \in Keys : \A n \in ToSet(Needs[k]) : n \in Keys /\ Unnamed[n] \in Keys
    BY NeedsAssumption, UnnamedAssumption DEF ToSet
  <1> QED
    BY <1>1, <1>2, <1>3 DEF Ranks

\* What a key leads to.
LEMMA ProviderFacts ==
  ASSUME StateOK, Overriding, NEW k \in Keys
  PROVE  /\ Found(k) \in Keys /\ ProviderOf(k) \in Providers \cup {None}
         /\ Found(k) \in {k, Unnamed[k]}
         /\ OwnEntry(k) => Found(k) = k
         /\ ProviderOf(k) # None =>
               /\ ProviderOf(k) \in Providers
               /\ kind[ProviderOf(k)] # None
               /\ ProviderOf(k) \in Keys => ProviderOf(k) \in {k, Unnamed[k]}
  <1>1. Unnamed[k] \in Keys
    BY UnnamedAssumption
  <1>2. Found(k) \in Keys /\ Found(k) \in {k, Unnamed[k]} /\ ProviderOf(k) \in Providers \cup {None}
    BY <1>1 DEF Found, ProviderOf, StateOK
  <1>3. ASSUME NEW n \in Keys
        PROVE  /\ providers[n] \in {n, None} \/ \E i \in DOMAIN entered : providers[n] = entered[i]
               /\ providers[n] = n => Lifecycle[n] # None
               /\ providers[n] = None => Lifecycle[n] = None
    <2>1. entered \in Seq(Contexts) /\ LeadsTo(entered, Len(entered), n, providers[n])
      BY DEF StateOK, Overriding
    <2>2. \A i \in DOMAIN entered : entered[i] \in Contexts /\ entered[i] \notin Keys \cup {None}
      BY <2>1, OverridesAssumption DEF Contexts, ToSet
    <2>3. n # None
      BY KeysAssumption
    <2> QED
      BY <2>1, <2>2, <2>3 DEF LeadsTo, Registered
  <1>4. OwnEntry(k) => Found(k) = k
    BY <1>3 DEF OwnEntry, Found
  <1>5. ASSUME ProviderOf(k) # None
        PROVE  kind[ProviderOf(k)] # None /\ (ProviderOf(k) \in Keys => ProviderOf(k) \in {k, Unnamed[k]})
    <2> DEFINE n == Found(k)
    <2>1. n \in Keys /\ providers[n] = ProviderOf(k)
      BY <1>2 DEF ProviderOf
    <2>2. CASE \E i \in DOMAIN entered : providers[n] = entered[i]
      <3>1. \A i \in DOMAIN entered : entered[i] \notin Keys /\ kind[entered[i]] # None
        BY OverridesAssumption DEF StateOK, Overriding, Contexts, ToSet
      <3> QED
        BY <2>1, <2>2, <3>1
    <2>3. CASE providers[n] = n
      <3>1. n \in Keys \cap Providers /\ Lifecycle[n] # None
        BY <1>2, <1>3, <1>5, <2>1, <2>3
      <3> QED
        BY <1>2, <2>1, <2>3, <3>1 DEF Overriding
    <2> QED
      BY <1>3, <1>5, <2>1, <2>2, <2>3
  <1> QED
    BY <1>2, <1>4, <1>5

\* The calls of a task are a sequence.
LEMMA StackFacts ==
  ASSUME StateOK, NEW t \in Tasks
  PROVE  /\ stack[t] \in Seq(Frames) /\ Len(stack[t]) \in Nat
         /\ DOMAIN stack[t] = 1..Len(stack[t])
         /\ \A i \in DOMAIN stack[t] : stack[t][i] \in Frames
         /\ stack[t] # <<>> => /\ Len(stack[t]) \in DOMAIN stack[t] /\ 1 \in DOMAIN stack[t]
                               /\ Last(stack[t]) = stack[t][Len(stack[t])]
  BY DEF StateOK, Last

\* A provider is asked: one call more, and a place in the queue of its lock.
LEMMA BeginFacts ==
  ASSUME StateOK, NEW t \in Tasks, NEW c \in Frames, Begin(t, c)
  PROVE  /\ stack' \in [Tasks -> Seq(Frames)] /\ lock' \in [Providers -> Seq(Tasks)]
         /\ \A u \in Tasks \ {t} : stack'[u] = stack[u]
         /\ stack'[t] # <<>> /\ DOMAIN stack'[t] = 1..(Len(stack[t]) + 1)
         /\ Len(stack'[t]) = Len(stack[t]) + 1
         /\ \A i \in DOMAIN stack[t] : stack'[t][i] = stack[t][i]
         /\ LET d == stack'[t][Len(stack[t]) + 1]
            IN  /\ d.key = c.key /\ d.stored = c.stored
                /\ d.provider = c.provider /\ d.inScope = c.inScope
                /\ d.waiting = (IsSingleton(c.provider) /\ lock[c.provider] # <<>>)
         /\ \A q \in Providers \ {c.provider} : lock'[q] = lock[q]
         /\ lock'[c.provider] = IF IsSingleton(c.provider) THEN Append(lock[c.provider], t)
                                                           ELSE lock[c.provider]
         /\ UNCHANGED <<singleton, made>>
  <1> DEFINE p == c.provider
             w == IsSingleton(p) /\ lock[p] # <<>>
             d == [c EXCEPT !.waiting = w]
  <1>1. p \in Providers /\ w \in BOOLEAN
    BY DEF Frames, IsSingleton
  <1> HIDE DEF w
  <1>2. /\ d \in Frames /\ d.key = c.key /\ d.stored = c.stored /\ d.provider = c.provider
        /\ d.inScope = c.inScope /\ d.waiting = w
    BY <1>1 DEF Frames
  <1>3. /\ stack' = [stack EXCEPT ![t] = Append(@, d)]
        /\ lock' = IF IsSingleton(p) THEN [lock EXCEPT ![p] = Append(@, t)] ELSE lock
        /\ UNCHANGED <<singleton, made>>
    BY DEF Begin, w
  <1> HIDE DEF d
  <1>4. stack[t] \in Seq(Frames) /\ lock[p] \in Seq(Tasks)
    BY <1>1 DEF StateOK
  <1>5. stack'[t] = Append(stack[t], d)
    BY <1>3 DEF StateOK
  <1>6. stack' \in [Tasks -> Seq(Frames)] /\ \A u \in Tasks \ {t} : stack'[u] = stack[u]
    BY <1>2, <1>3 DEF StateOK
  <1>7. /\ lock' \in [Providers -> Seq(Tasks)]
        /\ \A q \in Providers \ {p} : lock'[q] = lock[q]
        /\ lock'[p] = IF IsSingleton(p) THEN Append(lock[p], t) ELSE lock[p]
    BY <1>1, <1>3 DEF StateOK
  <1>8. /\ Len(stack'[t]) = Len(stack[t]) + 1 /\ stack'[t] # <<>>
        /\ DOMAIN stack'[t] = 1..(Len(stack[t]) + 1)
        /\ \A i \in DOMAIN stack[t] : stack'[t][i] = stack[t][i]
        /\ stack'[t][Len(stack[t]) + 1] = d
    BY <1>2, <1>4, <1>5
  <1> QED
    BY <1>2, <1>3, <1>6, <1>7, <1>8 DEF w

\* A call is over: its task is in one less, and the others are what they were.
LEMMA ReturnFacts ==
  ASSUME StateOK, NEW t \in Tasks, stack[t] # <<>>, NEW inst, Return(t, inst)
  PROVE  /\ stack' \in [Tasks -> Seq(Frames)]
         /\ \A u \in Tasks \ {t} : stack'[u] = stack[u]
         /\ Len(stack'[t]) = Len(stack[t]) - 1 /\ DOMAIN stack'[t] = 1..(Len(stack[t]) - 1)
         /\ \A i \in 1..(Len(stack[t]) - 1) :
               LET c == stack[t][i]
                   d == stack'[t][i]
               IN  /\ d.key = c.key /\ d.stored = c.stored /\ d.provider = c.provider
                   /\ d.inScope = c.inScope /\ d.waiting = c.waiting
  <1> DEFINE below == Front(stack[t])
             n == Len(stack[t]) - 1
             s == IF below = <<>> THEN <<>> ELSE [below EXCEPT ![Len(below)].needed = @ + 1]
  <1>1. stack' = [stack EXCEPT ![t] = s]
    BY DEF Return
  <1>2. n \in Nat /\ Len(below) = n /\ below \in Seq(Frames) /\ \A i \in 1..n : below[i] = stack[t][i]
    <2>1. stack[t] \in Seq(Frames) /\ Len(stack[t]) \in Nat \ {0}
      BY StackFacts
    <2>2. below = SubSeq(stack[t], 1, n)
      BY DEF Front
    <2> QED
      BY <2>1, <2>2, SubSeqProperties
  <1>3. CASE below = <<>>
    <2>1. n = 0 /\ s = <<>>
      BY <1>2, <1>3
    <2>2. stack'[t] = <<>> /\ stack' \in [Tasks -> Seq(Frames)]
      BY <1>1, <2>1 DEF StateOK
    <2>3. \A u \in Tasks \ {t} : stack'[u] = stack[u]
      BY <1>1 DEF StateOK
    <2>4. Len(stack'[t]) = 0 /\ DOMAIN stack'[t] = 1..0 /\ ~\E i \in 1..0 : TRUE
      BY <2>2
    <2> QED
      BY <2>1, <2>2, <2>3, <2>4
  <1>4. CASE below # <<>>
    <2> DEFINE e == [below[n] EXCEPT !.needed = @ + 1]
    <2>1. n \in 1..n /\ below[n] \in Frames /\ DOMAIN below = 1..n
      BY <1>2, <1>4
    <2>2. /\ e \in Frames /\ e.key = below[n].key /\ e.stored = below[n].stored
          /\ e.provider = below[n].provider /\ e.inScope = below[n].inScope
          /\ e.waiting = below[n].waiting
      BY <2>1 DEF Frames
    <2>3. s = [below EXCEPT ![n] = e]
      BY <1>2, <1>4, <2>1
    <2> HIDE DEF below, n, s, e
    <2>4. /\ s \in Seq(Frames) /\ Len(s) = n /\ DOMAIN s = 1..n
          /\ \A i \in 1..n : s[i] = IF i = n THEN e ELSE below[i]
      BY <1>2, <2>1, <2>2, <2>3
    <2>5. stack'[t] = s /\ stack' \in [Tasks -> Seq(Frames)] /\ \A u \in Tasks \ {t} : stack'[u] = stack[u]
      BY <1>1, <2>4 DEF StateOK
    <2>6. ASSUME NEW i \in 1..n
          PROVE  /\ s[i].key = stack[t][i].key /\ s[i].stored = stack[t][i].stored
                 /\ s[i].provider = stack[t][i].provider /\ s[i].inScope = stack[t][i].inScope
                 /\ s[i].waiting = stack[t][i].waiting
      <3>1. CASE i = n
        BY <1>2, <2>2, <2>4, <3>1
      <3>2. CASE i # n
        BY <1>2, <2>4, <3>2
      <3> QED
        BY <3>1, <3>2
    <2>7. n = Len(stack[t]) - 1
      BY DEF n
    <2> QED
      BY <2>4, <2>5, <2>6, <2>7
  <1> QED
    BY <1>3, <1>4

\* A call for k.
LEMMA CallFacts ==
  ASSUME StateOK, Overriding, NEW k \in Keys, ProviderOf(k) # None, NEW b \in BOOLEAN
  PROVE  LET c == Call(k, b)
         IN  /\ c \in Frames /\ c.key = k /\ c.stored = Found(k) /\ c.provider = ProviderOf(k)
             /\ c.inScope = b
  BY ProviderFacts DEF Call, Frames

-----------------------------------------------------------------------------
(* Locks                                                                   *)

\* No provider is asked twice by one resolution.
LEMMA DistinctProviders ==
  ASSUME StateOK, NEW t \in Tasks, Descending(t),
         NEW i \in DOMAIN stack[t], NEW j \in DOMAIN stack[t], i # j
  PROVE  stack[t][i].provider # stack[t][j].provider
  <1> DEFINE p == stack[t][i].provider
             q == stack[t][j].provider
  <1>1. i \in Int /\ j \in Int
    BY StackFacts
  <1>2. \A k \in Keys : ~(Rank[k] < Rank[k])
    BY RankFacts
  <1>3. CASE i < j
    BY <1>2, <1>3 DEF Descending
  <1>4. CASE j < i
    BY <1>2, <1>4 DEF Descending
  <1> QED
    BY <1>1, <1>3, <1>4

\* Locks that are given up keep their other holders and waiters in order.
LEMMA HandOverFacts ==
  ASSUME StateOK, Resolving, NEW t \in Tasks, NEW D,
         lock' = [p \in Providers |-> lock'[p]],
         \A p \in Providers : lock'[p] = IF p \in D THEN RemoveFirst(lock[p], t) ELSE lock[p]
  PROVE  /\ lock' \in [Providers -> Seq(Tasks)]
         /\ \A p \in Providers :
              IF p \in D
              THEN /\ ToSet(lock'[p]) = ToSet(lock[p]) \ {t}
                   /\ \A i, j \in DOMAIN lock'[p] : lock'[p][i] = lock'[p][j] => i = j
                   /\ lock[p] # <<>> /\ lock[p][1] # t => lock'[p][1] = lock[p][1]
              ELSE lock'[p] = lock[p]
  <1>1. ASSUME NEW p \in Providers
        PROVE  /\ RemoveFirst(lock[p], t) \in Seq(Tasks)
               /\ ToSet(RemoveFirst(lock[p], t)) = ToSet(lock[p]) \ {t}
               /\ \A i, j \in DOMAIN RemoveFirst(lock[p], t) :
                     RemoveFirst(lock[p], t)[i] = RemoveFirst(lock[p], t)[j] => i = j
               /\ lock[p] # <<>> /\ lock[p][1] # t => RemoveFirst(lock[p], t)[1] = lock[p][1]
    <2>1. lock[p] \in Seq(Tasks) /\ \A i, j \in DOMAIN lock[p] : lock[p][i] = lock[p][j] => i = j
      BY DEF StateOK, Resolving, LockOK
    <2> QED
      BY <2>1, LeaveQueue
  <1>2. \A p \in Providers : lock[p] \in Seq(Tasks)
    BY DEF StateOK
  <1>3. ASSUME NEW p \in Providers
        PROVE  /\ lock'[p] \in Seq(Tasks)
               /\ IF p \in D
                  THEN /\ ToSet(lock'[p]) = ToSet(lock[p]) \ {t}
                       /\ \A i, j \in DOMAIN lock'[p] : lock'[p][i] = lock'[p][j] => i = j
                       /\ lock[p] # <<>> /\ lock[p][1] # t => lock'[p][1] = lock[p][1]
                  ELSE lock'[p] = lock[p]
    <2>1. CASE p \in D
      <3>1. lock'[p] = RemoveFirst(lock[p], t)
        BY <2>1
      <3> QED
        BY <1>1, <2>1, <3>1
    <2>2. CASE p \notin D
      BY <1>2, <2>2
    <2> QED
      BY <2>1, <2>2
  <1>4. lock' \in [Providers -> Seq(Tasks)]
    BY <1>3
  <1> QED
    BY <1>3, <1>4

\* Task t leaves all but its first m calls, those of the providers D, and gives
\* their locks up.
Leaves(t, m, D) ==
    /\ m \in Nat /\ m < Len(stack[t])
    /\ \A p : p \in D <=> \E i \in (m + 1)..Len(stack[t]) : stack[t][i].provider = p
    /\ stack' \in [Tasks -> Seq(Frames)]
    /\ \A u \in Tasks \ {t} : stack'[u] = stack[u]
    /\ Len(stack'[t]) = m
    /\ \A i \in 1..m : /\ stack'[t][i].key = stack[t][i].key
                       /\ stack'[t][i].provider = stack[t][i].provider
                       /\ stack'[t][i].inScope = stack[t][i].inScope
                       /\ stack'[t][i].waiting = stack[t][i].waiting
    /\ \A p \in Providers :
          IF p \in D
          THEN /\ ToSet(lock'[p]) = ToSet(lock[p]) \ {t}
               /\ \A i, j \in DOMAIN lock'[p] : lock'[p][i] = lock'[p][j] => i = j
               /\ lock[p] # <<>> /\ lock[p][1] # t => lock'[p][1] = lock[p][1]
          ELSE lock'[p] = lock[p]
    /\ UNCHANGED kind
    /\ \A p \in Providers : /\ MadeOK(p)'
                            /\ singleton'[p] # singleton[p] => p \in D /\ lock[p][1] = t

\* A task that is no longer in some calls has left the queues of their locks,
\* and nothing else is known of any lock.
LEMMA LeavingKeepsResolving ==
  ASSUME StateOK, Resolving, NEW t \in Tasks, NEW m, NEW D, Leaves(t, m, D)
  PROVE  Resolving'
  <1> USE DEF Leaves
  <1> DEFINE n == Len(stack[t])
  <1>1. /\ n \in Nat /\ stack[t] \in Seq(Frames) /\ DOMAIN stack[t] = 1..n
        /\ \A i \in 1..n : stack[t][i].provider \in Providers
        /\ DOMAIN stack'[t] = 1..m /\ \A i \in 1..m : i \in 1..n /\ i # n
    <2>1. stack'[t] \in Seq(Frames) /\ DOMAIN stack'[t] = 1..m
      OBVIOUS
    <2>2. n \in Nat /\ stack[t] \in Seq(Frames) /\ DOMAIN stack[t] = 1..n
      BY StackFacts
    <2>3. \A i \in DOMAIN stack[t] : stack[t][i].provider \in Providers
      BY StackFacts DEF Frames
    <2> QED
      BY <2>1, <2>2, <2>3, SMTT(30)
  <1>2. ASSUME NEW i \in 1..m PROVE stack[t][i].provider \notin D
    <2> SUFFICES ASSUME NEW j \in (m + 1)..n PROVE stack[t][i].provider # stack[t][j].provider
      OBVIOUS
    <2>1. i \in DOMAIN stack[t] /\ j \in DOMAIN stack[t] /\ i # j
      BY <1>1
    <2> QED
      BY <2>1, DistinctProviders DEF Resolving
  <1>3. ASSUME NEW u \in Tasks, NEW i \in DOMAIN stack'[u] PROVE CallOK(u, i)'
    <2>1. CASE u = t
      <3> DEFINE p == stack[t][i].provider
      <3>1. i \in 1..m /\ i \in DOMAIN stack[t] /\ p \in Providers
        BY <1>1, <2>1
      <3>2. CallOK(t, i)
        BY <3>1 DEF Resolving
      <3>3. lock'[p] = lock[p]
        BY <1>2, <3>1
      <3>4. p \in Keys /\ ~stack[t][i].waiting
        BY <1>1, <3>1, <3>2 DEF CallOK
      <3>5. kind[p] = "singleton" => lock[p][1] = t /\ singleton[p] = NoInstance
        BY <3>2, <3>4 DEF CallOK
      <3>6. kind[p] = "singleton" => singleton'[p] = NoInstance
        BY <1>2, <3>1, <3>5
      <3> QED
        BY <2>1, <3>1, <3>2, <3>3, <3>4, <3>5, <3>6 DEF CallOK
    <2>2. CASE u # t
      <3> DEFINE p == stack[u][i].provider
      <3>1. stack'[u] = stack[u] /\ i \in DOMAIN stack[u]
        BY <2>2
      <3>2. CallOK(u, i) /\ p \in Providers
        BY <3>1, StackFacts DEF Resolving, Frames
      <3>3. kind[p] = "singleton" => u \in ToSet(lock'[p])
        <4>1. kind[p] = "singleton" => u \in ToSet(lock[p])
          BY <3>2 DEF CallOK
        <4>2. ToSet(lock'[p]) = ToSet(lock[p]) \ {t} \/ lock'[p] = lock[p]
          BY <3>2, Zenon
        <4> QED
          BY <2>2, <4>1, <4>2
      <3>4. kind[p] = "singleton" /\ ~stack[u][i].waiting => lock'[p][1] = u /\ singleton'[p] = NoInstance
        <4> SUFFICES ASSUME kind[p] = "singleton", ~stack[u][i].waiting
                     PROVE  lock'[p][1] = u /\ singleton'[p] = NoInstance
          OBVIOUS
        <4>1. lock[p][1] = u /\ singleton[p] = NoInstance /\ u \in ToSet(lock[p])
          BY <3>2 DEF CallOK
        <4>2. lock[p] # <<>>
          BY <4>1 DEF ToSet
        <4> QED
          BY <2>2, <3>2, <4>1, <4>2
      <3> QED
        BY <3>1, <3>2, <3>3, <3>4 DEF CallOK
    <2> QED
      BY <2>1, <2>2
  <1>4. ASSUME NEW u \in Tasks PROVE Descending(u)'
    <2>1. CASE u = t
      <3>1. \A i \in DOMAIN stack'[t] :
               i \in DOMAIN stack[t] /\ stack'[t][i].provider = stack[t][i].provider
        BY <1>1
      <3> QED
        BY <2>1, <3>1 DEF Resolving, Descending
    <2>2. CASE u # t
      BY <2>2 DEF Resolving, Descending
    <2> QED
      BY <2>1, <2>2
  <1>5. ASSUME NEW p \in Providers PROVE LockOK(p)'
    <2>1. LockOK(p)
      BY DEF Resolving
    <2>2. \A i, j \in DOMAIN lock'[p] : lock'[p][i] = lock'[p][j] => i = j
      BY <2>1 DEF LockOK
    <2>3. ASSUME NEW u \in ToSet(lock'[p])
          PROVE  kind[p] = "singleton" /\ \E i \in DOMAIN stack'[u] : stack'[u][i].provider = p
      <3>1. u \in ToSet(lock[p]) /\ u \in Tasks /\ (u = t => p \notin D)
        <4>1. u \in ToSet(lock[p]) /\ (u = t => p \notin D)
          <5>1. CASE p \in D
            <6>1. ToSet(lock'[p]) = ToSet(lock[p]) \ {t}
              BY <5>1, Zenon
            <6> QED
              BY <6>1
          <5>2. CASE p \notin D
            BY <5>2
          <5> QED
            BY <5>1, <5>2
        <4>2. lock[p] \in Seq(Tasks)
          BY DEF StateOK
        <4> QED
          BY <4>1, <4>2 DEF ToSet
      <3>2. PICK i \in DOMAIN stack[u] : stack[u][i].provider = p
        BY <2>1, <3>1 DEF LockOK
      <3>3. kind[p] = "singleton"
        BY <2>1, <3>1 DEF LockOK
      <3>4. CASE u = t
        <4>1. ~(i \in (m + 1)..n)
          BY <3>1, <3>2, <3>4
        <4>2. i \in 1..m
          BY <1>1, <3>2, <3>4, <4>1
        <4> QED
          BY <1>1, <3>2, <3>3, <3>4, <4>2
      <3>5. CASE u # t
        BY <3>1, <3>2, <3>3, <3>5
      <3> QED
        BY <3>4, <3>5
    <2> QED
      BY <2>2, <2>3 DEF LockOK
  <1> QED
    BY <1>3, <1>4, <1>5 DEF Resolving

\* Asking for a provider keeps the account of the locks.
LEMMA BeginKeepsResolving ==
  ASSUME StateOK, Overriding, Resolving, NEW t \in Tasks, NEW k \in Keys, NEW b \in BOOLEAN,
         ProviderOf(k) # None, ~Cached(ProviderOf(k)), Begin(t, Call(k, b)), UNCHANGED kind,
         \/ stack[t] = <<>>
         \/ LET c == stack[t][Len(stack[t])]
            IN  ~b /\ ~c.waiting /\ c.provider \in Keys /\ k \in ToSet(Needs[c.provider])
  PROVE  Resolving'
  <1> DEFINE n == Len(stack[t])
             p == ProviderOf(k)
  <1>1. /\ p \in Providers /\ kind[p] # None /\ (p \in Keys => p \in {k, Unnamed[k]})
        /\ k \in Keys /\ Unnamed[k] \in Keys
    BY ProviderFacts, UnnamedAssumption
  <1>2. /\ stack' \in [Tasks -> Seq(Frames)] /\ lock' \in [Providers -> Seq(Tasks)]
        /\ \A u \in Tasks \ {t} : stack'[u] = stack[u]
        /\ Len(stack'[t]) = n + 1 /\ DOMAIN stack'[t] = 1..(n + 1)
        /\ \A i \in DOMAIN stack[t] : stack'[t][i] = stack[t][i]
        /\ LET d == stack'[t][n + 1]
           IN  /\ d.key = k /\ d.provider = p /\ d.inScope = b
               /\ d.waiting = (IsSingleton(p) /\ lock[p] # <<>>)
        /\ \A q \in Providers \ {p} : lock'[q] = lock[q]
        /\ lock'[p] = IF IsSingleton(p) THEN Append(lock[p], t) ELSE lock[p]
        /\ UNCHANGED <<singleton, made>>
    BY CallFacts, BeginFacts
  <1>3. n \in Nat /\ DOMAIN stack[t] = 1..n /\ \A i \in 1..n : stack[t][i].provider \in Providers
    BY StackFacts DEF Frames
  <1> HIDE DEF n, p
  <1>4. ASSUME n > 0
        PROVE  /\ ~b /\ ~stack[t][n].waiting /\ stack[t][n].provider \in Keys
               /\ p \in Keys => Rank[p] < Rank[stack[t][n].provider]
    <2>1. ~b /\ ~stack[t][n].waiting /\ stack[t][n].provider \in Keys /\ k \in ToSet(Needs[stack[t][n].provider])
      BY <1>3, <1>4 DEF n
    <2> QED
      BY <1>1, <2>1, RankFacts
  <1>5. ASSUME NEW i \in 1..n
        PROVE  /\ stack[t][i].provider \in Keys /\ ~stack[t][i].waiting /\ stack[t][i].provider # p
               /\ p \in Keys => Rank[p] < Rank[stack[t][i].provider]
    <2> DEFINE q == stack[t][i].provider
               r == stack[t][n].provider
    <2>1. CallOK(t, i) /\ Descending(t) /\ n > 0
      BY <1>3 DEF Resolving
    <2>2. q \in Keys /\ (i # n => Rank[r] < Rank[q])
      <3>1. CASE i = n
        BY <1>4, <2>1, <3>1
      <3>2. CASE i # n
        <4>1. i \in DOMAIN stack[t] /\ n \in DOMAIN stack[t] /\ i < n
          BY <1>3, <3>2
        <4> QED
          BY <1>4, <2>1, <4>1 DEF Descending
      <3> QED
        BY <3>1, <3>2
    <2>3. ~stack[t][i].waiting
      BY <1>3, <1>4, <2>1 DEF CallOK, n
    <2>4. p \in Keys => Rank[p] < Rank[q]
      BY <1>4, <2>1, <2>2, RankFacts
    <2> QED
      BY <2>2, <2>3, <2>4, RankFacts
  <1>6. lock[p] \in Seq(Tasks) /\ \A q \in Providers : lock[q] \in Seq(Tasks)
    BY <1>1 DEF StateOK
  <1>7. t \notin ToSet(lock[p])
    BY <1>1, <1>3, <1>5 DEF Resolving, LockOK
  <1>8. IsSingleton(p) =>
           /\ lock'[p] \in Seq(Tasks) /\ Len(lock'[p]) = Len(lock[p]) + 1
           /\ \A i \in DOMAIN lock[p] : lock'[p][i] = lock[p][i]
           /\ lock'[p][Len(lock[p]) + 1] = t
           /\ ToSet(lock'[p]) = ToSet(lock[p]) \cup {t}
    <2> SUFFICES ASSUME IsSingleton(p) PROVE
           /\ lock'[p] \in Seq(Tasks) /\ Len(lock'[p]) = Len(lock[p]) + 1
           /\ \A i \in DOMAIN lock[p] : lock'[p][i] = lock[p][i]
           /\ lock'[p][Len(lock[p]) + 1] = t
           /\ ToSet(lock'[p]) = ToSet(lock[p]) \cup {t}
      OBVIOUS
    <2> DEFINE s == lock[p]
               a == Append(lock[p], t)
    <2>1. /\ a \in Seq(Tasks) /\ Len(a) = Len(s) + 1 /\ a[Len(s) + 1] = t
          /\ \A i \in DOMAIN s : a[i] = s[i]
          /\ DOMAIN a = 1..(Len(s) + 1) /\ DOMAIN s = 1..Len(s) /\ Len(s) \in Nat
      BY <1>6
    <2>2. ToSet(a) = ToSet(s) \cup {t}
      BY <2>1 DEF ToSet
    <2> QED
      BY <1>2, <2>1, <2>2
  <1>9. ASSUME NEW u \in Tasks, NEW i \in DOMAIN stack[u]
        PROVE  CallOK(u, i)' /\ stack'[u][i] = stack[u][i]
    <2> DEFINE q == stack[u][i].provider
    <2>1. CallOK(u, i) /\ stack'[u][i] = stack[u][i] /\ q \in Providers
      BY <1>2, StackFacts DEF Resolving, Frames
    <2>2. IF u = t THEN q \in Keys /\ ~stack[u][i].waiting ELSE Len(stack'[u]) = Len(stack[u])
      BY <1>2, <1>3, <1>5
    <2>3. kind[q] = "singleton" => /\ u \in ToSet(lock'[q])
                                   /\ ~stack[u][i].waiting => lock'[q][1] = u
      <3> SUFFICES ASSUME kind[q] = "singleton"
                   PROVE  u \in ToSet(lock'[q]) /\ (~stack[u][i].waiting => lock'[q][1] = u)
        OBVIOUS
      <3>1. u \in ToSet(lock[q]) /\ (~stack[u][i].waiting => lock[q][1] = u)
        BY <2>1 DEF CallOK
      <3>2. CASE q = p
        <4>1. 1 \in DOMAIN lock[p]
          BY <1>6, <3>1, <3>2 DEF ToSet
        <4> QED
          BY <1>8, <3>1, <3>2, <4>1 DEF IsSingleton
      <3>3. CASE q # p
        BY <1>2, <2>1, <3>1, <3>3
      <3> QED
        BY <3>2, <3>3
    <2> QED
      BY <1>2, <2>1, <2>2, <2>3 DEF CallOK
  <1>10. ASSUME NEW u \in Tasks, NEW i \in DOMAIN stack'[u], u = t, i = n + 1
         PROVE  CallOK(u, i)'
    <2> DEFINE d == stack'[t][n + 1]
    <2>1. /\ d.key = k /\ d.provider = p /\ d.inScope = b
          /\ d.waiting = (IsSingleton(p) /\ lock[p] # <<>>)
          /\ Len(stack'[t]) = n + 1
      BY <1>2
    <2> HIDE DEF d
    <2>2. b => n + 1 = 1
      BY <1>3, <1>4
    <2>3. kind[p] = "singleton" /\ ~d.waiting => lock'[p][1] = t /\ singleton'[p] = NoInstance
      <3> SUFFICES ASSUME IsSingleton(p), lock[p] = <<>>
                   PROVE  lock'[p][1] = t /\ singleton'[p] = NoInstance
        BY <2>1 DEF IsSingleton
      <3>1. Len(lock[p]) = 0
        OBVIOUS
      <3> QED
        BY <1>2, <1>8, <3>1 DEF Cached, p
    <2>4. kind[p] = "singleton" => t \in ToSet(lock'[p])
      BY <1>8 DEF IsSingleton
    <2>5. d.waiting => kind[p] = "singleton"
      BY <2>1 DEF IsSingleton
    <2>6. d.inScope => n + 1 = 1
      BY <2>1, <2>2
    <2>7. stack'[u][i] = d /\ i = Len(stack'[u]) /\ kind' = kind
      BY <1>10, <2>1 DEF d
    <2>8. p \in Keys => p \in {d.key, Unnamed[d.key]}
      BY <1>1, <2>1
    <2> QED
      BY <1>1, <1>10, <2>1, <2>3, <2>4, <2>5, <2>6, <2>7, <2>8 DEF CallOK
  <1>11. ASSUME NEW u \in Tasks PROVE Descending(u)'
    <2>1. CASE u # t
      BY <1>2, <2>1 DEF Resolving, Descending
    <2>2. CASE u = t
      <3>1. Descending(t)
        BY DEF Resolving
      <3>2. \A i \in 1..n : stack'[t][i].provider = stack[t][i].provider
        BY <1>2, <1>3
      <3>3. stack'[t][n + 1].provider = p /\ DOMAIN stack'[t] = 1..(n + 1)
        BY <1>2
      <3> SUFFICES ASSUME NEW i \in 1..(n + 1), NEW j \in 1..(n + 1), i < j
                   PROVE  LET x == stack'[t][i].provider
                              y == stack'[t][j].provider
                          IN  x \in Keys /\ (y \in Keys => Rank[y] < Rank[x])
        BY <2>2, <3>3 DEF Descending
      <3>4. i \in 1..n
        BY <1>3
      <3>5. CASE j = n + 1
        BY <1>5, <3>2, <3>3, <3>4, <3>5
      <3>6. CASE j # n + 1
        <4>1. j \in 1..n
          BY <1>3, <3>6
        <4> QED
          BY <1>3, <3>1, <3>2, <3>4, <4>1 DEF Descending
      <3> QED
        BY <3>5, <3>6
    <2> QED
      BY <2>1, <2>2
  <1>12. ASSUME NEW q \in Providers PROVE LockOK(q)' /\ MadeOK(q)'
    <2>1. LockOK(q) /\ MadeOK(q)
      BY DEF Resolving
    <2>2. MadeOK(q)'
      BY <1>2, <2>1 DEF MadeOK
    <2>3. \A i, j \in DOMAIN lock'[q] : lock'[q][i] = lock'[q][j] => i = j
      <3>1. CASE q = p /\ IsSingleton(p)
        <4> DEFINE m == Len(lock[p])
        <4>1. DOMAIN lock'[p] = 1..(m + 1) /\ DOMAIN lock[p] = 1..m /\ m \in Nat
          BY <1>6, <1>8, <3>1
        <4>2. \A i \in 1..m : lock'[p][i] = lock[p][i] /\ lock[p][i] # t
          BY <1>7, <1>8, <3>1, <4>1 DEF ToSet
        <4>3. lock'[p][m + 1] = t
          BY <1>8, <3>1
        <4> HIDE DEF m
        <4>4. \A i, j \in 1..m : lock[p][i] = lock[p][j] => i = j
          BY <2>1, <3>1, <4>1 DEF LockOK
        <4>5. ASSUME NEW i \in 1..(m + 1), NEW j \in 1..(m + 1), lock'[p][i] = lock'[p][j] PROVE i = j
          <5>1. (i \in 1..m \/ i = m + 1) /\ (j \in 1..m \/ j = m + 1)
            BY <4>1
          <5> QED
            BY <4>2, <4>3, <4>4, <4>5, <5>1
        <4> QED
          BY <3>1, <4>1, <4>5
      <3>2. CASE ~(q = p /\ IsSingleton(p))
        <4>1. lock'[q] = lock[q]
          BY <1>2, <3>2, Zenon
        <4> QED
          BY <2>1, <4>1 DEF LockOK
      <3> QED
        BY <3>1, <3>2
    <2>4. ASSUME NEW u \in ToSet(lock'[q])
          PROVE  kind[q] = "singleton" /\ \E i \in DOMAIN stack'[u] : stack'[u][i].provider = q
      <3>1. CASE u \in ToSet(lock[q])
        <4>1. u \in Tasks
          BY <1>6, <3>1 DEF ToSet
        <4>2. PICK i \in DOMAIN stack[u] : stack[u][i].provider = q
          BY <2>1, <3>1 DEF LockOK
        <4>3. i \in DOMAIN stack'[u]
          BY <1>2, <1>3, <4>1, <4>2
        <4> QED
          BY <1>9, <2>1, <3>1, <4>1, <4>2, <4>3 DEF LockOK
      <3>2. CASE u \notin ToSet(lock[q])
        <4>1. q = p /\ IsSingleton(p) /\ u = t
          BY <1>2, <1>8, <3>2
        <4> QED
          BY <1>2, <1>3, <4>1 DEF IsSingleton
      <3> QED
        BY <3>1, <3>2
    <2> QED
      BY <2>2, <2>3, <2>4 DEF LockOK
  <1>13. ASSUME NEW u \in Tasks, NEW i \in DOMAIN stack'[u] PROVE CallOK(u, i)'
    <2>1. CASE i \in DOMAIN stack[u]
      BY <1>9, <2>1 DEF CallOK
    <2>2. CASE i \notin DOMAIN stack[u]
      <3>1. u = t /\ i = n + 1
        BY <1>2, <1>3, <2>2
      <3> QED
        BY <1>10, <3>1 DEF CallOK
    <2> QED
      BY <2>1, <2>2
  <1> QED
    BY <1>11, <1>12, <1>13 DEF Resolving

-----------------------------------------------------------------------------
(* The scope                                                               *)

\* A step that leaves the scope alone, in which no call from the scope begins.
LEMMA ScopeCalm ==
  ASSUME StateOK, Scoping, UNCHANGED scopeState,
         \A u \in Tasks : InScope(u)' => /\ InScope(u)
                                         /\ stack'[u][1].key = stack[u][1].key
                                         /\ stack'[u][1].stored = stack[u][1].stored,
         \A p \in Providers : made'[p] \in Nat /\ made[p] <= made'[p]
  PROVE  Scoping'
  <1>1. UNCHANGED <<instances, teardown, scope, left, closed, scopeGot, raced, late>>
    BY DEF scopeState
  <1>2. \A u \in Tasks : InScope(u)' =>
           LET c == stack'[u][1]
           IN  IF OwnEntry(c.key) THEN c.stored = c.key ELSE c.stored \in {c.key, Unnamed[c.key]}
    BY DEF Scoping
  <1>3. \A t, u \in Tasks :
           t # u /\ InScope(t)' /\ InScope(u)' /\ stack'[t][1].stored = stack'[u][1].stored =>
              stack'[t][1].stored \in raced'
    BY <1>1 DEF Scoping
  <1>4. ASSUME NEW k \in Keys PROVE EntryOK(k)'
    <2>1. EntryOK(k)
      BY DEF Scoping
    <2> QED
      BY <1>1, <2>1 DEF EntryOK, FellBack
  <1>5. ASSUME NEW i \in Instances, Covered(i) PROVE Covered(i)'
    BY <1>1, <1>5 DEF Covered
  <1>6. \A k \in Keys : /\ instances'[k] # NoInstance => Covered(instances[k])'
                        /\ \A i \in scopeGot'[k] : Covered(i)'
    BY <1>1 DEF Scoping, Covered
  <1>7. \A i \in ToSet(teardown)' \cup closed' : i[2] <= made'[i[1]]
    <2> SUFFICES ASSUME NEW i \in ToSet(teardown) \cup closed PROVE i[2] <= made'[i[1]]
      BY <1>1 DEF ToSet
    <2>1. i \in Instances
      BY DEF StateOK, ToSet
    <2>2. i[2] <= made[i[1]] /\ i[1] \in Providers /\ i[2] \in Nat
      BY <2>1 DEF Scoping, Instances
    <2> QED
      BY <2>2 DEF StateOK
  <1>8. \A i, j \in DOMAIN teardown' : teardown'[i] = teardown'[j] => i = j
    BY <1>1 DEF Scoping
  <1>9. (scope' = "open" => closed' = {}) /\ WalkOK'
    BY <1>1 DEF Scoping, WalkOK
  <1> QED
    BY <1>2, <1>3, <1>4, <1>6, <1>7, <1>8, <1>9 DEF Scoping

\* A key is found in the cache of the scope.
LEMMA HitKeepsScoping ==
  ASSUME StateOK, Scoping, NEW k \in Keys, instances[k] # NoInstance,
         scopeGot' = [scopeGot EXCEPT ![k] = @ \cup {instances[k]}],
         UNCHANGED <<stack, made, instances, teardown, scope, left, closed, raced, late>>
  PROVE  Scoping'
  <1>1. instances[k] \in Instances /\ Covered(instances[k])
    BY DEF StateOK, Scoping
  <1>2. \A n \in Keys : scopeGot'[n] = IF n = k THEN scopeGot[k] \cup {instances[k]} ELSE scopeGot[n]
    BY DEF StateOK
  <1>3. \A u \in Tasks : InScope(u)' <=> InScope(u)
    BY DEF InScope
  <1>4. ASSUME NEW n \in Keys PROVE EntryOK(n)'
    <2>1. EntryOK(n)
      BY DEF Scoping
    <2>2. FellBack(n) => FellBack(n)'
      BY <1>2 DEF FellBack
    <2> QED
      BY <1>2, <1>3, <2>1, <2>2 DEF EntryOK
  <1>5. \A i : Covered(i) => Covered(i)'
    BY DEF Covered
  <1>6. \A n \in Keys : /\ instances'[n] # NoInstance => Covered(instances[n])'
                        /\ \A i \in scopeGot'[n] : Covered(i)'
    BY <1>1, <1>2, <1>5 DEF Scoping, Covered
  <1>7. WalkOK'
    BY DEF Scoping, WalkOK
  <1> QED
    BY <1>3, <1>4, <1>6, <1>7 DEF Scoping

\* A key is not there, and its provider is asked.
LEMMA MissKeepsScoping ==
  ASSUME StateOK, Scoping, NEW t \in Tasks, NEW k \in Keys, stack[t] = <<>>,
         instances[k] = NoInstance,
         Found(k) \in {k, Unnamed[k]}, Found(k) \in Keys, OwnEntry(k) => Found(k) = k,
         \A u \in Tasks \ {t} : stack'[u] = stack[u],
         stack'[t] # <<>>, stack'[t][1].key = k, stack'[t][1].stored = Found(k),
         raced' = IF Found(k) \in Pending(t) THEN raced \cup {Found(k)} ELSE raced,
         UNCHANGED <<made, instances, teardown, scope, left, closed, scopeGot, late>>
  PROVE  Scoping'
  <1>1. raced \subseteq raced' /\ ~InScope(t)
    BY DEF InScope
  <1>2. \A u \in Tasks \ {t} : InScope(u)' <=> InScope(u)
    BY DEF InScope
  <1>3. \A u \in Tasks : InScope(u)' =>
           LET c == stack'[u][1]
           IN  IF OwnEntry(c.key) THEN c.stored = c.key ELSE c.stored \in {c.key, Unnamed[c.key]}
    BY <1>2 DEF Scoping
  <1>4. \A u, v \in Tasks :
           u # v /\ InScope(u)' /\ InScope(v)' /\ stack'[u][1].stored = stack'[v][1].stored =>
              stack'[u][1].stored \in raced'
    <2>1. ASSUME NEW u \in Tasks \ {t}, InScope(u), stack[u][1].stored = Found(k)
          PROVE  Found(k) \in raced'
      <3>1. Found(k) \in Pending(t)
        BY <2>1 DEF Pending, InScope
      <3> QED
        BY <3>1
    <2> QED
      BY <1>1, <1>2, <2>1 DEF Scoping
  <1>5. ASSUME NEW n \in Keys PROVE EntryOK(n)'
    <2>1. EntryOK(n)
      BY DEF Scoping
    <2>2. FellBack(n)' <=> FellBack(n)
      BY DEF FellBack
    <2> QED
      BY <1>1, <1>2, <2>1, <2>2 DEF EntryOK
  <1>6. \A n \in Keys : /\ instances'[n] # NoInstance => Covered(instances[n])'
                        /\ \A i \in scopeGot'[n] : Covered(i)'
    BY DEF Scoping, Covered
  <1>7. WalkOK'
    BY DEF Scoping, WalkOK
  <1> QED
    BY <1>3, <1>4, <1>5, <1>6, <1>7 DEF Scoping

\* What is appended to a sequence comes after all of it.
LEMMA AppendFacts ==
  ASSUME NEW S, NEW s \in Seq(S), NEW e \in S
  PROVE  /\ Append(s, e) \in Seq(S) /\ Len(Append(s, e)) = Len(s) + 1 /\ Len(s) \in Nat
         /\ DOMAIN s = 1..Len(s) /\ DOMAIN Append(s, e) = 1..(Len(s) + 1)
         /\ \A i \in DOMAIN s : Append(s, e)[i] = s[i]
         /\ Append(s, e)[Len(s) + 1] = e
         /\ ToSet(Append(s, e)) = ToSet(s) \cup {e}
  <1> DEFINE a == Append(s, e)
  <1>1. /\ a \in Seq(S) /\ Len(a) = Len(s) + 1 /\ Len(s) \in Nat
        /\ DOMAIN s = 1..Len(s) /\ DOMAIN a = 1..(Len(s) + 1)
        /\ \A i \in DOMAIN s : a[i] = s[i]
        /\ a[Len(s) + 1] = e
    OBVIOUS
  <1> HIDE DEF a
  <1>2. ToSet(a) = ToSet(s) \cup {e}
    BY <1>1 DEF ToSet
  <1> QED
    BY <1>1, <1>2 DEF a

\* The provider answers the scope with an instance of its own.
LEMMA KeepKeepsScoping ==
  ASSUME StateOK, Scoping, NEW t \in Tasks, InScope(t), NEW c, c = stack[t][1],
         c \in Frames, kind[c.provider] = "scoped",
         NEW inst, inst = <<c.provider, made[c.provider] + 1>>, Keep(c, inst),
         \A u \in Tasks \ {t} : stack'[u] = stack[u],
         stack'[t] = <<>>,
         made' = [made EXCEPT ![c.provider] = @ + 1]
  PROVE  Scoping'
  <1> DEFINE p == c.provider
             s == c.stored
             n == Len(teardown)
  <1>1. p \in Providers /\ c.key \in Keys /\ s \in Keys /\ made[p] \in Nat
    BY DEF Frames, StateOK
  <1>2. inst \in Instances /\ inst[1] = p /\ inst[2] = made[p] + 1
    BY <1>1 DEF Instances
  <1>3. /\ scopeGot' = [scopeGot EXCEPT ![c.key] = @ \cup {inst}]
        /\ instances' = [instances EXCEPT ![s] = inst]
        /\ teardown' = Append(teardown, inst)
        /\ late' = IF scope = "open" THEN late ELSE late \cup {inst}
        /\ UNCHANGED <<scope, left, closed, raced>>
    BY DEF Keep, Stored
  <1>4. inst \notin ToSet(teardown) \cup closed
    BY <1>1, <1>2 DEF Scoping
  <1>5. /\ n \in Nat /\ DOMAIN teardown = 1..n /\ DOMAIN teardown' = 1..(n + 1) /\ Len(teardown') = n + 1
        /\ \A i \in 1..n : teardown'[i] = teardown[i] /\ teardown[i] # inst
        /\ teardown'[n + 1] = inst
        /\ ToSet(teardown') = ToSet(teardown) \cup {inst}
    <2>1. teardown \in Seq(Instances)
      BY DEF StateOK
    <2>2. \A i \in DOMAIN teardown : teardown[i] # inst
      BY <1>4 DEF ToSet
    <2> DEFINE a == Append(teardown, inst)
    <2>3. /\ Len(a) = n + 1 /\ n \in Nat
          /\ DOMAIN teardown = 1..n /\ DOMAIN a = 1..(n + 1)
          /\ \A i \in DOMAIN teardown : a[i] = teardown[i]
          /\ a[n + 1] = inst
          /\ ToSet(a) = ToSet(teardown) \cup {inst}
      <3>1. inst \in Instances
        BY <1>2
      <3>2. ASSUME NEW S, NEW q \in Seq(S), NEW e \in S
            PROVE  /\ Len(Append(q, e)) = Len(q) + 1 /\ Len(q) \in Nat
                   /\ DOMAIN q = 1..Len(q) /\ DOMAIN Append(q, e) = 1..(Len(q) + 1)
                   /\ \A i \in DOMAIN q : Append(q, e)[i] = q[i]
                   /\ Append(q, e)[Len(q) + 1] = e
                   /\ ToSet(Append(q, e)) = ToSet(q) \cup {e}
        BY AppendFacts
      <3> QED
        BY ONLY <2>1, <3>1, <3>2
    <2> HIDE DEF a
    <2>4. teardown' = a
      BY <1>3 DEF a
    <2> QED
      BY <2>2, <2>3, <2>4
  <1>6. \A u \in Tasks : InScope(u)' => u # t /\ InScope(u) /\ stack'[u] = stack[u]
    BY DEF InScope
  <1>7. \A k \in Keys : /\ scopeGot'[k] = IF k = c.key THEN scopeGot[k] \cup {inst} ELSE scopeGot[k]
                        /\ instances'[k] = IF k = s THEN inst ELSE instances[k]
    BY <1>1, <1>3 DEF StateOK
  <1> HIDE DEF p, s, n
  <1>8. ASSUME NEW k \in Keys PROVE EntryOK(k)'
    <2> SUFFICES ASSUME scope = "open", k \notin raced, ~FellBack(k)', OwnEntry(k)
                 PROVE  /\ \A i \in scopeGot'[k] : instances'[k] = i
                        /\ \A u \in Tasks : InScope(u)' /\ stack'[u][1].key = k => instances'[k] = NoInstance
      BY <1>3 DEF EntryOK
    <2>1. ~FellBack(k)
      BY <1>7 DEF FellBack
    <2>2. /\ \A i \in scopeGot[k] : instances[k] = i
          /\ \A u \in Tasks : InScope(u) /\ stack[u][1].key = k => instances[k] = NoInstance
      BY <2>1 DEF Scoping, EntryOK
    <2>3. CASE k = c.key
      <3>1. s = k /\ instances[k] = NoInstance
        BY <2>2, <2>3 DEF Scoping, s
      <3>2. scopeGot[k] \subseteq Instances /\ NoInstance \notin Instances
        BY DEF StateOK, NoInstance, Instances
      <3>3. scopeGot'[k] = {inst} /\ instances'[k] = inst
        BY <1>7, <2>2, <2>3, <3>1, <3>2, ZenonT(60)
      <3>4. ASSUME NEW u \in Tasks, InScope(u)', stack'[u][1].key = k PROVE FALSE
        <4>1. u # t /\ InScope(u) /\ stack[u][1].key = k
          BY <1>6, <3>4
        <4>2. stack[u][1].stored = k
          BY <4>1 DEF Scoping
        <4>3. stack[u][1].stored = stack[t][1].stored
          BY <3>1, <4>2 DEF s
        <4> QED
          BY <4>1, <4>2, <4>3 DEF Scoping
      <3> QED
        BY <3>3, <3>4
    <2>4. CASE k # c.key /\ k = s
      <3>1. ~OwnEntry(c.key) /\ s = Unnamed[c.key]
        BY <2>4 DEF Scoping, s
      <3>2. scopeGot'[c.key] # {}
        BY <1>1, <1>7
      <3> QED
        BY <1>1, <2>4, <3>1, <3>2 DEF FellBack, OwnEntry
    <2>5. CASE k # c.key /\ k # s
      BY <1>6, <1>7, <2>2, <2>5, ZenonT(60)
    <2> QED
      BY <2>3, <2>4, <2>5
  <1>9. Covered(inst)' /\ \A i : Covered(i) => Covered(i)'
    BY <1>3, <1>5 DEF Covered
  <1>10. \A k \in Keys : /\ instances'[k] # NoInstance => Covered(instances[k])'
                         /\ \A i \in scopeGot'[k] : Covered(i)'
    <2> TAKE k \in Keys
    <2>1. \A i \in scopeGot'[k] : Covered(i)'
      <3>1. ASSUME NEW i \in scopeGot[k] PROVE Covered(i)'
        BY <1>9 DEF Scoping
      <3>2. \A i \in scopeGot'[k] : i = inst \/ i \in scopeGot[k]
        <4>1. scopeGot'[k] = scopeGot[k] \cup {inst} \/ scopeGot'[k] = scopeGot[k]
          BY <1>7, Zenon
        <4> QED
          BY <4>1
      <3> QED
        BY <1>9, <3>1, <3>2 DEF Covered
    <2>2. instances'[k] # NoInstance => Covered(instances[k])'
      <3>1. CASE k = s
        BY <1>7, <1>9, <3>1 DEF Covered
      <3>2. CASE k # s
        BY <1>7, <1>9, <3>2 DEF Scoping, Covered
      <3> QED
        BY <3>1, <3>2
    <2> QED
      BY <2>1, <2>2
  <1>11. \A i \in ToSet(teardown)' \cup closed' : i[2] <= made'[i[1]]
    <2> SUFFICES ASSUME NEW i \in ToSet(teardown) \cup closed \cup {inst} PROVE i[2] <= made'[i[1]]
      BY <1>3, <1>5 DEF ToSet
    <2>1. made'[p] = made[p] + 1 /\ \A q \in Providers \ {p} : made'[q] = made[q]
      BY <1>1 DEF StateOK, p
    <2>2. CASE i = inst
      BY <1>1, <1>2, <2>1, <2>2
    <2>3. CASE i # inst
      <3>1. i \in Instances /\ i[2] <= made[i[1]]
        <4>1. i \in ToSet(teardown) \cup closed
          BY <2>3
        <4>2. teardown \in Seq(Instances) /\ closed \subseteq Instances
          BY DEF StateOK
        <4> QED
          BY <4>1, <4>2 DEF ToSet, Scoping
      <3>2. i[1] \in Providers /\ i[2] \in Nat
        BY <3>1 DEF Instances
      <3> QED
        BY <1>1, <2>1, <3>1, <3>2
    <2> QED
      BY <2>2, <2>3
  <1>12. \A i, j \in DOMAIN teardown' : teardown'[i] = teardown'[j] => i = j
    <2> SUFFICES ASSUME NEW i \in 1..(n + 1), NEW j \in 1..(n + 1), teardown'[i] = teardown'[j]
                 PROVE  i = j
      BY <1>5
    <2>1. (i \in 1..n \/ i = n + 1) /\ (j \in 1..n \/ j = n + 1)
      BY <1>5
    <2>2. \A x, y \in 1..n : teardown[x] = teardown[y] => x = y
      BY <1>5 DEF Scoping
    <2> QED
      BY <1>5, <2>1, <2>2
  <1>13. WalkOK'
    <2> SUFFICES ASSUME scope = "closing"
                 PROVE  /\ Len(left) <= Len(teardown')
                        /\ \A m \in 1..Len(left) : left[m] = teardown'[Len(left) + 1 - m]
                        /\ \A j \in DOMAIN teardown' :
                              IF j <= Len(left) THEN teardown'[j] \notin closed
                                                ELSE teardown'[j] \in closed \cup late'
      BY <1>3, ZenonT(30) DEF WalkOK
    <2>1. /\ Len(left) <= n /\ Len(left) \in Nat
          /\ \A m \in 1..Len(left) : left[m] = teardown[Len(left) + 1 - m]
          /\ \A j \in 1..n : IF j <= Len(left) THEN teardown[j] \notin closed
                                               ELSE teardown[j] \in closed \cup late
      <3>1. left \in Seq(Instances)
        BY DEF StateOK
      <3>2. WalkOK /\ DOMAIN teardown = 1..n
        BY <1>5 DEF Scoping
      <3> QED
        BY <3>1, <3>2 DEF WalkOK, n
    <2>2. late' = late \cup {inst}
      BY <1>3
    <2>3. \A m \in 1..Len(left) : left[m] = teardown'[Len(left) + 1 - m]
      BY <1>5, <2>1
    <2>4. ASSUME NEW j \in 1..(n + 1)
          PROVE  IF j <= Len(left) THEN teardown'[j] \notin closed
                                   ELSE teardown'[j] \in closed \cup late'
      <3>1. CASE j \in 1..n
        BY <1>5, <2>1, <2>2, <3>1
      <3>2. CASE j = n + 1
        BY <1>5, <2>1, <2>2, <3>2
      <3> QED
        BY <1>5, <3>1, <3>2
    <2> QED
      BY <1>5, <2>1, <2>3, <2>4
  <1>14. \A u \in Tasks : InScope(u)' =>
           LET d == stack'[u][1]
           IN  IF OwnEntry(d.key) THEN d.stored = d.key ELSE d.stored \in {d.key, Unnamed[d.key]}
    BY <1>6 DEF Scoping
  <1>15. \A u, v \in Tasks :
           u # v /\ InScope(u)' /\ InScope(v)' /\ stack'[u][1].stored = stack'[v][1].stored =>
              stack'[u][1].stored \in raced'
    BY <1>3, <1>6 DEF Scoping
  <1>16. scope' = "open" => closed' = {}
    BY <1>3 DEF Scoping
  <1> QED
    BY <1>8, <1>10, <1>11, <1>12, <1>13, <1>14, <1>15, <1>16 DEF Scoping

\* The walk begins, with what there is to close.
LEMMA WalkBegins ==
  ASSUME StateOK, Scoping, CloseScope
  PROVE  Scoping' /\ left' \in Seq(Instances)
  <1> DEFINE n == Len(teardown)
  <1>1. /\ scope = "open" /\ scope' = "closing" /\ left' = Reverse(teardown)
        /\ UNCHANGED <<made, stack, instances, teardown, closed, scopeGot, raced, late>>
    BY DEF CloseScope, WalkOrder, providerState
  <1>2. n \in Nat /\ teardown \in Seq(Instances) /\ DOMAIN teardown = 1..n
    BY DEF StateOK
  <1>3. /\ left' \in Seq(Instances) /\ Len(left') = n /\ DOMAIN left' = 1..n
        /\ \A m \in 1..n : left'[m] = teardown[n + 1 - m]
    <2>1. left' = [i \in 1..n |-> teardown[(n - i) + 1]]
      BY <1>1 DEF Reverse
    <2>2. \A i \in 1..n : teardown[(n - i) + 1] \in Instances /\ (n - i) + 1 = n + 1 - i
      BY <1>2
    <2> QED
      BY <1>2, <2>1, <2>2
  <1> HIDE DEF n
  <1>4. ToSet(teardown) \subseteq ToSet(left')
    <2> SUFFICES ASSUME NEW j \in 1..n PROVE teardown[j] \in ToSet(left')
      BY <1>2 DEF ToSet
    <2>1. n + 1 - j \in 1..n /\ n + 1 - (n + 1 - j) = j
      BY <1>2
    <2> QED
      BY <1>3, <2>1 DEF ToSet
  <1>5. \A i : Covered(i) => Covered(i)'
    BY <1>1, <1>4 DEF Covered
  <1>6. \A k \in Keys : /\ instances'[k] # NoInstance => Covered(instances[k])'
                        /\ \A i \in scopeGot'[k] : Covered(i)'
    BY <1>1, <1>5 DEF Scoping, Covered
  <1>7. \A k \in Keys : EntryOK(k)'
    BY <1>1 DEF EntryOK
  <1>8. WalkOK'
    <2>1. \A j \in 1..n : teardown[j] \notin closed
      BY <1>1 DEF Scoping
    <2> QED
      BY <1>1, <1>2, <1>3, <2>1 DEF WalkOK, n
  <1>9. \A u \in Tasks : InScope(u)' <=> InScope(u)
    BY <1>1 DEF InScope
  <1> QED
    BY <1>1, <1>3, <1>6, <1>7, <1>8, <1>9 DEF Scoping

\* One instance is closed.
LEMMA WalkGoesOn ==
  ASSUME StateOK, Scoping, CloseNext
  PROVE  Scoping' /\ left' \in Seq(Instances) /\ closed' \subseteq Instances
  <1> DEFINE n == Len(left)
             h == Head(left)
  <1>1. /\ scope = "closing" /\ left # <<>> /\ closed' = closed \cup {h} /\ left' = Tail(left)
        /\ UNCHANGED <<made, stack, instances, teardown, scope, scopeGot, raced, late>>
    BY DEF CloseNext, providerState
  <1>2. /\ left \in Seq(Instances) /\ n \in Nat \ {0} /\ DOMAIN left = 1..n
        /\ teardown \in Seq(Instances) /\ DOMAIN teardown = 1..Len(teardown) /\ Len(teardown) \in Nat
    BY <1>1 DEF StateOK
  <1>3. h = left[1] /\ h \in Instances
    BY <1>1, <1>2
  <1>4. /\ left' \in Seq(Instances) /\ Len(left') = n - 1 /\ DOMAIN left' = 1..(n - 1)
        /\ \A m \in 1..(n - 1) : left'[m] = left[m + 1]
    BY <1>1, <1>2
  <1> HIDE DEF n, h
  <1>5. /\ n <= Len(teardown) /\ \A m \in 1..n : left[m] = teardown[n + 1 - m]
        /\ \A j \in DOMAIN teardown :
              IF j <= n THEN teardown[j] \notin closed ELSE teardown[j] \in closed \cup late
    BY <1>1 DEF Scoping, WalkOK, n
  <1>6. n \in DOMAIN teardown /\ h = teardown[n]
    BY <1>2, <1>3, <1>5
  <1>7. ToSet(left) \subseteq ToSet(left') \cup {h}
    <2> SUFFICES ASSUME NEW m \in 1..n, m # 1 PROVE left[m] \in ToSet(left')
      BY <1>2, <1>3 DEF ToSet
    <2>1. m - 1 \in 1..(n - 1) /\ left'[m - 1] = left[m]
      BY <1>2, <1>4
    <2> QED
      BY <1>4, <2>1 DEF ToSet
  <1>8. \A i : Covered(i) => Covered(i)'
    BY <1>1, <1>7 DEF Covered
  <1>9. \A k \in Keys : /\ instances'[k] # NoInstance => Covered(instances[k])'
                        /\ \A i \in scopeGot'[k] : Covered(i)'
    BY <1>1, <1>8 DEF Scoping, Covered
  <1>10. \A k \in Keys : EntryOK(k)'
    BY <1>1 DEF EntryOK
  <1>11. WalkOK'
    <2>1. \A m \in 1..(n - 1) : left'[m] = teardown[n - 1 + 1 - m]
      <3> TAKE m \in 1..(n - 1)
      <3>1. m + 1 \in 1..n /\ n + 1 - (m + 1) = n - 1 + 1 - m
        BY <1>2
      <3> QED
        BY <1>4, <1>5, <3>1
    <2>2. ASSUME NEW j \in DOMAIN teardown
          PROVE  IF j <= n - 1 THEN teardown[j] \notin closed' ELSE teardown[j] \in closed' \cup late
      <3>1. \A i \in DOMAIN teardown : teardown[i] = teardown[n] => i = n
        BY <1>6 DEF Scoping
      <3>2. CASE j <= n - 1
        <4>1. j # n /\ j <= n
          BY <1>2, <3>2
        <4>2. teardown[j] # h /\ teardown[j] \notin closed
          BY <1>5, <1>6, <3>1, <4>1
        <4> QED
          BY <1>1, <3>2, <4>2
      <3>3. CASE j = n
        BY <1>1, <1>2, <1>6, <3>3
      <3>4. CASE j > n
        <4>1. ~(j <= n) /\ ~(j <= n - 1)
          BY <1>2, <3>4
        <4> QED
          BY <1>1, <1>5, <4>1
      <3> QED
        BY <1>2, <3>2, <3>3, <3>4
    <2>3. Len(left') <= Len(teardown)
      BY <1>2, <1>4, <1>5
    <2> QED
      BY <1>1, <1>4, <2>1, <2>2, <2>3 DEF WalkOK
  <1>12. \A i \in ToSet(teardown) \cup closed' : i[2] <= made[i[1]]
    <2>1. h \in ToSet(teardown)
      BY <1>6 DEF ToSet
    <2> QED
      BY <1>1, <2>1 DEF Scoping
  <1>13. \A u \in Tasks : InScope(u)' <=> InScope(u)
    BY <1>1 DEF InScope
  <1>14. closed' \subseteq Instances
    BY <1>1, <1>3 DEF StateOK
  <1> QED
    BY <1>1, <1>4, <1>9, <1>10, <1>11, <1>12, <1>13, <1>14 DEF Scoping

\* The walk is over, and what the scope knew is forgotten.
LEMMA WalkEnds ==
  ASSUME StateOK, Scoping, CloseDone
  PROVE  Scoping' /\ instances' \in [Keys -> Instances \cup {NoInstance}] /\ teardown' = <<>>
  <1>1. /\ scope = "closing" /\ left = <<>> /\ scope' = "closed"
        /\ instances' = [k \in Keys |-> NoInstance] /\ teardown' = <<>>
        /\ UNCHANGED <<made, stack, left, closed, scopeGot, raced, late>>
    BY DEF CloseDone, providerState
  <1>2. ToSet(left) = {} /\ ToSet(teardown') = {} /\ DOMAIN teardown' = {}
    BY <1>1 DEF ToSet
  <1>3. \A i : Covered(i) => Covered(i)'
    BY <1>1, <1>2 DEF Covered
  <1>4. \A k \in Keys : instances'[k] = NoInstance /\ \A i \in scopeGot'[k] : Covered(i)'
    BY <1>1, <1>3 DEF Scoping, Covered
  <1>5. (\A k \in Keys : EntryOK(k)') /\ WalkOK'
    BY <1>1 DEF EntryOK, WalkOK
  <1>6. \A u \in Tasks : InScope(u)' <=> InScope(u)
    BY <1>1 DEF InScope
  <1> QED
    BY <1>1, <1>2, <1>4, <1>5, <1>6 DEF Scoping

-----------------------------------------------------------------------------
(* Steps that change one call                                              *)

\* The topmost call of t becomes e.
TopBecomes(t, e) ==
    LET c == stack[t][Len(stack[t])]
    IN  /\ e \in Frames /\ e.key = c.key /\ e.stored = c.stored
        /\ e.provider = c.provider /\ e.inScope = c.inScope
        /\ stack' = [stack EXCEPT ![t] = [stack[t] EXCEPT ![Len(stack[t])] = e]]

\* What TopBecomes means, call by call.
LEMMA TopFacts ==
  ASSUME StateOK, NEW t \in Tasks, stack[t] # <<>>, NEW e, TopBecomes(t, e)
  PROVE  /\ stack' \in [Tasks -> Seq(Frames)]
         /\ \A u \in Tasks : u # t => stack'[u] = stack[u]
         /\ \A u \in Tasks : DOMAIN stack'[u] = DOMAIN stack[u] /\ Len(stack'[u]) = Len(stack[u])
         /\ \A u \in Tasks : \A i \in DOMAIN stack[u] :
               /\ stack'[u][i].key = stack[u][i].key
               /\ stack'[u][i].stored = stack[u][i].stored
               /\ stack'[u][i].provider = stack[u][i].provider
               /\ stack'[u][i].inScope = stack[u][i].inScope
               /\ u # t \/ i # Len(stack[t]) => stack'[u][i].waiting = stack[u][i].waiting
         /\ stack'[t][Len(stack[t])] = e
  <1> DEFINE n == Len(stack[t])
             s == [stack[t] EXCEPT ![n] = e]
  <1>1. stack[t] \in Seq(Frames) /\ n \in Nat \ {0} /\ DOMAIN stack[t] = 1..n /\ n \in 1..n
    BY StackFacts
  <1>2. e \in Frames /\ stack' = [stack EXCEPT ![t] = s]
    BY DEF TopBecomes
  <1>3. /\ s \in Seq(Frames) /\ Len(s) = n /\ DOMAIN s = 1..n /\ s[n] = e
        /\ \A i \in 1..n : i # n => s[i] = stack[t][i]
    BY <1>1, <1>2
  <1> HIDE DEF s, n
  <1>4. /\ stack' \in [Tasks -> Seq(Frames)] /\ stack'[t] = s
        /\ \A u \in Tasks : u # t => stack'[u] = stack[u]
    BY <1>2, <1>3 DEF StateOK
  <1>5. ASSUME NEW u \in Tasks
        PROVE  DOMAIN stack'[u] = DOMAIN stack[u] /\ Len(stack'[u]) = Len(stack[u])
    <2>1. CASE u = t
      BY <1>1, <1>3, <1>4, <2>1 DEF n
    <2>2. CASE u # t
      BY <1>4, <2>2
    <2> QED
      BY <2>1, <2>2
  <1>6. ASSUME NEW u \in Tasks, NEW i \in DOMAIN stack[u]
        PROVE  /\ stack'[u][i].key = stack[u][i].key
               /\ stack'[u][i].stored = stack[u][i].stored
               /\ stack'[u][i].provider = stack[u][i].provider
               /\ stack'[u][i].inScope = stack[u][i].inScope
               /\ u # t \/ i # Len(stack[t]) => stack'[u][i].waiting = stack[u][i].waiting
    <2>1. CASE u = t /\ i = n
      BY <1>3, <1>4, <2>1 DEF TopBecomes, n
    <2>2. CASE u = t /\ i # n
      BY <1>1, <1>3, <1>4, <2>2 DEF n
    <2>3. CASE u # t
      BY <1>4, <2>3
    <2> QED
      BY <2>1, <2>2, <2>3
  <1> QED
    BY <1>3, <1>4, <1>5, <1>6 DEF n

\* Who goes on in the same call holds its lock.
LEMMA TopKeepsResolving ==
  ASSUME StateOK, Resolving, NEW t \in Tasks, stack[t] # <<>>, NEW e, TopBecomes(t, e),
         e.waiting => stack[t][Len(stack[t])].waiting,
         ~e.waiting /\ kind[e.provider] = "singleton" =>
            lock[e.provider][1] = t /\ singleton[e.provider] = NoInstance,
         UNCHANGED <<singleton, lock, made, kind>>
  PROVE  Resolving'
  <1>1. Len(stack[t]) \in DOMAIN stack[t] /\ e.provider = stack[t][Len(stack[t])].provider
    BY StackFacts DEF TopBecomes
  <1>2. ASSUME NEW u \in Tasks, NEW i \in DOMAIN stack'[u] PROVE CallOK(u, i)'
    <2>1. /\ i \in DOMAIN stack[u] /\ CallOK(u, i) /\ Len(stack'[u]) = Len(stack[u])
          /\ stack'[u][i].key = stack[u][i].key
          /\ stack'[u][i].provider = stack[u][i].provider
          /\ stack'[u][i].inScope = stack[u][i].inScope
          /\ u # t \/ i # Len(stack[t]) => stack'[u][i].waiting = stack[u][i].waiting
          /\ u = t /\ i = Len(stack[t]) => stack'[u][i] = e
      BY TopFacts DEF Resolving
    <2>2. CASE u = t /\ i = Len(stack[t])
      BY <1>1, <2>1, <2>2 DEF CallOK
    <2>3. CASE ~(u = t /\ i = Len(stack[t]))
      BY <2>1, <2>3 DEF CallOK
    <2> QED
      BY <2>2, <2>3
  <1>3. ASSUME NEW u \in Tasks PROVE Descending(u)'
    <2>1. DOMAIN stack'[u] = DOMAIN stack[u] /\ \A i \in DOMAIN stack[u] : stack'[u][i].provider = stack[u][i].provider
      BY TopFacts
    <2>2. Descending(u)
      BY DEF Resolving
    <2> QED
      BY <2>1, <2>2 DEF Descending
  <1>4. ASSUME NEW p \in Providers PROVE LockOK(p)' /\ MadeOK(p)'
    <2>1. LockOK(p) /\ MadeOK(p)
      BY DEF Resolving
    <2>2. MadeOK(p)'
      BY <2>1 DEF MadeOK
    <2>3. ASSUME NEW u \in ToSet(lock[p])
          PROVE  \E i \in DOMAIN stack'[u] : stack'[u][i].provider = p
      <3>1. u \in Tasks
        BY DEF StateOK, ToSet
      <3>2. PICK i \in DOMAIN stack[u] : stack[u][i].provider = p
        BY <2>1 DEF LockOK
      <3> QED
        BY <3>1, <3>2, TopFacts
    <2> QED
      BY <2>1, <2>2, <2>3 DEF LockOK
  <1> QED
    BY <1>2, <1>3, <1>4 DEF Resolving

\* A change of the topmost call is none for the scope.
LEMMA TopKeepsScoping ==
  ASSUME StateOK, Scoping, NEW t \in Tasks, stack[t] # <<>>, NEW e, TopBecomes(t, e),
         UNCHANGED <<made, scopeState>>
  PROVE  Scoping'
  <1>1. ASSUME NEW u \in Tasks, InScope(u)'
        PROVE  /\ InScope(u) /\ stack'[u][1].key = stack[u][1].key
               /\ stack'[u][1].stored = stack[u][1].stored
    <2>1. stack[u] # <<>> /\ 1 \in DOMAIN stack[u]
      <3>1. stack'[u] # <<>> /\ Len(stack'[u]) = Len(stack[u]) /\ stack'[u] \in Seq(Frames)
        BY <1>1, TopFacts DEF InScope
      <3> QED
        BY <3>1, StackFacts
    <2> QED
      BY <1>1, <2>1, TopFacts DEF InScope
  <1>2. \A p \in Providers : made'[p] \in Nat /\ made[p] <= made'[p]
    BY DEF StateOK
  <1> QED
    BY <1>1, <1>2, ScopeCalm

-----------------------------------------------------------------------------
(* Steps that leave an account alone                                       *)

\* The locks and the calls depend on nothing else.
LEMMA ResolvingCalm ==
  ASSUME Resolving, UNCHANGED <<singleton, lock, made, stack, kind>>
  PROVE  Resolving'
  BY DEF Resolving, Descending, CallOK, LockOK, MadeOK

\* Nor does what the overrides have done,
LEMMA OverridingCalm ==
  ASSUME Overriding, UNCHANGED overrideState
  PROVE  Overriding'
  BY DEF Overriding, overrideState

\* nor what the scope has stored.
LEMMA ScopingCalm ==
  ASSUME StateOK, Scoping, UNCHANGED <<made, stack, scopeState>>
  PROVE  Scoping'
  <1>1. \A p \in Providers : made'[p] \in Nat /\ made[p] <= made'[p]
    BY DEF StateOK
  <1>2. \A u \in Tasks : InScope(u)' => /\ InScope(u)
                                        /\ stack'[u][1].key = stack[u][1].key
                                        /\ stack'[u][1].stored = stack[u][1].stored
    BY DEF InScope
  <1> QED
    BY <1>1, <1>2, ScopeCalm

\* A step that changes nothing.
LEMMA Calm ==
  ASSUME IInv, UNCHANGED vars
  PROVE  IInv'
  <1>1. StateOK'
    BY DEF IInv, StateOK, vars, providerState, scopeState, overrideState
  <1> QED
    BY <1>1, ResolvingCalm, OverridingCalm, ScopingCalm
       DEF IInv, vars, providerState, scopeState, overrideState

-----------------------------------------------------------------------------
(* Steps of Provider.resolve                                               *)

\* Container.resolve.
LEMMA FromContainerKeepsIInv ==
  ASSUME IInv, NEW t \in Tasks, NEW k \in FromContainer, ResolveFromContainer(t, k)
  PROVE  IInv'
  <1>1. /\ k \in Keys /\ stack[t] = <<>> /\ ProviderOf(k) # None
        /\ UNCHANGED <<scopeState, overrideState>>
        /\ StateOK /\ Overriding /\ Resolving /\ Scoping
    BY KeysAssumption DEF ResolveFromContainer, IInv
  <1>2. CASE Cached(ProviderOf(k))
    <2>1. UNCHANGED vars
      BY <1>1, <1>2 DEF ResolveFromContainer, vars
    <2> QED
      BY <2>1, Calm
  <1>3. CASE ~Cached(ProviderOf(k))
    <2>1. Begin(t, Call(k, FALSE))
      BY <1>3 DEF ResolveFromContainer
    <2>2. Call(k, FALSE) \in Frames /\ Call(k, FALSE).inScope = FALSE
      BY <1>1, CallFacts
    <2>3. /\ stack' \in [Tasks -> Seq(Frames)] /\ lock' \in [Providers -> Seq(Tasks)]
          /\ \A u \in Tasks \ {t} : stack'[u] = stack[u]
          /\ stack'[t][Len(stack[t]) + 1].inScope = FALSE
          /\ UNCHANGED <<singleton, made>>
      BY <1>1, <2>1, <2>2, BeginFacts
    <2>4. Len(stack[t]) + 1 = 1
      BY <1>1
    <2>5. StateOK'
      BY <1>1, <2>3 DEF StateOK, scopeState, overrideState
    <2>6. Resolving'
      BY <1>1, <1>3, <2>1, BeginKeepsResolving DEF overrideState
    <2>7. \A u \in Tasks : InScope(u)' => /\ InScope(u)
                                          /\ stack'[u][1].key = stack[u][1].key
                                          /\ stack'[u][1].stored = stack[u][1].stored
      BY <2>3, <2>4 DEF InScope
    <2>8. Scoping'
      <3>1. \A p \in Providers : made'[p] \in Nat /\ made[p] <= made'[p]
        BY <1>1, <2>3 DEF StateOK
      <3> QED
        BY <1>1, <2>7, <3>1, ScopeCalm
    <2> QED
      BY <1>1, <2>5, <2>6, <2>8, OverridingCalm DEF IInv
  <1> QED
    BY <1>2, <1>3

\* Scope.resolve: the cache, the singleton there is, or the provider.
LEMMA FromScopeKeepsIInv ==
  ASSUME IInv, NEW t \in Tasks, NEW k \in FromScope, ResolveFromScope(t, k)
  PROVE  IInv'
  <1>1. /\ k \in Keys /\ stack[t] = <<>>
        /\ UNCHANGED <<instances, teardown, scope, left, closed, late, overrideState>>
        /\ StateOK /\ Overriding /\ Resolving /\ Scoping
    BY KeysAssumption DEF ResolveFromScope, IInv
  <1>2. CASE /\ instances[k] # NoInstance
             /\ scopeGot' = [scopeGot EXCEPT ![k] = @ \cup {instances[k]}]
             /\ UNCHANGED <<providerState, stack, raced>>
    <2>1. UNCHANGED <<stack, singleton, lock, made, kind>>
      BY <1>1, <1>2 DEF providerState, overrideState
    <2>2. StateOK'
      <3>1. instances[k] \in Instances
        BY <1>1, <1>2 DEF StateOK
      <3>2. scopeGot' \in [Keys -> SUBSET Instances]
        BY <1>1, <1>2, <3>1 DEF StateOK
      <3> QED
        BY <1>1, <1>2, <2>1, <3>2 DEF StateOK, overrideState
    <2> QED
      BY <1>1, <1>2, <2>1, <2>2, HitKeepsScoping, ResolvingCalm, OverridingCalm DEF IInv
  <1>3. CASE /\ instances[k] = NoInstance /\ ProviderOf(k) # None
             /\ Cached(ProviderOf(k)) /\ UNCHANGED <<providerState, stack, raced, scopeGot>>
    <2>1. UNCHANGED vars
      BY <1>1, <1>3 DEF vars, scopeState
    <2> QED
      BY <2>1, Calm
  <1>4. CASE /\ instances[k] = NoInstance /\ ProviderOf(k) # None /\ ~Cached(ProviderOf(k))
             /\ Begin(t, Call(k, TRUE)) /\ UNCHANGED scopeGot
             /\ raced' = IF Found(k) \in Pending(t) THEN raced \cup {Found(k)} ELSE raced
    <2>1. /\ Call(k, TRUE) \in Frames /\ Call(k, TRUE).key = k /\ Call(k, TRUE).stored = Found(k)
      BY <1>1, <1>4, CallFacts
    <2>2. /\ stack' \in [Tasks -> Seq(Frames)] /\ lock' \in [Providers -> Seq(Tasks)]
          /\ \A u \in Tasks \ {t} : stack'[u] = stack[u]
          /\ stack'[t] # <<>>
          /\ stack'[t][Len(stack[t]) + 1].key = k /\ stack'[t][Len(stack[t]) + 1].stored = Found(k)
          /\ UNCHANGED <<singleton, made>>
      BY <1>1, <1>4, <2>1, BeginFacts
    <2>3. Len(stack[t]) + 1 = 1
      BY <1>1
    <2>4. Found(k) \in {k, Unnamed[k]} /\ Found(k) \in Keys /\ (OwnEntry(k) => Found(k) = k)
      BY <1>1, ProviderFacts
    <2>5. StateOK'
      <3>1. raced' \subseteq Keys
        BY <1>1, <1>4, <2>4 DEF StateOK
      <3> QED
        BY <1>1, <1>4, <2>2, <3>1 DEF StateOK, overrideState
    <2>6. Resolving'
      BY <1>1, <1>4, BeginKeepsResolving DEF overrideState
    <2>7. Scoping'
      BY <1>1, <1>4, <2>2, <2>3, <2>4, MissKeepsScoping
    <2> QED
      BY <1>1, <2>5, <2>6, <2>7, OverridingCalm DEF IInv
  <1> QED
    BY <1>2, <1>3, <1>4 DEF ResolveFromScope

\* What a factory needs are keys.
LEMMA NeedFacts ==
  ASSUME NEW p \in Keys, NEW i \in Nat, i < Len(Needs[p])
  PROVE  Needs[p][i + 1] \in Keys /\ Needs[p][i + 1] \in ToSet(Needs[p])
  <1>1. Needs[p] \in Seq(Keys)
    BY NeedsAssumption
  <1> QED
    BY <1>1 DEF ToSet

\* A factory asks for what it needs.
LEMMA NeedKeepsIInv ==
  ASSUME IInv, NEW t \in Tasks, ResolveNeed(t)
  PROVE  IInv'
  <1> DEFINE n == Len(stack[t])
             c == stack[t][n]
             k == Needs[c.provider][c.needed + 1]
  <1>0. StateOK /\ Overriding /\ Resolving /\ Scoping
    BY DEF IInv
  <1>1. stack[t] # <<>> /\ c = Last(stack[t]) /\ n \in DOMAIN stack[t] /\ c \in Frames /\ n \in Nat \ {0}
    BY <1>0, StackFacts DEF ResolveNeed
  <1>2. /\ ~c.waiting /\ c.provider \in Keys /\ c.needed < Len(Needs[c.provider])
        /\ ProviderOf(k) # None /\ UNCHANGED <<scopeState, overrideState>>
        /\ IF Cached(ProviderOf(k))
             THEN /\ stack' = [stack EXCEPT ![t][n].needed = @ + 1]
                  /\ UNCHANGED providerState
             ELSE Begin(t, Call(k, FALSE))
    BY <1>1 DEF ResolveNeed
  <1>3. k \in Keys /\ k \in ToSet(Needs[c.provider])
    <2>1. c.needed \in Nat
      BY <1>1 DEF Frames
    <2> QED
      BY <1>2, <2>1, NeedFacts
  <1>4. CASE Cached(ProviderOf(k))
    <2> DEFINE e == [c EXCEPT !.needed = @ + 1]
    <2>1. /\ e \in Frames /\ e.key = c.key /\ e.stored = c.stored /\ e.provider = c.provider
          /\ e.inScope = c.inScope /\ e.waiting = c.waiting
      BY <1>1 DEF Frames
    <2>2. stack' = [stack EXCEPT ![t] = [stack[t] EXCEPT ![n] = e]]
      BY <1>2, <1>4
    <2>3. UNCHANGED <<singleton, lock, made, kind>>
      BY <1>2, <1>4 DEF providerState, overrideState
    <2>4. CallOK(t, n)
      BY <1>0, <1>1 DEF Resolving
    <2> HIDE DEF e, k
    <2>5. TopBecomes(t, e)
      BY <2>1, <2>2 DEF TopBecomes
    <2>6. StateOK'
      <3>1. stack' \in [Tasks -> Seq(Frames)]
        BY <1>0, <1>1, <2>5, TopFacts
      <3> QED
        BY <1>0, <1>2, <2>3, <3>1 DEF StateOK, scopeState, overrideState
    <2>7. Resolving'
      <3>1. ~e.waiting /\ kind[e.provider] = "singleton" =>
               lock[e.provider][1] = t /\ singleton[e.provider] = NoInstance
        BY <1>2, <2>1, <2>4 DEF CallOK
      <3>2. e.waiting => stack[t][Len(stack[t])].waiting
        BY <2>1
      <3> QED
        BY <1>0, <1>1, <2>3, <2>5, <3>1, <3>2, TopKeepsResolving
    <2>8. Scoping'
      BY <1>0, <1>1, <1>2, <2>3, <2>5, TopKeepsScoping
    <2> QED
      BY <1>0, <1>2, <2>6, <2>7, <2>8, OverridingCalm DEF IInv
  <1>5. CASE ~Cached(ProviderOf(k))
    <2>1. Begin(t, Call(k, FALSE))
      BY <1>2, <1>5
    <2>2. Call(k, FALSE) \in Frames /\ FALSE \in BOOLEAN
      BY <1>0, <1>2, <1>3, CallFacts
    <2> HIDE DEF k
    <2>3. /\ stack' \in [Tasks -> Seq(Frames)] /\ lock' \in [Providers -> Seq(Tasks)]
          /\ \A u \in Tasks \ {t} : stack'[u] = stack[u]
          /\ \A i \in DOMAIN stack[t] : stack'[t][i] = stack[t][i]
          /\ UNCHANGED <<singleton, made>>
      BY <1>0, <2>1, <2>2, BeginFacts
    <2>4. StateOK'
      BY <1>0, <1>2, <2>3 DEF StateOK, scopeState, overrideState
    <2>5. Resolving'
      <3>1. LET d == stack[t][Len(stack[t])]
            IN  ~FALSE /\ ~d.waiting /\ d.provider \in Keys /\ k \in ToSet(Needs[d.provider])
        BY <1>2, <1>3
      <3>2. UNCHANGED kind
        BY <1>2 DEF overrideState
      <3> QED
        BY <1>0, <1>2, <1>3, <1>5, <2>1, <2>2, <3>1, <3>2, BeginKeepsResolving
    <2>6. Scoping'
      <3>1. \A u \in Tasks : stack[u] # <<>> => 1 \in DOMAIN stack[u]
        BY <1>0, StackFacts
      <3>2. \A u \in Tasks : InScope(u)' => /\ InScope(u)
                                            /\ stack'[u][1].key = stack[u][1].key
                                            /\ stack'[u][1].stored = stack[u][1].stored
        BY <1>1, <2>3, <3>1 DEF InScope
      <3>3. \A p \in Providers : made'[p] \in Nat /\ made[p] <= made'[p]
        BY <1>0, <2>3 DEF StateOK
      <3> QED
        BY <1>0, <1>2, <3>2, <3>3, ScopeCalm
    <2> QED
      BY <1>0, <1>2, <2>4, <2>5, <2>6, OverridingCalm DEF IInv
  <1> QED
    BY <1>4, <1>5

\* An answered call takes its task out of the queue of its provider's lock.
LEMMA ReturnKeepsResolving ==
  ASSUME StateOK, Resolving, NEW t \in Tasks, stack[t] # <<>>, NEW inst, Return(t, inst),
         NEW c, c = Last(stack[t]), HandOver(t, <<c>>), UNCHANGED kind,
         \A p \in Providers : /\ MadeOK(p)'
                              /\ singleton'[p] # singleton[p] => p = c.provider /\ lock[p][1] = t
  PROVE  Resolving' /\ lock' \in [Providers -> Seq(Tasks)]
  <1> DEFINE n == Len(stack[t])
             m == n - 1
             D == {stack[t][i].provider : i \in (m + 1)..n}
  <1>1. n \in Nat \ {0} /\ n \in DOMAIN stack[t] /\ c = stack[t][n] /\ m \in Nat /\ m < n
    BY StackFacts
  <1>2. D = {c.provider}
    BY <1>1
  <1>3. /\ stack' \in [Tasks -> Seq(Frames)] /\ \A u \in Tasks \ {t} : stack'[u] = stack[u]
        /\ Len(stack'[t]) = m
        /\ \A i \in 1..m : /\ stack'[t][i].key = stack[t][i].key
                           /\ stack'[t][i].provider = stack[t][i].provider
                           /\ stack'[t][i].inScope = stack[t][i].inScope
                           /\ stack'[t][i].waiting = stack[t][i].waiting
    BY ReturnFacts
  <1>4. lock' = [p \in Providers |-> IF p \in D THEN RemoveFirst(lock[p], t) ELSE lock[p]]
    <2>1. \A p : (\E i \in DOMAIN <<c>> : <<c>>[i].provider = p) <=> p = c.provider
      OBVIOUS
    <2> QED
      BY <1>2, <2>1 DEF HandOver
  <1> HIDE DEF D
  <1>5. /\ lock' \in [Providers -> Seq(Tasks)]
        /\ \A p \in Providers :
            IF p \in D
            THEN /\ ToSet(lock'[p]) = ToSet(lock[p]) \ {t}
                 /\ \A i, j \in DOMAIN lock'[p] : lock'[p][i] = lock'[p][j] => i = j
                 /\ lock[p] # <<>> /\ lock[p][1] # t => lock'[p][1] = lock[p][1]
            ELSE lock'[p] = lock[p]
    <2>1. /\ lock' = [p \in Providers |-> lock'[p]]
          /\ \A p \in Providers : lock'[p] = IF p \in D THEN RemoveFirst(lock[p], t) ELSE lock[p]
      BY <1>4
    <2> QED
      BY <2>1, HandOverFacts
  <1>6. \A p \in Providers : /\ MadeOK(p)'
                             /\ singleton'[p] # singleton[p] => p \in D /\ lock[p][1] = t
    BY <1>2
  <1>7. /\ m \in Nat /\ m < Len(stack[t])
        /\ \A p : p \in D <=> \E i \in (m + 1)..Len(stack[t]) : stack[t][i].provider = p
    BY <1>1 DEF D
  <1> HIDE DEF m, n
  <1>8. Leaves(t, m, D)
    BY <1>3, <1>5, <1>6, <1>7 DEF Leaves
  <1> QED
    BY <1>5, <1>8, LeavingKeepsResolving

\* When a call is answered, only a call that is over leaves the scope.
LEMMA ReturnInScope ==
  ASSUME StateOK, Resolving, NEW t \in Tasks, stack[t] # <<>>, NEW inst, Return(t, inst),
         NEW c, c = Last(stack[t])
  PROVE  /\ c \in Frames /\ CallOK(t, Len(stack[t])) /\ c = stack[t][Len(stack[t])]
         /\ c.inScope => Len(stack[t]) = 1 /\ InScope(t) /\ c = stack[t][1] /\ stack'[t] = <<>>
         /\ \A u \in Tasks : InScope(u)' => /\ InScope(u)
                                            /\ stack'[u][1].key = stack[u][1].key
                                            /\ stack'[u][1].stored = stack[u][1].stored
  <1> DEFINE n == Len(stack[t])
  <1>1. n \in Nat \ {0} /\ n \in DOMAIN stack[t] /\ c = stack[t][n] /\ c \in Frames /\ stack[t] \in Seq(Frames)
    BY StackFacts
  <1>2. CallOK(t, n)
    BY <1>1 DEF Resolving
  <1>3. /\ stack' \in [Tasks -> Seq(Frames)] /\ \A u \in Tasks \ {t} : stack'[u] = stack[u]
        /\ Len(stack'[t]) = n - 1
        /\ \A i \in 1..(n - 1) : /\ stack'[t][i].key = stack[t][i].key
                                 /\ stack'[t][i].stored = stack[t][i].stored
                                 /\ stack'[t][i].inScope = stack[t][i].inScope
    BY ReturnFacts
  <1> HIDE DEF n
  <1>4. c.inScope => n = 1
    BY <1>1, <1>2 DEF CallOK
  <1>5. n = 1 => stack'[t] = <<>>
    BY <1>3
  <1>6. ASSUME NEW u \in Tasks, InScope(u)'
        PROVE  /\ InScope(u) /\ stack'[u][1].key = stack[u][1].key
               /\ stack'[u][1].stored = stack[u][1].stored
    <2>1. CASE u # t
      BY <1>3, <1>6, <2>1 DEF InScope
    <2>2. CASE u = t
      <3>1. stack'[t] # <<>> /\ stack'[t][1].inScope
        BY <1>6, <2>2 DEF InScope
      <3>2. 1 \in 1..(n - 1)
        BY <1>1, <1>5, <3>1
      <3> QED
        BY <1>3, <2>2, <3>1, <3>2 DEF InScope
    <2> QED
      BY <2>1, <2>2
  <1> QED
    BY <1>1, <1>2, <1>4, <1>5, <1>6 DEF InScope, n

\* The lock is handed to a task: the instance is there, or it makes it.
LEMMA TakeLockKeepsIInv ==
  ASSUME IInv, NEW t \in Tasks, TakeLock(t)
  PROVE  IInv'
  <1> DEFINE n == Len(stack[t])
             c == Last(stack[t])
             p == c.provider
  <1>0. StateOK /\ Overriding /\ Resolving /\ Scoping
    BY DEF IInv
  <1>1. stack[t] # <<>> /\ c.waiting /\ Head(lock[p]) = t /\ UNCHANGED <<singleton, made, overrideState>>
    BY DEF TakeLock
  <1>2. c = stack[t][n] /\ c \in Frames /\ CallOK(t, n) /\ p \in Providers
    <2>1. n \in DOMAIN stack[t] /\ c = stack[t][n] /\ c \in Frames
      BY <1>0, <1>1, StackFacts
    <2> QED
      BY <1>0, <2>1 DEF Resolving, Frames
  <1>3. kind[p] = "singleton" /\ lock[p][1] = t
    <2>1. kind[p] = "singleton" /\ t \in ToSet(lock[p])
      BY <1>1, <1>2 DEF CallOK
    <2>2. lock[p] \in Seq(Tasks) /\ lock[p] # <<>>
      BY <1>0, <1>2, <2>1 DEF StateOK, ToSet
    <2> QED
      BY <1>1, <2>1, <2>2
  <1>4. UNCHANGED kind /\ \A q \in Providers : MadeOK(q)' /\ singleton'[q] = singleton[q]
    BY <1>0, <1>1 DEF Resolving, MadeOK, overrideState
  <1>5. \A q \in Providers : made'[q] \in Nat /\ made[q] <= made'[q]
    BY <1>0, <1>1 DEF StateOK
  <1>6. CASE CachedMeanwhile(p)
    <2>1. HandOver(t, <<c>>) /\ Return(t, singleton[p])
      BY <1>6 DEF TakeLock
    <2>2. UNCHANGED scopeState
      BY <1>3, <2>1 DEF Return, Keep, scopeState
    <2> HIDE DEF c
    <2>3. c = Last(stack[t])
      BY DEF c
    <2>4. Resolving'
      BY <1>0, <1>1, <1>4, <2>1, <2>3, ReturnKeepsResolving
    <2>5. Scoping'
      BY <1>0, <1>1, <1>5, <2>1, <2>2, <2>3, ReturnInScope, ScopeCalm
    <2>6. StateOK'
      <3>1. lock' \in [Providers -> Seq(Tasks)]
        BY <1>0, <1>1, <1>4, <2>1, <2>3, ReturnKeepsResolving
      <3>2. stack' \in [Tasks -> Seq(Frames)]
        BY <1>0, <1>1, <2>1, ReturnFacts
      <3> QED
        BY <1>0, <1>1, <2>2, <3>1, <3>2 DEF StateOK, scopeState, overrideState
    <2> QED
      BY <1>0, <1>1, <2>4, <2>5, <2>6, OverridingCalm DEF IInv
  <1>7. CASE ~CachedMeanwhile(p)
    <2> DEFINE e == [c EXCEPT !.waiting = FALSE]
    <2>1. stack' = [stack EXCEPT ![t][n].waiting = FALSE] /\ UNCHANGED <<lock, scopeState>>
      BY <1>7 DEF TakeLock
    <2>2. /\ e \in Frames /\ e.key = c.key /\ e.stored = c.stored /\ e.provider = c.provider
          /\ e.inScope = c.inScope /\ ~e.waiting
      BY <1>2 DEF Frames
    <2>3. stack' = [stack EXCEPT ![t] = [stack[t] EXCEPT ![n] = e]]
      BY <1>2, <2>1
    <2> HIDE DEF e
    <2>4. TopBecomes(t, e)
      BY <1>2, <2>2, <2>3 DEF TopBecomes
    <2>5. StateOK'
      <3>1. stack' \in [Tasks -> Seq(Frames)]
        BY <1>0, <1>1, <2>4, TopFacts
      <3> QED
        BY <1>0, <1>1, <2>1, <3>1 DEF StateOK, scopeState, overrideState
    <2>6. Resolving'
      <3>1. lock[e.provider][1] = t /\ singleton[e.provider] = NoInstance
        BY <1>3, <1>7, <2>2 DEF CachedMeanwhile
      <3> QED
        BY <1>0, <1>1, <1>4, <2>1, <2>2, <2>4, <3>1, TopKeepsResolving
    <2>7. Scoping'
      BY <1>0, <1>1, <2>1, <2>4, TopKeepsScoping
    <2> QED
      BY <1>0, <1>1, <2>5, <2>6, <2>7, OverridingCalm DEF IInv
  <1> QED
    BY <1>6, <1>7

\* A factory returns, and the scope keeps what is scoped.
LEMMA CreateKeepsIInv ==
  ASSUME IInv, NEW t \in Tasks, Create(t)
  PROVE  IInv'
  <1> DEFINE c == Last(stack[t])
             p == c.provider
             inst == <<p, made[p] + 1>>
  <1>0. StateOK /\ Overriding /\ Resolving /\ Scoping
    BY DEF IInv
  <1>1. /\ stack[t] # <<>> /\ ~c.waiting
        /\ made' = [made EXCEPT ![p] = @ + 1]
        /\ singleton' = IF IsSingleton(p) THEN [singleton EXCEPT ![p] = inst] ELSE singleton
        /\ HandOver(t, <<c>>) /\ Return(t, inst)
        /\ UNCHANGED overrideState
    BY DEF Create
  <1>2. /\ c \in Frames /\ p \in Providers /\ CallOK(t, Len(stack[t])) /\ c = stack[t][Len(stack[t])]
        /\ c.inScope => Len(stack[t]) = 1 /\ InScope(t) /\ c = stack[t][1] /\ stack'[t] = <<>>
        /\ \A u \in Tasks : InScope(u)' => /\ InScope(u)
                                           /\ stack'[u][1].key = stack[u][1].key
                                           /\ stack'[u][1].stored = stack[u][1].stored
    <2> HIDE DEF inst
    <2> QED
      BY <1>0, <1>1, ReturnInScope DEF Frames
  <1>3. kind[p] # None /\ (kind[p] = "singleton" => lock[p][1] = t /\ singleton[p] = NoInstance)
    BY <1>1, <1>2 DEF CallOK
  <1>4. /\ made[p] \in Nat /\ inst \in Instances /\ inst # NoInstance
        /\ made' \in [Providers -> Nat] /\ made'[p] = made[p] + 1
        /\ \A q \in Providers \ {p} : made'[q] = made[q]
    <2>1. made[p] \in Nat /\ made \in [Providers -> Nat]
      BY <1>0, <1>2 DEF StateOK
    <2>2. inst \in Instances /\ NoInstance \notin Instances
      BY <1>2, <2>1 DEF Instances, NoInstance
    <2> HIDE DEF inst
    <2>3. made' \in [Providers -> Nat] /\ made'[p] = made[p] + 1
      BY <1>1, <1>2, <2>1
    <2>4. \A q \in Providers \ {p} : made'[q] = made[q]
      BY <1>1, <2>1
    <2> QED
      BY <2>1, <2>2, <2>3, <2>4
  <1> HIDE DEF inst
  <1>5. UNCHANGED kind
    BY <1>1 DEF overrideState
  <1>6. ASSUME NEW q \in Providers
        PROVE  MadeOK(q)' /\ (singleton'[q] # singleton[q] => q = p /\ lock[q][1] = t)
    <2>1. MadeOK(q)
      BY <1>0 DEF Resolving
    <2>2. CASE q = p /\ kind[p] = "singleton"
      <3>1. made[p] = 0 /\ made'[p] = 1 /\ singleton'[p] = inst
        <4>1. made[p] = 0
          BY <1>3, <2>1, <2>2 DEF MadeOK
        <4>2. singleton'[p] = inst
          BY <1>0, <1>1, <1>2, <2>2 DEF IsSingleton, StateOK
        <4> QED
          BY <1>4, <4>1, <4>2
      <3> QED
        BY <1>3, <1>4, <1>5, <2>2, <3>1 DEF MadeOK
    <2>3. CASE q = p /\ kind[p] # "singleton"
      <3>1. singleton'[q] = singleton[q]
        BY <1>1, <2>3 DEF IsSingleton
      <3> QED
        BY <1>3, <1>5, <2>1, <2>3, <3>1 DEF MadeOK
    <2>4. CASE q # p
      <3>1. singleton'[q] = singleton[q] /\ made'[q] = made[q]
        BY <1>0, <1>1, <1>4, <2>4 DEF StateOK
      <3> QED
        BY <1>5, <2>1, <2>4, <3>1 DEF MadeOK
    <2> QED
      BY <2>2, <2>3, <2>4
  <1>7. Resolving' /\ lock' \in [Providers -> Seq(Tasks)]
    <2>1. c = Last(stack[t])
      OBVIOUS
    <2> HIDE DEF c
    <2> QED
      BY <1>0, <1>1, <1>5, <1>6, <2>1, ReturnKeepsResolving
  <1>8. singleton' \in [Providers -> Instances \cup {NoInstance}]
    BY <1>0, <1>1, <1>2, <1>4 DEF StateOK
  <1>9. stack' \in [Tasks -> Seq(Frames)] /\ \A u \in Tasks \ {t} : stack'[u] = stack[u]
    BY <1>0, <1>1, ReturnFacts
  <1>10. CASE c.inScope /\ kind[p] = "scoped"
    <2>1. Keep(c, inst)
      BY <1>1, <1>10 DEF Return
    <2>2. Scoping'
      BY <1>0, <1>1, <1>2, <1>9, <1>10, <2>1, KeepKeepsScoping DEF inst
    <2>3. StateOK'
      <3>1. /\ scopeGot' = [scopeGot EXCEPT ![c.key] = @ \cup {inst}]
            /\ instances' = [instances EXCEPT ![c.stored] = inst]
            /\ teardown' = Append(teardown, inst)
            /\ late' = IF scope = "open" THEN late ELSE late \cup {inst}
            /\ UNCHANGED <<scope, left, closed, raced>>
        BY <1>10, <2>1 DEF Keep, Stored
      <3>2. c.key \in Keys
        BY <1>2 DEF Frames
      <3>3. scopeGot' \in [Keys -> SUBSET Instances]
        <4>1. scopeGot[c.key] \cup {inst} \subseteq Instances
          BY <1>0, <1>4, <3>2 DEF StateOK
        <4> QED
          BY <1>0, <3>1, <4>1 DEF StateOK
      <3>4. /\ instances' \in [Keys -> Instances \cup {NoInstance}]
            /\ teardown' \in Seq(Instances) /\ late' \subseteq Instances
        <4>1. instances' \in [Keys -> Instances \cup {NoInstance}]
          BY <1>0, <1>4, <3>1 DEF StateOK
        <4>2. teardown \in Seq(Instances) /\ inst \in Instances
          BY <1>0, <1>4 DEF StateOK
        <4>3. teardown' \in Seq(Instances)
          BY ONLY <3>1, <4>2
        <4>4. late' \subseteq Instances
          BY <1>0, <1>4, <3>1 DEF StateOK
        <4> QED
          BY <4>1, <4>3, <4>4
      <3> QED
        BY <1>0, <1>1, <1>4, <1>7, <1>8, <1>9, <3>1, <3>3, <3>4 DEF StateOK, overrideState
    <2> QED
      BY <1>0, <1>1, <1>7, <2>2, <2>3, OverridingCalm DEF IInv
  <1>11. CASE ~(c.inScope /\ kind[p] = "scoped")
    <2>1. UNCHANGED scopeState
      BY <1>1, <1>11 DEF Return, Keep, scopeState
    <2>2. \A q \in Providers : made'[q] \in Nat /\ made[q] <= made'[q]
      <3> TAKE q \in Providers
      <3>1. made[q] \in Nat
        BY <1>0 DEF StateOK
      <3> QED
        BY <1>4, <3>1
    <2>3. Scoping'
      BY <1>0, <1>2, <2>1, <2>2, ScopeCalm
    <2>4. StateOK'
      BY <1>0, <1>1, <1>4, <1>7, <1>8, <1>9, <2>1 DEF StateOK, scopeState, overrideState
    <2> QED
      BY <1>0, <1>1, <1>7, <2>3, <2>4, OverridingCalm DEF IInv
  <1> QED
    BY <1>10, <1>11

\* A factory raises, or its task is cancelled: no lock remains with it.
LEMMA UnwindKeepsIInv ==
  ASSUME IInv, NEW t \in Tasks, stack[t] # <<>>, Unwind(t)
  PROVE  IInv'
  <1> DEFINE D == {stack[t][i].provider : i \in DOMAIN stack[t]}
  <1>0. StateOK /\ Overriding /\ Resolving /\ Scoping
    BY DEF IInv
  <1>1. /\ HandOver(t, stack[t]) /\ stack' = [stack EXCEPT ![t] = <<>>]
        /\ UNCHANGED <<singleton, made, scopeState, overrideState>>
    BY DEF Unwind
  <1>2. DOMAIN stack[t] = 1..Len(stack[t]) /\ Len(stack[t]) \in Nat \ {0}
    BY <1>0, StackFacts
  <1>3. /\ stack' \in [Tasks -> Seq(Frames)] /\ stack'[t] = <<>>
        /\ \A u \in Tasks \ {t} : stack'[u] = stack[u]
    BY <1>0, <1>1 DEF StateOK
  <1>4. lock' = [p \in Providers |-> IF p \in D THEN RemoveFirst(lock[p], t) ELSE lock[p]]
    BY <1>1 DEF HandOver
  <1>5. \A p : p \in D <=> \E i \in (0 + 1)..Len(stack[t]) : stack[t][i].provider = p
    BY <1>2
  <1> HIDE DEF D
  <1>6. /\ lock' \in [Providers -> Seq(Tasks)]
        /\ \A p \in Providers :
            IF p \in D
            THEN /\ ToSet(lock'[p]) = ToSet(lock[p]) \ {t}
                 /\ \A i, j \in DOMAIN lock'[p] : lock'[p][i] = lock'[p][j] => i = j
                 /\ lock[p] # <<>> /\ lock[p][1] # t => lock'[p][1] = lock[p][1]
            ELSE lock'[p] = lock[p]
    <2>1. /\ lock' = [p \in Providers |-> lock'[p]]
          /\ \A p \in Providers : lock'[p] = IF p \in D THEN RemoveFirst(lock[p], t) ELSE lock[p]
      BY <1>4
    <2> QED
      BY <1>0, <2>1, HandOverFacts
  <1>7. UNCHANGED <<kind, singleton, made>> /\ \A p \in Providers : MadeOK(p)'
    BY <1>0, <1>1 DEF Resolving, MadeOK, overrideState
  <1>8. Leaves(t, 0, D)
    <2>1. Len(stack'[t]) = 0 /\ 0 < Len(stack[t]) /\ 1..0 = {}
      BY <1>2, <1>3
    <2> QED
      BY <1>3, <1>5, <1>6, <1>7, <2>1 DEF Leaves
  <1>9. Resolving'
    BY <1>0, <1>8, LeavingKeepsResolving
  <1>10. Scoping'
    <2>1. \A u \in Tasks : InScope(u)' => /\ InScope(u)
                                          /\ stack'[u][1].key = stack[u][1].key
                                          /\ stack'[u][1].stored = stack[u][1].stored
      BY <1>3 DEF InScope
    <2>2. \A p \in Providers : made'[p] \in Nat /\ made[p] <= made'[p]
      BY <1>0, <1>1 DEF StateOK
    <2> QED
      BY <1>0, <1>1, <2>1, <2>2, ScopeCalm
  <1>11. StateOK'
    BY <1>0, <1>1, <1>3, <1>6 DEF StateOK, scopeState, overrideState
  <1> QED
    BY <1>0, <1>1, <1>9, <1>10, <1>11, OverridingCalm DEF IInv

-----------------------------------------------------------------------------
(* Steps of override                                                       *)

\* Where a key leads depends on the first overrides only.
LEMMA PrefixLeads ==
  ASSUME NEW s, NEW r, NEW n \in Nat, NEW k, NEW p,
         \A i \in 1..n : r[i] = s[i], LeadsTo(s, n, k, p)
  PROVE  LeadsTo(r, n, k, p)
  <1>1. \A i, j \in Nat : j \in (i + 1)..n => j \in 1..n
    OBVIOUS
  <1> QED
    BY <1>1 DEF LeadsTo

\* One override more or less that is of another key.
LEMMA OtherLeads ==
  ASSUME NEW s, NEW n \in Nat, NEW k, NEW p, OverrideKey[s[n + 1]] # k
  PROVE  LeadsTo(s, n, k, p) <=> LeadsTo(s, n + 1, k, p)
  <1>1. \A i \in 1..(n + 1) : i \in 1..n \/ i = n + 1
    OBVIOUS
  <1>2. \A i \in 1..n : i \in 1..(n + 1) /\ i # n + 1
    OBVIOUS
  <1>3. ASSUME NEW i \in 1..n
        PROVE  /\ \A j \in (i + 1)..(n + 1) : j \in (i + 1)..n \/ j = n + 1
               /\ \A j \in (i + 1)..n : j \in (i + 1)..(n + 1)
    OBVIOUS
  <1>4. ASSUME LeadsTo(s, n, k, p) PROVE LeadsTo(s, n + 1, k, p)
    BY <1>1, <1>2, <1>3, <1>4 DEF LeadsTo
  <1>5. ASSUME LeadsTo(s, n + 1, k, p) PROVE LeadsTo(s, n, k, p)
    BY <1>1, <1>2, <1>3, <1>5 DEF LeadsTo
  <1> QED
    BY <1>4, <1>5

\* An override takes the place of what its key led to.
LEMMA EnterKeepsIInv ==
  ASSUME IInv, EnterOverride
  PROVE  IInv'
  <1> DEFINE n == Len(entered)
             o == Overrides[n + 1]
             k == OverrideKey[o]
             x == IF providers[k] = None THEN "transient" ELSE kind[providers[k]]
  <1>0. StateOK /\ Overriding /\ Resolving /\ Scoping
    BY DEF IInv
  <1>1. /\ n < Len(Overrides) /\ kind[o] = None
        /\ original' = [original EXCEPT ![o] = providers[k]]
        /\ providers' = [providers EXCEPT ![k] = o]
        /\ kind' = [kind EXCEPT ![o] = x]
        /\ entered' = Append(entered, o)
        /\ UNCHANGED <<providerState, stack, scopeState>>
    BY DEF EnterOverride
  <1>2. entered \in Seq(Contexts) /\ n \in Nat /\ DOMAIN entered = 1..n
    BY <1>0 DEF StateOK
  <1>3. o \in Contexts /\ o \in Providers /\ o \notin Keys \cup {None} /\ k \in Keys
    <2>1. Overrides \in Seq(DOMAIN OverrideKey) /\ n + 1 \in DOMAIN Overrides
      BY <1>1, <1>2, OverridesAssumption
    <2>2. o \in DOMAIN OverrideKey /\ o \in Contexts
      BY <2>1 DEF Contexts, ToSet
    <2> QED
      BY <2>2, OverridesAssumption DEF Providers, Contexts
  <1>4. x \in {None, "singleton", "scoped", "transient"} /\ x # None
    <2>1. CASE providers[k] = None
      BY <2>1 DEF None
    <2>2. CASE providers[k] # None
      <3>1. ProviderOf(k) = providers[k]
        BY <2>2 DEF ProviderOf, Found
      <3>2. providers[k] \in Providers /\ kind[providers[k]] # None
        BY <1>0, <1>3, <2>2, <3>1, ProviderFacts
      <3>3. x = kind[providers[k]]
        BY <2>2
      <3> QED
        BY <1>0, <3>2, <3>3 DEF StateOK
    <2> QED
      BY <2>1, <2>2
  <1> HIDE DEF n, o, k, x
  <1>5. /\ kind' \in [Providers -> {None, "singleton", "scoped", "transient"}]
        /\ kind'[o] = x /\ \A p \in Providers : p # o => kind'[p] = kind[p]
    BY <1>0, <1>1, <1>3, <1>4 DEF StateOK
  <1>6. /\ entered' \in Seq(Contexts) /\ Len(entered') = n + 1 /\ DOMAIN entered' = 1..(n + 1)
        /\ \A i \in 1..n : entered'[i] = entered[i]
        /\ entered'[n + 1] = o
    BY <1>1, <1>2, <1>3 DEF n
  <1>7. /\ providers' \in [Keys -> Providers \cup {None}] /\ providers'[k] = o
        /\ \A q \in Keys : q # k => providers'[q] = providers[q]
    BY <1>0, <1>1, <1>3 DEF StateOK
  <1>8. /\ original' \in [Contexts -> Providers \cup {None}] /\ original'[o] = providers[k]
        /\ \A q \in Contexts : q # o => original'[q] = original[q]
    <2>1. providers[k] \in Providers \cup {None} /\ original \in [Contexts -> Providers \cup {None}]
      BY <1>0, <1>3 DEF StateOK
    <2> QED
      BY <1>1, <1>3, <2>1
  <1>9. StateOK'
    BY <1>0, <1>1, <1>5, <1>6, <1>7, <1>8 DEF StateOK, providerState, scopeState
  <1>10. \A i \in 1..n : entered[i] \in Contexts /\ entered[i] # o /\ entered[i] \in Providers
    <2> TAKE i \in 1..n
    <2>1. entered[i] \in Contexts /\ kind[entered[i]] # None
      BY <1>0, <1>2 DEF Overriding
    <2> QED
      BY <1>1, <2>1 DEF Contexts, Providers
  <1>11. k = OverrideKey[entered'[n + 1]]
    BY <1>6 DEF k
  <1>12. Overriding'
    <2>1. ASSUME NEW q \in Keys PROVE LeadsTo(entered', n + 1, q, providers'[q])
      <3>1. CASE q = k
        <4>1. n + 1 \in 1..(n + 1) /\ ((n + 1) + 1)..(n + 1) = {}
          BY <1>2
        <4> QED
          BY <1>6, <1>7, <1>11, <3>1, <4>1 DEF LeadsTo
      <3>2. CASE q # k
        <4>1. LeadsTo(entered, n, q, providers[q])
          BY <1>0 DEF Overriding, n
        <4>2. LeadsTo(entered', n, q, providers[q])
          BY <1>2, <1>6, <4>1, PrefixLeads
        <4> QED
          BY <1>2, <1>7, <1>11, <3>2, <4>2, OtherLeads
      <3> QED
        BY <3>1, <3>2
    <2>2. ASSUME NEW m \in 1..(n + 1)
          PROVE  LeadsTo(entered', m - 1, OverrideKey[entered'[m]], original'[entered'[m]])
      <3>1. CASE m = n + 1
        <4>1. LeadsTo(entered, n, k, providers[k])
          BY <1>0, <1>3 DEF Overriding, n
        <4>2. LeadsTo(entered', n, k, providers[k])
          BY <1>2, <1>6, <4>1, PrefixLeads
        <4>3. m - 1 = n
          BY <1>2, <3>1
        <4> QED
          BY <1>6, <1>8, <1>11, <3>1, <4>2, <4>3
      <3>2. CASE m # n + 1
        <4>1. m \in 1..n /\ m - 1 \in Nat /\ \A i \in 1..(m - 1) : i \in 1..n
          BY <1>2, <3>2
        <4>2. LeadsTo(entered, m - 1, OverrideKey[entered[m]], original[entered[m]])
          BY <1>0, <1>2, <4>1 DEF Overriding
        <4>3. LeadsTo(entered', m - 1, OverrideKey[entered[m]], original[entered[m]])
          BY <1>6, <4>1, <4>2, PrefixLeads
        <4> QED
          BY <1>6, <1>8, <1>10, <4>1, <4>3
      <3> QED
        BY <3>1, <3>2
    <2>3. \A i, j \in 1..(n + 1) : entered'[i] = entered'[j] => i = j
      <3>1. \A i \in 1..(n + 1) : i \in 1..n \/ i = n + 1
        BY <1>2
      <3>2. \A i, j \in 1..n : entered[i] = entered[j] => i = j
        BY <1>0, <1>2 DEF Overriding
      <3> QED
        BY <1>6, <1>10, <3>1, <3>2
    <2>4. \A i \in 1..(n + 1) : kind'[entered'[i]] # None
      <3>1. \A i \in 1..(n + 1) : i \in 1..n \/ i = n + 1
        BY <1>2
      <3>2. \A i \in 1..n : kind[entered[i]] # None
        BY <1>0, <1>2 DEF Overriding
      <3> QED
        BY <1>4, <1>5, <1>6, <1>10, <3>1, <3>2
    <2>5. \A p \in Keys \cap Providers : kind'[p] = Lifecycle[p]
      BY <1>0, <1>3, <1>5 DEF Overriding
    <2> QED
      BY <1>6, <2>1, <2>2, <2>3, <2>4, <2>5 DEF Overriding
  <1>13. Resolving'
    <2>1. UNCHANGED <<singleton, lock, made, stack>>
      BY <1>1 DEF providerState
    <2>2. ASSUME NEW t \in Tasks, NEW i \in DOMAIN stack[t] PROVE CallOK(t, i)'
      <3>1. CallOK(t, i) /\ stack[t][i].provider \in Providers
        BY <1>0, StackFacts DEF Resolving, Frames
      <3>2. kind'[stack[t][i].provider] = kind[stack[t][i].provider]
        BY <1>1, <1>5, <3>1 DEF CallOK
      <3> QED
        BY <2>1, <3>1, <3>2 DEF CallOK
    <2>3. \A t \in Tasks : Descending(t)'
      BY <1>0, <2>1 DEF Resolving, Descending
    <2>4. ASSUME NEW p \in Providers PROVE LockOK(p)' /\ MadeOK(p)'
      <3>1. LockOK(p) /\ MadeOK(p)
        BY <1>0 DEF Resolving
      <3>2. CASE p = o
        <4>1. made[p] = 0 /\ singleton[p] = NoInstance
          BY <1>1, <3>1, <3>2 DEF MadeOK, None
        <4>2. ToSet(lock[p]) = {}
          <5>1. \A t \in ToSet(lock[p]) : kind[p] = "singleton"
            BY <3>1 DEF LockOK
          <5>2. kind[p] # "singleton"
            BY <1>1, <3>2 DEF None
          <5> QED
            BY <5>1, <5>2
        <4>3. MadeOK(p)'
          BY <2>1, <4>1 DEF MadeOK
        <4>4. LockOK(p)'
          <5>1. \A i, j \in DOMAIN lock[p] : lock[p][i] = lock[p][j] => i = j
            BY <3>1 DEF LockOK
          <5>2. ToSet(lock'[p]) = {}
            BY <2>1, <4>2
          <5> QED
            BY <2>1, <5>1, <5>2 DEF LockOK
        <4> QED
          BY <4>3, <4>4
      <3>3. CASE p # o
        <4>1. kind'[p] = kind[p]
          BY <1>5, <3>3
        <4> QED
          BY <2>1, <3>1, <4>1 DEF LockOK, MadeOK
      <3> QED
        BY <3>2, <3>3
    <2> QED
      BY <2>1, <2>2, <2>3, <2>4 DEF Resolving
  <1>14. Scoping'
    BY <1>0, <1>1, ScopingCalm DEF providerState
  <1> QED
    BY <1>9, <1>12, <1>13, <1>14 DEF IInv

\* The innermost override puts it back.
LEMMA ExitKeepsIInv ==
  ASSUME IInv, ExitOverride
  PROVE  IInv'
  <1> DEFINE n == Len(entered) - 1
             o == Last(entered)
             k == OverrideKey[o]
  <1>0. StateOK /\ Overriding /\ Resolving /\ Scoping
    BY DEF IInv
  <1>1. /\ entered # <<>>
        /\ providers' = [providers EXCEPT ![k] = original[o]]
        /\ entered' = Front(entered)
        /\ UNCHANGED <<providerState, stack, scopeState, kind, original>>
    BY DEF ExitOverride, Restored
  <1>2. /\ entered \in Seq(Contexts) /\ n \in Nat /\ DOMAIN entered = 1..(n + 1)
        /\ Len(entered) = n + 1 /\ o = entered[n + 1] /\ o \in Contexts
    <2>1. entered \in Seq(Contexts) /\ Len(entered) \in Nat \ {0}
      BY <1>0, <1>1 DEF StateOK
    <2> QED
      BY <2>1 DEF Last
  <1>3. k \in Keys
    <2>1. o \in DOMAIN OverrideKey
      BY <1>2, OverridesAssumption DEF Contexts, ToSet
    <2> QED
      BY <2>1, OverridesAssumption
  <1>4. /\ entered' \in Seq(Contexts) /\ Len(entered') = n /\ DOMAIN entered' = 1..n
        /\ \A i \in 1..n : entered'[i] = entered[i] /\ i \in DOMAIN entered
    <2>1. entered' = SubSeq(entered, 1, n)
      BY <1>1 DEF Front
    <2> HIDE DEF n
    <2> QED
      BY <1>2, <2>1, SubSeqProperties
  <1> HIDE DEF n, o, k
  <1>5. /\ providers' \in [Keys -> Providers \cup {None}] /\ providers'[k] = original[o]
        /\ \A q \in Keys : q # k => providers'[q] = providers[q]
    <2>1. original[o] \in Providers \cup {None} /\ providers \in [Keys -> Providers \cup {None}]
      BY <1>0, <1>2 DEF StateOK
    <2> QED
      BY <1>1, <1>3, <2>1
  <1>6. StateOK'
    BY <1>0, <1>1, <1>4, <1>5 DEF StateOK, providerState, scopeState
  <1>7. Overriding'
    <2>1. ASSUME NEW q \in Keys PROVE LeadsTo(entered', n, q, providers'[q])
      <3>1. CASE q = k
        <4>1. n + 1 - 1 = n
          BY <1>2
        <4>2. n + 1 \in DOMAIN entered
          BY <1>2
        <4>3. LeadsTo(entered, n, k, original[o])
          BY <1>0, <1>2, <4>1, <4>2 DEF Overriding, k
        <4> QED
          BY <1>2, <1>4, <1>5, <3>1, <4>3, PrefixLeads
      <3>2. CASE q # k
        <4>1. LeadsTo(entered, n + 1, q, providers[q])
          BY <1>0, <1>2 DEF Overriding
        <4>2. OverrideKey[entered[n + 1]] # q
          BY <1>2, <3>2 DEF k
        <4>3. LeadsTo(entered, n, q, providers[q])
          BY <1>2, <4>1, <4>2, OtherLeads
        <4> QED
          BY <1>2, <1>4, <1>5, <3>2, <4>3, PrefixLeads
      <3> QED
        BY <3>1, <3>2
    <2>2. ASSUME NEW m \in 1..n
          PROVE  LeadsTo(entered', m - 1, OverrideKey[entered'[m]], original[entered'[m]])
      <3>1. m \in DOMAIN entered /\ m - 1 \in Nat /\ \A i \in 1..(m - 1) : i \in 1..n
        BY <1>2, <1>4
      <3>2. LeadsTo(entered, m - 1, OverrideKey[entered[m]], original[entered[m]])
        BY <1>0, <3>1 DEF Overriding
      <3>3. LeadsTo(entered', m - 1, OverrideKey[entered[m]], original[entered[m]])
        BY <1>4, <3>1, <3>2, PrefixLeads
      <3> QED
        BY <1>4, <3>3
    <2>3. \A i, j \in 1..n : entered'[i] = entered'[j] => i = j
      BY <1>0, <1>4 DEF Overriding
    <2>4. \A i \in 1..n : kind[entered'[i]] # None
      BY <1>0, <1>4 DEF Overriding
    <2>5. \A p \in Keys \cap Providers : kind[p] = Lifecycle[p]
      BY <1>0 DEF Overriding
    <2> QED
      BY <1>1, <1>4, <2>1, <2>2, <2>3, <2>4, <2>5 DEF Overriding
  <1>8. Resolving' /\ Scoping'
    BY <1>0, <1>1, ResolvingCalm, ScopingCalm DEF providerState
  <1> QED
    BY <1>6, <1>7, <1>8 DEF IInv

-----------------------------------------------------------------------------
(* The inductive invariant                                                 *)

\* A container nobody has used.
LEMMA InitIInv ==
  ASSUME Init
  PROVE  IInv
  <1>1. /\ providers = [k \in Keys |-> Registered(k)]
        /\ kind = [p \in Providers |-> IF p \in Keys THEN Lifecycle[p] ELSE None]
        /\ singleton = [p \in Providers |-> NoInstance]
        /\ lock = [p \in Providers |-> <<>>]
        /\ made = [p \in Providers |-> 0]
        /\ stack = [t \in Tasks |-> <<>>]
        /\ instances = [k \in Keys |-> NoInstance]
        /\ teardown = <<>> /\ scope = "open" /\ left = <<>> /\ closed = {}
        /\ entered = <<>>
        /\ original = [o \in Contexts |-> None]
        /\ scopeGot = [k \in Keys |-> {}]
        /\ raced = {} /\ late = {}
    BY DEF Init, Registered, Contexts
  <1>2. \A k \in Keys : Registered(k) \in Providers \cup {None}
    BY DEF Registered, Providers
  <1>3. StateOK
    <2>1. kind \in [Providers -> {None, "singleton", "scoped", "transient"}]
      BY <1>1, LifecycleAssumption
    <2>2. \A S : <<>> \in Seq(S)
      OBVIOUS
    <2> QED
      BY <1>1, <1>2, <2>1, <2>2 DEF StateOK
  <1>4. Overriding
    <2>1. Len(entered) = 0 /\ DOMAIN entered = {} /\ 1..0 = {}
      BY <1>1
    <2>2. \A p \in Keys \cap Providers : kind[p] = Lifecycle[p]
      BY <1>1
    <2>3. \A k \in Keys : LeadsTo(entered, 0, k, providers[k])
      BY <1>1, <2>1 DEF LeadsTo
    <2> QED
      BY <2>1, <2>2, <2>3 DEF Overriding
  <1>5. Resolving
    <2>1. \A t \in Tasks : stack[t] = <<>> /\ DOMAIN stack[t] = {}
      BY <1>1
    <2>2. \A p \in Providers : DOMAIN lock[p] = {} /\ ToSet(lock[p]) = {}
      BY <1>1 DEF ToSet
    <2>3. \A p \in Providers : MadeOK(p)
      BY <1>1 DEF MadeOK
    <2> QED
      BY <2>1, <2>2, <2>3 DEF Resolving, Descending, LockOK
  <1>6. Scoping
    <2>1. \A t \in Tasks : ~InScope(t)
      BY <1>1 DEF InScope
    <2>2. DOMAIN teardown = {} /\ ToSet(teardown) = {}
      BY <1>1 DEF ToSet
    <2>3. \A k \in Keys : EntryOK(k)
      BY <1>1, <2>1 DEF EntryOK
    <2>4. WalkOK
      BY <1>1 DEF WalkOK
    <2> QED
      BY <1>1, <2>1, <2>2, <2>3, <2>4 DEF Scoping
  <1> QED
    BY <1>3, <1>4, <1>5, <1>6 DEF IInv

\* Scope.close, one await after the other.
LEMMA CloseKeepsIInv ==
  ASSUME IInv, CloseScope \/ CloseNext \/ CloseDone
  PROVE  IInv'
  <1>0. StateOK /\ Overriding /\ Resolving /\ Scoping
    BY DEF IInv
  <1>1. UNCHANGED <<providerState, stack, overrideState, scopeGot, raced, late>>
    BY DEF CloseScope, CloseNext, CloseDone
  <1>2. Overriding' /\ Resolving'
    BY <1>0, <1>1, OverridingCalm, ResolvingCalm DEF providerState, overrideState
  <1>3. CASE CloseScope
    <2>1. Scoping' /\ left' \in Seq(Instances)
      BY <1>0, <1>3, WalkBegins
    <2>2. StateOK'
      BY <1>0, <1>1, <1>3, <2>1 DEF StateOK, CloseScope, providerState, overrideState
    <2> QED
      BY <1>2, <2>1, <2>2 DEF IInv
  <1>4. CASE CloseNext
    <2>1. Scoping' /\ left' \in Seq(Instances) /\ closed' \subseteq Instances
      BY <1>0, <1>4, WalkGoesOn
    <2>2. UNCHANGED <<instances, teardown, scope>>
      BY <1>4 DEF CloseNext
    <2>3. StateOK'
      BY <1>0, <1>1, <2>1, <2>2 DEF StateOK, providerState, overrideState
    <2> QED
      BY <1>2, <2>1, <2>3 DEF IInv
  <1>5. CASE CloseDone
    <2>1. Scoping' /\ instances' \in [Keys -> Instances \cup {NoInstance}] /\ teardown' = <<>>
      BY <1>0, <1>5, WalkEnds
    <2>2. scope' = "closed" /\ UNCHANGED <<left, closed>>
      BY <1>5 DEF CloseDone
    <2>3. teardown' \in Seq(Instances)
      BY <2>1
    <2>4. StateOK'
      BY <1>0, <1>1, <2>1, <2>2, <2>3 DEF StateOK, providerState, overrideState
    <2> QED
      BY <1>2, <2>1, <2>4 DEF IInv
  <1> QED
    BY <1>3, <1>4, <1>5

\* Every step keeps all three accounts.
LEMMA NextIInv ==
  ASSUME IInv, [Next]_vars
  PROVE  IInv'
  <1>1. ASSUME NEW t \in Tasks, NEW k \in FromContainer, ResolveFromContainer(t, k) PROVE IInv'
    BY <1>1, FromContainerKeepsIInv
  <1>2. ASSUME NEW t \in Tasks, NEW k \in FromScope, ResolveFromScope(t, k) PROVE IInv'
    BY <1>2, FromScopeKeepsIInv
  <1>3. ASSUME NEW t \in Tasks, ResolveNeed(t) PROVE IInv'
    BY <1>3, NeedKeepsIInv
  <1>4. ASSUME NEW t \in Tasks, TakeLock(t) PROVE IInv'
    BY <1>4, TakeLockKeepsIInv
  <1>5. ASSUME NEW t \in Tasks, Create(t) PROVE IInv'
    BY <1>5, CreateKeepsIInv
  <1>6. ASSUME NEW t \in Tasks, FactoryFails(t) \/ CancelWaiting(t) PROVE IInv'
    BY <1>6, UnwindKeepsIInv DEF FactoryFails, CancelWaiting
  <1>7. CASE CloseScope \/ CloseNext \/ CloseDone
    BY <1>7, CloseKeepsIInv
  <1>8. CASE EnterOverride
    BY <1>8, EnterKeepsIInv
  <1>9. CASE ExitOverride
    BY <1>9, ExitKeepsIInv
  <1>10. CASE UNCHANGED vars
    BY <1>10, Calm
  <1> QED
    BY <1>1, <1>2, <1>3, <1>4, <1>5, <1>6, <1>7, <1>8, <1>9, <1>10 DEF Next

\* So they hold always.
LEMMA InductiveInvariant == Spec => []IInv
  BY InitIInv, NextIInv, PTL DEF Spec

-----------------------------------------------------------------------------
(* Theorems                                                                *)

\* Through every interleaving of resolutions, overrides and the closing of the
\* scope, each variable of the container, of its providers and of the scope
\* stays in its range.
THEOREM TypeCorrect == Spec => []StateOK
  BY InductiveInvariant, PTL DEF IInv

\* Provider.resolve looks twice, the second time under the lock: a singleton
\* is made once however many tasks ask for it through however many names and
\* factories, and although factories fail and waiting tasks are cancelled.
LEMMA SingletonOnce ==
  ASSUME IInv
  PROVE  SingletonShared
  <1>1. \A p \in Providers : MadeOK(p) /\ made[p] \in Nat
    BY DEF IInv, Resolving, StateOK
  <1>2. \A p \in Providers : kind[p] = "singleton" => made[p] \in {0, 1}
    BY <1>1 DEF MadeOK
  <1> QED
    BY <1>2 DEF SingletonShared

\* A set with two members is not within a set of one.
LEMMA AtMostOne ==
  ASSUME NEW S, NEW x, S \subseteq {x}
  PROVE  Cardinality(S) \in Nat /\ Cardinality(S) <= 1
  <1>1. IsFiniteSet({x}) /\ Cardinality({x}) = 1
    BY FS_Singleton
  <1>2. IsFiniteSet(S) /\ Cardinality(S) <= 1
    BY <1>1, FS_Subset
  <1> QED
    BY <1>2, FS_CardinalityType

\* Scope.resolve: two instances under one key have a reason.
LEMMA ScopedOnce ==
  ASSUME IInv
  PROVE  ScopeShared
  <1> SUFFICES ASSUME NEW k \in Keys, NEW p \in Providers, kind[p] = "scoped",
                      Cardinality({i \in scopeGot[k] : i[1] = p}) > 1,
                      {k, Unnamed[k]} \cap raced = {}, scope = "open", ~FellBack(Unnamed[k])
               PROVE  FALSE
    BY DEF ScopeShared
  <1> DEFINE from == {i \in scopeGot[k] : i[1] = p}
  <1>1. EntryOK(k)
    BY DEF IInv, Scoping
  <1>2. ASSUME from \subseteq {instances[k]} PROVE FALSE
    <2> HIDE DEF from
    <2>1. Cardinality(from) \in Nat /\ Cardinality(from) <= 1
      BY <1>2, AtMostOne
    <2>2. Cardinality(from) > 1
      BY DEF from
    <2> QED
      BY <2>1, <2>2
  <1>3. CASE OwnEntry(k)
    <2>1. ~FellBack(k)
      <3> SUFFICES ASSUME NEW n \in Keys, n # k, Unnamed[n] = k, Lifecycle[n] = None, scopeGot[n] # {}
                   PROVE  FALSE
        BY DEF FellBack
      <3>1. Unnamed[k] = k
        BY UnnamedAssumption
      <3> QED
        BY <3>1 DEF FellBack
    <2>2. \A i \in scopeGot[k] : instances[k] = i
      BY <1>1, <1>3, <2>1 DEF EntryOK
    <2> QED
      BY <1>2, <2>2
  <1>4. CASE ~OwnEntry(k)
    <2>1. Lifecycle[k] = None /\ Unnamed[k] # k /\ Unnamed[k] \in Keys
      BY <1>4, UnnamedAssumption DEF OwnEntry
    <2>2. scopeGot[k] = {}
      BY <2>1 DEF FellBack
    <2> QED
      BY <1>2, <2>2
  <1> QED
    BY <1>3, <1>4

\* What the lifecycles promise to tasks that ask at once (Provider.resolve and
\* Scope.resolve): one instance of a singleton, one of a scoped key for as
\* long as its scope is open and nobody raced for its entry.
THEOREM InstancesAreShared == Spec => []InstancesShared
  <1>1. IInv => InstancesShared
    BY SingletonOnce, ScopedOnce DEF InstancesShared
  <1> QED
    BY <1>1, InductiveInvariant, PTL

\* Scope.close walks what was stored before it began from the last to the
\* first, and has closed all of it when it is done, whatever is resolved
\* meanwhile.
THEOREM ScopeCloses == Spec => []ScopeClosed
  <1>1. ASSUME IInv PROVE ScopeClosed
    <2>1. ASSUME scope = "closed", NEW k \in Keys, NEW i \in scopeGot[k]
          PROVE  i \in closed \cup late
      <3>1. Covered(i)
        BY <1>1 DEF IInv, Scoping
      <3> QED
        BY <2>1, <3>1 DEF Covered
    <2>2. ASSUME NEW i \in DOMAIN teardown, NEW j \in DOMAIN teardown, i < j, scope = "closing",
                 teardown[j] \notin late, teardown[i] \in closed
          PROVE  teardown[j] \in closed
      <3>1. WalkOK /\ i \in Nat /\ j \in Nat /\ Len(left) \in Nat
        BY <1>1 DEF IInv, Scoping, StateOK
      <3>2. ~(i <= Len(left))
        BY <2>2, <3>1 DEF WalkOK
      <3>3. ~(j <= Len(left))
        BY <2>2, <3>1, <3>2
      <3> QED
        BY <2>2, <3>1, <3>3 DEF WalkOK
    <2> QED
      BY <2>1, <2>2 DEF ScopeClosed
  <1> QED
    BY <1>1, InductiveInvariant, PTL

\* override puts back, on its way out, what it found on its way in: a key
\* leads to its innermost override, and to what was registered when there is
\* none.
THEOREM OverridesAreNested == Spec => []OverridesNest
  <1>1. ASSUME IInv PROVE OverridesNest
    <2> SUFFICES ASSUME NEW k \in Keys
                 PROVE  LET own == {i \in DOMAIN entered : OverrideKey[entered[i]] = k}
                        IN  IF own = {} THEN providers[k] = Registered(k)
                            ELSE \E i \in own : providers[k] = entered[i] /\ \A j \in own : j <= i
      BY DEF OverridesNest, Registered
    <2> DEFINE own == {i \in DOMAIN entered : OverrideKey[entered[i]] = k}
    <2>1. LeadsTo(entered, Len(entered), k, providers[k])
      BY <1>1 DEF IInv, Overriding
    <2>2. DOMAIN entered = 1..Len(entered) /\ Len(entered) \in Nat
      BY <1>1 DEF IInv, StateOK
    <2>3. CASE providers[k] = Registered(k) /\ \A j \in 1..Len(entered) : OverrideKey[entered[j]] # k
      <3>1. own = {}
        BY <2>2, <2>3
      <3> QED
        BY <2>3, <3>1
    <2>4. ASSUME NEW i \in 1..Len(entered), providers[k] = entered[i], OverrideKey[entered[i]] = k,
                 \A j \in (i + 1)..Len(entered) : OverrideKey[entered[j]] # k
          PROVE  \E l \in own : providers[k] = entered[l] /\ \A j \in own : j <= l
      <3>1. i \in own
        BY <2>2, <2>4
      <3>2. \A j \in own : j <= i
        BY <2>2, <2>4
      <3> QED
        BY <2>4, <3>1, <3>2
    <2> QED
      BY <2>1, <2>3, <2>4 DEF LeadsTo
  <1> QED
    BY <1>1, InductiveInvariant, PTL
=============================================================================
