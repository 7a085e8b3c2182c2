------------------------ MODULE DependencyContainer ------------------------
(***************************************************************************)
(* di/container.py, di/provider.py, di/scope.py and testing/overrides.py:  *)
(* tasks of one event loop resolve keys from a container or from one       *)
(* scope, factories await and resolve further keys from the container,     *)
(* test code overrides providers, and the scope is closed.                 *)
(*                                                                         *)
(* A resolution is a stack of calls of Provider.resolve: the one at the    *)
(* bottom was asked for by a scope or by the container, each other one by  *)
(* the factory below it.  Every `await` is a point between two steps.      *)
(***************************************************************************)
EXTENDS Naturals, FiniteSets, Sequences, SequencesExt

CONSTANTS
    Tasks,
    Keys,          \* (type, name) pairs
    Unnamed,       \* (type, None) for each key
    Lifecycle,     \* of the provider registered for each key, or "none"
    Needs,         \* keys the factory of each provider resolves, in order
    Overrides,     \* override contexts, in the order a test enters them
    OverrideKey,   \* the key each replaces
    FromScope,     \* keys the tasks ask the scope for
    FromContainer, \* and the container
    MaxMade        \* bounds the instances made by one provider

None == "none"

ASSUME KeysAssumption == None \notin Keys /\ FromScope \cup FromContainer \subseteq Keys
ASSUME UnnamedAssumption ==
    Unnamed \in [Keys -> Keys] /\ \A k \in Keys : Unnamed[Unnamed[k]] = Unnamed[k]
ASSUME LifecycleAssumption ==
    Lifecycle \in [Keys -> {None, "singleton", "scoped", "transient"}]
\* No factory reaches itself, under no name: a singleton that does waits for
\* its own lock.
Ranks(rank) ==
    \A k \in Keys : \A n \in ToSet(Needs[k]) : {rank[n], rank[Unnamed[n]]} \subseteq 0..(rank[k] - 1)
ASSUME NeedsAssumption ==
    Needs \in [Keys -> Seq(Keys)] /\ \E rank \in [Keys -> 0..Cardinality(Keys)] : Ranks(rank)
\* Each context is an object of its own.
ASSUME OverridesAssumption ==
    /\ Overrides \in Seq(DOMAIN OverrideKey)
    /\ OverrideKey \in [DOMAIN OverrideKey -> Keys]
    /\ DOMAIN OverrideKey \cap (Keys \cup {None}) = {}

\* A provider is named by the key it was registered for or by its override.
Providers == {k \in Keys : Lifecycle[k] # None} \cup ToSet(Overrides)

VARIABLES
    providers,     \* Container._providers
    kind,          \* Provider.lifecycle
    singleton,     \* Provider._singleton_instance
    lock,          \* Provider._lock: who holds it, then who waits
    made,          \* instances each provider has made
    stack,         \* the calls each task is in
    instances,     \* Scope._instances
    teardown,      \* Scope._teardown
    scope,         \* "open", "closing" or "closed"
    left,          \* what the walk of Scope.close has still to close
    closed,        \* instances whose close method has run
    entered,       \* entered override contexts, outermost first
    original,      \* _OverrideContext._original
    scopeGot,      \* history: the instances that are not shared between scopes
                   \* and were returned by Scope.resolve, for each key
    raced,         \* history: keys resolved in the scope while another task
                   \* was about to store an instance under the same key
    late           \* history: instances stored after the walk began

providerState == <<singleton, lock, made>>
scopeState == <<instances, teardown, scope, left, closed, scopeGot, raced, late>>
overrideState == <<providers, kind, entered, original>>
vars == <<providerState, stack, scopeState, overrideState>>

NoInstance == <<>>

Init ==
    /\ providers = [k \in Keys |-> IF Lifecycle[k] = None THEN None ELSE k]
    /\ kind = [p \in Providers |-> IF p \in Keys THEN Lifecycle[p] ELSE None]
    /\ singleton = [p \in Providers |-> NoInstance]
    /\ lock = [p \in Providers |-> <<>>]
    /\ made = [p \in Providers |-> 0]
    /\ stack = [t \in Tasks |-> <<>>]
    /\ instances = [k \in Keys |-> NoInstance]
    /\ teardown = <<>> /\ scope = "open" /\ left = <<>> /\ closed = {}
    /\ entered = <<>>
    /\ original = [o \in ToSet(Overrides) |-> None]
    /\ scopeGot = [k \in Keys |-> {}]
    /\ raced = {} /\ late = {}

-----------------------------------------------------------------------------
(* Looking up                                                              *)

Found(k) == IF providers[k] # None THEN k ELSE Unnamed[k]
ProviderOf(k) == providers[Found(k)]

\* Keys under which other tasks are going to store an instance.
Pending(t) ==
    {stack[u][1].stored : u \in {u \in Tasks \ {t} : stack[u] # <<>> /\ stack[u][1].inScope}}

Call(k, inScope) ==
    [key |-> k, stored |-> Found(k), provider |-> ProviderOf(k), inScope |-> inScope,
     needed |-> 0, waiting |-> FALSE]

-----------------------------------------------------------------------------
(* Provider.resolve                                                        *)

IsSingleton(p) == kind[p] = "singleton"

\* Mutant of HandOver: a factory that raises leaves the lock taken.
HandOverNobody(t, calls) == UNCHANGED lock

\* `async with` gives the locks of these calls up, or the place in the queue.
HandOver(t, calls) ==
    lock' = [p \in Providers |->
                IF \E i \in DOMAIN calls : calls[i].provider = p
                THEN RemoveFirst(lock[p], t) ELSE lock[p]]

Stored(c, inst) == [instances EXCEPT ![c.stored] = inst]

\* Scope.resolve once its provider has answered: store, remember to close.
Keep(c, inst) ==
    /\ IF kind[c.provider] = "scoped"
         THEN /\ scopeGot' = [scopeGot EXCEPT ![c.key] = @ \cup {inst}]
              /\ instances' = Stored(c, inst)
              /\ teardown' = Append(teardown, inst)
              /\ late' = IF scope = "open" THEN late ELSE late \cup {inst}
         ELSE UNCHANGED <<scopeGot, instances, teardown, late>>
    /\ UNCHANGED <<scope, left, closed, raced>>

\* The topmost call of t returns inst, to a factory, a scope or the container.
Return(t, inst) ==
    LET c == Last(stack[t])
        below == Front(stack[t])
    IN  /\ stack' = [stack EXCEPT ![t] =
                        IF below = <<>> THEN <<>>
                        ELSE [below EXCEPT ![Len(below)].needed = @ + 1]]
        /\ IF c.inScope THEN Keep(c, inst) ELSE UNCHANGED scopeState

\* Provider.resolve begins: the instance there is, the lock, or the factory.
Begin(t, c) ==
    LET p == c.provider
    IN  /\ stack' = [stack EXCEPT ![t] =
                        Append(@, [c EXCEPT !.waiting = IsSingleton(p) /\ lock[p] # <<>>])]
        /\ lock' = IF IsSingleton(p) THEN [lock EXCEPT ![p] = Append(@, t)] ELSE lock
        /\ UNCHANGED <<singleton, made>>

Cached(p) == IsSingleton(p) /\ singleton[p] # NoInstance

ResolveFromContainer(t, k) ==
    LET p == ProviderOf(k)
    IN  /\ stack[t] = <<>>
        /\ p # None /\ kind[p] # "scoped"
        /\ IF Cached(p) THEN UNCHANGED <<providerState, stack>> ELSE Begin(t, Call(k, FALSE))
        /\ UNCHANGED <<scopeState, overrideState>>

ResolveFromScope(t, k) ==
    LET p == ProviderOf(k)
        unchanged == <<instances, teardown, scope, left, closed, late>>
    IN  /\ stack[t] = <<>>
        /\ \/ /\ instances[k] # NoInstance
              /\ scopeGot' = [scopeGot EXCEPT ![k] = @ \cup {instances[k]}]
              /\ UNCHANGED <<providerState, stack, raced>>
           \/ /\ instances[k] = NoInstance /\ p # None
              /\ IF Cached(p)
                   THEN UNCHANGED <<providerState, stack, raced>>
                   ELSE /\ Begin(t, Call(k, TRUE))
                        /\ raced' = IF Found(k) \in Pending(t) THEN raced \cup {Found(k)} ELSE raced
              /\ UNCHANGED scopeGot
        /\ UNCHANGED <<unchanged, overrideState>>

\* The factory of t's topmost call resolves the next key it needs.
ResolveNeed(t) ==
    LET c == Last(stack[t])
        k == Needs[c.provider][c.needed + 1]
    IN  /\ stack[t] # <<>> /\ ~Last(stack[t]).waiting
        /\ c.provider \in Keys /\ c.needed < Len(Needs[c.provider])
        /\ ProviderOf(k) # None /\ kind[ProviderOf(k)] # "scoped"
        /\ IF Cached(ProviderOf(k))
             THEN /\ stack' = [stack EXCEPT ![t][Len(stack[t])].needed = @ + 1]
                  /\ UNCHANGED providerState
             ELSE Begin(t, Call(k, FALSE))
        /\ UNCHANGED <<scopeState, overrideState>>

\* Mutant of CachedMeanwhile: the second look is left out.
CachedMeanwhileNever(p) == FALSE

\* The lock is ours: has its last holder made the instance?
CachedMeanwhile(p) == singleton[p] # NoInstance

TakeLock(t) ==
    LET c == Last(stack[t])
        p == c.provider
    IN  /\ stack[t] # <<>> /\ Last(stack[t]).waiting
        /\ Head(lock[p]) = t
        /\ IF CachedMeanwhile(p)
             THEN HandOver(t, <<c>>) /\ Return(t, singleton[p])
             ELSE /\ stack' = [stack EXCEPT ![t][Len(stack[t])].waiting = FALSE]
                  /\ UNCHANGED <<lock, scopeState>>
        /\ UNCHANGED <<singleton, made, overrideState>>

\* _create: the factory has what it needs and returns an instance.
Create(t) ==
    LET c == Last(stack[t])
        p == c.provider
        inst == <<p, made[p] + 1>>
    IN  /\ stack[t] # <<>> /\ ~Last(stack[t]).waiting
        /\ p \in Keys => c.needed = Len(Needs[p])
        /\ made[p] < MaxMade
        /\ made' = [made EXCEPT ![p] = @ + 1]
        /\ singleton' = IF IsSingleton(p) THEN [singleton EXCEPT ![p] = inst] ELSE singleton
        /\ HandOver(t, <<c>>)
        /\ Return(t, inst)
        /\ UNCHANGED overrideState

Unwind(t) ==
    /\ HandOver(t, stack[t])
    /\ stack' = [stack EXCEPT ![t] = <<>>]
    /\ UNCHANGED <<singleton, made, scopeState, overrideState>>

\* A factory raises, or is cancelled; no factory below catches it.
FactoryFails(t) == stack[t] # <<>> /\ ~Last(stack[t]).waiting /\ Unwind(t)

\* A task is cancelled while it waits for a lock.
CancelWaiting(t) == stack[t] # <<>> /\ Last(stack[t]).waiting /\ Unwind(t)

-----------------------------------------------------------------------------
(* Scope.close                                                             *)

\* Mutant of WalkOrder: the teardown list as it is.
WalkOrderForward == teardown

WalkOrder == Reverse(teardown)

CloseScope ==
    /\ scope = "open"
    /\ scope' = "closing"
    /\ left' = WalkOrder
    /\ UNCHANGED <<providerState, stack, overrideState, instances, teardown,
                   closed, scopeGot, raced, late>>

\* The close method is called and awaited; what it raises is collected.
CloseNext ==
    /\ scope = "closing" /\ left # <<>>
    /\ closed' = closed \cup {Head(left)}
    /\ left' = Tail(left)
    /\ UNCHANGED <<providerState, stack, overrideState, instances, teardown,
                   scope, scopeGot, raced, late>>

CloseDone ==
    /\ scope = "closing" /\ left = <<>>
    /\ scope' = "closed"
    /\ instances' = [k \in Keys |-> NoInstance]
    /\ teardown' = <<>>
    /\ UNCHANGED <<providerState, stack, overrideState, left, closed, scopeGot,
                   raced, late>>

-----------------------------------------------------------------------------
(* _OverrideContext, entered and exited by `override` as a stack           *)

EnterOverride ==
    LET o == Overrides[Len(entered) + 1]
        k == OverrideKey[o]
    IN  /\ Len(entered) < Len(Overrides)
        /\ kind[o] = None              \* each is entered once
        /\ original' = [original EXCEPT ![o] = providers[k]]
        /\ providers' = [providers EXCEPT ![k] = o]
        /\ kind' = [kind EXCEPT ![o] =
                       IF providers[k] = None THEN "transient" ELSE kind[providers[k]]]
        /\ entered' = Append(entered, o)
        /\ UNCHANGED <<providerState, stack, scopeState>>

\* Mutant of Restored: the entry is removed whatever was there.
RestoredNothing(o) == None

Restored(o) == original[o]

ExitOverride ==
    LET o == Last(entered)
    IN  /\ entered # <<>>
        /\ providers' = [providers EXCEPT ![OverrideKey[o]] = Restored(o)]
        /\ entered' = Front(entered)
        /\ UNCHANGED <<providerState, stack, scopeState, kind, original>>

Next ==
    \/ \E t \in Tasks :
          \/ \E k \in FromContainer : ResolveFromContainer(t, k)
          \/ \E k \in FromScope : ResolveFromScope(t, k)
          \/ ResolveNeed(t) \/ TakeLock(t) \/ Create(t) \/ FactoryFails(t) \/ CancelWaiting(t)
    \/ CloseScope \/ CloseNext \/ CloseDone
    \/ EnterOverride \/ ExitOverride

Spec == Init /\ [][Next]_vars

\* The loop resumes every task, and factories end.  Nobody cancels who waits.
FairSpec ==
    /\ Spec
    /\ \A t \in Tasks : WF_vars(ResolveNeed(t) \/ TakeLock(t) \/ Create(t) \/ FactoryFails(t))

-----------------------------------------------------------------------------
\* "Created once, shared across all scopes": through however many names,
\* scopes and factories a singleton's provider is asked at once, and however
\* often its factory fails or is cancelled first, it makes one instance.
SingletonShared ==
    \A p \in Providers : kind[p] = "singleton" => made[p] <= 1

\* A named key without a provider of its own was resolved through this one.
FellBack(k) == \E n \in Keys : n # k /\ Unnamed[n] = k /\ Lifecycle[n] = None /\ scopeGot[n] # {}

\* "Created once per scope": a key names one instance for as long as the scope
\* is open and its provider stays, unless two tasks resolved it at once or a
\* named key fell back to it, which the cache is not asked about.
ScopeShared ==
    \A k \in Keys :
        LET from(p) == {i \in scopeGot[k] : i[1] = p}
        IN  \A p \in Providers : kind[p] = "scoped" /\ Cardinality(from(p)) > 1 =>
                \/ {k, Unnamed[k]} \cap raced # {}
                \/ FellBack(Unnamed[k])
                \/ scope # "open"

\* Tasks that ask for the same thing at once, through factories, names and the
\* scope, share the instance its lifecycle promises.
InstancesShared == SingletonShared /\ ScopeShared

\* What was stored before the walk began has been closed when the scope is,
\* later instances first; only instances that arrived after that are forgotten.
ScopeClosed ==
    /\ scope = "closed" =>
          \A k \in Keys : \A i \in scopeGot[k] : kind[i[1]] = "scoped" => i \in closed \cup late
    /\ \A i, j \in DOMAIN teardown :
          i < j /\ scope = "closing" /\ teardown[j] \notin late =>
              (teardown[i] \in closed => teardown[j] \in closed)

\* While overrides are nested, a key leads to its innermost override, and to
\* the provider it was registered with when there is none: nothing of a test
\* remains in the container.
OverridesNest ==
    \A k \in Keys :
        LET own == {i \in DOMAIN entered : OverrideKey[entered[i]] = k}
        IN  IF own = {} THEN providers[k] = IF Lifecycle[k] = None THEN None ELSE k
            ELSE \E i \in own : providers[k] = entered[i] /\ \A j \in own : j <= i

\* No resolution waits for ever, although factories wait for locks while they
\* hold others, fail and are cancelled.
ResolveEnds == \A t \in Tasks : stack[t] # <<>> ~> stack[t] = <<>>
=============================================================================
