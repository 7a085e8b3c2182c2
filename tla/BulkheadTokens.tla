--------------------------- MODULE BulkheadTokens ---------------------------
(***************************************************************************)
(* The _TOKEN_STACKS context variable of middleware/bulkhead.py, for one   *)
(* bulkhead name: which token __aexit__ hands to the backend when blocks   *)
(* are nested and tasks spawn tasks.                                       *)
(*                                                                         *)
(* A task created inside another one starts with a copy of its context,    *)
(* so with a reference to the same dict; the dict's list for the name is   *)
(* absent or empty alike.                                                  *)
(***************************************************************************)
EXTENDS Integers, Sequences, FiniteSets

CONSTANTS
    Tasks,      \* asyncio tasks, reusable slots
    Root,       \* the task that is there first
    NoTask,
    MaxDepth    \* bound on the nested blocks of one task

ASSUME TasksAssumption ==
    IsFiniteSet(Tasks) /\ Root \in Tasks /\ NoTask \notin Tasks
ASSUME DepthAssumption == MaxDepth \in Nat \ {0}

VARIABLES
    alive,      \* tasks that exist
    depth,      \* open blocks of each task
    ctx,        \* the dict _TOKEN_STACKS holds in each task's context
    stack,      \* the list of each dict for the name: a token is known by
                \* the task that acquired it
    released,   \* history: the last release, by which task (mixed?), of whose token
    mixed       \* history: tasks spawned inside a block, and those that did so

tokenVars == <<alive, depth, ctx, stack, released, mixed>>

\* A task refers to one dict at most, so as many names as tasks will do.
Dicts == 1..Cardinality(Tasks)
NoDict == 0

TokensInit ==
    /\ alive = {Root}
    /\ depth = [t \in Tasks |-> 0]
    /\ ctx = [t \in Tasks |-> NoDict]
    /\ stack = [d \in Dicts |-> <<>>]
    /\ released = [by |-> NoTask, of |-> NoTask, shared |-> FALSE]
    /\ mixed = {}

Stack(t) == IF ctx[t] = NoDict THEN <<>> ELSE stack[ctx[t]]

\* A dict no context refers to, the task's own aside, which it drops.
NewDict(t) == CHOOSE d \in Dicts : \A u \in Tasks \ {t} : ctx[u] # d

-----------------------------------------------------------------------------
\* Mutant of PushToken: an empty list that is there is used, whoever shares it.
PushUnforked(t) ==
    LET d == IF ctx[t] = NoDict THEN NewDict(t) ELSE ctx[t]
    IN  /\ ctx' = [ctx EXCEPT ![t] = d]
        /\ stack' = [stack EXCEPT ![d] = Append(@, t)]

\* _push_token: append to the list the context leads to, or to a new one in a
\* new dict if there is none or it is empty.
PushToken(t) ==
    \/ /\ Stack(t) # <<>>
       /\ stack' = [stack EXCEPT ![ctx[t]] = Append(@, t)]
       /\ UNCHANGED ctx
    \/ /\ Stack(t) = <<>>
       /\ ctx' = [ctx EXCEPT ![t] = NewDict(t)]
       /\ stack' = [stack EXCEPT ![NewDict(t)] = <<t>>]

\* __aenter__, after the backend's acquire.
EnterBlock(t) ==
    /\ t \in alive /\ depth[t] < MaxDepth
    /\ PushToken(t)
    /\ depth' = [depth EXCEPT ![t] = @ + 1]
    /\ UNCHANGED <<alive, released, mixed>>

Rest(s) == SubSeq(s, 1, Len(s) - 1)

\* __aexit__: _pop_token, whose token goes to the backend's release.
LeaveBlock(t) ==
    /\ t \in alive /\ depth[t] > 0
    /\ Stack(t) # <<>>
    /\ released' = [by |-> t, of |-> Stack(t)[Len(Stack(t))], shared |-> t \in mixed]
    /\ stack' = [stack EXCEPT ![ctx[t]] = Rest(@)]
    /\ depth' = [depth EXCEPT ![t] = @ - 1]
    /\ UNCHANGED <<alive, ctx, mixed>>

\* asyncio.create_task copies the context of the task that calls it.
Spawn(t, u) ==
    /\ t \in alive /\ u \notin alive
    /\ alive' = alive \cup {u}
    /\ ctx' = [ctx EXCEPT ![u] = ctx[t]]
    /\ mixed' = IF Stack(t) = <<>> THEN mixed ELSE mixed \cup {t, u}
    /\ UNCHANGED <<depth, stack, released>>

End(t) ==
    /\ t \in alive \ {Root} /\ depth[t] = 0
    /\ alive' = alive \ {t}
    /\ ctx' = [ctx EXCEPT ![t] = NoDict]
    /\ mixed' = mixed \ {t}
    /\ UNCHANGED <<depth, stack, released>>

TokensNext ==
    \/ \E t \in Tasks : EnterBlock(t) \/ LeaveBlock(t) \/ End(t)
    \/ \E t, u \in Tasks : Spawn(t, u)

TokensSpec == TokensInit /\ [][TokensNext]_tokenVars

-----------------------------------------------------------------------------
\* "Fork a per-task copy so our pushes don't clobber the parent's stacks": the
\* token a task releases is one it acquired, unless it was spawned inside a
\* block of the same bulkhead, or has spawned a task inside one, which the copy
\* does not separate.
OwnUnlessMixed == ~released.shared => released.of = released.by

\* The open blocks, innermost last, of the tasks whose context leads to d.
OpenBlocks(d) == {b \in Tasks \X (1..MaxDepth) : ctx[b[1]] = d /\ b[2] <= depth[b[1]]}

\* _pop_token never reports an unpaired release: the list a task would pop
\* from holds as many tokens as the tasks sharing it have open blocks, so it
\* is not empty while the task has one, however tasks spawn, nest and end.
StackPaired == \A d \in Dicts : Len(stack[d]) = Cardinality(OpenBlocks(d))

\* Every block that ends releases one token that was acquired by it or, where
\* tasks share a list, by another block of theirs.
TokensPaired == StackPaired /\ OwnUnlessMixed
=============================================================================
