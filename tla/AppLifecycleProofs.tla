------------------------- MODULE AppLifecycleProofs -------------------------
(***************************************************************************)
(* Theorems about AppLifecycle, for every set of plugins, mounts and hooks *)
(* and every finite set of requests.                                       *)
(*                                                                         *)
(* StopsClean speaks of the last state only.  IInv says why it comes true: *)
(* whatever startup opened belongs to a hook, and while shutdown runs a    *)
(* thing that is still open is excused already or is pending on the        *)
(* agenda, as the drain is while requests are in flight.  The agenda holds *)
(* the shutdown hooks from last to first, each with things of its own, and *)
(* no hook is registered twice: this is what ClosesInOrder needs between   *)
(* two hooks.  For the plugins and the mounts of one hook it needs         *)
(* OrderInv: they were opened, and are left on the agenda, in the order of *)
(* the list they are registered in, which holds nothing twice.             *)
(***************************************************************************)
EXTENDS AppLifecycle, SequenceTheorems, FiniteSetTheorems, TLAPS

Hooks == {"plugins", "grpc", "drain", "context"} \cup UserHooks
AllThings == Plugins \cup Mounts \cup UserHooks \cup {"drain", "context"}
Call == [hook : Hooks, left : Seq(AllThings)]

TypeOK ==
    /\ phase \in {"building", "starting", "failed", "serving", "stopping", "stopped"}
    /\ plugins \in Seq(Plugins) /\ mounts \in Seq(Mounts)
    /\ startup_hooks \in Seq({"plugins", "grpc"} \cup UserHooks)
    /\ shutdown_hooks \in Seq({"drain", "plugins", "grpc"} \cup UserHooks)
    /\ agenda \in Seq(Call)
    /\ opened \in Seq(AllThings) /\ closed \subseteq AllThings /\ broken \subseteq AllThings
    /\ timedOut \in BOOLEAN
    /\ active \subseteq Requests /\ inFlight = Cardinality(active)

\* No shutdown hook is registered twice, and nothing runs while they are.
Registered ==
    /\ \A i, j \in DOMAIN shutdown_hooks : shutdown_hooks[i] = shutdown_hooks[j] => i = j
    /\ shutdown_hooks # <<>> /\ shutdown_hooks[1] = "drain"
    /\ mounts = <<>> => "grpc" \notin Range(shutdown_hooks)
    /\ phase = "building" => agenda = <<>> /\ opened = <<>>

\* What there is to open or close is known to the hook that will.
Known(x) == x \in Range(Things(HookOf(x))) /\ (x = "context" => HasContext)

AgendaKnown ==
    \A k \in DOMAIN agenda : \A x \in Range(agenda[k].left) :
        HookOf(x) = agenda[k].hook /\ Known(x)

\* The context manager is entered and left once.
ContextOnce ==
    \A k \in DOMAIN agenda : agenda[k].hook = "context" => Len(agenda[k].left) <= 1

OpenedKnown == \A x \in Range(opened) : Known(x)

\* Startup does not drain.
NoDrainYet ==
    /\ "drain" \notin Range(opened)
    /\ phase = "starting" => \A k \in DOMAIN agenda : agenda[k].hook # "drain"

\* The hooks left to run are the first ones registered, in reverse.
InStopOrder ==
    phase = "stopping" =>
        /\ Len(agenda) <= Len(shutdown_hooks) + 1
        /\ \A k \in DOMAIN agenda :
              agenda[k].hook = IF Len(agenda) + 1 - k = Len(shutdown_hooks) + 1 THEN "context"
                               ELSE shutdown_hooks[Len(agenda) + 1 - k]

Excused(x) ==
    \/ x # "context" /\ HookOf(x) \notin Range(shutdown_hooks)
    \/ \E y \in broken : y = x \/ Precedes(y, x)

NothingForgotten ==
    phase \in {"stopping", "stopped"} =>
        /\ \A x \in Range(opened) \ closed : Excused(x) \/ Pending(x)
        /\ inFlight = 0 \/ timedOut \/ Pending("drain")

Ended == phase = "stopped" => agenda = <<>>

IInv ==
    /\ TypeOK /\ Registered /\ AgendaKnown /\ OpenedKnown
    /\ ContextOnce /\ NoDrainYet /\ InStopOrder /\ NothingForgotten /\ Ended

\* Nothing is registered twice with one hook, and no startup hook twice.
NoRepeats ==
    /\ \A h \in Hooks : \A i, j \in DOMAIN Things(h) : Things(h)[i] = Things(h)[j] => i = j
    /\ \A i, j \in DOMAIN startup_hooks : startup_hooks[i] = startup_hooks[j] => i = j
    /\ mounts = <<>> => "grpc" \notin Range(startup_hooks)

\* A hook goes through its things as they were registered.
LeftInOrder ==
    \A k \in DOMAIN agenda : \A a, b \in DOMAIN agenda[k].left :
        a < b => Precedes(agenda[k].left[a], agenda[k].left[b])

\* So they were opened, and so are those still to be opened.
OpenedInOrder ==
    \A i, j \in DOMAIN opened :
        i < j /\ OfOneHook(opened[i], opened[j]) => Precedes(opened[i], opened[j])

StartsInOrder ==
    phase = "starting" =>
        /\ \A k, m \in DOMAIN agenda : agenda[k].hook = agenda[m].hook => k = m
        /\ \A i \in DOMAIN opened : \A x :
              Pending(x) /\ OfOneHook(opened[i], x) => Precedes(opened[i], x)

OrderInv == NoRepeats /\ LeftInOrder /\ OpenedInOrder /\ StartsInOrder

-----------------------------------------------------------------------------
(* The helpers                                                             *)

\* What a hook goes through belongs to it and to no other.
LEMMA ThingsFacts ==
  ASSUME TypeOK, NEW h \in Hooks
  PROVE  /\ Things(h) \in Seq(AllThings)
         /\ \A x \in Range(Things(h)) : x \in AllThings /\ HookOf(x) = h
  <1>1. CASE h = "plugins"
    <2>1. Things(h) = plugins
      BY <1>1 DEF Things
    <2>2. plugins \in Seq(Plugins) /\ Plugins \subseteq AllThings
      BY DEF TypeOK, AllThings
    <2>3. \A x \in Range(plugins) : x \in Plugins
      BY <2>2 DEF Range
    <2>4. \A x \in Plugins : HookOf(x) = "plugins"
      BY NamesAssumption DEF HookOf
    <2>5. plugins \in Seq(AllThings)
      BY <2>2
    <2> QED
      BY <1>1, <2>1, <2>2, <2>3, <2>4, <2>5
  <1>2. CASE h = "grpc"
    <2>1. Things(h) = mounts
      BY <1>2 DEF Things
    <2> QED
      BY <1>2, <2>1, NamesAssumption DEF TypeOK, Range, AllThings, HookOf
  <1>3. CASE h \notin {"plugins", "grpc"}
    <2>1. Things(h) = <<h>>
      BY <1>3 DEF Things
    <2>2. h \in UserHooks \cup {"drain", "context"}
      BY <1>3 DEF Hooks
    <2>3. h \notin Plugins /\ h \notin Mounts /\ h \in AllThings
      BY <2>2, NamesAssumption DEF AllThings
    <2> QED
      BY <2>1, <2>3 DEF Range, HookOf
  <1> QED
    BY <1>1, <1>2, <1>3

\* The calls of a list of hooks.
LEMMA CallsFacts ==
  ASSUME TypeOK, NEW s \in Seq(Hooks)
  PROVE  /\ Calls(s) \in Seq(Call) /\ Len(Calls(s)) = Len(s)
         /\ \A i \in 1..Len(s) : Calls(s)[i].hook = s[i] /\ Calls(s)[i].left = Things(s[i])
  <1>1. \A i \in 1..Len(s) : s[i] \in Hooks /\ Things(s[i]) \in Seq(AllThings)
    BY ThingsFacts
  <1>2. \A i \in 1..Len(s) : [hook |-> s[i], left |-> Things(s[i])] \in Call
    BY <1>1 DEF Call
  <1> QED
    BY <1>2 DEF Calls

\* The call of the context manager, if there is one.
LEMMA ContextCallFacts ==
  /\ ContextCall \in Seq(Call) /\ Len(ContextCall) = IF HasContext THEN 1 ELSE 0
  /\ HasContext => ContextCall[1].hook = "context" /\ ContextCall[1].left = <<"context">>
  <1>1. [hook |-> "context", left |-> <<"context">>] \in Call
    <2>1. <<"context">> \in Seq(AllThings)
      BY DEF AllThings
    <2> QED
      BY <2>1 DEF Call, Hooks
  <1>2. CASE HasContext
    <2>1. ContextCall = <<[hook |-> "context", left |-> <<"context">>]>>
      BY <1>2 DEF ContextCall
    <2> QED
      BY <1>1, <1>2, <2>1
  <1>3. CASE ~HasContext
    <2>1. ContextCall = <<>>
      BY <1>3 DEF ContextCall
    <2> QED
      BY <1>3, <2>1
  <1> QED
    BY <1>2, <1>3

\* The context manager belongs to itself.
LEMMA ContextFacts == HookOf("context") = "context" /\ Things("context") = <<"context">>
  BY NamesAssumption DEF HookOf, Things

\* The drain is the hook of that name.
LEMMA DrainFacts == HookOf("drain") = "drain" /\ Things("drain") = <<"drain">>
  BY NamesAssumption DEF HookOf, Things

-----------------------------------------------------------------------------
(* Registration                                                            *)

\* While the application is being built nothing is open and nothing runs.
LEMMA BuildingSuffices ==
  ASSUME TypeOK', Registered', phase' = "building"
  PROVE  IInv'
  <1>1. agenda' = <<>> /\ opened' = <<>>
    BY DEF Registered
  <1>2. DOMAIN agenda' = {} /\ Range(opened') = {}
    BY <1>1 DEF Range
  <1>3. AgendaKnown' /\ OpenedKnown'
    BY <1>2 DEF AgendaKnown, OpenedKnown
  <1> QED
    BY <1>2, <1>3 DEF IInv, ContextOnce, NoDrainYet, InStopOrder, NothingForgotten, Ended

\* An application starts with the drain and the plugins' hooks.
LEMMA InitIInv == Init => IInv
  <1> SUFFICES ASSUME Init PROVE IInv
    OBVIOUS
  <1> USE DEF Init
  <1>1. TypeOK
    <2>1. inFlight = Cardinality(active) /\ active = {}
      BY FS_EmptySet DEF Counter!Init
    <2>2. <<"plugins">> \in Seq({"plugins", "grpc"} \cup UserHooks)
      OBVIOUS
    <2>3. <<"drain", "plugins">> \in Seq({"drain", "plugins", "grpc"} \cup UserHooks)
      OBVIOUS
    <2>4. /\ <<>> \in Seq(Plugins) /\ <<>> \in Seq(Mounts)
          /\ <<>> \in Seq(Call) /\ <<>> \in Seq(AllThings)
      OBVIOUS
    <2> QED
      BY <2>1, <2>2, <2>3, <2>4 DEF TypeOK
  <1>2. Registered
    BY DEF Registered, Range
  <1>3. DOMAIN agenda = {} /\ Range(opened) = {}
    BY DEF Range
  <1>4. AgendaKnown /\ OpenedKnown
    BY <1>3 DEF AgendaKnown, OpenedKnown
  <1> QED
    BY <1>1, <1>2, <1>3, <1>4 DEF IInv, ContextOnce, NoDrainYet, InStopOrder, NothingForgotten, Ended

\* Registering at most one more hook on each side keeps the hooks distinct.
LEMMA RegisterStep ==
  ASSUME IInv, NEW startup, NEW shutdown, Register(startup, shutdown),
         plugins' \in Seq(Plugins), mounts' \in Seq(Mounts),
         startup = <<>> \/ \E h \in {"grpc"} \cup UserHooks : startup = <<h>>,
         \/ shutdown = <<>>
         \/ \E h \in {"grpc"} \cup UserHooks : shutdown = <<h>> /\ h \notin Range(shutdown_hooks),
         mounts' = <<>> => mounts = <<>> /\ shutdown # <<"grpc">>
  PROVE  IInv'
  <1> DEFINE StartHooks == {"plugins", "grpc"} \cup UserHooks
             StopHooks == {"drain", "plugins", "grpc"} \cup UserHooks
  <1>1. /\ phase = "building" /\ phase' = "building"
        /\ startup_hooks' = startup_hooks \o startup
        /\ shutdown_hooks' = shutdown_hooks \o shutdown
        /\ UNCHANGED <<agenda, opened, closed, broken, timedOut, active, inFlight>>
    BY DEF Register, counter
  <1>2. startup_hooks \in Seq(StartHooks) /\ shutdown_hooks \in Seq(StopHooks)
    BY DEF IInv, TypeOK
  <1>3. startup \in Seq(StartHooks) /\ shutdown \in Seq(StopHooks)
    <2>1. \A h \in {"grpc"} \cup UserHooks : <<h>> \in Seq(StartHooks) /\ <<h>> \in Seq(StopHooks)
      OBVIOUS
    <2>2. <<>> \in Seq(StartHooks) /\ <<>> \in Seq(StopHooks)
      OBVIOUS
    <2> HIDE DEF StartHooks, StopHooks
    <2> QED
      BY <2>1, <2>2
  <1>4. startup_hooks' \in Seq(StartHooks) /\ shutdown_hooks' \in Seq(StopHooks)
    BY <1>1, <1>2, <1>3, ConcatProperties
  <1>5. TypeOK'
    BY <1>1, <1>4 DEF IInv, TypeOK
  <1>6. Registered'
    <2>1. CASE shutdown = <<>>
      <3>1. shutdown_hooks' = shutdown_hooks
        BY <1>1, <1>2, <2>1, ConcatEmptySeq
      <3> QED
        BY <1>1, <3>1 DEF IInv, Registered
    <2>2. ASSUME NEW h \in {"grpc"} \cup UserHooks, shutdown = <<h>>, h \notin Range(shutdown_hooks)
          PROVE  Registered'
      <3>1. shutdown_hooks' = Append(shutdown_hooks, h)
        BY <1>1, <1>2, <2>2, AppendIsConcat
      <3>2. /\ Len(shutdown_hooks') = Len(shutdown_hooks) + 1
            /\ \A i \in 1..Len(shutdown_hooks) : shutdown_hooks'[i] = shutdown_hooks[i]
            /\ shutdown_hooks'[Len(shutdown_hooks) + 1] = h
        BY <1>2, <3>1
      <3>3. \A i \in 1..Len(shutdown_hooks) : shutdown_hooks[i] # h
        BY <1>2, <2>2 DEF Range
      <3>4. \A i \in DOMAIN shutdown_hooks' :
               i \in 1..Len(shutdown_hooks) \/ i = Len(shutdown_hooks) + 1
        BY <1>2, <1>4, <3>2
      <3>5. ASSUME NEW i \in DOMAIN shutdown_hooks', NEW j \in DOMAIN shutdown_hooks',
                   shutdown_hooks'[i] = shutdown_hooks'[j]
            PROVE  i = j
        BY <1>2, <3>2, <3>3, <3>4, <3>5 DEF IInv, Registered
      <3>6. shutdown_hooks' # <<>> /\ shutdown_hooks'[1] = "drain"
        <4>1. Len(shutdown_hooks) >= 1 /\ shutdown_hooks[1] = "drain"
          BY <1>2 DEF IInv, Registered
        <4> QED
          BY <1>2, <1>4, <3>2, <4>1
      <3>7. mounts' = <<>> => "grpc" \notin Range(shutdown_hooks')
        <4>1. SUFFICES ASSUME mounts' = <<>>, NEW i \in DOMAIN shutdown_hooks'
                       PROVE  shutdown_hooks'[i] # "grpc"
          BY DEF Range
        <4>2. h # "grpc" /\ "grpc" \notin Range(shutdown_hooks)
          BY <2>2, <4>1 DEF IInv, Registered
        <4> QED
          BY <1>2, <3>2, <3>4, <4>2 DEF Range
      <3> QED
        BY <1>1, <3>5, <3>6, <3>7 DEF IInv, Registered
    <2> QED
      BY <2>1, <2>2
  <1> QED
    BY <1>1, <1>5, <1>6, BuildingSuffices

\* Every step of the registration preserves the invariant.
LEMMA BuildStep ==
  ASSUME IInv,
         \/ \E p \in Plugins : AddPlugin(p)
         \/ \E m \in Mounts : MountGrpc(m)
         \/ \E h \in UserHooks : OnStartup(h) \/ OnShutdown(h)
  PROVE  IInv' /\ phase = "building"
  <1>1. plugins \in Seq(Plugins) /\ mounts \in Seq(Mounts)
    BY DEF IInv, TypeOK
  <1>2. ASSUME NEW p \in Plugins, AddPlugin(p) PROVE IInv' /\ phase = "building"
    <2>1. /\ plugins' = Append(plugins, p) /\ mounts' = mounts /\ Register(<<>>, <<>>)
          /\ phase = "building"
      BY <1>2 DEF AddPlugin, Register
    <2>2. plugins' \in Seq(Plugins)
      BY <1>1, <2>1
    <2>3. mounts' = mounts /\ <<>> # <<"grpc">>
      BY <2>1
    <2> QED
      BY <1>1, <2>1, <2>2, <2>3, RegisterStep
  <1>3. ASSUME NEW m \in Mounts, MountGrpc(m) PROVE IInv' /\ phase = "building"
    <2> DEFINE hook == IF mounts = <<>> THEN <<"grpc">> ELSE <<>>
    <2>1. /\ plugins' = plugins /\ mounts' = Append(mounts, m) /\ Register(hook, hook)
          /\ phase = "building"
      BY <1>3 DEF MountGrpc, Register
    <2>2. mounts' \in Seq(Mounts) /\ mounts' # <<>>
      BY <1>1, <2>1
    <2>3. hook = <<>> \/ (hook = <<"grpc">> /\ "grpc" \notin Range(shutdown_hooks))
      BY DEF IInv, Registered
    <2> HIDE DEF hook
    <2> QED
      BY <1>1, <2>1, <2>2, <2>3, RegisterStep
  <1>4. ASSUME NEW h \in UserHooks, OnStartup(h) PROVE IInv' /\ phase = "building"
    <2>1. plugins' = plugins /\ mounts' = mounts /\ Register(<<h>>, <<>>) /\ phase = "building"
      BY <1>4 DEF OnStartup, Register
    <2> QED
      BY <1>1, <2>1, RegisterStep
  <1>5. ASSUME NEW h \in UserHooks, OnShutdown(h) PROVE IInv' /\ phase = "building"
    <2>1. /\ plugins' = plugins /\ mounts' = mounts /\ Register(<<>>, <<h>>)
          /\ h \notin Range(shutdown_hooks) /\ phase = "building"
      BY <1>5 DEF OnShutdown, Register
    <2>2. <<h>> # <<"grpc">>
      BY NamesAssumption
    <2> QED
      BY <1>1, <2>1, <2>2, RegisterStep
  <1> QED
    BY <1>2, <1>3, <1>4, <1>5

-----------------------------------------------------------------------------
(* The agenda                                                              *)

\* While the registry stays, so does what each hook knows.
LEMMA SameKnown ==
  ASSUME plugins' = plugins, mounts' = mounts
  PROVE  /\ \A h : Things(h)' = Things(h)
         /\ \A x : Known(x)' <=> Known(x)
         /\ \A x, y : Precedes(x, y)' <=> Precedes(x, y)
  BY DEF Things, Known, Precedes, Before

\* A running hook that goes on takes the first thing off its call.
LEMMA GoOnFacts ==
  ASSUME TypeOK, agenda # <<>>, agenda[1].left # <<>>, GoOn
  PROVE  /\ agenda' \in Seq(Call) /\ Len(agenda') = Len(agenda)
         /\ Head(agenda[1].left) \in Range(agenda[1].left)
         /\ \A k \in DOMAIN agenda :
               /\ agenda'[k].hook = agenda[k].hook
               /\ Range(agenda'[k].left) \subseteq Range(agenda[k].left)
               /\ Len(agenda'[k].left) <= Len(agenda[k].left)
         /\ Len(agenda'[1].left) = Len(agenda[1].left) - 1
         /\ \A x : Pending(x) => Pending(x)' \/ x = Head(agenda[1].left)
  <1>1. agenda \in Seq(Call) /\ agenda[1] \in Call /\ 1 \in DOMAIN agenda
    BY DEF TypeOK
  <1> DEFINE left == agenda[1].left
  <1>2. left \in Seq(AllThings) /\ left # <<>> /\ agenda[1].hook \in Hooks
    BY <1>1 DEF Call
  <1>3. /\ Head(left) = left[1] /\ 1 \in DOMAIN left
        /\ Tail(left) \in Seq(AllThings) /\ Len(Tail(left)) = Len(left) - 1
        /\ \A i \in 1..(Len(left) - 1) : Tail(left)[i] = left[i + 1]
    BY <1>2
  <1>4. Range(Tail(left)) \subseteq Range(left)
    BY <1>2, <1>3 DEF Range
  <1>5. \A x \in Range(left) : x = Head(left) \/ x \in Range(Tail(left))
    <2> SUFFICES ASSUME NEW i \in DOMAIN left, i # 1 PROVE left[i] \in Range(Tail(left))
      BY <1>3 DEF Range
    <2>1. i - 1 \in DOMAIN Tail(left) /\ Tail(left)[i - 1] = left[i]
      BY <1>2, <1>3
    <2> QED
      BY <2>1 DEF Range
  <1>6. [agenda[1] EXCEPT !.left = Tail(left)] \in Call
    BY <1>1, <1>3 DEF Call
  <1>7. agenda' = [agenda EXCEPT ![1] = [agenda[1] EXCEPT !.left = Tail(left)]]
    BY DEF GoOn
  <1> HIDE DEF left
  <1>8. agenda' \in Seq(Call) /\ Len(agenda') = Len(agenda) /\ DOMAIN agenda' = DOMAIN agenda
    BY <1>1, <1>6, <1>7
  <1>9. /\ agenda'[1].hook = agenda[1].hook /\ agenda'[1].left = Tail(left)
        /\ \A k \in DOMAIN agenda : k # 1 => agenda'[k] = agenda[k]
    BY <1>1, <1>7 DEF Call
  <1>10. ASSUME NEW x, Pending(x), x # Head(left) PROVE Pending(x)'
    <2>1. PICK k \in DOMAIN agenda : x \in Range(agenda[k].left)
      BY <1>10 DEF Pending
    <2>2. CASE k = 1
      BY <1>1, <1>5, <1>8, <1>9, <1>10, <2>1, <2>2 DEF Pending, left
    <2>3. CASE k # 1
      BY <1>8, <1>9, <2>1, <2>3 DEF Pending
    <2> QED
      BY <2>2, <2>3
  <1>11. ASSUME NEW k \in DOMAIN agenda
         PROVE  /\ agenda'[k].hook = agenda[k].hook
                /\ Range(agenda'[k].left) \subseteq Range(agenda[k].left)
                /\ Len(agenda'[k].left) <= Len(agenda[k].left)
    <2>1. Len(agenda[k].left) \in Nat
      <3>1. agenda[k] \in Call
        BY <1>1
      <3>2. agenda[k].left \in Seq(AllThings)
        BY <3>1 DEF Call
      <3> QED
        BY <3>2
    <2>2. CASE k = 1
      <3>1. agenda'[k].left = Tail(left) /\ agenda[k].left = left /\ agenda'[k].hook = agenda[k].hook
        BY <1>9, <2>2 DEF left
      <3>2. Len(Tail(left)) <= Len(left)
        BY <1>3, <2>1, <3>1
      <3> QED
        BY <1>4, <3>1, <3>2
    <2>3. CASE k # 1
      BY <1>9, <2>1, <2>3
    <2> QED
      BY <2>2, <2>3
  <1> QED
    BY <1>2, <1>3, <1>8, <1>9, <1>10, <1>11 DEF left, Range

\* A hook that is over leaves the calls after it.
LEMMA TailFacts ==
  ASSUME TypeOK, agenda # <<>>, agenda' = Tail(agenda)
  PROVE  /\ agenda' \in Seq(Call) /\ Len(agenda') = Len(agenda) - 1
         /\ \A k \in DOMAIN agenda' : k + 1 \in DOMAIN agenda /\ agenda'[k] = agenda[k + 1]
         /\ \A x : Pending(x) => Pending(x)' \/ x \in Range(agenda[1].left)
  <1>1. agenda \in Seq(Call)
    BY DEF TypeOK
  <1>2. /\ agenda' \in Seq(Call) /\ Len(agenda') = Len(agenda) - 1
        /\ \A k \in DOMAIN agenda' : k + 1 \in DOMAIN agenda /\ agenda'[k] = agenda[k + 1]
    BY <1>1
  <1>3. ASSUME NEW x, Pending(x), x \notin Range(agenda[1].left) PROVE Pending(x)'
    <2>1. PICK k \in DOMAIN agenda : x \in Range(agenda[k].left)
      BY <1>3 DEF Pending
    <2>2. k - 1 \in DOMAIN agenda' /\ agenda'[k - 1] = agenda[k]
      BY <1>1, <1>2, <1>3, <2>1
    <2> QED
      BY <2>1, <2>2 DEF Pending
  <1> QED
    BY <1>2, <1>3

\* Either way the calls that stay are in order and know their things.
LEMMA AgendaKept ==
  ASSUME TypeOK, AgendaKnown, ContextOnce, InStopOrder, agenda # <<>>,
         plugins' = plugins, mounts' = mounts, shutdown_hooks' = shutdown_hooks, phase' = phase,
         \/ GoOn /\ agenda[1].left # <<>>
         \/ agenda' = Tail(agenda)
  PROVE  AgendaKnown' /\ ContextOnce' /\ InStopOrder'
  <1>1. \A x : Known(x)' <=> Known(x)
    BY SameKnown
  <1>2. CASE GoOn /\ agenda[1].left # <<>>
    <2>1. /\ agenda' \in Seq(Call) /\ Len(agenda') = Len(agenda)
          /\ \A k \in DOMAIN agenda :
               /\ agenda'[k].hook = agenda[k].hook
               /\ Range(agenda'[k].left) \subseteq Range(agenda[k].left)
               /\ Len(agenda'[k].left) <= Len(agenda[k].left)
      BY <1>2, GoOnFacts
    <2>2. DOMAIN agenda' = DOMAIN agenda
      BY <2>1 DEF TypeOK
    <2>5. ASSUME NEW k \in DOMAIN agenda', agenda'[k].hook = "context" PROVE Len(agenda'[k].left) <= 1
      <3>1. Len(agenda[k].left) <= 1 /\ Len(agenda'[k].left) <= Len(agenda[k].left)
        BY <2>1, <2>2, <2>5 DEF ContextOnce
      <3>2. agenda[k] \in Call /\ agenda'[k] \in Call
        <4>1. agenda \in Seq(Call) /\ agenda' \in Seq(Call) /\ k \in DOMAIN agenda
          BY <2>1, <2>2 DEF TypeOK
        <4> QED
          BY <4>1
      <3>3. Len(agenda[k].left) \in Nat /\ Len(agenda'[k].left) \in Nat
        BY <3>2 DEF Call
      <3> QED
        BY <3>1, <3>3
    <2>3. AgendaKnown'
      BY <1>1, <2>1, <2>2 DEF AgendaKnown
    <2>4. InStopOrder'
      BY <2>1, <2>2 DEF InStopOrder
    <2> QED
      BY <2>3, <2>4, <2>5 DEF ContextOnce
  <1>3. CASE agenda' = Tail(agenda)
    <2>1. /\ agenda' \in Seq(Call) /\ Len(agenda') = Len(agenda) - 1
          /\ \A k \in DOMAIN agenda' : k + 1 \in DOMAIN agenda /\ agenda'[k] = agenda[k + 1]
      BY <1>3, TailFacts
    <2>2. AgendaKnown'
      BY <1>1, <2>1 DEF AgendaKnown
    <2>3. InStopOrder'
      <3> SUFFICES ASSUME phase = "stopping"
                   PROVE  /\ Len(agenda') <= Len(shutdown_hooks) + 1
                          /\ \A k \in DOMAIN agenda' :
                                agenda'[k].hook = IF Len(agenda') + 1 - k = Len(shutdown_hooks) + 1 THEN "context"
                                                  ELSE shutdown_hooks[Len(agenda') + 1 - k]
        BY DEF InStopOrder
      <3>1. Len(agenda) <= Len(shutdown_hooks) + 1 /\ Len(agenda) \in Nat /\ Len(shutdown_hooks) \in Nat
        BY DEF InStopOrder, TypeOK
      <3>2. ASSUME NEW k \in DOMAIN agenda'
            PROVE  agenda'[k].hook = IF Len(agenda') + 1 - k = Len(shutdown_hooks) + 1 THEN "context"
                                     ELSE shutdown_hooks[Len(agenda') + 1 - k]
        <4>1. k \in Nat /\ Len(agenda') + 1 - k = Len(agenda) + 1 - (k + 1)
          BY <2>1, <3>1
        <4> QED
          BY <2>1, <4>1 DEF InStopOrder
      <3> QED
        BY <2>1, <3>1, <3>2
    <2>4. ContextOnce'
      BY <2>1 DEF ContextOnce
    <2> QED
      BY <2>2, <2>3, <2>4
  <1> QED
    BY <1>2, <1>3

\* No hook comes back.
LEMMA HooksKept ==
  ASSUME TypeOK, agenda # <<>>,
         \/ GoOn /\ agenda[1].left # <<>>
         \/ agenda' = Tail(agenda)
  PROVE  \A k \in DOMAIN agenda' : \E m \in DOMAIN agenda : agenda'[k].hook = agenda[m].hook
  <1>1. CASE GoOn /\ agenda[1].left # <<>>
    <2>1. /\ agenda' \in Seq(Call) /\ Len(agenda') = Len(agenda)
          /\ \A k \in DOMAIN agenda : agenda'[k].hook = agenda[k].hook
      BY <1>1, GoOnFacts
    <2>2. DOMAIN agenda' = DOMAIN agenda
      BY <2>1 DEF TypeOK
    <2> QED
      BY <2>1, <2>2
  <1>2. CASE agenda' = Tail(agenda)
    BY <1>2, TailFacts
  <1> QED
    BY <1>1, <1>2

-----------------------------------------------------------------------------
(* lifespan.startup                                                        *)

\* What the registry's invariant says once building is over.
LEMMA RegisteredKept ==
  ASSUME Registered, UNCHANGED registry, phase' # "building"
  PROVE  Registered'
  BY DEF Registered, registry

\* An agenda made of two.
LEMMA Joined ==
  ASSUME NEW s \in Seq(Call), NEW t \in Seq(Call), agenda' = s \o t
  PROVE  /\ agenda' \in Seq(Call)
         /\ Len(agenda') = Len(s) + Len(t)
         /\ \A k \in 1..(Len(s) + Len(t)) :
               agenda'[k] = IF k <= Len(s) THEN s[k] ELSE t[k - Len(s)]
  <1>1. /\ s \o t \in Seq(Call) /\ Len(s \o t) = Len(s) + Len(t)
        /\ \A k \in 1..(Len(s) + Len(t)) : (s \o t)[k] = IF k <= Len(s) THEN s[k] ELSE t[k - Len(s)]
    BY ConcatProperties
  <1> QED
    BY <1>1

\* run_startup starts with every startup hook, and the context manager last.
LEMMA StartupStep == IInv /\ Startup => IInv'
  <1> SUFFICES ASSUME IInv, Startup PROVE IInv'
    OBVIOUS
  <1>1. /\ phase = "building" /\ phase' = "starting"
        /\ agenda' = Calls(startup_hooks) \o ContextCall
        /\ UNCHANGED <<opened, closed, broken, timedOut>>
        /\ UNCHANGED <<plugins, mounts, startup_hooks, shutdown_hooks, active, inFlight>>
    BY DEF Startup, Unchanged, registry, counter
  <1>2. /\ startup_hooks \in Seq(Hooks) /\ TypeOK
    BY DEF IInv, TypeOK, Hooks
  <1>3. /\ Calls(startup_hooks) \in Seq(Call) /\ Len(Calls(startup_hooks)) = Len(startup_hooks)
        /\ \A i \in 1..Len(startup_hooks) :
              /\ Calls(startup_hooks)[i].hook = startup_hooks[i]
              /\ Calls(startup_hooks)[i].left = Things(startup_hooks[i])
    BY <1>2, CallsFacts
  <1>4. /\ agenda' \in Seq(Call)
        /\ Len(agenda') = Len(startup_hooks) + Len(ContextCall)
        /\ \A k \in 1..Len(agenda') : agenda'[k] = IF k <= Len(startup_hooks) THEN Calls(startup_hooks)[k]
                                                  ELSE ContextCall[k - Len(startup_hooks)]
    <2>1. Calls(startup_hooks) \in Seq(Call) /\ ContextCall \in Seq(Call)
      BY <1>3, ContextCallFacts
    <2>2. /\ agenda' \in Seq(Call)
          /\ Len(agenda') = Len(Calls(startup_hooks)) + Len(ContextCall)
          /\ \A k \in 1..(Len(Calls(startup_hooks)) + Len(ContextCall)) :
                agenda'[k] = IF k <= Len(Calls(startup_hooks)) THEN Calls(startup_hooks)[k]
                             ELSE ContextCall[k - Len(Calls(startup_hooks))]
      BY <1>1, <2>1, Joined
    <2>3. Len(Calls(startup_hooks)) = Len(startup_hooks)
      BY <1>3
    <2> QED
      BY <2>2, <2>3
  <1>5. TypeOK'
    BY <1>1, <1>2, <1>4 DEF TypeOK
  <1>6. \A x : Known(x)' <=> Known(x)
    BY <1>1, SameKnown
  <1>7. ASSUME NEW k \in DOMAIN agenda', NEW x \in Range(agenda'[k].left)
        PROVE  HookOf(x) = agenda'[k].hook /\ Known(x)
    <2>1. CASE k <= Len(startup_hooks)
      <3>1. /\ k \in 1..Len(startup_hooks) /\ startup_hooks[k] \in Hooks
            /\ startup_hooks[k] # "context"
        <4>1. k \in 1..Len(startup_hooks)
          BY <1>2, <1>4, <2>1
        <4>2. startup_hooks[k] \in {"plugins", "grpc"} \cup UserHooks
          BY <1>2, <4>1 DEF TypeOK
        <4> QED
          BY <4>1, <4>2, NamesAssumption DEF Hooks
      <3>2. x \in Range(Things(startup_hooks[k])) /\ agenda'[k].hook = startup_hooks[k]
        BY <1>3, <1>4, <1>7, <3>1
      <3>3. HookOf(x) = startup_hooks[k]
        BY <1>2, <3>1, <3>2, ThingsFacts
      <3>4. x # "context"
        BY <3>1, <3>3, ContextFacts
      <3> QED
        BY <3>2, <3>3, <3>4 DEF Known
    <2>2. CASE ~(k <= Len(startup_hooks))
      <3>1. HasContext /\ agenda'[k] = ContextCall[1]
        BY <1>2, <1>4, <2>2, ContextCallFacts
      <3>2. x = "context" /\ agenda'[k].hook = "context"
        BY <1>7, <3>1, ContextCallFacts DEF Range
      <3> QED
        BY <3>1, <3>2, ContextFacts DEF Known, Range
    <2> QED
      BY <2>1, <2>2
  <1>8. AgendaKnown' /\ OpenedKnown'
    BY <1>1, <1>6, <1>7 DEF IInv, AgendaKnown, OpenedKnown
  <1>9. Registered'
    BY <1>1 DEF IInv, Registered
  <1>10. ASSUME NEW k \in DOMAIN agenda' PROVE agenda'[k].hook # "drain"
    <2>1. CASE k <= Len(startup_hooks)
      <3>1. k \in 1..Len(startup_hooks)
        BY <1>2, <1>4, <2>1
      <3>2. startup_hooks[k] \in {"plugins", "grpc"} \cup UserHooks
        BY <1>2, <3>1 DEF TypeOK
      <3>3. agenda'[k].hook = startup_hooks[k]
        BY <1>3, <1>4, <3>1
      <3> QED
        BY <3>2, <3>3, NamesAssumption
    <2>2. CASE ~(k <= Len(startup_hooks))
      BY <1>2, <1>4, <2>2, ContextCallFacts
    <2> QED
      BY <2>1, <2>2
  <1>11. NoDrainYet'
    BY <1>1, <1>10 DEF IInv, NoDrainYet
  <1>12. ASSUME NEW k \in DOMAIN agenda', agenda'[k].hook = "context" PROVE Len(agenda'[k].left) <= 1
    <2>1. CASE k <= Len(startup_hooks)
      <3>1. k \in 1..Len(startup_hooks)
        BY <1>2, <1>4, <2>1
      <3>2. startup_hooks[k] \in {"plugins", "grpc"} \cup UserHooks
        BY <1>2, <3>1 DEF TypeOK
      <3>3. agenda'[k].hook = startup_hooks[k]
        BY <1>3, <1>4, <3>1
      <3> QED
        BY <1>12, <3>2, <3>3, NamesAssumption
    <2>2. CASE ~(k <= Len(startup_hooks))
      <3>1. HasContext /\ agenda'[k] = ContextCall[1]
        BY <1>2, <1>4, <2>2, ContextCallFacts
      <3>2. agenda'[k].left = <<"context">>
        BY <3>1, ContextCallFacts
      <3> QED
        BY <3>2
    <2> QED
      BY <2>1, <2>2
  <1> QED
    BY <1>1, <1>5, <1>8, <1>9, <1>11, <1>12 DEF ContextOnce, IInv, InStopOrder, NothingForgotten, Ended

\* What a hook starts is known to it; a failure ends the startup.
LEMMA StartNextStep == IInv /\ StartNext => IInv'
  <1> SUFFICES ASSUME IInv, StartNext PROVE IInv'
    OBVIOUS
  <1>1. /\ phase = "starting" /\ agenda # <<>> /\ agenda[1].left # <<>>
        /\ UNCHANGED <<plugins, mounts, startup_hooks, shutdown_hooks, active, inFlight>>
        /\ UNCHANGED <<closed, broken, timedOut>>
    BY DEF StartNext, Unchanged, registry, counter
  <1>2. /\ TypeOK /\ Registered /\ AgendaKnown /\ OpenedKnown /\ ContextOnce /\ NoDrainYet
        /\ InStopOrder
    BY DEF IInv
  <1>3. \A x : Known(x)' <=> Known(x)
    BY <1>1, SameKnown
  <1>4. CASE opened' = Append(opened, Head(agenda[1].left)) /\ GoOn /\ phase' = phase
    <2> DEFINE h == Head(agenda[1].left)
    <2>1. agenda' \in Seq(Call) /\ h \in Range(agenda[1].left)
      BY <1>1, <1>2, <1>4, GoOnFacts
    <2>2. h \in AllThings /\ Known(h) /\ h # "drain"
      <3>1. agenda[1] \in Call /\ 1 \in DOMAIN agenda
        BY <1>1, <1>2 DEF TypeOK
      <3>2. h \in AllThings /\ Known(h) /\ HookOf(h) = agenda[1].hook
        BY <1>2, <2>1, <3>1 DEF Call, AgendaKnown, Range
      <3> QED
        BY <1>1, <1>2, <3>1, <3>2, DrainFacts DEF NoDrainYet
    <2> HIDE DEF h
    <2>3. opened \in Seq(AllThings)
      BY <1>2 DEF TypeOK
    <2>4. opened' \in Seq(AllThings) /\ \A x \in Range(opened') : x \in Range(opened) \/ x = h
      BY <1>4, <2>2, <2>3 DEF Range, h
    <2>5. TypeOK'
      BY <1>1, <1>2, <1>4, <2>1, <2>4 DEF TypeOK
    <2>6. OpenedKnown'
      BY <1>2, <1>3, <2>2, <2>4 DEF OpenedKnown
    <2>7. AgendaKnown' /\ ContextOnce' /\ InStopOrder'
      BY <1>1, <1>2, <1>4, AgendaKept
    <2>8. Registered'
      BY <1>1, <1>2, <1>4 DEF Registered
    <2>9. "drain" \notin Range(opened')
      BY <1>2, <2>2, <2>4 DEF NoDrainYet
    <2>10. NoDrainYet'
      BY <1>1, <1>2, <1>4, <2>9, HooksKept DEF NoDrainYet
    <2> QED
      BY <1>1, <1>4, <2>5, <2>6, <2>7, <2>8, <2>10 DEF IInv, NothingForgotten, Ended
  <1>5. CASE phase' = "failed" /\ agenda' = <<>> /\ opened' = opened
    <2>1. TypeOK'
      BY <1>1, <1>2, <1>5 DEF TypeOK
    <2>2. OpenedKnown'
      BY <1>2, <1>3, <1>5 DEF OpenedKnown
    <2>3. AgendaKnown' /\ ContextOnce'
      BY <1>5 DEF AgendaKnown, ContextOnce
    <2>4. Registered'
      BY <1>1, <1>2, <1>5 DEF Registered
    <2>5. NoDrainYet'
      BY <1>2, <1>5 DEF NoDrainYet
    <2> QED
      BY <1>5, <2>1, <2>2, <2>3, <2>4, <2>5 DEF IInv, InStopOrder, NothingForgotten, Ended
  <1> QED
    BY <1>4, <1>5 DEF StartNext

-----------------------------------------------------------------------------
(* Requests                                                                *)

\* Requests come and go while nothing is started or stopped but the drain,
\* and what is left of them is counted.
LEMMA RequestStep ==
  ASSUME IInv, NEW r \in Requests, EnterRequest(r) \/ LeaveRequest(r)
  PROVE  IInv'
  <1>1. UNCHANGED <<phase, plugins, mounts, startup_hooks, shutdown_hooks, agenda,
                    opened, closed, broken, timedOut>>
    BY DEF EnterRequest, LeaveRequest, registry
  <1>2. IsFiniteSet(active) /\ Cardinality(active) \in Nat
    BY RequestsAssumption, FS_Subset, FS_CardinalityType DEF IInv, TypeOK
  <1>3. CASE EnterRequest(r)
    <2>1. /\ phase = "serving" /\ r \notin active
          /\ active' = active \cup {r} /\ inFlight' = inFlight + 1
      BY <1>3 DEF EnterRequest, Counter!Enter
    <2>2. inFlight' = Cardinality(active')
      BY <1>2, <2>1, FS_AddElement DEF IInv, TypeOK
    <2>3. TypeOK'
      BY <1>1, <2>1, <2>2 DEF IInv, TypeOK
    <2>4. NothingForgotten'
      BY <1>1, <2>1 DEF NothingForgotten
    <2> QED
      BY <1>1, <2>3, <2>4, SameKnown DEF IInv, Registered, AgendaKnown, OpenedKnown,
                                           ContextOnce, NoDrainYet, InStopOrder, Ended
  <1>4. CASE LeaveRequest(r)
    <2>1. /\ r \in active
          /\ active' = active \ {r} /\ inFlight' = inFlight - 1
      BY <1>4 DEF LeaveRequest, Counter!Leave
    <2>2. inFlight' = Cardinality(active')
      BY <1>2, <2>1, FS_RemoveElement DEF IInv, TypeOK
    <2>3. TypeOK'
      BY <1>1, <2>1, <2>2 DEF IInv, TypeOK
    <2>4. inFlight # 0
      BY <1>2, <2>1, FS_EmptySet DEF IInv, TypeOK
    <2>5. NothingForgotten'
      BY <1>1, <2>4, SameKnown DEF IInv, NothingForgotten, Excused, Pending
    <2> QED
      BY <1>1, <2>3, <2>5, SameKnown DEF IInv, Registered, AgendaKnown, OpenedKnown,
                                           ContextOnce, NoDrainYet, InStopOrder, Ended
  <1> QED
    BY <1>3, <1>4

-----------------------------------------------------------------------------
(* lifespan.shutdown                                                       *)

\* Shutdown begins with everything that is open pending or excused.
LEMMA ShutdownStep == IInv /\ Shutdown => IInv'
  <1> SUFFICES ASSUME IInv, Shutdown PROVE IInv'
    OBVIOUS
  <1> DEFINE hooks == StopOrder(shutdown_hooks)
             n == Len(shutdown_hooks)
             c == Len(ContextCall)
  <1>1. /\ phase = "serving" /\ phase' = "stopping"
        /\ agenda' = ContextCall \o Calls(hooks)
        /\ UNCHANGED <<opened, closed, broken, timedOut>>
        /\ UNCHANGED <<plugins, mounts, startup_hooks, shutdown_hooks, active, inFlight>>
    BY DEF Shutdown, Unchanged, registry, counter
  <1>2. shutdown_hooks \in Seq(Hooks) /\ n \in Nat /\ TypeOK
    BY DEF IInv, TypeOK, Hooks
  <1>3. hooks \in Seq(Hooks) /\ Len(hooks) = n /\ \A i \in 1..n : hooks[i] = shutdown_hooks[n + 1 - i]
    <2>1. \A i \in 1..n : n - i + 1 \in 1..n /\ n - i + 1 = n + 1 - i
      BY <1>2
    <2>2. hooks = [i \in 1..n |-> shutdown_hooks[n - i + 1]]
      BY DEF StopOrder, Reverse
    <2> HIDE DEF hooks
    <2> QED
      BY <1>2, <2>1, <2>2
  <1> HIDE DEF hooks
  <1>4. /\ Calls(hooks) \in Seq(Call) /\ Len(Calls(hooks)) = n
        /\ \A i \in 1..n : Calls(hooks)[i].hook = hooks[i] /\ Calls(hooks)[i].left = Things(hooks[i])
    BY <1>2, <1>3, CallsFacts
  <1>5. /\ agenda' \in Seq(Call) /\ Len(agenda') = c + n /\ c \in {0, 1}
        /\ \A k \in 1..(c + n) : agenda'[k] = IF k <= c THEN ContextCall[k] ELSE Calls(hooks)[k - c]
    <2>1. Calls(hooks) \in Seq(Call) /\ ContextCall \in Seq(Call)
      BY <1>4, ContextCallFacts
    <2>2. Len(ContextCall) = c
      BY ContextCallFacts
    <2> QED
      BY <1>1, <1>4, <2>1, <2>2, ContextCallFacts, Joined, ZenonT(30)
  <1>6. ASSUME NEW k \in DOMAIN agenda', k > c
        PROVE  /\ n + 1 - (k - c) \in 1..n
               /\ agenda'[k].hook = shutdown_hooks[n + 1 - (k - c)]
               /\ agenda'[k].left = Things(shutdown_hooks[n + 1 - (k - c)])
    <2>1. k \in 1..(c + n) /\ k - c \in 1..n
      BY <1>2, <1>5, <1>6
    <2>2. agenda'[k] = Calls(hooks)[k - c]
      BY <1>5, <1>6, <2>1
    <2>3. n + 1 - (k - c) \in 1..n /\ hooks[k - c] = shutdown_hooks[n + 1 - (k - c)]
      BY <1>2, <1>3, <1>5, <2>1, SMTT(30)
    <2> QED
      BY <1>4, <2>1, <2>2, <2>3
  <1>7. ASSUME NEW k \in DOMAIN agenda', ~(k > c)
        PROVE  k = 1 /\ c = 1 /\ HasContext /\ agenda'[k].hook = "context" /\ agenda'[k].left = <<"context">>
    <2>1. k = 1 /\ c = 1
      BY <1>2, <1>5, <1>7
    <2>2. HasContext
      BY <2>1, ContextCallFacts
    <2>3. agenda'[k] = ContextCall[1]
      BY <1>2, <1>5, <2>1
    <2> QED
      BY <2>1, <2>2, <2>3, ContextCallFacts
  <1>8. TypeOK'
    BY <1>1, <1>2, <1>5 DEF TypeOK
  <1>9. \A x : Known(x)' <=> Known(x)
    BY <1>1, SameKnown
  <1>10. ASSUME NEW k \in DOMAIN agenda', NEW x \in Range(agenda'[k].left)
         PROVE  HookOf(x) = agenda'[k].hook /\ Known(x)
    <2>1. CASE k > c
      <3> DEFINE h == shutdown_hooks[n + 1 - (k - c)]
      <3>1. h \in Hooks /\ h # "context" /\ agenda'[k].hook = h /\ x \in Range(Things(h))
        <4>1. n + 1 - (k - c) \in 1..n /\ agenda'[k].hook = h /\ agenda'[k].left = Things(h)
          BY <1>6, <2>1
        <4>2. h \in {"drain", "plugins", "grpc"} \cup UserHooks
          BY <1>2, <4>1 DEF TypeOK
        <4> QED
          BY <1>10, <4>1, <4>2, NamesAssumption DEF Hooks
      <3> HIDE DEF h
      <3>2. HookOf(x) = h
        BY <1>2, <3>1, ThingsFacts
      <3>3. x # "context"
        BY <3>1, <3>2, ContextFacts
      <3> QED
        BY <3>1, <3>2, <3>3 DEF Known
    <2>2. CASE ~(k > c)
      <3>1. HasContext /\ agenda'[k].hook = "context" /\ agenda'[k].left = <<"context">>
        BY <1>7, <2>2
      <3>2. x = "context"
        BY <1>10, <3>1 DEF Range
      <3> QED
        BY <3>1, <3>2, ContextFacts DEF Known, Range
    <2> QED
      BY <2>1, <2>2
  <1>11. AgendaKnown' /\ OpenedKnown'
    BY <1>1, <1>9, <1>10 DEF IInv, AgendaKnown, OpenedKnown
  <1>12. Registered'
    BY <1>1 DEF IInv, Registered
  <1>13. InStopOrder'
    <2>1. Len(agenda') <= n + 1
      BY <1>2, <1>5
    <2>2. ASSUME NEW k \in DOMAIN agenda'
          PROVE  agenda'[k].hook = IF Len(agenda') + 1 - k = n + 1 THEN "context"
                                   ELSE shutdown_hooks[Len(agenda') + 1 - k]
      <3>1. k \in Nat /\ Len(agenda') + 1 - k = n + 1 - (k - c)
        BY <1>2, <1>5
      <3>2. CASE k > c
        <4>1. n + 1 - (k - c) # n + 1
          BY <1>2, <1>6, <3>2
        <4> QED
          BY <1>6, <3>1, <3>2, <4>1
      <3>3. CASE ~(k > c)
        <4>1. n + 1 - (k - c) = n + 1
          <5>1. k = 1 /\ c = 1
            BY <1>7, <3>3
          <5>2. \A m \in Nat : m + 1 - (1 - 1) = m + 1
            OBVIOUS
          <5> QED
            BY <1>2, <5>1, <5>2
        <4> QED
          BY <1>7, <3>1, <3>3, <4>1
      <3> QED
        BY <3>2, <3>3
    <2> QED
      BY <1>1, <2>1, <2>2 DEF InStopOrder
  <1>14. ASSUME NEW h \in Range(shutdown_hooks), NEW x \in Range(Things(h))
         PROVE  Pending(x)'
    <2>1. PICK i \in 1..n : shutdown_hooks[i] = h
      BY <1>2 DEF Range
    <2> DEFINE k == c + n + 1 - i
    <2>2. k \in DOMAIN agenda' /\ k > c /\ n + 1 - (k - c) = i
      BY <1>2, <1>5
    <2> HIDE DEF k
    <2>3. agenda'[k].left = Things(h)
      BY <1>6, <2>1, <2>2
    <2> QED
      BY <2>2, <2>3 DEF Pending
  <1>15. HasContext => Pending("context")'
    <2> SUFFICES ASSUME HasContext PROVE Pending("context")'
      OBVIOUS
    <2>1. c = 1 /\ 1 \in DOMAIN agenda' /\ agenda'[1] = ContextCall[1]
      BY <1>2, <1>5, ContextCallFacts
    <2> QED
      BY <2>1, ContextCallFacts DEF Pending, Range
  <1>16. ContextOnce'
    <2>1. ASSUME NEW k \in DOMAIN agenda', agenda'[k].hook = "context" PROVE Len(agenda'[k].left) <= 1
      <3>1. CASE k > c
        <4>1. agenda'[k].hook \in {"drain", "plugins", "grpc"} \cup UserHooks
          BY <1>2, <1>6, <3>1, SMTT(30) DEF TypeOK
        <4> QED
          BY <2>1, <4>1, NamesAssumption
      <3>2. CASE ~(k > c)
        <4>1. agenda'[k].left = <<"context">>
          BY <1>7, <3>2
        <4> QED
          BY <4>1
      <3> QED
        BY <3>1, <3>2
    <2> QED
      BY <2>1 DEF ContextOnce
  <1>17. NothingForgotten'
    <2>1. ASSUME NEW x \in Range(opened) \ closed PROVE Excused(x)' \/ Pending(x)'
      <3>1. Known(x)
        BY DEF IInv, OpenedKnown
      <3>2. CASE x = "context"
        BY <1>15, <3>1, <3>2 DEF Known
      <3>3. CASE x # "context" /\ HookOf(x) \notin Range(shutdown_hooks)
        BY <1>1, <3>3 DEF Excused
      <3>4. CASE HookOf(x) \in Range(shutdown_hooks)
        BY <1>14, <3>1, <3>4 DEF Known
      <3> QED
        BY <3>2, <3>3, <3>4
    <2>2. Pending("drain")'
      <3>1. "drain" \in Range(shutdown_hooks)
        BY <1>2 DEF IInv, Registered, Range
      <3> QED
        BY <1>14, <3>1, DrainFacts DEF Range
    <2> QED
      BY <1>1, <2>1, <2>2 DEF NothingForgotten
  <1> QED
    BY <1>1, <1>8, <1>11, <1>12, <1>13, <1>17, <1>16 DEF IInv, NoDrainYet, Ended

\* A thing that is closed needs no excuse, and a hook that raises is one.
LEMMA StopNextStep == IInv /\ LeftInOrder /\ StopNext => IInv'
  <1> SUFFICES ASSUME IInv, LeftInOrder, StopNext PROVE IInv'
    OBVIOUS
  <1>1. /\ phase = "stopping" /\ agenda # <<>> /\ agenda[1].left # <<>>
        /\ agenda[1].hook # "drain"
        /\ UNCHANGED <<phase, plugins, mounts, startup_hooks, shutdown_hooks, active, inFlight>>
        /\ UNCHANGED <<opened, timedOut>>
    BY DEF StopNext, Unchanged, registry, counter
  <1>2. /\ TypeOK /\ Registered /\ AgendaKnown /\ OpenedKnown /\ ContextOnce
        /\ InStopOrder /\ NothingForgotten
    BY DEF IInv
  <1>3. agenda[1] \in Call /\ 1 \in DOMAIN agenda
    BY <1>1, <1>2 DEF TypeOK
  <1>4. Registered' /\ OpenedKnown'
    <2>1. \A x : Known(x)' <=> Known(x)
      BY <1>1, SameKnown
    <2> QED
      BY <1>1, <1>2, <2>1 DEF Registered, OpenedKnown
  <1>5. CASE closed' = closed \cup {Head(agenda[1].left)} /\ GoOn /\ broken' = broken
    <2> DEFINE h == Head(agenda[1].left)
    <2>1. /\ agenda' \in Seq(Call) /\ h \in Range(agenda[1].left)
          /\ \A x : Pending(x) => Pending(x)' \/ x = h
      BY <1>1, <1>2, <1>5, GoOnFacts
    <2>2. h \in AllThings /\ HookOf(h) = agenda[1].hook
      BY <1>2, <1>3, <2>1 DEF Call, AgendaKnown, Range
    <2> HIDE DEF h
    <2>3. TypeOK'
      BY <1>1, <1>2, <1>5, <2>1, <2>2 DEF TypeOK, h
    <2>4. AgendaKnown' /\ ContextOnce' /\ InStopOrder'
      BY <1>1, <1>2, <1>5, AgendaKept
    <2>5. ASSUME NEW x \in Range(opened) \ closed' PROVE Excused(x)' \/ Pending(x)'
      <3>1. x \in Range(opened) \ closed /\ x # h
        BY <1>5, <2>5 DEF h
      <3>2. Excused(x) \/ Pending(x)
        BY <1>1, <1>2, <3>1 DEF NothingForgotten
      <3> QED
        BY <1>1, <1>5, <2>1, <3>1, <3>2, SameKnown DEF Excused
    <2>6. inFlight = 0 \/ timedOut \/ Pending("drain")'
      <3>1. h # "drain"
        BY <1>1, <2>2, DrainFacts
      <3> QED
        BY <1>1, <1>2, <2>1, <3>1 DEF NothingForgotten
    <2>7. NothingForgotten'
      BY <1>1, <2>5, <2>6 DEF NothingForgotten
    <2> QED
      BY <1>1, <1>4, <2>3, <2>4, <2>7 DEF IInv, NoDrainYet, Ended
  <1>6. CASE broken' = broken \cup {Head(agenda[1].left)} /\ agenda' = Tail(agenda) /\ closed' = closed
    <2>1. /\ agenda' \in Seq(Call)
          /\ \A x : Pending(x) => Pending(x)' \/ x \in Range(agenda[1].left)
      BY <1>1, <1>2, <1>6, TailFacts
    <2>2. agenda[1].hook \in Hooks /\ \A x \in Range(agenda[1].left) : HookOf(x) = agenda[1].hook
      BY <1>2, <1>3 DEF Call, AgendaKnown
    <2>8. agenda[1].left \in Seq(AllThings) /\ Head(agenda[1].left) \in AllThings
      BY <1>1, <1>3 DEF Call
    <2>3. TypeOK'
      BY <1>1, <1>2, <1>6, <2>1, <2>2, <2>8 DEF TypeOK
    <2>4. AgendaKnown' /\ ContextOnce' /\ InStopOrder'
      BY <1>1, <1>2, <1>6, AgendaKept
    <2>5. ASSUME NEW x \in Range(opened) \ closed PROVE Excused(x)' \/ Pending(x)'
      <3>1. Excused(x) \/ Pending(x)
        BY <1>1, <1>2 DEF NothingForgotten
      <3>2. CASE x \in Range(agenda[1].left)
        <4>1. PICK b \in DOMAIN agenda[1].left : x = agenda[1].left[b]
          BY <3>2 DEF Range
        <4>2. b = 1 \/ Precedes(agenda[1].left[1], x)
          BY <1>1, <1>3, <2>8, <4>1 DEF LeftInOrder
        <4>3. Head(agenda[1].left) = agenda[1].left[1]
          BY <1>1, <2>8
        <4> QED
          BY <1>1, <1>6, <4>1, <4>2, <4>3, SameKnown DEF Excused
      <3>3. CASE x \notin Range(agenda[1].left)
        BY <1>1, <1>6, <2>1, <3>1, <3>3, SameKnown DEF Excused
      <3> QED
        BY <3>2, <3>3
    <2>6. inFlight = 0 \/ timedOut \/ Pending("drain")'
      <3>1. "drain" \notin Range(agenda[1].left)
        BY <1>1, <2>2, DrainFacts
      <3> QED
        BY <1>1, <1>2, <2>1, <3>1 DEF NothingForgotten
    <2>7. NothingForgotten'
      BY <1>1, <1>6, <2>5, <2>6 DEF NothingForgotten
    <2> QED
      BY <1>1, <1>4, <2>3, <2>4, <2>7 DEF IInv, NoDrainYet, Ended
  <1> QED
    BY <1>5, <1>6 DEF StopNext, AfterFailure

\* The drain is over when nothing is in flight or it has given up.
LEMMA DrainStep == IInv /\ Drain => IInv'
  <1> SUFFICES ASSUME IInv, Drain PROVE IInv'
    OBVIOUS
  <1>1. /\ phase = "stopping" /\ agenda # <<>> /\ agenda[1].left # <<>>
        /\ agenda[1].hook = "drain" /\ GoOn
        /\ UNCHANGED <<phase, plugins, mounts, startup_hooks, shutdown_hooks, active, inFlight>>
        /\ UNCHANGED <<opened, closed, broken>>
        /\ (inFlight <= 0 /\ timedOut' = timedOut) \/ (inFlight > 0 /\ timedOut' = TRUE)
    BY DEF Drain, Unchanged, registry, counter, GivesUp
  <1>2. /\ TypeOK /\ Registered /\ AgendaKnown /\ OpenedKnown /\ ContextOnce
        /\ InStopOrder /\ NothingForgotten
    BY DEF IInv
  <1>3. /\ agenda' \in Seq(Call) /\ Head(agenda[1].left) \in Range(agenda[1].left)
        /\ \A x : Pending(x) => Pending(x)' \/ x = Head(agenda[1].left)
    BY <1>1, <1>2, GoOnFacts
  <1>4. Head(agenda[1].left) = "drain"
    <2>1. 1 \in DOMAIN agenda
      BY <1>1, <1>2 DEF TypeOK
    <2>2. HookOf(Head(agenda[1].left)) = "drain" /\ Known(Head(agenda[1].left))
      BY <1>1, <1>2, <1>3, <2>1 DEF AgendaKnown
    <2> QED
      BY <2>2, DrainFacts DEF Known, Range
  <1>5. inFlight \in Nat
    BY <1>2, RequestsAssumption, FS_Subset, FS_CardinalityType DEF TypeOK
  <1>6. TypeOK'
    BY <1>1, <1>2, <1>3 DEF TypeOK
  <1>7. Registered' /\ OpenedKnown'
    <2>1. \A x : Known(x)' <=> Known(x)
      BY <1>1, SameKnown
    <2> QED
      BY <1>1, <1>2, <2>1 DEF Registered, OpenedKnown
  <1>8. AgendaKnown' /\ ContextOnce' /\ InStopOrder'
    BY <1>1, <1>2, AgendaKept
  <1>9. ASSUME NEW x \in Range(opened) \ closed PROVE Excused(x)' \/ Pending(x)'
    <2>1. x # "drain"
      BY <1>9 DEF IInv, NoDrainYet
    <2>2. Excused(x) \/ Pending(x)
      BY <1>1, <1>2, <1>9 DEF NothingForgotten
    <2> QED
      BY <1>1, <1>3, <1>4, <2>1, <2>2, SameKnown DEF Excused
  <1>10. NothingForgotten'
    BY <1>1, <1>5, <1>9 DEF NothingForgotten
  <1> QED
    BY <1>1, <1>6, <1>7, <1>8, <1>10 DEF IInv, NoDrainYet, Ended

-----------------------------------------------------------------------------
(* The loop of both                                                        *)

\* A hook with nothing left to do returns: nothing that was pending is lost.
LEMMA HookReturnsStep == IInv /\ HookReturns => IInv'
  <1> SUFFICES ASSUME IInv, HookReturns PROVE IInv'
    OBVIOUS
  <1>1. /\ phase \in {"starting", "stopping"} /\ agenda # <<>> /\ agenda[1].left = <<>>
        /\ agenda' = Tail(agenda)
        /\ UNCHANGED <<phase, plugins, mounts, startup_hooks, shutdown_hooks, active, inFlight>>
        /\ UNCHANGED <<opened, closed, broken, timedOut>>
    BY DEF HookReturns, Unchanged, registry, counter
  <1>2. /\ TypeOK /\ Registered /\ AgendaKnown /\ OpenedKnown /\ ContextOnce /\ NoDrainYet
        /\ InStopOrder /\ NothingForgotten
    BY DEF IInv
  <1>3. Range(agenda[1].left) = {}
    BY <1>1 DEF Range
  <1>4. agenda' \in Seq(Call) /\ \A x : Pending(x) => Pending(x)'
    BY <1>1, <1>2, <1>3, TailFacts
  <1>5. TypeOK'
    BY <1>1, <1>2, <1>4 DEF TypeOK
  <1>6. Registered' /\ OpenedKnown'
    <2>1. \A x : Known(x)' <=> Known(x)
      BY <1>1, SameKnown
    <2> QED
      BY <1>1, <1>2, <2>1 DEF Registered, OpenedKnown
  <1>7. AgendaKnown' /\ ContextOnce' /\ InStopOrder'
    BY <1>1, <1>2, AgendaKept
  <1>8. NoDrainYet'
    BY <1>1, <1>2, HooksKept DEF NoDrainYet
  <1>9. NothingForgotten'
    BY <1>1, <1>2, <1>4, SameKnown DEF NothingForgotten, Excused
  <1> QED
    BY <1>1, <1>5, <1>6, <1>7, <1>8, <1>9 DEF IInv, Ended

\* The last hook over, startup and shutdown are complete.
LEMMA CompleteStep == IInv /\ (StartupComplete \/ ShutdownComplete) => IInv'
  <1> SUFFICES ASSUME IInv, StartupComplete \/ ShutdownComplete PROVE IInv'
    OBVIOUS
  <1>1. /\ agenda = <<>> /\ UNCHANGED <<agenda, opened, closed, broken, timedOut>>
        /\ UNCHANGED <<plugins, mounts, startup_hooks, shutdown_hooks, active, inFlight>>
        /\ \/ phase = "starting" /\ phase' = "serving"
           \/ phase = "stopping" /\ phase' = "stopped"
    BY DEF StartupComplete, ShutdownComplete, Unchanged, registry, counter
  <1>2. TypeOK'
    BY <1>1 DEF IInv, TypeOK
  <1>3. Registered' /\ OpenedKnown' /\ AgendaKnown' /\ ContextOnce'
    BY <1>1, SameKnown DEF IInv, Registered, OpenedKnown, AgendaKnown, ContextOnce
  <1>4. NothingForgotten'
    BY <1>1, SameKnown DEF IInv, NothingForgotten, Excused, Pending
  <1> QED
    BY <1>1, <1>2, <1>3, <1>4 DEF IInv, NoDrainYet, InStopOrder, Ended

\* Every step preserves the inductive invariant.
LEMMA NextIInv == IInv /\ OrderInv /\ [Next]_vars => IInv'
  <1> SUFFICES ASSUME IInv, OrderInv, [Next]_vars PROVE IInv'
    OBVIOUS
  <1>1. CASE \/ \E p \in Plugins : AddPlugin(p)
             \/ \E m \in Mounts : MountGrpc(m)
             \/ \E h \in UserHooks : OnStartup(h) \/ OnShutdown(h)
    BY <1>1, BuildStep
  <1>2. CASE Startup \/ StartNext \/ StartupComplete
    BY <1>2, StartupStep, StartNextStep, CompleteStep
  <1>3. CASE Shutdown \/ StopNext \/ Drain \/ ShutdownComplete
    BY <1>3, ShutdownStep, StopNextStep, DrainStep, CompleteStep DEF OrderInv
  <1>4. CASE HookReturns
    BY <1>4, HookReturnsStep
  <1>5. CASE \E r \in Requests : EnterRequest(r) \/ LeaveRequest(r)
    BY <1>5, RequestStep
  <1>6. CASE UNCHANGED vars
    <2>1. /\ UNCHANGED <<phase, agenda, opened, closed, broken, timedOut>>
          /\ UNCHANGED <<plugins, mounts, startup_hooks, shutdown_hooks, active, inFlight>>
      BY <1>6 DEF vars, registry, counter
    <2>2. TypeOK'
      BY <2>1 DEF IInv, TypeOK
    <2>3. Registered' /\ OpenedKnown' /\ AgendaKnown' /\ ContextOnce'
      BY <2>1, SameKnown DEF IInv, Registered, OpenedKnown, AgendaKnown, ContextOnce
    <2>4. NothingForgotten'
      BY <2>1, SameKnown DEF IInv, NothingForgotten, Excused, Pending
    <2> QED
      BY <2>1, <2>2, <2>3, <2>4 DEF IInv, NoDrainYet, InStopOrder, Ended
  <1> QED
    BY <1>1, <1>2, <1>3, <1>4, <1>5, <1>6 DEF Next, Handle

-----------------------------------------------------------------------------
(* The order of plugins and of mounts                                      *)

\* An application starts with two shutdown hooks, one startup hook and no more.
LEMMA InitOrder == Init => OrderInv
  <1> SUFFICES ASSUME Init PROVE OrderInv
    OBVIOUS
  <1> USE DEF Init
  <1>1. /\ plugins = <<>> /\ mounts = <<>> /\ startup_hooks = <<"plugins">>
        /\ DOMAIN agenda = {} /\ DOMAIN opened = {}
    OBVIOUS
  <1>2. \A h : Things(h) = <<>> \/ Things(h) = <<h>>
    BY <1>1 DEF Things
  <1>3. NoRepeats
    BY <1>1, <1>2 DEF NoRepeats, Range
  <1> QED
    BY <1>1, <1>3 DEF OrderInv, LeftInOrder, OpenedInOrder, StartsInOrder

\* What one hook goes through is in the order of its list.
LEMMA ListOrder ==
  ASSUME TypeOK, NEW h \in Hooks,
         NEW a \in DOMAIN Things(h), NEW b \in DOMAIN Things(h), a < b
  PROVE  Precedes(Things(h)[a], Things(h)[b])
  <1>1. Things(h)[a] \in Range(Things(h)) /\ Things(h)[b] \in Range(Things(h))
    BY DEF Range
  <1>2. HookOf(Things(h)[a]) = h /\ HookOf(Things(h)[b]) = h
    BY <1>1, ThingsFacts
  <1> QED
    BY <1>2 DEF Precedes, OfOneHook, Before

\* Two things of one hook do not precede each other.
LEMMA OneWay ==
  ASSUME TypeOK, NoRepeats, NEW x, NEW y, HookOf(x) \in Hooks, Precedes(x, y)
  PROVE  ~Precedes(y, x)
  <1> DEFINE T == Things(HookOf(x))
  <1>1. T \in Seq(AllThings) /\ HookOf(y) = HookOf(x)
    BY ThingsFacts DEF Precedes, OfOneHook
  <1>2. PICK i, j \in DOMAIN T : i < j /\ T[i] = x /\ T[j] = y
    BY DEF Precedes, Before
  <1>3. SUFFICES ASSUME NEW k \in DOMAIN T, NEW m \in DOMAIN T, k < m, T[k] = y, T[m] = x
                 PROVE  FALSE
    BY <1>1 DEF Precedes, Before
  <1>4. k = j /\ m = i
    BY <1>2, <1>3 DEF NoRepeats
  <1> QED
    BY <1>1, <1>2, <1>3, <1>4

\* A sequence without repetition to which something new is appended.
LEMMA AppendDistinct ==
  ASSUME NEW S, NEW s \in Seq(S), NEW x \in S, x \notin Range(s),
         \A i, j \in DOMAIN s : s[i] = s[j] => i = j
  PROVE  /\ \A i, j \in DOMAIN Append(s, x) : Append(s, x)[i] = Append(s, x)[j] => i = j
         /\ \A y : y \in Range(Append(s, x)) => y \in Range(s) \/ y = x
  <1>1. \A i \in 1..Len(s) : s[i] # x
    BY DEF Range
  <1>2. /\ DOMAIN Append(s, x) = 1..(Len(s) + 1) /\ DOMAIN s = 1..Len(s) /\ Len(s) \in Nat
        /\ \A i \in 1..Len(s) : Append(s, x)[i] = s[i]
        /\ Append(s, x)[Len(s) + 1] = x
    OBVIOUS
  <1>3. \A i \in 1..(Len(s) + 1) : i \in 1..Len(s) \/ i = Len(s) + 1
    BY <1>2
  <1> HIDE DEF Range
  <1>4. ASSUME NEW i \in DOMAIN Append(s, x), NEW j \in DOMAIN Append(s, x),
               Append(s, x)[i] = Append(s, x)[j]
        PROVE  i = j
    BY <1>1, <1>2, <1>3, <1>4
  <1>5. ASSUME NEW y, y \in Range(Append(s, x)) PROVE y \in Range(s) \/ y = x
    BY <1>2, <1>3, <1>5 DEF Range
  <1> QED
    BY <1>4, <1>5

\* Registration adds what is not there yet, and nothing is open or running.
LEMMA BuildOrder ==
  ASSUME IInv, OrderInv,
         \/ \E p \in Plugins : AddPlugin(p)
         \/ \E m \in Mounts : MountGrpc(m)
         \/ \E h \in UserHooks : OnStartup(h) \/ OnShutdown(h)
  PROVE  OrderInv'
  <1>1. IInv' /\ phase = "building" /\ phase' = "building"
    BY BuildStep DEF AddPlugin, MountGrpc, OnStartup, OnShutdown, Register
  <1>2. DOMAIN agenda' = {} /\ DOMAIN opened' = {}
    BY <1>1 DEF IInv, Registered
  <1>3. /\ plugins \in Seq(Plugins) /\ mounts \in Seq(Mounts)
        /\ startup_hooks \in Seq({"plugins", "grpc"} \cup UserHooks)
        /\ NoRepeats
    BY DEF IInv, TypeOK, OrderInv
  <1>4. /\ Things("plugins") = plugins /\ Things("grpc") = mounts
        /\ \A h \in Hooks : h \notin {"plugins", "grpc"} => Things(h) = <<h>>
        /\ Things("plugins")' = plugins' /\ Things("grpc")' = mounts'
        /\ \A h \in Hooks : h \notin {"plugins", "grpc"} => Things(h)' = <<h>>
    BY DEF Things
  <1>5. /\ \A i, j \in DOMAIN plugins : plugins[i] = plugins[j] => i = j
        /\ \A i, j \in DOMAIN mounts : mounts[i] = mounts[j] => i = j
        /\ \A i, j \in DOMAIN startup_hooks : startup_hooks[i] = startup_hooks[j] => i = j
    <2>1. "plugins" \in Hooks /\ "grpc" \in Hooks
      BY DEF Hooks
    <2> QED
      BY <1>3, <1>4, <2>1 DEF NoRepeats
  <1> DEFINE Distinct(s) == \A i, j \in DOMAIN s : s[i] = s[j] => i = j
  <1>6. ASSUME Distinct(plugins'), Distinct(mounts'), Distinct(startup_hooks'),
               mounts' = <<>> => "grpc" \notin Range(startup_hooks')
        PROVE  OrderInv'
    <2>1. ASSUME NEW h \in Hooks PROVE Distinct(Things(h)')
      <3>1. CASE h \in {"plugins", "grpc"}
        BY <1>4, <1>6, <3>1
      <3>2. CASE h \notin {"plugins", "grpc"}
        BY <1>4, <3>2
      <3> QED
        BY <3>1, <3>2
    <2>2. NoRepeats'
      BY <1>6, <2>1 DEF NoRepeats
    <2> QED
      BY <1>1, <1>2, <2>2 DEF OrderInv, LeftInOrder, OpenedInOrder, StartsInOrder
  <1>7. ASSUME NEW p \in Plugins, AddPlugin(p) PROVE OrderInv'
    <2>1. /\ plugins' = Append(plugins, p) /\ p \notin Range(plugins) /\ mounts' = mounts
          /\ startup_hooks' = startup_hooks \o <<>>
      BY <1>7 DEF AddPlugin, Register
    <2>2. startup_hooks' = startup_hooks
      BY <1>3, <2>1, ConcatEmptySeq
    <2>3. Distinct(plugins')
      BY <1>3, <1>5, <2>1, AppendDistinct
    <2> QED
      BY <1>3, <1>5, <1>6, <2>1, <2>2, <2>3 DEF NoRepeats
  <1>8. ASSUME NEW m \in Mounts, MountGrpc(m) PROVE OrderInv'
    <2>1. /\ mounts' = Append(mounts, m) /\ m \notin Range(mounts) /\ plugins' = plugins
          /\ startup_hooks' = startup_hooks \o (IF mounts = <<>> THEN <<"grpc">> ELSE <<>>)
      BY <1>8 DEF MountGrpc, Register
    <2>2. Distinct(mounts') /\ mounts' # <<>>
      BY <1>3, <1>5, <2>1, AppendDistinct
    <2>3. Distinct(startup_hooks')
      <3>1. CASE mounts = <<>>
        <4>1. startup_hooks' = Append(startup_hooks, "grpc")
          BY <1>3, <2>1, <3>1, AppendIsConcat
        <4>2. "grpc" \notin Range(startup_hooks)
          BY <1>3, <3>1 DEF NoRepeats
        <4> QED
          BY <1>3, <1>5, <4>1, <4>2, AppendDistinct
      <3>2. CASE mounts # <<>>
        BY <1>3, <1>5, <2>1, <3>2, ConcatEmptySeq
      <3> QED
        BY <3>1, <3>2
    <2> QED
      BY <1>5, <1>6, <2>1, <2>2, <2>3
  <1>9. ASSUME NEW h \in UserHooks, OnStartup(h) PROVE OrderInv'
    <2>1. /\ startup_hooks' = startup_hooks \o <<h>> /\ h \notin Range(startup_hooks)
          /\ plugins' = plugins /\ mounts' = mounts
      BY <1>9 DEF OnStartup, Register
    <2>2. startup_hooks' = Append(startup_hooks, h)
      BY <1>3, <2>1, AppendIsConcat
    <2>3. /\ Distinct(startup_hooks')
          /\ \A y : y \in Range(startup_hooks') => y \in Range(startup_hooks) \/ y = h
      <3>1. h \in {"plugins", "grpc"} \cup UserHooks
        OBVIOUS
      <3>2. ASSUME NEW S, startup_hooks \in Seq(S), h \in S
            PROVE  /\ Distinct(startup_hooks')
                   /\ \A y : y \in Range(startup_hooks') => y \in Range(startup_hooks) \/ y = h
        <4>1. \A i, j \in DOMAIN startup_hooks : startup_hooks[i] = startup_hooks[j] => i = j
          BY <1>5
        <4>2. /\ Distinct(Append(startup_hooks, h))
              /\ \A y : y \in Range(Append(startup_hooks, h)) => y \in Range(startup_hooks) \/ y = h
          BY <2>1, <3>2, <4>1, AppendDistinct
        <4> QED
          BY <2>2, <4>2
      <3> QED
        BY <1>3, <3>1, <3>2
    <2>4. h # "grpc"
      BY NamesAssumption
    <2> QED
      BY <1>3, <1>5, <1>6, <2>1, <2>3, <2>4 DEF NoRepeats
  <1>10. ASSUME NEW h \in UserHooks, OnShutdown(h) PROVE OrderInv'
    <2>1. startup_hooks' = startup_hooks \o <<>> /\ plugins' = plugins /\ mounts' = mounts
      BY <1>10 DEF OnShutdown, Register
    <2>2. startup_hooks' = startup_hooks
      BY <1>3, <2>1, ConcatEmptySeq
    <2> QED
      BY <1>3, <1>5, <1>6, <2>1, <2>2 DEF NoRepeats
  <1> QED
    BY <1>7, <1>8, <1>9, <1>10

\* The agendas startup and shutdown begin with: calls of whole hooks.
LEMMA WholeCalls ==
  ASSUME IInv, UNCHANGED <<plugins, mounts>>,
         \/ agenda' = Calls(startup_hooks) \o ContextCall
         \/ agenda' = ContextCall \o Calls(StopOrder(shutdown_hooks))
  PROVE  LeftInOrder'
  <1>1. /\ TypeOK /\ startup_hooks \in Seq(Hooks) /\ shutdown_hooks \in Seq(Hooks)
    BY DEF IInv, TypeOK, Hooks
  <1>2. StopOrder(shutdown_hooks) \in Seq(Hooks)
    <2>1. \A i \in 1..Len(shutdown_hooks) : Len(shutdown_hooks) - i + 1 \in 1..Len(shutdown_hooks)
      BY <1>1
    <2>2. StopOrder(shutdown_hooks)
            = [i \in 1..Len(shutdown_hooks) |-> shutdown_hooks[Len(shutdown_hooks) - i + 1]]
      BY DEF StopOrder, Reverse
    <2> HIDE DEF Hooks
    <2> QED
      BY <1>1, <2>1, <2>2
  <1> DEFINE Whole(c) == c.hook \in Hooks /\ c.left = Things(c.hook)
  <1>3. ASSUME NEW s \in Seq(Hooks)
        PROVE  Calls(s) \in Seq(Call) /\ \A i \in 1..Len(Calls(s)) : Whole(Calls(s)[i])
    BY <1>1, CallsFacts
  <1>4. ContextCall \in Seq(Call) /\ \A i \in 1..Len(ContextCall) : Whole(ContextCall[i])
    <2>1. "context" \in Hooks
      BY DEF Hooks
    <2> QED
      BY <2>1, ContextCallFacts, ContextFacts
  <1> HIDE DEF Whole
  <1>5. ASSUME NEW s \in Seq(Call), NEW t \in Seq(Call), agenda' = s \o t,
               \A i \in 1..Len(s) : Whole(s[i]), \A i \in 1..Len(t) : Whole(t[i])
        PROVE  \A k \in DOMAIN agenda' : Whole(agenda'[k])
    <2>1. /\ agenda' \in Seq(Call) /\ Len(agenda') = Len(s) + Len(t)
          /\ \A k \in 1..(Len(s) + Len(t)) :
               agenda'[k] = IF k <= Len(s) THEN s[k] ELSE t[k - Len(s)]
      BY <1>5, Joined
    <2>2. /\ \A k \in DOMAIN agenda' : k \in 1..(Len(s) + Len(t))
          /\ Len(s) \in Nat /\ Len(t) \in Nat
      BY <2>1
    <2>3. \A k \in 1..(Len(s) + Len(t)) : k \in 1..Len(s) \/ (~(k <= Len(s)) /\ k - Len(s) \in 1..Len(t))
      BY <2>2
    <2> QED
      BY <1>5, <2>1, <2>2, <2>3
  <1>6. \A k \in DOMAIN agenda' : Whole(agenda'[k])
    BY <1>1, <1>2, <1>3, <1>4, <1>5
  <1> QED
    BY <1>1, <1>6, ListOrder, SameKnown DEF LeftInOrder, Whole

\* Nothing runs twice in one startup.
LEMMA StartupOrder == IInv /\ OrderInv /\ Startup => OrderInv'
  <1> SUFFICES ASSUME IInv, OrderInv, Startup PROVE OrderInv'
    OBVIOUS
  <1>1. /\ phase = "building" /\ phase' = "starting"
        /\ agenda' = Calls(startup_hooks) \o ContextCall
        /\ opened' = opened
        /\ UNCHANGED <<plugins, mounts, startup_hooks, shutdown_hooks>>
    BY DEF Startup, Unchanged, registry
  <1>2. opened = <<>> /\ TypeOK /\ startup_hooks \in Seq(Hooks)
        /\ \A i \in 1..Len(startup_hooks) : startup_hooks[i] # "context"
    <2>1. \A i \in 1..Len(startup_hooks) : startup_hooks[i] \in {"plugins", "grpc"} \cup UserHooks
      BY DEF IInv, TypeOK
    <2> QED
      BY <1>1, <2>1, NamesAssumption DEF IInv, Registered, TypeOK, Hooks
  <1>3. NoRepeats' /\ LeftInOrder' /\ OpenedInOrder'
    BY <1>1, <1>2, WholeCalls, SameKnown DEF OrderInv, NoRepeats, OpenedInOrder
  <1>4. ASSUME NEW k \in DOMAIN agenda', NEW m \in DOMAIN agenda', agenda'[k].hook = agenda'[m].hook
        PROVE  k = m
    <2> DEFINE n == Len(startup_hooks)
    <2>1. /\ Calls(startup_hooks) \in Seq(Call) /\ Len(Calls(startup_hooks)) = n
          /\ \A i \in 1..n : Calls(startup_hooks)[i].hook = startup_hooks[i]
      BY <1>2, CallsFacts
    <2>2. /\ agenda' \in Seq(Call) /\ Len(agenda') = n + Len(ContextCall)
          /\ \A i \in 1..(n + Len(ContextCall)) :
               agenda'[i] = IF i <= n THEN Calls(startup_hooks)[i] ELSE ContextCall[i - n]
      <3>1. Calls(startup_hooks) \in Seq(Call) /\ ContextCall \in Seq(Call)
        BY <2>1, ContextCallFacts
      <3>2. /\ agenda' \in Seq(Call)
            /\ Len(agenda') = Len(Calls(startup_hooks)) + Len(ContextCall)
            /\ \A i \in 1..(Len(Calls(startup_hooks)) + Len(ContextCall)) :
                  agenda'[i] = IF i <= Len(Calls(startup_hooks)) THEN Calls(startup_hooks)[i]
                               ELSE ContextCall[i - Len(Calls(startup_hooks))]
        BY <1>1, <3>1, Joined
      <3> QED
        BY <2>1, <3>2
    <2>3. Len(ContextCall) \in {0, 1} /\ n \in Nat
          /\ (Len(ContextCall) = 1 => ContextCall[1].hook = "context")
      BY <1>2, ContextCallFacts
    <2>4. ASSUME NEW i \in DOMAIN agenda'
          PROVE  \/ i \in 1..n /\ agenda'[i].hook = startup_hooks[i]
                 \/ i = n + 1 /\ agenda'[i].hook = "context"
      <3>1. i \in 1..(n + Len(ContextCall)) /\ i \in Int
        BY <2>2, <2>3
      <3>2. CASE i <= n
        BY <2>1, <2>2, <2>3, <3>1, <3>2
      <3>3. CASE ~(i <= n)
        <4>1. \A c \in {0, 1} : i \in 1..(n + c) => c = 1 /\ i = n + 1 /\ i - n = 1
          BY <2>3, <3>1, <3>3
        <4>2. Len(ContextCall) = 1 /\ i = n + 1 /\ i - n = 1
          BY <2>3, <3>1, <4>1
        <4> QED
          BY <2>2, <2>3, <3>1, <3>3, <4>2
      <3> QED
        BY <3>2, <3>3
    <2> QED
      BY <1>2, <1>4, <2>4 DEF OrderInv, NoRepeats
  <1>5. DOMAIN opened' = {}
    BY <1>1, <1>2
  <1> QED
    BY <1>3, <1>4, <1>5 DEF OrderInv, StartsInOrder

\* A running hook goes on with the rest of its own.
LEMMA GoOnExact ==
  ASSUME TypeOK, agenda # <<>>, agenda[1].left # <<>>, GoOn
  PROVE  /\ agenda[1].left \in Seq(AllThings) /\ 1 \in DOMAIN agenda
         /\ DOMAIN agenda' = DOMAIN agenda
         /\ agenda'[1].left = Tail(agenda[1].left)
         /\ \A k \in DOMAIN agenda : k # 1 => agenda'[k] = agenda[k]
         /\ \A k \in DOMAIN agenda : agenda'[k].hook = agenda[k].hook
  <1>1. agenda \in Seq(Call) /\ agenda[1] \in Call /\ 1 \in DOMAIN agenda
    BY DEF TypeOK
  <1>2. agenda[1].left \in Seq(AllThings)
    BY <1>1 DEF Call
  <1>3. agenda' = [agenda EXCEPT ![1] = [agenda[1] EXCEPT !.left = Tail(agenda[1].left)]]
    BY DEF GoOn
  <1> QED
    BY <1>1, <1>2, <1>3 DEF Call

\* Either way the calls that stay are in order, and what is pending was.
LEMMA LeftKept ==
  ASSUME TypeOK, LeftInOrder, agenda # <<>>, plugins' = plugins, mounts' = mounts,
         \/ GoOn /\ agenda[1].left # <<>>
         \/ agenda' = Tail(agenda)
  PROVE  LeftInOrder' /\ \A x : Pending(x)' => Pending(x)
  <1>1. CASE GoOn /\ agenda[1].left # <<>>
    <2>1. /\ agenda[1].left \in Seq(AllThings) /\ 1 \in DOMAIN agenda
          /\ DOMAIN agenda' = DOMAIN agenda
          /\ agenda'[1].left = Tail(agenda[1].left)
          /\ \A k \in DOMAIN agenda : k # 1 => agenda'[k] = agenda[k]
      BY <1>1, GoOnExact
    <2>2. /\ DOMAIN Tail(agenda[1].left) = 1..(Len(agenda[1].left) - 1)
          /\ Len(agenda[1].left) \in Nat
          /\ \A a \in 1..(Len(agenda[1].left) - 1) : Tail(agenda[1].left)[a] = agenda[1].left[a + 1]
      BY <1>1, <2>1
    <2>3. \A a \in DOMAIN agenda'[1].left :
             a \in Int /\ a + 1 \in DOMAIN agenda[1].left /\ agenda'[1].left[a] = agenda[1].left[a + 1]
      BY <2>1, <2>2
    <2>4. ASSUME NEW k \in DOMAIN agenda', NEW a \in DOMAIN agenda'[k].left,
                 NEW b \in DOMAIN agenda'[k].left, a < b
          PROVE  Precedes(agenda'[k].left[a], agenda'[k].left[b])
      <3>1. CASE k = 1
        <4>1. /\ a + 1 \in DOMAIN agenda[1].left /\ b + 1 \in DOMAIN agenda[1].left /\ a + 1 < b + 1
          BY <2>3, <2>4, <3>1
        <4>2. Precedes(agenda[1].left[a + 1], agenda[1].left[b + 1])
          BY <2>1, <4>1 DEF LeftInOrder
        <4> QED
          BY <2>3, <2>4, <3>1, <4>2
      <3>2. CASE k # 1
        BY <2>1, <2>4, <3>2 DEF LeftInOrder
      <3> QED
        BY <3>1, <3>2
    <2>5. ASSUME NEW x, Pending(x)' PROVE Pending(x)
      <3>1. PICK k \in DOMAIN agenda' : x \in Range(agenda'[k].left)
        BY <2>5 DEF Pending
      <3>2. CASE k = 1
        <4>1. PICK a \in DOMAIN agenda'[1].left : x = agenda'[1].left[a]
          BY <3>1, <3>2 DEF Range
        <4>2. x \in Range(agenda[1].left)
          BY <2>3, <4>1 DEF Range
        <4> QED
          BY <2>1, <4>2 DEF Pending
      <3>3. CASE k # 1
        BY <2>1, <3>1, <3>3 DEF Pending
      <3> QED
        BY <3>2, <3>3
    <2> QED
      BY <2>4, <2>5, SameKnown DEF LeftInOrder
  <1>2. CASE agenda' = Tail(agenda)
    <2>1. \A k \in DOMAIN agenda' : k + 1 \in DOMAIN agenda /\ agenda'[k] = agenda[k + 1]
      BY <1>2, TailFacts
    <2> QED
      BY <2>1, SameKnown DEF LeftInOrder, Pending
  <1> QED
    BY <1>1, <1>2

\* What is opened comes after what its hook has opened, and before the rest.
LEMMA StartNextOrder == IInv /\ OrderInv /\ StartNext => OrderInv'
  <1> SUFFICES ASSUME IInv, OrderInv, StartNext PROVE OrderInv'
    OBVIOUS
  <1>1. /\ phase = "starting" /\ agenda # <<>> /\ agenda[1].left # <<>>
        /\ UNCHANGED <<plugins, mounts, startup_hooks, shutdown_hooks>>
    BY DEF StartNext, Unchanged, registry
  <1>2. /\ TypeOK /\ AgendaKnown /\ NoRepeats /\ LeftInOrder /\ OpenedInOrder /\ StartsInOrder
        /\ opened \in Seq(AllThings)
    BY DEF IInv, OrderInv, TypeOK
  <1>3. NoRepeats'
    BY <1>1, <1>2, SameKnown DEF NoRepeats
  <1>4. \A x, y : Precedes(x, y)' <=> Precedes(x, y)
    BY <1>1, SameKnown
  <1>5. CASE opened' = Append(opened, Head(agenda[1].left)) /\ GoOn /\ phase' = phase
    <2> DEFINE h == Head(agenda[1].left)
    <2>1. /\ agenda[1].left \in Seq(AllThings) /\ 1 \in DOMAIN agenda
          /\ DOMAIN agenda' = DOMAIN agenda
          /\ agenda'[1].left = Tail(agenda[1].left)
          /\ \A k \in DOMAIN agenda : k # 1 => agenda'[k] = agenda[k]
          /\ \A k \in DOMAIN agenda : agenda'[k].hook = agenda[k].hook
      BY <1>1, <1>2, <1>5, GoOnExact
    <2>2. h = agenda[1].left[1] /\ 1 \in DOMAIN agenda[1].left /\ h \in Range(agenda[1].left)
      BY <1>1, <2>1 DEF Range
    <2>3. Pending(h) /\ HookOf(h) = agenda[1].hook /\ h \in AllThings
      BY <1>2, <2>1, <2>2 DEF Pending, AgendaKnown
    <2>4. LeftInOrder' /\ \A x : Pending(x)' => Pending(x)
      BY <1>1, <1>2, <1>5, LeftKept
    <2> HIDE DEF h
    <2>5. /\ DOMAIN opened' = 1..(Len(opened) + 1) /\ Len(opened) \in Nat
          /\ opened'[Len(opened) + 1] = h
          /\ \A i \in 1..Len(opened) : opened'[i] = opened[i] /\ i \in DOMAIN opened
      BY <1>2, <1>5, <2>3 DEF h
    <2>6. \A i \in DOMAIN opened' : i \in 1..Len(opened) \/ i = Len(opened) + 1
      BY <2>5
    <2>7. OpenedInOrder'
      <3> SUFFICES ASSUME NEW i \in DOMAIN opened', NEW j \in DOMAIN opened',
                          i < j, OfOneHook(opened'[i], opened'[j])
                   PROVE  Precedes(opened'[i], opened'[j])
        BY <1>4 DEF OpenedInOrder, OfOneHook
      <3>1. i \in 1..Len(opened)
        BY <2>5, <2>6
      <3>2. CASE j \in 1..Len(opened)
        BY <1>2, <2>5, <3>1, <3>2 DEF OpenedInOrder
      <3>3. CASE j = Len(opened) + 1
        BY <1>1, <1>2, <2>3, <2>5, <3>1, <3>3 DEF StartsInOrder
      <3> QED
        BY <2>6, <3>2, <3>3
    <2>8. ASSUME NEW x, Pending(x)', OfOneHook(h, x) PROVE Precedes(h, x)
      <3>1. PICK k \in DOMAIN agenda' : x \in Range(agenda'[k].left)
        BY <2>8 DEF Pending
      <3>2. k = 1
        <4>1. CASE k # 1
          <5>1. x \in Range(agenda[k].left)
            BY <2>1, <3>1, <4>1
          <5>2. HookOf(x) = agenda[k].hook
            BY <1>2, <2>1, <3>1, <5>1 DEF AgendaKnown
          <5>3. agenda[k].hook = agenda[1].hook /\ k \in DOMAIN agenda
            BY <2>1, <2>3, <2>8, <3>1, <5>2 DEF OfOneHook
          <5> QED
            BY <1>1, <1>2, <2>1, <5>3 DEF StartsInOrder
        <4> QED
          BY <4>1
      <3>3. PICK a \in DOMAIN Tail(agenda[1].left) : x = Tail(agenda[1].left)[a]
        BY <2>1, <3>1, <3>2 DEF Range
      <3>4. a + 1 \in DOMAIN agenda[1].left /\ x = agenda[1].left[a + 1] /\ 1 < a + 1
        BY <1>1, <2>1, <3>3
      <3> QED
        BY <1>2, <2>1, <2>2, <3>4 DEF LeftInOrder
    <2>9. StartsInOrder'
      <3>1. ASSUME NEW i \in DOMAIN opened', NEW x, Pending(x)', OfOneHook(opened'[i], x)
            PROVE  Precedes(opened'[i], x)
        <4>1. CASE i \in 1..Len(opened)
          BY <1>1, <1>2, <2>4, <2>5, <3>1, <4>1 DEF StartsInOrder
        <4>2. CASE i = Len(opened) + 1
          BY <2>5, <2>8, <3>1, <4>2
        <4> QED
          BY <2>6, <4>1, <4>2
      <3>2. \A k, m \in DOMAIN agenda' : agenda'[k].hook = agenda'[m].hook => k = m
        BY <1>1, <1>2, <2>1 DEF StartsInOrder
      <3> QED
        BY <1>4, <3>1, <3>2 DEF StartsInOrder, OfOneHook
    <2> QED
      BY <1>3, <2>4, <2>7, <2>9 DEF OrderInv
  <1>6. CASE phase' = "failed" /\ agenda' = <<>> /\ opened' = opened
    <2>1. DOMAIN agenda' = {}
      BY <1>6
    <2> QED
      BY <1>2, <1>3, <1>4, <1>6, <2>1
         DEF OrderInv, LeftInOrder, OpenedInOrder, OfOneHook, StartsInOrder
  <1> QED
    BY <1>5, <1>6 DEF StartNext

\* Every other step opens nothing.
LEMMA OtherOrder ==
  ASSUME IInv, OrderInv,
         UNCHANGED <<plugins, mounts, startup_hooks, opened>>,
         phase' = "starting" => phase = "starting",
         \/ agenda' = agenda
         \/ agenda # <<>> /\ GoOn /\ agenda[1].left # <<>> /\ phase # "starting"
         \/ agenda # <<>> /\ agenda' = Tail(agenda)
         \/ agenda' = ContextCall \o Calls(StopOrder(shutdown_hooks)) /\ phase' # "starting"
  PROVE  OrderInv'
  <1>1. \A x, y : Precedes(x, y)' <=> Precedes(x, y)
    BY SameKnown
  <1>2. /\ TypeOK /\ NoRepeats /\ LeftInOrder /\ OpenedInOrder /\ StartsInOrder
    BY DEF IInv, OrderInv
  <1>3. NoRepeats' /\ OpenedInOrder'
    BY <1>1, <1>2, SameKnown DEF NoRepeats, OpenedInOrder, OfOneHook
  <1>4. LeftInOrder'
    <2>1. CASE agenda' = agenda
      BY <1>1, <1>2, <2>1 DEF LeftInOrder
    <2>2. CASE agenda # <<>> /\ ((GoOn /\ agenda[1].left # <<>>) \/ agenda' = Tail(agenda))
      BY <1>2, <2>2, LeftKept
    <2>3. CASE agenda' = ContextCall \o Calls(StopOrder(shutdown_hooks))
      BY <2>3, WholeCalls
    <2> QED
      BY <2>1, <2>2, <2>3
  <1>5. StartsInOrder'
    <2> SUFFICES ASSUME phase' = "starting"
                 PROVE  /\ \A k, m \in DOMAIN agenda' : agenda'[k].hook = agenda'[m].hook => k = m
                        /\ \A i \in DOMAIN opened : \A x :
                              Pending(x)' /\ OfOneHook(opened[i], x) => Precedes(opened[i], x)
      BY <1>1 DEF StartsInOrder, OfOneHook
    <2>1. CASE agenda' = agenda
      BY <1>2, <2>1 DEF StartsInOrder, Pending
    <2>2. CASE agenda # <<>> /\ agenda' = Tail(agenda)
      <3>1. \A k \in DOMAIN agenda' : k \in Int /\ k + 1 \in DOMAIN agenda /\ agenda'[k] = agenda[k + 1]
        <4>1. agenda' \in Seq(Call)
              /\ \A k \in DOMAIN agenda' : k + 1 \in DOMAIN agenda /\ agenda'[k] = agenda[k + 1]
          BY <1>2, <2>2, TailFacts
        <4> QED
          BY <4>1
      <3>2. \A x : Pending(x)' => Pending(x)
        BY <1>2, <2>2, LeftKept
      <3>3. phase = "starting"
        OBVIOUS
      <3>4. ASSUME NEW k \in DOMAIN agenda', NEW m \in DOMAIN agenda', agenda'[k].hook = agenda'[m].hook
            PROVE  k = m
        <4>1. k + 1 = m + 1
          BY <1>2, <3>1, <3>3, <3>4 DEF StartsInOrder
        <4> QED
          BY <3>1, <4>1
      <3> QED
        BY <1>2, <3>2, <3>3, <3>4 DEF StartsInOrder
    <2> QED
      BY <2>1, <2>2
  <1> QED
    BY <1>3, <1>4, <1>5 DEF OrderInv

\* Every step preserves the order.
LEMMA NextOrder == IInv /\ OrderInv /\ [Next]_vars => OrderInv'
  <1> SUFFICES ASSUME IInv, OrderInv, [Next]_vars PROVE OrderInv'
    OBVIOUS
  <1>1. CASE \/ \E p \in Plugins : AddPlugin(p)
             \/ \E m \in Mounts : MountGrpc(m)
             \/ \E h \in UserHooks : OnStartup(h) \/ OnShutdown(h)
    BY <1>1, BuildOrder
  <1>2. CASE Startup \/ StartNext
    BY <1>2, StartupOrder, StartNextOrder
  <1>3. CASE StartupComplete \/ ShutdownComplete
    <2>1. /\ UNCHANGED <<plugins, mounts, startup_hooks, opened, agenda>>
          /\ phase' # "starting"
      BY <1>3 DEF StartupComplete, ShutdownComplete, Unchanged, registry
    <2> QED
      BY <2>1, OtherOrder
  <1>4. CASE Shutdown
    <2>1. /\ UNCHANGED <<plugins, mounts, startup_hooks, opened>> /\ phase' = "stopping"
          /\ agenda' = ContextCall \o Calls(StopOrder(shutdown_hooks))
      BY <1>4 DEF Shutdown, Unchanged, registry
    <2> QED
      BY <2>1, OtherOrder
  <1>5. CASE StopNext
    <2>1. /\ UNCHANGED <<plugins, mounts, startup_hooks, opened, phase>>
          /\ phase = "stopping" /\ agenda # <<>> /\ agenda[1].left # <<>>
          /\ (GoOn \/ agenda' = Tail(agenda))
      BY <1>5 DEF StopNext, AfterFailure, Unchanged, registry
    <2> QED
      BY <2>1, OtherOrder
  <1>6. CASE Drain
    <2>1. /\ UNCHANGED <<plugins, mounts, startup_hooks, opened, phase>>
          /\ phase = "stopping" /\ agenda # <<>> /\ agenda[1].left # <<>> /\ GoOn
      BY <1>6 DEF Drain, Unchanged, registry
    <2> QED
      BY <2>1, OtherOrder
  <1>7. CASE HookReturns
    <2>1. /\ UNCHANGED <<plugins, mounts, startup_hooks, opened, phase>>
          /\ agenda # <<>> /\ agenda' = Tail(agenda)
      BY <1>7 DEF HookReturns, Unchanged, registry
    <2> QED
      BY <2>1, OtherOrder
  <1>8. CASE \/ \E r \in Requests : EnterRequest(r) \/ LeaveRequest(r)
             \/ UNCHANGED vars
    <2>1. UNCHANGED <<plugins, mounts, startup_hooks, opened, phase, agenda>>
      BY <1>8 DEF EnterRequest, LeaveRequest, vars, registry
    <2> QED
      BY <2>1, OtherOrder
  <1> QED
    BY <1>1, <1>2, <1>3, <1>4, <1>5, <1>6, <1>7, <1>8 DEF Next, Handle

-----------------------------------------------------------------------------
(* The theorems                                                            *)

\* IInv and the order of the things hold of every reachable state.
THEOREM Invariance == Spec => [](IInv /\ OrderInv)
  BY InitIInv, InitOrder, NextIInv, NextOrder, PTL DEF Spec

\* The variables keep their ranges, and HawkAPI._in_flight counts the requests
\* inside _core_handler through startup, serving and shutdown.
THEOREM TypeCorrect == Spec => []TypeOK
  <1>1. IInv => TypeOK
    BY DEF IInv
  <1> QED
    BY <1>1, Invariance, PTL

\* When run_shutdown has ended, what startup opened is closed unless there is
\* no hook for it, it raised, or what the same hook closes before it did, and
\* no request is in flight unless the wait for them gave up: a hook that
\* raises keeps no other from running, a plugin only those after it.
THEOREM ShutdownIsClean == Spec => []StopsClean
  <1>1. IInv => StopsClean
    <2> SUFFICES ASSUME IInv, phase = "stopped"
                 PROVE  LeftOpenExplained /\ (inFlight = 0 \/ timedOut)
      BY DEF StopsClean
    <2>1. agenda = <<>>
      BY DEF IInv, Ended
    <2>2. \A x : ~Pending(x)
      BY <2>1 DEF Pending
    <2> QED
      BY <2>2 DEF IInv, NothingForgotten, Excused, LeftOpenExplained
  <1> QED
    BY <1>1, Invariance, PTL

\* Shutdown closes hooks, gRPC servers, plugins and the context manager in the
\* reverse of the order they were opened in where they were registered in that
\* order, but plugins among themselves and gRPC servers among themselves in the
\* same order, whatever raises on the way.
THEOREM ClosingIsOrdered == Spec => ClosesInOrder
  <1> DEFINE Ordered ==
        phase = "stopping" =>
         \A x, y \in Range(opened) :
            Before(opened, x, y) =>
              /\ Stacked(x, y) /\ x \in closed' \ closed => ~Pending(y)'
              /\ OfOneHook(x, y) /\ y \in closed' \ closed => ~Pending(x)'
  <1>1. ASSUME IInv, Next, phase = "stopping",
               NEW i \in DOMAIN opened, NEW j \in DOMAIN opened,
               i < j, Stacked(opened[i], opened[j]), opened[i] \in closed' \ closed,
               NEW k \in DOMAIN agenda', opened[j] \in Range(agenda'[k].left)
        PROVE  FALSE
    <2> DEFINE x == opened[i]
               y == opened[j]
               n == Len(agenda)
    <2>1. StopNext /\ GoOn /\ x = Head(agenda[1].left)
      <3>1. closed' # closed
        BY <1>1
      <3>2. StopNext
        BY <1>1, <3>1, BuildStep DEF Next, Handle, Startup, StartNext, StartupComplete, Shutdown, Drain,
              HookReturns, ShutdownComplete, EnterRequest, LeaveRequest
      <3> QED
        BY <1>1, <3>2 DEF StopNext
    <2> HIDE DEF x, y
    <2>2. /\ agenda # <<>> /\ agenda[1].left # <<>>
          /\ TypeOK /\ Registered /\ AgendaKnown /\ ContextOnce /\ InStopOrder
      BY <1>1, <2>1 DEF StopNext, IInv
    <2>3. /\ agenda' \in Seq(Call) /\ Len(agenda') = n /\ x \in Range(agenda[1].left)
          /\ \A m \in DOMAIN agenda :
               /\ agenda'[m].hook = agenda[m].hook
               /\ Range(agenda'[m].left) \subseteq Range(agenda[m].left)
          /\ Len(agenda'[1].left) = Len(agenda[1].left) - 1
      BY <2>1, <2>2, GoOnFacts
    <2>4. /\ n \in Nat /\ DOMAIN agenda = 1..n /\ DOMAIN agenda' = 1..n /\ 1 \in 1..n
          /\ DOMAIN shutdown_hooks = 1..Len(shutdown_hooks)
      BY <2>2, <2>3 DEF TypeOK
    <2>5. y \in Range(agenda[k].left) /\ k \in 1..n
      BY <1>1, <2>3, <2>4 DEF y
    <2>6. HookOf(x) = agenda[1].hook /\ HookOf(y) = agenda[k].hook
      BY <2>2, <2>3, <2>4, <2>5 DEF AgendaKnown
    <2>7. \A m \in 1..n : agenda[m].hook = IF n + 1 - m = Len(shutdown_hooks) + 1 THEN "context"
                                           ELSE shutdown_hooks[n + 1 - m]
      BY <1>1, <2>2, <2>4 DEF InStopOrder
    <2>8. n <= Len(shutdown_hooks) + 1 /\ Len(shutdown_hooks) \in Nat
      BY <1>1, <2>2 DEF InStopOrder, TypeOK
    <2>9. \A m \in 1..Len(shutdown_hooks) : shutdown_hooks[m] # "context"
      <3>1. \A m \in 1..Len(shutdown_hooks) : shutdown_hooks[m] \in {"drain", "plugins", "grpc"} \cup UserHooks
        BY <2>2 DEF TypeOK
      <3> QED
        BY <3>1, NamesAssumption
    <2>10. CASE y = "context"
      <3>1. agenda[k].hook = "context"
        BY <2>6, <2>10, ContextFacts
      <3>2. k = 1
        <4>1. CASE n + 1 - k = Len(shutdown_hooks) + 1
          BY <2>4, <2>5, <2>8, <4>1
        <4>2. CASE n + 1 - k # Len(shutdown_hooks) + 1
          <5>1. n + 1 - k \in 1..Len(shutdown_hooks)
            BY <2>4, <2>5, <2>8, <4>2
          <5> QED
            BY <2>5, <2>7, <2>9, <3>1, <4>2, <5>1
        <4> QED
          BY <4>1, <4>2
      <3>3. agenda'[1] \in Call /\ agenda[1] \in Call
        BY <2>2, <2>3, <2>4 DEF TypeOK
      <3>4. agenda'[1].left \in Seq(AllThings) /\ agenda[1].left \in Seq(AllThings)
        BY <3>3 DEF Call
      <3>5. Len(agenda[1].left) <= 1
        BY <2>2, <2>4, <3>1, <3>2 DEF ContextOnce
      <3>6. DOMAIN agenda'[1].left = {}
        BY <2>3, <3>4, <3>5
      <3> QED
        BY <1>1, <3>2, <3>6 DEF Range
    <2>11. CASE y # "context"
      <3>1. PICK a, b \in 1..Len(shutdown_hooks) :
               a < b /\ shutdown_hooks[a] = HookOf(x) /\ shutdown_hooks[b] = HookOf(y)
        BY <1>1, <2>4, <2>11 DEF Stacked, Before, x, y
      <3>2. ASSUME NEW m \in 1..n, NEW e \in 1..Len(shutdown_hooks), shutdown_hooks[e] = agenda[m].hook
            PROVE  e = n + 1 - m
        <4>1. n + 1 - m # Len(shutdown_hooks) + 1 /\ agenda[m].hook = shutdown_hooks[n + 1 - m]
          BY <2>7, <2>9, <3>2
        <4>2. n + 1 - m \in 1..Len(shutdown_hooks)
          BY <2>4, <2>8, <4>1
        <4> QED
          BY <2>2, <2>4, <3>2, <4>1, <4>2 DEF Registered
      <3>3. a = n + 1 - 1 /\ b = n + 1 - k
        BY <2>4, <2>5, <2>6, <3>1, <3>2
      <3> QED
        BY <2>4, <2>5, <3>1, <3>3
    <2> QED
      BY <2>10, <2>11
  <1>2. ASSUME IInv, OrderInv, Next, phase = "stopping",
               NEW i \in DOMAIN opened, NEW j \in DOMAIN opened,
               i < j, OfOneHook(opened[i], opened[j]), opened[j] \in closed' \ closed,
               NEW k \in DOMAIN agenda', opened[i] \in Range(agenda'[k].left)
        PROVE  FALSE
    <2> DEFINE x == opened[i]
               y == opened[j]
    <2>1. StopNext /\ GoOn /\ y = Head(agenda[1].left)
      <3>1. closed' # closed
        BY <1>2
      <3>2. StopNext
        BY <1>2, <3>1, BuildStep DEF Next, Handle, Startup, StartNext, StartupComplete, Shutdown, Drain,
              HookReturns, ShutdownComplete, EnterRequest, LeaveRequest
      <3> QED
        BY <1>2, <3>2 DEF StopNext
    <2>2. Precedes(x, y)
      BY <1>2 DEF OrderInv, OpenedInOrder
    <2> HIDE DEF x, y
    <2>3. /\ agenda # <<>> /\ agenda[1].left # <<>>
          /\ TypeOK /\ Registered /\ AgendaKnown /\ InStopOrder /\ NoRepeats /\ LeftInOrder
      BY <1>2, <2>1 DEF StopNext, IInv, OrderInv
    <2>4. /\ agenda[1].left \in Seq(AllThings) /\ 1 \in DOMAIN agenda
          /\ DOMAIN agenda' = DOMAIN agenda
          /\ agenda'[1].left = Tail(agenda[1].left)
          /\ \A m \in DOMAIN agenda : m # 1 => agenda'[m] = agenda[m]
      BY <2>1, <2>3, GoOnExact
    <2>5. HookOf(y) = agenda[1].hook /\ HookOf(x) = HookOf(y) /\ HookOf(y) \in Hooks
      <3>1. Head(agenda[1].left) \in Range(agenda[1].left)
        BY <2>3, <2>4 DEF Range
      <3>2. agenda[1] \in Call
        BY <2>3, <2>4 DEF TypeOK
      <3> QED
        BY <1>2, <2>1, <2>3, <2>4, <3>1, <3>2 DEF AgendaKnown, Call, OfOneHook, x, y
    <2>6. k \in DOMAIN agenda /\ x \in Range(agenda'[k].left)
      BY <1>2, <2>4 DEF x
    <2>7. k = 1
      <3> SUFFICES ASSUME k # 1 PROVE FALSE
        OBVIOUS
      <3>1. agenda[k].hook = agenda[1].hook
        BY <2>3, <2>4, <2>5, <2>6 DEF AgendaKnown
      <3>2. /\ agenda[k].hook = IF Len(agenda) + 1 - k = Len(shutdown_hooks) + 1 THEN "context"
                                ELSE shutdown_hooks[Len(agenda) + 1 - k]
            /\ agenda[1].hook = IF Len(agenda) + 1 - 1 = Len(shutdown_hooks) + 1 THEN "context"
                                ELSE shutdown_hooks[Len(agenda) + 1 - 1]
            /\ Len(agenda) <= Len(shutdown_hooks) + 1
        BY <1>2, <2>3, <2>4 DEF InStopOrder
      <3>3. /\ Len(agenda) \in Nat /\ Len(shutdown_hooks) \in Nat /\ k \in 2..Len(agenda)
            /\ DOMAIN shutdown_hooks = 1..Len(shutdown_hooks)
        BY <2>3, <2>4 DEF TypeOK
      <3>4. Len(agenda) + 1 - k \in 1..Len(shutdown_hooks)
        BY <3>2, <3>3
      <3>5. agenda[k].hook = shutdown_hooks[Len(agenda) + 1 - k] /\ agenda[k].hook # "context"
        <4>1. shutdown_hooks[Len(agenda) + 1 - k] \in {"drain", "plugins", "grpc"} \cup UserHooks
          BY <2>3, <3>4 DEF TypeOK
        <4> QED
          BY <3>2, <3>3, <3>4, <4>1, NamesAssumption
      <3>6. Len(agenda) \in 1..Len(shutdown_hooks) /\ agenda[1].hook = shutdown_hooks[Len(agenda)]
        <4>1. Len(agenda) + 1 - 1 = Len(agenda)
          BY <3>3
        <4>2. agenda[1].hook = IF Len(agenda) = Len(shutdown_hooks) + 1 THEN "context"
                               ELSE shutdown_hooks[Len(agenda)]
          BY <3>2, <4>1
        <4>3. Len(agenda) # Len(shutdown_hooks) + 1
          BY <3>1, <3>5, <4>2
        <4>4. agenda[1].hook = shutdown_hooks[Len(agenda)]
          BY <4>2, <4>3
        <4>5. Len(agenda) \in 1..Len(shutdown_hooks)
          BY <3>2, <3>3, <4>3
        <4> QED
          BY <4>4, <4>5
      <3>7. Len(agenda) + 1 - k = Len(agenda)
        BY <2>3, <3>1, <3>3, <3>4, <3>5, <3>6 DEF Registered
      <3> QED
        BY <3>3, <3>7
    <2>8. PICK a \in DOMAIN Tail(agenda[1].left) : x = Tail(agenda[1].left)[a]
      BY <2>4, <2>6, <2>7 DEF Range
    <2>9. /\ a + 1 \in DOMAIN agenda[1].left /\ x = agenda[1].left[a + 1] /\ 1 < a + 1
          /\ 1 \in DOMAIN agenda[1].left /\ y = agenda[1].left[1]
      BY <2>1, <2>3, <2>4, <2>8
    <2>10. Precedes(y, x)
      BY <2>3, <2>4, <2>9 DEF LeftInOrder
    <2> QED
      BY <2>2, <2>3, <2>5, <2>10, OneWay
  <1>3. ASSUME IInv, OrderInv, Next PROVE Ordered
    <2> SUFFICES ASSUME phase = "stopping", NEW x, NEW y, Before(opened, x, y)
                 PROVE  /\ Stacked(x, y) /\ x \in closed' \ closed => ~Pending(y)'
                        /\ OfOneHook(x, y) /\ y \in closed' \ closed => ~Pending(x)'
      OBVIOUS
    <2>1. PICK i, j \in DOMAIN opened : i < j /\ opened[i] = x /\ opened[j] = y
      BY DEF Before
    <2>2. ASSUME Stacked(x, y), x \in closed' \ closed, Pending(y)' PROVE FALSE
      <3>1. PICK k \in DOMAIN agenda' : y \in Range(agenda'[k].left)
        BY <2>2 DEF Pending
      <3> QED
        BY <1>1, <1>3, <2>1, <2>2, <3>1
    <2>3. ASSUME OfOneHook(x, y), y \in closed' \ closed, Pending(x)' PROVE FALSE
      <3>1. PICK k \in DOMAIN agenda' : x \in Range(agenda'[k].left)
        BY <2>3 DEF Pending
      <3> QED
        BY <1>2, <1>3, <2>1, <2>3, <3>1
    <2> QED
      BY <2>2, <2>3
  <1>4. IInv /\ OrderInv /\ [Next]_vars => [Ordered]_vars
    BY <1>3
  <1> QED
    BY <1>4, Invariance, PTL DEF Spec, ClosesInOrder
=============================================================================
