-------------------------- MODULE WatchMirrorProofs --------------------------
(***************************************************************************)
(* Proofs about WatchMirror, for any destinations, metrics, nexthops and   *)
(* bounds: sra remembers ids of its own routes only, and without a cause   *)
(* of drift srmd has exactly the routes of the kernel.                     *)
(***************************************************************************)
EXTENDS WatchMirror, FiniteSetTheorems, WellFoundedInduction, TLAPS

-----------------------------------------------------------------------------
(* Natural numbers.                                                         *)

\* Every set of natural numbers that is not empty has a least element: among
\* the intervals 0 .. n that end in it one is contained in no smaller one.
LEMMA LeastElement ==
  ASSUME NEW T, T \subseteq Nat, T # {}
  PROVE  \E x \in T : \A y \in T : x <= y
<1> DEFINE Order == StrictSubsetOrdering(Nat)
           Intervals == {0 .. n : n \in T}
<1>1. Intervals \subseteq FiniteSubsetsOf(Nat) /\ Intervals # {}
  <2>1. ASSUME NEW n \in T PROVE 0 .. n \in SUBSET Nat /\ IsFiniteSet(0 .. n)
    BY FS_Interval
  <2> QED BY <2>1 DEF FiniteSubsetsOf
<1>2. PICK m \in T : \A n \in T : <<0 .. n, 0 .. m>> \notin Order
  <2> HIDE DEF Intervals, Order
  <2>1. \E I \in Intervals : \A J \in Intervals : <<J, I>> \notin Order
    BY <1>1, FS_StrictSubsetOrderingWellFounded, WFMin DEF Order
  <2> QED BY <2>1 DEF Intervals
<1>3. ASSUME NEW n \in T, n < m PROVE FALSE
  <2>1. n \in Nat /\ m \in Nat
    OBVIOUS
  <2>2. /\ 0 .. n \subseteq 0 .. m /\ m \in 0 .. m /\ m \notin 0 .. n
        /\ 0 .. n \subseteq Nat /\ 0 .. m \subseteq Nat
    BY <2>1, <1>3
  <2>3. <<0 .. n, 0 .. m>> \in Order
    BY <2>2 DEF StrictSubsetOrdering
  <2> QED BY <2>3, <1>2
<1> QED BY <1>3

-----------------------------------------------------------------------------
(* Types.                                                                   *)

\* The event at hand has a key, a route to remove is tracked, and before the
\* socket is open no event is queued.
TypeInv ==
  /\ TypeOK
  /\ wpc \in {"purge", "add", "remove"} => cur \in Keys
  /\ wpc = "remove" => cur \in Tracked
  /\ wpc \in {"start", "dump", "open"} => fd = "none" /\ nlq = <<>>

LEMMA KeyFacts ==
  /\ \A k \in Keys : k[1] \in Dests /\ k = <<k[1], k[2]>>
  /\ \A d \in Dests, h \in Hops : <<d, h>> \in Keys
  /\ Absent \notin Ids /\ NoId \notin Ids /\ Absent # NoId
  /\ Ids \subseteq Nat
  /\ NoKey \notin Keys
BY WatchAssumption DEF Keys, Absent, Ids, NoId, NoKey

\* The id srmd gives a new route: nobody uses it.
LEMMA NewIdIsFresh == Room => NewId \in Ids \ InUse
<1> SUFFICES ASSUME Room PROVE NewId \in Ids \ InUse
  OBVIOUS
<1> DEFINE Free == Ids \ InUse
<1>1. Free \subseteq Nat /\ Free # {}
  BY KeyFacts DEF Room
<1>2. \E i \in Free : \A j \in Free : i <= j
  <2> HIDE DEF Free
  <2> QED BY <1>1, LeastElement
<1> QED BY <1>2 DEF NewId

LEMMA EventKey ==
  ASSUME NEW d \in Dests, NEW H \in SUBSET Hops
  PROVE  /\ KeyOf(d, H) \in Keys /\ KeyOf(d, H)[1] = d
         /\ \A h \in Hops : H = {h} => KeyOf(d, H) = <<d, h>>
<1>1. ASSUME NEW h \in Hops, H = {h} PROVE KeyOf(d, H) = <<d, h>>
  <2>1. (CHOOSE g \in Hops : H = {g}) = h
    BY <1>1
  <2> QED BY <1>1, <2>1 DEF KeyOf
<1>2. CASE \E h \in H : H = {h}
  BY <1>1, <1>2 DEF Keys
<1>3. CASE ~\E h \in H : H = {h}
  BY <1>3 DEF KeyOf, Keys
<1> QED BY <1>1, <1>2, <1>3

LEMMA BlameType ==
  ASSUME why \in [Dests -> SUBSET Causes], NEW D, NEW c \in Causes, Blame(D, c)
  PROVE  why' \in [Dests -> SUBSET Causes]
BY DEF Blame

LEMMA FaultType ==
  ASSUME faults \in 0 .. MaxFaults, Fault
  PROVE  faults' \in 0 .. MaxFaults
BY WatchAssumption DEF Fault

\* What the calls to srmd leave typed.
LEMMA AddCallType ==
  ASSUME TypeOK, NEW k \in Keys, AddCall(k, mirror)
  PROVE  /\ mirror' \in [Keys -> Ids \cup {NoId, Absent}]
         /\ srmd' \in [Ids -> Keys \cup {NoKey}]
         /\ late' \subseteq ({"add"} \X Keys) \cup ({"remove"} \X Ids)
         /\ faults' \in 0 .. MaxFaults
         /\ why' \in [Dests -> SUBSET Causes]
         /\ mirror'[k] # Absent
         /\ \A j \in Keys \ {k} : mirror'[j] = mirror[j]
<1> USE KeyFacts DEF TypeOK
<1>1. CASE /\ Room
           /\ srmd' = [srmd EXCEPT ![NewId] = k]
           /\ mirror' = [mirror EXCEPT ![k] = NewId]
           /\ UNCHANGED <<late, faults, why>>
  BY <1>1, NewIdIsFresh
<1>2. CASE /\ Fault
           /\ late' = late \cup {<<"add", k>>}
           /\ mirror' = [mirror EXCEPT ![k] = NoId]
           /\ Blame({k[1]}, "failed add")
           /\ UNCHANGED srmd
  <2>1. why' \in [Dests -> SUBSET Causes]
    BY <1>2, BlameType DEF Causes
  <2>2. faults' \in 0 .. MaxFaults
    BY <1>2, FaultType
  <2>3. <<"add", k>> \in ({"add"} \X Keys) \cup ({"remove"} \X Ids)
    OBVIOUS
  <2>4. late' \subseteq ({"add"} \X Keys) \cup ({"remove"} \X Ids)
    BY <1>2, <2>3
  <2>5. mirror' \in [Keys -> Ids \cup {NoId, Absent}]
    BY <1>2
  <2>6. mirror'[k] # Absent /\ \A j \in Keys \ {k} : mirror'[j] = mirror[j]
    BY <1>2
  <2> QED BY <1>2, <2>1, <2>2, <2>4, <2>5, <2>6
<1> QED BY <1>1, <1>2 DEF AddCall

LEMMA RemoveCallType ==
  ASSUME TypeOK, NEW k \in Tracked, mirror[k] # NoId, RemoveCall(mirror[k], k)
  PROVE  /\ srmd' \in [Ids -> Keys \cup {NoKey}]
         /\ late' \subseteq ({"add"} \X Keys) \cup ({"remove"} \X Ids)
         /\ faults' \in 0 .. MaxFaults
         /\ why' \in [Dests -> SUBSET Causes]
<1> USE KeyFacts DEF TypeOK
<1>1. mirror[k] \in Ids /\ k \in Keys
  BY DEF Tracked
<1>2. CASE srmd' = [srmd EXCEPT ![mirror[k]] = NoKey] /\ UNCHANGED <<late, faults, why>>
  BY <1>1, <1>2
<1>3. CASE /\ Fault
           /\ late' = late \cup {<<"remove", mirror[k]>>}
           /\ Blame({k[1]}, "failed remove")
           /\ UNCHANGED srmd
  <2>1. why' \in [Dests -> SUBSET Causes]
    BY <1>3, BlameType DEF Causes
  <2>2. faults' \in 0 .. MaxFaults
    BY <1>3, FaultType
  <2>3. <<"remove", mirror[k]>> \in ({"add"} \X Keys) \cup ({"remove"} \X Ids)
    BY <1>1
  <2>4. late' \subseteq ({"add"} \X Keys) \cup ({"remove"} \X Ids)
    BY <1>3, <2>3
  <2> QED BY <1>3, <2>1, <2>2, <2>4
<1> QED BY <1>2, <1>3 DEF RemoveCall

LEMMA TypeInit == Init => TypeInv
<1> SUFFICES ASSUME Init PROVE TypeInv
  OBVIOUS
<1>1. overrun \in BOOLEAN /\ signalled \in BOOLEAN
  BY Zenon DEF Init
<1>2. why \in [Dests -> SUBSET Causes]
  BY DEF Init, Causes
<1>3. nlq \in Seq(Events) /\ Len(nlq) <= MaxQueue
  BY WatchAssumption DEF Init
<1>4. changes \in 0 .. MaxChanges /\ faults \in 0 .. MaxFaults
  BY WatchAssumption DEF Init
<1> QED BY <1>1, <1>2, <1>3, <1>4 DEF Init, TypeInv, TypeOK

\* What a change of the kernel's table leaves typed.
LEMMA NotifyType ==
  ASSUME TypeOK, NEW type \in {"ADDED", "CHANGED", "REMOVED"}, NEW d \in Dests,
         NEW H \in SUBSET Hops, NEW cause \in SUBSET Causes,
         Notify(type, d, H, cause)
  PROVE  /\ nlq' \in Seq(Events) /\ Len(nlq') <= MaxQueue
         /\ overrun' \in BOOLEAN
         /\ why' \in [Dests -> SUBSET Causes]
         /\ fd # "open" => nlq' = nlq
<1> USE DEF TypeOK
<1>1. why' \in [Dests -> SUBSET Causes]
  <2>1. \E C \in SUBSET Causes : why' = [why EXCEPT ![d] = @ \cup C]
    <3> DEFINE causes == (IF Cardinality(H) > 1 THEN {"multipath"} ELSE {}) \cup cause
    <3>1. causes \in SUBSET Causes
      BY DEF Causes
    <3>2. \/ why' = [why EXCEPT ![d] = @ \cup causes \cup
                                 (IF wpc = "start" THEN {} ELSE {"gap"})]
          \/ why' = [why EXCEPT ![d] = @ \cup causes \cup {"overrun"}]
          \/ why' = [why EXCEPT ![d] = @ \cup causes]
      BY Zenon DEF Notify
    <3> HIDE DEF causes
    <3>3. /\ causes \cup {"gap"} \in SUBSET Causes
          /\ causes \cup {"overrun"} \in SUBSET Causes
      BY <3>1 DEF Causes
    <3>4. \A C \in {{}, {"gap"}, {"overrun"}} :
            why[d] \cup causes \cup C = why[d] \cup (causes \cup C)
      OBVIOUS
    <3> QED BY <3>1, <3>2, <3>3, <3>4
  <2> QED BY <2>1
<1>2. CASE fd # "open" \/ Len(nlq) = MaxQueue
  BY <1>1, <1>2 DEF Notify
<1>3. CASE fd = "open" /\ Len(nlq) # MaxQueue
  <2>1. <<type, KeyOf(d, H)>> \in Events
    BY EventKey DEF Events
  <2>2. nlq' = Append(nlq, <<type, KeyOf(d, H)>>) /\ overrun' = overrun
    BY <1>3 DEF Notify
  <2> QED BY <1>1, <1>3, <2>1, <2>2, WatchAssumption
<1> QED BY <1>2, <1>3

LEMMA TypeKernel ==
  ASSUME TypeInv, Kernel
  PROVE  TypeInv'
<1> PICK d \in Dests, m \in Metrics :
      \/ \E H \in SUBSET Hops : AddKernelRoute(d, m, H) \/ ReplaceKernelRoute(d, m, H)
      \/ RemoveKernelRoute(d, m) \/ ReplaceByForeignRoute(d, m)
  BY DEF Kernel
<1> USE DEF TypeInv, TypeOK
<1>1. ASSUME NEW H \in SUBSET Hops, SetKernelRoute(d, m, H),
             nlq' \in Seq(Events), Len(nlq') <= MaxQueue, overrun' \in BOOLEAN,
             why' \in [Dests -> SUBSET Causes], fd # "open" => nlq' = nlq
      PROVE  TypeInv'
  <2>1. changes' \in 0 .. MaxChanges
    BY <1>1, WatchAssumption DEF SetKernelRoute
  <2>2. kernel' \in [Dests \X Metrics -> SUBSET Hops]
    BY <1>1 DEF SetKernelRoute
  <2>3. Tracked' = Tracked
    BY <1>1 DEF SetKernelRoute, Tracked
  <2> QED BY <1>1, <2>1, <2>2, <2>3 DEF SetKernelRoute
<1>2. ASSUME NEW H \in SUBSET Hops,
             AddKernelRoute(d, m, H) \/ ReplaceKernelRoute(d, m, H)
      PROVE  TypeInv'
  BY <1>1, <1>2, NotifyType
     DEF AddKernelRoute, ReplaceKernelRoute, Metric, Causes
<1>3. CASE RemoveKernelRoute(d, m)
  BY <1>1, <1>3, NotifyType DEF RemoveKernelRoute
<1>4. CASE ReplaceByForeignRoute(d, m)
  <2>1. why' \in [Dests -> SUBSET Causes]
    BY <1>4, BlameType DEF ReplaceByForeignRoute, Causes
  <2> QED BY <1>1, <1>4, <2>1 DEF ReplaceByForeignRoute
<1> QED BY <1>2, <1>3, <1>4

LEMMA ReceivedType ==
  ASSUME nlq \in Seq(Events), Len(nlq) <= MaxQueue, nlq # <<>>
  PROVE  /\ Tail(nlq) \in Seq(Events) /\ Len(Tail(nlq)) <= MaxQueue
         /\ Head(nlq) \in Events /\ Head(nlq)[2] \in Keys
<1>1. /\ Tail(nlq) \in Seq(Events) /\ Len(Tail(nlq)) = Len(nlq) - 1
      /\ Head(nlq) \in Events /\ Len(nlq) \in Nat
  OBVIOUS
<1>2. Len(nlq) - 1 <= MaxQueue
  BY <1>1, WatchAssumption
<1> QED BY <1>1, <1>2 DEF Events

LEMMA TypeWatch ==
  ASSUME TypeInv, Watch
  PROVE  TypeInv'
<1> USE KeyFacts DEF TypeInv, TypeOK, kernelVars, Tracked
<1>1. CASE Dump
  BY <1>1 DEF Dump
<1>2. CASE DumpDone
  BY <1>2 DEF DumpDone, AllDumped
<1>3. CASE Subscribe \/ RecvFails
  BY <1>3 DEF Subscribe, RecvFails
<1>4. ASSUME NEW t \in todo, AddDumped(t) PROVE TypeInv'
  <2>1. <<t[1], t[3]>> \in Keys
    BY <1>4
  <2> QED BY <1>4, <2>1, AddCallType DEF AddDumped
<1>5. CASE RecvAdded \/ RecvChanged \/ RecvRemoved
  <2>1. wpc = "recv" /\ fd = "open" /\ nlq # <<>> /\ nlq' = Tail(nlq)
    BY <1>5 DEF RecvAdded, RecvChanged, RecvRemoved, Receive, NextEvents
  <2>2. nlq' \in Seq(Events) /\ Len(nlq') <= MaxQueue /\ Head(nlq)[2] \in Keys
    BY <2>1, ReceivedType
  <2> QED BY <1>5, <2>1, <2>2 DEF RecvAdded, RecvChanged, RecvRemoved
<1>6. CASE PurgeDone
  BY <1>6 DEF PurgeDone
<1>7. CASE AddOne
  <2>1. cur \in Keys /\ AddCall(cur, mirror)
    BY <1>7 DEF AddOne
  <2>2. published' \subseteq Keys
    BY <1>7 DEF AddOne, Publish
  <2> QED BY <1>7, <2>1, <2>2, AddCallType DEF AddOne
<1>8. CASE RemoveOne
  <2>1. cur \in Tracked /\ mirror' \in [Keys -> Ids \cup {NoId, Absent}]
    BY <1>8 DEF RemoveOne, Erased
  <2>2. published' \subseteq Keys
    BY <1>8 DEF RemoveOne, Publish
  <2>3. CASE mirror[cur] = NoId
    BY <1>8, <2>1, <2>2, <2>3 DEF RemoveOne
  <2>4. CASE mirror[cur] # NoId
    BY <1>8, <2>1, <2>2, <2>4, RemoveCallType DEF RemoveOne
  <2> QED BY <2>3, <2>4
<1>9. ASSUME NEW k \in Keys, PurgeOne(k) PROVE TypeInv'
  <2>1. k \in Tracked /\ mirror' \in [Keys -> Ids \cup {NoId, Absent}]
    BY <1>9 DEF PurgeOne, Erased, Superseded
  <2>2. CASE mirror[k] = NoId
    BY <1>9, <2>1, <2>2 DEF PurgeOne
  <2>3. CASE mirror[k] # NoId
    BY <1>9, <2>1, <2>3, RemoveCallType DEF PurgeOne
  <2> QED BY <2>2, <2>3
<1> QED BY <1>1, <1>2, <1>3, <1>4, <1>5, <1>6, <1>7, <1>8, <1>9 DEF Watch

LEMMA TypeRest ==
  ASSUME TypeInv, Signal \/ RestartSrmd \/ \E c \in late : LateCall(c)
  PROVE  TypeInv'
<1> USE KeyFacts DEF TypeInv, TypeOK, kernelVars, Tracked
<1>1. CASE Signal
  BY <1>1 DEF Signal
<1>2. CASE RestartSrmd
  <2>1. why' \in [Dests -> SUBSET Causes]
    BY <1>2, BlameType DEF RestartSrmd, Causes
  <2>2. faults' \in 0 .. MaxFaults
    BY <1>2, WatchAssumption DEF RestartSrmd, Fault
  <2> QED BY <1>2, <2>1, <2>2 DEF RestartSrmd
<1>3. ASSUME NEW c \in late, LateCall(c) PROVE TypeInv'
  <2>1. (c[1] = "add" /\ c[2] \in Keys) \/ (c[1] # "add" /\ c[2] \in Ids)
    OBVIOUS
  <2>2. srmd' \in [Ids -> Keys \cup {NoKey}]
    BY <1>3, <2>1, NewIdIsFresh DEF LateCall
  <2> QED BY <1>3, <2>2 DEF LateCall
<1> QED BY <1>1, <1>2, <1>3

LEMMA TypeNext == TypeInv /\ [Next]_vars => TypeInv'
<1>1. TypeInv /\ UNCHANGED vars => TypeInv'
  BY DEF vars, kernelVars, TypeInv, TypeOK, Tracked
<1> QED BY <1>1, TypeKernel, TypeWatch, TypeRest DEF Next

-----------------------------------------------------------------------------
(* What the watch remembers: TrackingSound.                                 *)

\* No id is remembered for two keys, none whose removal srmd may still execute
\* is remembered, and the published table is kept until the next event.
TrackInv ==
  /\ TrackedIsLive
  /\ \A j, k \in Keys : mirror[j] \in Ids /\ mirror[j] = mirror[k] => j = k
  /\ \A i \in Ids, k \in Keys : <<"remove", i>> \in late => mirror[k] # i
  /\ wpc \in {"recv", "open"} => published = Tracked

\* A cause of drift is never forgotten.
LEMMA NotifyGrows ==
  ASSUME TypeOK, NEW type, NEW d \in Dests, NEW H, NEW cause, Notify(type, d, H, cause)
  PROVE  \A e \in Dests : why[e] \subseteq why'[e]
<1> DEFINE causes == (IF Cardinality(H) > 1 THEN {"multipath"} ELSE {}) \cup cause
<1>1. \/ why' = [why EXCEPT ![d] = @ \cup causes \cup
                              (IF wpc = "start" THEN {} ELSE {"gap"})]
      \/ why' = [why EXCEPT ![d] = @ \cup causes \cup {"overrun"}]
      \/ why' = [why EXCEPT ![d] = @ \cup causes]
  BY Zenon DEF Notify
<1> HIDE DEF causes
<1> QED BY <1>1 DEF TypeOK

LEMMA WhyGrows ==
  ASSUME TypeOK, [Next]_vars
  PROVE  \A d \in Dests : why[d] \subseteq why'[d]
<1>1. CASE Kernel
  BY <1>1, NotifyGrows
     DEF Kernel, AddKernelRoute, ReplaceKernelRoute, RemoveKernelRoute,
         ReplaceByForeignRoute, Blame, TypeOK
<1>2. ASSUME NEW t \in todo, AddDumped(t) PROVE \A d \in Dests : why[d] \subseteq why'[d]
  BY <1>2 DEF AddDumped, AddCall, Blame, TypeOK
<1>3. ASSUME NEW k \in Keys, PurgeOne(k) PROVE \A d \in Dests : why[d] \subseteq why'[d]
  BY ZenonT(30), <1>3 DEF PurgeOne, RemoveCall, Blame, TypeOK
<1>4. CASE AddOne
  BY <1>4 DEF AddOne, AddCall, Blame, TypeOK
<1>5. CASE RemoveOne
  BY ZenonT(30), <1>5 DEF RemoveOne, RemoveCall, Blame, TypeOK
<1>6. CASE RestartSrmd
  BY <1>6 DEF RestartSrmd, Blame, TypeOK
<1>7. CASE UNCHANGED why
  BY <1>7
<1>8. CASE \/ Dump \/ DumpDone \/ Subscribe \/ RecvFails \/ RecvAdded \/ RecvChanged
           \/ RecvRemoved \/ PurgeDone \/ Signal \/ \E c \in late : LateCall(c)
  BY <1>7, <1>8 DEF Dump, DumpDone, Subscribe, RecvFails, RecvAdded, RecvChanged,
                    RecvRemoved, PurgeDone, Signal, LateCall
<1> QED BY <1>1, <1>2, <1>3, <1>4, <1>5, <1>6, <1>7, <1>8 DEF Next, Watch, vars

\* An added route: its id is fresh.
LEMMA TrackAdd ==
  ASSUME TypeOK, TrackInv, NEW k \in Keys, AddCall(k, mirror),
         \A d \in Dests : why[d] \subseteq why'[d],
         wpc' \in {"recv", "open"} => published' = Tracked'
  PROVE  TrackInv'
<1> USE KeyFacts DEF TypeOK
<1>1. CASE /\ Room
           /\ srmd' = [srmd EXCEPT ![NewId] = k]
           /\ mirror' = [mirror EXCEPT ![k] = NewId]
           /\ UNCHANGED <<late, faults, why>>
  <2>1. /\ NewId \in Ids /\ \A j \in Keys : mirror[j] # NewId
        /\ <<"remove", NewId>> \notin late
    BY <1>1, NewIdIsFresh DEF InUse
  <2>2. TrackedIsLive'
    BY <1>1, <2>1 DEF TrackInv, TrackedIsLive, Tracked
  <2> QED BY <1>1, <2>1, <2>2 DEF TrackInv
<1>2. CASE /\ Fault
           /\ late' = late \cup {<<"add", k>>}
           /\ mirror' = [mirror EXCEPT ![k] = NoId]
           /\ Blame({k[1]}, "failed add")
           /\ UNCHANGED srmd
  <2>1. TrackedIsLive'
    BY <1>2 DEF TrackInv, TrackedIsLive, Tracked
  <2> QED BY <1>2, <2>1 DEF TrackInv
<1> QED BY <1>1, <1>2 DEF AddCall

\* A removed route: nobody else has its id.
LEMMA TrackRemove ==
  ASSUME TypeOK, TrackInv, NEW k \in Tracked, mirror' = Erased(k),
         IF mirror[k] = NoId THEN UNCHANGED <<srmd, late, faults, why>>
           ELSE RemoveCall(mirror[k], k),
         \A d \in Dests : why[d] \subseteq why'[d],
         wpc' \in {"recv", "open"} => published' = Tracked'
  PROVE  TrackInv'
<1> USE KeyFacts DEF TypeOK, Erased
<1>1. k \in Keys /\ mirror[k] # Absent
  BY DEF Tracked
<1>2. CASE mirror[k] = NoId
  <2>1. TrackedIsLive'
    BY <1>1, <1>2 DEF TrackInv, TrackedIsLive, Tracked
  <2> QED BY <1>1, <1>2, <2>1 DEF TrackInv
<1>3. CASE mirror[k] # NoId /\ srmd' = [srmd EXCEPT ![mirror[k]] = NoKey]
           /\ UNCHANGED <<late, faults, why>>
  <2>1. TrackedIsLive'
    BY <1>1, <1>3 DEF TrackInv, TrackedIsLive, Tracked
  <2> QED BY <1>1, <1>3, <2>1 DEF TrackInv
<1>4. CASE mirror[k] # NoId /\ late' = late \cup {<<"remove", mirror[k]>>}
           /\ UNCHANGED srmd
  <2>1. TrackedIsLive'
    BY <1>1, <1>4 DEF TrackInv, TrackedIsLive, Tracked
  <2> QED BY <1>1, <1>4, <2>1 DEF TrackInv
<1> QED BY <1>2, <1>3, <1>4 DEF RemoveCall

LEMMA TrackNext ==
  ASSUME TypeInv, TrackInv, [Next]_vars
  PROVE  TrackInv'
<1> USE KeyFacts DEF TypeInv
<1>1. TypeOK /\ \A d \in Dests : why[d] \subseteq why'[d]
  BY WhyGrows
\* What leaves srmd, the ids and the calls under way alone.
<1>2. ASSUME UNCHANGED <<mirror, srmd, late>>,
             wpc' \in {"recv", "open"} => published' = Tracked'
      PROVE  TrackInv'
  BY <1>1, <1>2 DEF TrackInv, TrackedIsLive, Tracked
<1>3. CASE Kernel
  BY <1>2, <1>3
     DEF Kernel, AddKernelRoute, ReplaceKernelRoute, RemoveKernelRoute,
         ReplaceByForeignRoute, SetKernelRoute, TrackInv, Tracked
<1>4. CASE Dump \/ DumpDone \/ Subscribe \/ RecvFails \/ PurgeDone \/ Signal
  BY <1>2, <1>4
     DEF Dump, DumpDone, Subscribe, RecvFails, PurgeDone, Signal, kernelVars,
         TrackInv, Tracked
<1>5. CASE RecvAdded \/ RecvChanged \/ RecvRemoved
  BY <1>2, <1>5
     DEF RecvAdded, RecvChanged, RecvRemoved, Receive, TrackInv, Tracked
<1>6. ASSUME NEW t \in todo, AddDumped(t) PROVE TrackInv'
  <2>1. <<t[1], t[3]>> \in Keys
    BY <1>1 DEF TypeOK, Keys
  <2> QED BY <1>1, <1>6, <2>1, TrackAdd DEF AddDumped
<1>7. CASE AddOne
  BY <1>1, <1>7, TrackAdd DEF AddOne, Publish, Tracked
<1>8. CASE RemoveOne
  BY <1>1, <1>8, TrackRemove DEF RemoveOne, Publish, Tracked
<1>9. ASSUME NEW k \in Keys, PurgeOne(k) PROVE TrackInv'
  BY <1>1, <1>9, TrackRemove DEF PurgeOne, Superseded
<1>10. CASE RestartSrmd
  <2>1. \A d \in Dests : "restart" \in why'[d]
    BY <1>10, <1>1 DEF RestartSrmd, Blame, TypeOK
  <2>2. TrackedIsLive'
    BY <2>1 DEF TrackedIsLive, Tracked
  <2> QED BY <1>10, <2>2 DEF RestartSrmd, TrackInv, Tracked
<1>11. ASSUME NEW c \in late, LateCall(c) PROVE TrackInv'
  <2>1. CASE c[1] = "add"
    <3>1. NewId \in Ids /\ \A j \in Keys : mirror[j] # NewId
      BY <1>11, <2>1, NewIdIsFresh DEF LateCall, InUse
    <3>2. TrackedIsLive'
      BY <1>1, <1>11, <2>1, <3>1 DEF LateCall, TrackInv, TrackedIsLive, Tracked, TypeOK
    <3> QED BY <1>11, <3>2 DEF LateCall, TrackInv, Tracked
  <2>2. CASE c[1] # "add"
    <3>1. c[2] \in Ids /\ c = <<"remove", c[2]>>
      BY <1>1, <2>2 DEF TypeOK
    <3>2. TrackedIsLive'
      BY <1>1, <1>11, <2>2, <3>1 DEF LateCall, TrackInv, TrackedIsLive, Tracked, TypeOK
    <3> QED BY <1>11, <3>2 DEF LateCall, TrackInv, Tracked
  <2> QED BY <2>1, <2>2
<1>12. CASE UNCHANGED vars
  BY <1>2, <1>12 DEF vars, TrackInv, Tracked
<1> QED BY <1>3, <1>4, <1>5, <1>6, <1>7, <1>8, <1>9, <1>10, <1>11, <1>12
        DEF Next, Watch

\* The ids the watch remembers are those of its own routes in srmd, whatever
\* calls failed or came late and whatever ids srmd gives, and UDP clients are
\* shown the table after the last event: nlWatchCb's ctx.routes and publish().
THEOREM TrackingIsSound == Spec => []TrackingSound
<1>1. Init => TypeInv /\ TrackInv
  BY TypeInit, KeyFacts DEF Init, TrackInv, TrackedIsLive, Tracked
<1>2. TypeInv /\ TrackInv /\ [Next]_vars => (TypeInv /\ TrackInv)'
  BY TypeNext, TrackNext
<1>3. TypeInv /\ TrackInv => TrackingSound
  BY DEF TypeInv, TrackInv, TrackingSound, PublishedIsTracked
<1> QED BY <1>1, <1>2, <1>3, PTL DEF Spec

-----------------------------------------------------------------------------
(* Without a cause of drift the mirror is exact: MirrorExact.               *)

\* What a destination without a cause of drift may be routed to.
Aims == Hops \cup {None}

\* The kernel routes d to v and to nothing else, by at most one route.
KernelIs(d, v) ==
  IF v = None THEN \A m \in Metrics : kernel[<<d, m>>] = {}
  ELSE \E m \in Metrics : /\ kernel[<<d, m>>] = {v}
                          /\ \A n \in Metrics \ {m} : kernel[<<d, n>>] = {}

\* An event tells that d, routed to v, is routed to w from then on.
Moves(e, v, w) ==
  \/ e[1] = "ADDED" /\ v = None /\ w = e[2][2] /\ w \in Hops
  \/ e[1] = "CHANGED" /\ w = e[2][2] /\ v \in Hops /\ w \in Hops
  \/ e[1] = "REMOVED" /\ v = e[2][2] /\ v \in Hops /\ w = None
MovesTo(e, d, v, w) == IF e[2][1] = d THEN Moves(e, v, w) ELSE w = v

\* The events of q lead d from v to w.
Leads(q, d, v, w) ==
  \E st \in [0 .. Len(q) -> Aims] :
    /\ st[0] = v /\ st[Len(q)] = w
    /\ \A k \in 1 .. Len(q) : MovesTo(q[k], d, st[k - 1], st[k])

\* What the watch makes of d once the dump and the event at hand are done,
\* the events still queued left aside.
TrackedTo(d) == {k \in Tracked : k[1] = d}
TodoTo(d) == {t \in todo : t[1] = d}
Busy(d) == wpc \in {"purge", "add", "remove"} /\ cur[1] = d
AimIs(d, v) ==
  IF wpc = "start" THEN TrackedTo(d) = {}
  ELSE IF ~Busy(d) THEN
    IF v = None THEN TrackedTo(d) = {} /\ TodoTo(d) = {}
    ELSE \/ TrackedTo(d) = {<<d, v>>} /\ TodoTo(d) = {}
         \/ TrackedTo(d) = {} /\ \E m \in Metrics : TodoTo(d) = {<<d, m, v>>}
  ELSE IF wpc = "add" THEN v = cur[2] /\ v \in Hops /\ TrackedTo(d) = {}
  ELSE IF wpc = "purge" THEN v = cur[2] /\ v \in Hops
  ELSE v = None /\ TrackedTo(d) = {cur}

\* srmd has of the routes to d what the watch remembers, and will get no other.
OwnIds(d) ==
  \A k \in Keys : k[1] = d =>
    /\ mirror[k] # NoId /\ <<"add", k>> \notin late
    /\ \A i \in Ids : srmd[i] = k <=> mirror[k] = i

\* What the watch makes of d, led on by the events queued, is what the kernel
\* has.
OnCourse(d) ==
  \E v, w \in Aims : AimIs(d, v) /\ Leads(nlq, d, v, w) /\ KernelIs(d, w)

ExactInv == \A d \in Dests : why[d] = {} => OwnIds(d) /\ OnCourse(d)

LEMMA LeadsNowhere ==
  ASSUME NEW d, NEW v \in Aims, NEW w \in Aims
  PROVE  Leads(<<>>, d, v, w) <=> v = w
<1>1. ASSUME v = w PROVE Leads(<<>>, d, v, w)
  <2> DEFINE st == [k \in 0 .. 0 |-> v]
  <2>1. st \in [0 .. Len(<<>>) -> Aims] /\ st[0] = v /\ Len(<<>>) = 0
    OBVIOUS
  <2> HIDE DEF st
  <2> QED BY <1>1, <2>1 DEF Leads
<1>2. Leads(<<>>, d, v, w) => v = w
  BY DEF Leads
<1> QED BY <1>1, <1>2

LEMMA LeadsOn ==
  ASSUME NEW q \in Seq(Events), NEW e \in Events, NEW d,
         NEW v \in Aims, NEW w \in Aims, NEW x \in Aims,
         Leads(q, d, v, w), MovesTo(e, d, w, x)
  PROVE  Leads(Append(q, e), d, v, x)
<1> DEFINE n == Len(q)
           r == Append(q, e)
<1>1. PICK st \in [0 .. n -> Aims] :
        /\ st[0] = v /\ st[n] = w
        /\ \A k \in 1 .. n : MovesTo(q[k], d, st[k - 1], st[k])
  BY DEF Leads
<1>2. /\ n \in Nat /\ Len(r) = n + 1 /\ r[n + 1] = e
      /\ \A k \in 1 .. n : r[k] = q[k]
  OBVIOUS
<1> DEFINE su == [k \in 0 .. n + 1 |-> IF k = n + 1 THEN x ELSE st[k]]
<1> HIDE DEF n, r
<1>3. /\ su \in [0 .. n + 1 -> Aims] /\ su[0] = v /\ su[n + 1] = x
      /\ \A k \in 0 .. n : su[k] = st[k]
  BY <1>1, <1>2
<1> HIDE DEF su
<1>4. ASSUME NEW k \in 1 .. n + 1 PROVE MovesTo(r[k], d, su[k - 1], su[k])
  <2>1. CASE k = n + 1
    <3>1. su[k - 1] = w /\ su[k] = x /\ r[k] = e
      BY <1>1, <1>2, <1>3, <2>1
    <3> QED BY <3>1
  <2>2. CASE k \in 1 .. n
    <3>1. k - 1 \in 0 .. n /\ k \in 0 .. n
      BY <1>2, <2>2
    <3>2. su[k - 1] = st[k - 1] /\ su[k] = st[k] /\ r[k] = q[k]
      BY <1>2, <1>3, <2>2, <3>1
    <3> QED BY <1>1, <2>2, <3>2
  <2> QED BY <1>2, <2>1, <2>2
<1>5. Leads(r, d, v, x)
  BY <1>2, <1>3, <1>4 DEF Leads
<1> QED BY <1>5 DEF r

LEMMA LeadsFrom ==
  ASSUME NEW q \in Seq(Events), q # <<>>, NEW d,
         NEW v \in Aims, NEW w \in Aims, Leads(q, d, v, w)
  PROVE  \E u \in Aims : MovesTo(Head(q), d, v, u) /\ Leads(Tail(q), d, u, w)
<1> DEFINE n == Len(q)
           r == Tail(q)
<1>1. PICK st \in [0 .. n -> Aims] :
        /\ st[0] = v /\ st[n] = w
        /\ \A k \in 1 .. n : MovesTo(q[k], d, st[k - 1], st[k])
  BY DEF Leads
<1>2. /\ n \in Nat /\ n > 0 /\ Len(r) = n - 1 /\ Head(q) = q[1]
      /\ \A k \in 1 .. n - 1 : r[k] = q[k + 1]
  OBVIOUS
<1> DEFINE su == [k \in 0 .. n - 1 |-> st[k + 1]]
<1> HIDE DEF n, r
<1>3. /\ su \in [0 .. n - 1 -> Aims] /\ su[0] = st[1] /\ su[n - 1] = w
      /\ \A k \in 0 .. n - 1 : su[k] = st[k + 1]
  BY <1>1, <1>2
<1> HIDE DEF su
<1>4. ASSUME NEW k \in 1 .. n - 1 PROVE MovesTo(r[k], d, su[k - 1], su[k])
  <2>1. k + 1 \in 1 .. n /\ k - 1 \in 0 .. n - 1 /\ k \in 0 .. n - 1
        /\ k + 1 - 1 = k /\ k - 1 + 1 = k
    BY <1>2
  <2>2. su[k - 1] = st[k] /\ su[k] = st[k + 1] /\ r[k] = q[k + 1]
    BY <1>2, <1>3, <2>1
  <2>3. MovesTo(q[k + 1], d, st[k], st[k + 1])
    BY <1>1, <2>1
  <2> QED BY <2>2, <2>3
<1>5. Leads(r, d, st[1], w)
  BY <1>2, <1>3, <1>4 DEF Leads
<1>6. 1 \in 1 .. n /\ 1 - 1 = 0 /\ 1 \in 0 .. n
  BY <1>2
<1>7. MovesTo(Head(q), d, v, st[1]) /\ st[1] \in Aims
  BY <1>1, <1>2, <1>6
<1> QED BY <1>5, <1>7 DEF r

\* A route without RTA_MULTIPATH has one nexthop.
LEMMA OneHop ==
  ASSUME NEW H \in SUBSET Hops, H # {}, ~(Cardinality(H) > 1)
  PROVE  \E h \in Hops : H = {h}
<1>1. PICK h \in H : TRUE
  OBVIOUS
<1>2. IsFiniteSet(H) /\ Cardinality(H) \in Nat
  BY WatchAssumption, FS_Subset, FS_CardinalityType
<1>3. /\ Cardinality(H \ {h}) = Cardinality(H) - 1
      /\ IsFiniteSet(H \ {h}) /\ Cardinality(H \ {h}) \in Nat
  BY <1>1, <1>2, FS_RemoveElement, FS_CardinalityType
<1>4. Cardinality(H \ {h}) = 0
  BY <1>2, <1>3
<1>5. H \ {h} = {}
  BY <1>3, <1>4, FS_EmptySet
<1> QED BY <1>1, <1>5

LEMMA ExactInit == Init => ExactInv
<1> SUFFICES ASSUME Init, NEW d \in Dests, why[d] = {}
             PROVE  OwnIds(d) /\ OnCourse(d)
  BY DEF ExactInv
<1> DEFINE Used == {m \in Metrics : kernel[<<d, m>>] # {}}
<1>1. OwnIds(d)
  BY KeyFacts DEF Init, OwnIds
<1>2. /\ \A m \in Metrics : ~(Cardinality(kernel[<<d, m>>]) > 1)
      /\ ~(Cardinality(Used) > 1)
  BY DEF Init
<1>3. \E v \in Aims : KernelIs(d, v)
  <2>1. CASE Used = {}
    BY <2>1 DEF KernelIs, Aims
  <2>2. CASE Used # {}
    <3>1. PICK m \in Metrics : kernel[<<d, m>>] # {}
      BY <2>2
    <3>2. PICK h \in Hops : kernel[<<d, m>>] = {h}
      BY <1>2, <3>1, OneHop DEF Init
    <3>3. \A n \in Metrics \ {m} : kernel[<<d, n>>] = {}
      <4>1. IsFiniteSet(Used) /\ m \in Used
        BY WatchAssumption, FS_Subset, <3>1
      <4>2. IsFiniteSet(Used \ {m}) /\ Cardinality(Used \ {m}) = Cardinality(Used) - 1
        BY <4>1, FS_RemoveElement
      <4>3. Cardinality(Used) \in Nat /\ Cardinality(Used \ {m}) \in Nat
        BY <4>1, <4>2, FS_CardinalityType
      <4> HIDE DEF Used
      <4>4. Cardinality(Used \ {m}) = 0
        BY <1>2, <4>2, <4>3
      <4>5. Used \ {m} = {}
        BY <4>2, <4>4, FS_EmptySet
      <4> QED BY <4>5 DEF Used
    <3>4. h # None
      BY WatchAssumption
    <3> QED BY <3>2, <3>3, <3>4 DEF KernelIs, Aims
  <2> QED BY <2>1, <2>2
<1>4. PICK v \in Aims : KernelIs(d, v)
  BY <1>3
<1>5. Leads(nlq, d, v, v)
  BY LeadsNowhere DEF Init
<1>6. AimIs(d, v)
  BY KeyFacts DEF Init, AimIs, TrackedTo, Tracked
<1> QED BY <1>1, <1>4, <1>5, <1>6 DEF OnCourse

-----------------------------------------------------------------------------
(* The routes of srmd.                                                      *)

\* The routes to e after a route was added that srmd has not got.
LEMMA OwnAdd ==
  ASSUME TypeOK, TrackInv, NEW k \in Keys, AddCall(k, mirror), NEW e \in Dests,
         why'[e] = {}, OwnIds(e), k[1] = e => mirror[k] = Absent
  PROVE  OwnIds(e)'
<1> USE KeyFacts DEF TypeOK
<1>1. CASE /\ Room
           /\ srmd' = [srmd EXCEPT ![NewId] = k]
           /\ mirror' = [mirror EXCEPT ![k] = NewId]
           /\ UNCHANGED <<late, faults, why>>
  <2>1. NewId \in Ids /\ srmd[NewId] = NoKey /\ \A j \in Keys : mirror[j] # NewId
    BY <1>1, NewIdIsFresh DEF InUse
  <2> QED BY <1>1, <2>1 DEF OwnIds
<1>2. CASE /\ Fault
           /\ late' = late \cup {<<"add", k>>}
           /\ mirror' = [mirror EXCEPT ![k] = NoId]
           /\ Blame({k[1]}, "failed add")
           /\ UNCHANGED srmd
  <2>1. k[1] # e
    BY <1>2 DEF Blame
  <2>2. ASSUME NEW j \in Keys, j[1] = e
        PROVE  mirror'[j] = mirror[j] /\ (<<"add", j>> \in late' <=> <<"add", j>> \in late)
    BY <1>2, <2>1, <2>2
  <2>3. srmd' = srmd
    BY <1>2
  <2> QED BY <2>2, <2>3 DEF OwnIds
<1> QED BY <1>1, <1>2 DEF AddCall

LEMMA OwnRemove ==
  ASSUME TypeOK, TrackInv, NEW k \in Tracked, mirror' = Erased(k),
         IF mirror[k] = NoId THEN UNCHANGED <<srmd, late, faults, why>>
           ELSE RemoveCall(mirror[k], k),
         NEW e \in Dests, why'[e] = {}, OwnIds(e)
  PROVE  OwnIds(e)'
<1> USE KeyFacts DEF TypeOK, Erased
<1>1. k \in Keys /\ mirror[k] # Absent
  BY DEF Tracked
<1>2. CASE mirror[k] = NoId
  BY <1>1, <1>2 DEF OwnIds
<1>3. CASE mirror[k] # NoId /\ srmd' = [srmd EXCEPT ![mirror[k]] = NoKey]
           /\ UNCHANGED <<late, faults, why>>
  <2>1. \A j \in Keys : mirror[j] = mirror[k] => j = k
    BY <1>1, <1>3 DEF TrackInv
  <2> QED BY <1>1, <1>3, <2>1 DEF OwnIds
<1>4. CASE mirror[k] # NoId /\ late' = late \cup {<<"remove", mirror[k]>>}
           /\ Blame({k[1]}, "failed remove") /\ UNCHANGED srmd
  <2>1. k[1] # e
    BY <1>4 DEF Blame
  <2>2. ASSUME NEW j \in Keys, j[1] = e
        PROVE  mirror'[j] = mirror[j] /\ (<<"add", j>> \in late' <=> <<"add", j>> \in late)
    BY <1>4, <2>1, <2>2
  <2>3. srmd' = srmd
    BY <1>4
  <2> QED BY <2>2, <2>3 DEF OwnIds
<1> QED BY <1>2, <1>3, <1>4 DEF RemoveCall

LEMMA OwnNext ==
  ASSUME TypeInv, TrackInv, [Next]_vars,
         NEW e \in Dests, why[e] = {}, why'[e] = {}, OwnIds(e), OnCourse(e)
  PROVE  OwnIds(e)'
<1> USE KeyFacts
<1>1. TypeOK
  BY DEF TypeInv
<1>2. CASE UNCHANGED <<mirror, srmd, late>>
  BY <1>2 DEF OwnIds
<1>3. CASE Kernel
  BY <1>2, <1>3
     DEF Kernel, AddKernelRoute, ReplaceKernelRoute, RemoveKernelRoute,
         ReplaceByForeignRoute, SetKernelRoute
<1>4. CASE \/ Dump \/ DumpDone \/ Subscribe \/ RecvFails \/ PurgeDone \/ Signal
           \/ RecvAdded \/ RecvChanged \/ RecvRemoved
  BY <1>2, <1>4
     DEF Dump, DumpDone, Subscribe, RecvFails, PurgeDone, Signal, RecvAdded,
         RecvChanged, RecvRemoved
<1>5. ASSUME NEW t \in todo, AddDumped(t) PROVE OwnIds(e)'
  <2> DEFINE k == <<t[1], t[3]>>
  <2>1. k \in Keys /\ k[1] = t[1]
    BY <1>1 DEF TypeOK, Keys
  <2>2. ASSUME t[1] = e PROVE mirror[k] = Absent
    <3>1. t \in TodoTo(e) /\ wpc = "dump"
      BY <1>5, <2>2 DEF TodoTo, AddDumped
    <3>2. TrackedTo(e) = {}
      BY <3>1 DEF OnCourse, AimIs, Busy
    <3> QED BY <2>1, <2>2, <3>2 DEF TrackedTo, Tracked
  <2> HIDE DEF k
  <2> QED BY <1>1, <1>5, <2>1, <2>2, OwnAdd DEF AddDumped, k
<1>6. CASE AddOne
  <2>1. cur \in Keys /\ wpc = "add" /\ AddCall(cur, mirror)
    BY <1>6 DEF AddOne, TypeInv
  <2>2. ASSUME cur[1] = e PROVE mirror[cur] = Absent
    <3>1. TrackedTo(e) = {}
      BY <2>1, <2>2 DEF OnCourse, AimIs, Busy
    <3> QED BY <2>1, <2>2, <3>1 DEF TrackedTo, Tracked
  <2> QED BY <1>1, <2>1, <2>2, OwnAdd
<1>7. CASE RemoveOne
  BY <1>1, <1>7, OwnRemove DEF RemoveOne, TypeInv
<1>8. ASSUME NEW k \in Keys, PurgeOne(k) PROVE OwnIds(e)'
  BY <1>1, <1>8, OwnRemove DEF PurgeOne, Superseded
<1>9. CASE RestartSrmd
  BY <1>1, <1>9 DEF RestartSrmd, Blame, TypeOK
<1>10. ASSUME NEW c \in late, LateCall(c) PROVE OwnIds(e)'
  <2>1. CASE c[1] = "add"
    <3>1. c[2] \in Keys /\ c = <<"add", c[2]>>
      BY <1>1, <2>1 DEF TypeOK
    <3>2. /\ NewId \in Ids /\ srmd[NewId] = NoKey
          /\ \A j \in Keys : mirror[j] # NewId
      BY <1>10, <2>1, NewIdIsFresh DEF LateCall, InUse
    <3>3. c[2][1] # e
      BY <3>1 DEF OwnIds
    <3> QED BY <1>1, <1>10, <2>1, <3>1, <3>2, <3>3 DEF LateCall, OwnIds, TypeOK
  <2>2. CASE c[1] # "add"
    <3>1. c[2] \in Ids /\ c = <<"remove", c[2]>>
      BY <1>1, <2>2 DEF TypeOK
    <3>2. \A j \in Keys : mirror[j] # c[2]
      BY <3>1 DEF TrackInv
    <3> QED BY <1>1, <1>10, <2>2, <3>1, <3>2 DEF LateCall, OwnIds, TypeOK
  <2> QED BY <2>1, <2>2
<1>11. CASE UNCHANGED vars
  BY <1>2, <1>11 DEF vars
<1> QED BY <1>3, <1>4, <1>5, <1>6, <1>7, <1>8, <1>9, <1>10, <1>11
        DEF Next, Watch

-----------------------------------------------------------------------------
(* The course of a destination.                                             *)

\* An event of a destination nobody blames enters the queue, or finds no
\* socket before the dump; an event of another one may be lost.
LEMMA Notified ==
  ASSUME TypeOK, NEW type \in {"ADDED", "CHANGED", "REMOVED"}, NEW d \in Dests,
         NEW H \in SUBSET Hops, NEW cause, Notify(type, d, H, cause),
         NEW e \in Dests, why'[e] = {}
  PROVE  /\ d = e => ~(Cardinality(H) > 1) /\ cause = {}
         /\ nlq' = nlq \/ nlq' = Append(nlq, <<type, KeyOf(d, H)>>)
         /\ d = e /\ wpc # "start" => nlq' = Append(nlq, <<type, KeyOf(d, H)>>)
<1> DEFINE causes == (IF Cardinality(H) > 1 THEN {"multipath"} ELSE {}) \cup cause
<1>1. d = e => causes \subseteq why'[e]
  <2>1. \/ why' = [why EXCEPT ![d] = @ \cup causes \cup
                              (IF wpc = "start" THEN {} ELSE {"gap"})]
        \/ why' = [why EXCEPT ![d] = @ \cup causes \cup {"overrun"}]
        \/ why' = [why EXCEPT ![d] = @ \cup causes]
    BY Zenon DEF Notify
  <2> HIDE DEF causes
  <2> QED BY <2>1 DEF TypeOK
<1>2. d = e => ~(Cardinality(H) > 1) /\ cause = {}
  BY <1>1
<1> HIDE DEF causes
<1>3. CASE fd # "open"
  <2>1. nlq' = nlq /\ why' = [why EXCEPT ![d] = @ \cup causes \cup
                                (IF wpc = "start" THEN {} ELSE {"gap"})]
    BY Zenon, <1>3 DEF Notify, causes
  <2>2. ASSUME d = e, wpc # "start" PROVE FALSE
    BY <2>1, <2>2 DEF TypeOK
  <2> QED BY <1>2, <2>1, <2>2
<1>4. CASE fd = "open" /\ Len(nlq) = MaxQueue
  <2>1. nlq' = nlq /\ why' = [why EXCEPT ![d] = @ \cup causes \cup {"overrun"}]
    BY Zenon, <1>4 DEF Notify, causes
  <2>2. ASSUME d = e PROVE FALSE
    BY <2>1, <2>2 DEF TypeOK
  <2> QED BY <1>2, <2>1, <2>2
<1>5. CASE fd = "open" /\ Len(nlq) # MaxQueue
  <2>1. nlq' = Append(nlq, <<type, KeyOf(d, H)>>)
    BY <1>5 DEF Notify
  <2> QED BY <1>2, <2>1
<1> QED BY <1>3, <1>4, <1>5

\* The kernel changes a route to e from w to x and tells so.
LEMMA CourseEvent ==
  ASSUME TypeInv, NEW type \in {"ADDED", "CHANGED", "REMOVED"}, NEW d \in Dests,
         NEW H \in SUBSET Hops, NEW cause, Notify(type, d, H, cause),
         NEW e \in Dests, why'[e] = {},
         NEW v \in Aims, NEW w \in Aims, NEW x \in Aims,
         AimIs(e, v), Leads(nlq, e, v, w), KernelIs(e, x)',
         UNCHANGED <<wpc, todo, cur, mirror>>,
         IF d = e THEN Moves(<<type, KeyOf(d, H)>>, w, x) ELSE x = w
  PROVE  OnCourse(e)'
<1> DEFINE ev == <<type, KeyOf(d, H)>>
<1>1. TypeOK /\ nlq \in Seq(Events) /\ ev \in Events /\ ev[2][1] = d
  BY EventKey DEF TypeInv, TypeOK, Events
<1>2. AimIs(e, v)'
  BY DEF AimIs, Busy, TrackedTo, TodoTo, Tracked
<1>3. MovesTo(ev, e, w, x)
  BY <1>1 DEF MovesTo
<1>4. /\ nlq' = nlq \/ nlq' = Append(nlq, ev)
      /\ d = e /\ wpc # "start" => nlq' = Append(nlq, ev)
  BY <1>1, Notified
<1> HIDE DEF ev
<1>5. CASE nlq' = Append(nlq, ev)
  <2>1. Leads(Append(nlq, ev), e, v, x)
    BY <1>1, <1>3, LeadsOn
  <2> QED BY <1>2, <1>5, <2>1 DEF OnCourse, Leads
<1>6. CASE nlq' = nlq /\ d # e
  <2>1. Leads(nlq, e, v, x)
    BY <1>6
  <2> QED BY <1>2, <1>6, <2>1 DEF OnCourse, Leads
<1>7. CASE nlq' = nlq /\ wpc = "start"
  <2>1. Leads(<<>>, e, x, x) /\ nlq' = <<>>
    BY <1>7, LeadsNowhere DEF TypeInv
  <2>2. AimIs(e, x)'
    BY <1>2, <1>7 DEF AimIs, TrackedTo, Tracked
  <2> QED BY <2>1, <2>2 DEF OnCourse, Leads
<1> QED BY <1>4, <1>5, <1>6, <1>7

LEMMA CourseKernel ==
  ASSUME TypeInv, Kernel, NEW e \in Dests, why'[e] = {}, OnCourse(e)
  PROVE  OnCourse(e)'
<1> PICK d \in Dests, m \in Metrics :
      \/ \E H \in SUBSET Hops : AddKernelRoute(d, m, H) \/ ReplaceKernelRoute(d, m, H)
      \/ RemoveKernelRoute(d, m) \/ ReplaceByForeignRoute(d, m)
  BY DEF Kernel
<1> PICK v \in Aims, w \in Aims : AimIs(e, v) /\ Leads(nlq, e, v, w) /\ KernelIs(e, w)
  BY DEF OnCourse
<1>1. TypeOK /\ None \notin Hops
  BY WatchAssumption DEF TypeInv
\* A change of another destination's routes.
<1>2. ASSUME NEW H, SetKernelRoute(d, m, H), d # e
      PROVE  /\ KernelIs(e, w)' /\ UNCHANGED <<wpc, todo, cur, mirror>>
             /\ w \in Aims
  <2>1. \A n \in Metrics : kernel'[<<e, n>>] = kernel[<<e, n>>]
    BY <1>1, <1>2 DEF SetKernelRoute, TypeOK
  <2> QED BY <1>2, <2>1 DEF SetKernelRoute, KernelIs
\* What the routes to e become.
<1>3. ASSUME NEW H, SetKernelRoute(d, m, H), d = e
      PROVE  /\ kernel'[<<e, m>>] = H
             /\ \A n \in Metrics \ {m} : kernel'[<<e, n>>] = kernel[<<e, n>>]
             /\ UNCHANGED <<wpc, todo, cur, mirror>>
  BY <1>1, <1>3 DEF SetKernelRoute, TypeOK
\* The only route to e, when there is one.
<1>4. ASSUME kernel[<<e, m>>] # {}
      PROVE  /\ w \in Hops /\ kernel[<<e, m>>] = {w}
             /\ \A n \in Metrics \ {m} : kernel[<<e, n>>] = {}
  BY <1>4 DEF KernelIs, Aims
<1>5. ASSUME NEW H \in SUBSET Hops, AddKernelRoute(d, m, H) PROVE OnCourse(e)'
  <2>1. /\ kernel[<<d, m>>] = {} /\ H # {} /\ SetKernelRoute(d, m, H)
        /\ Notify("ADDED", d, H, Metric(d, m))
    BY <1>5 DEF AddKernelRoute
  <2>2. CASE d # e
    BY <1>2, <2>1, <2>2, CourseEvent
  <2>3. CASE d = e
    <3>1. ~(Cardinality(H) > 1) /\ Metric(d, m) = {}
      BY <1>1, <2>1, <2>3, Notified
    <3>2. PICK h \in Hops : H = {h}
      BY <2>1, <3>1, OneHop
    <3>3. \A n \in Metrics : kernel[<<e, n>>] = {}
      BY <2>1, <2>3, <3>1 DEF Metric
    <3>4. w = None
      BY <3>3 DEF KernelIs
    <3>5. KernelIs(e, h)' /\ h \in Aims
      BY <1>1, <1>3, <2>1, <2>3, <3>2, <3>3 DEF KernelIs, Aims
    <3>6. Moves(<<"ADDED", KeyOf(d, H)>>, w, h)
      BY <3>2, <3>4, EventKey DEF Moves
    <3> QED BY <1>3, <2>1, <2>3, <3>5, <3>6, CourseEvent
  <2> QED BY <2>2, <2>3
<1>6. ASSUME NEW H \in SUBSET Hops, ReplaceKernelRoute(d, m, H) PROVE OnCourse(e)'
  <2>1. /\ kernel[<<d, m>>] # {} /\ H # {} /\ SetKernelRoute(d, m, H)
        /\ Notify("CHANGED", d, H, {})
    BY <1>6 DEF ReplaceKernelRoute
  <2>2. CASE d # e
    BY <1>2, <2>1, <2>2, CourseEvent
  <2>3. CASE d = e
    <3>1. ~(Cardinality(H) > 1)
      BY <1>1, <2>1, <2>3, Notified
    <3>2. PICK h \in Hops : H = {h}
      BY <2>1, <3>1, OneHop
    <3>3. KernelIs(e, h)' /\ h \in Aims
      BY <1>1, <1>3, <1>4, <2>1, <2>3, <3>2 DEF KernelIs, Aims
    <3>4. Moves(<<"CHANGED", KeyOf(d, H)>>, w, h)
      BY <1>4, <2>1, <2>3, <3>2, EventKey DEF Moves
    <3> QED BY <1>3, <2>1, <2>3, <3>3, <3>4, CourseEvent
  <2> QED BY <2>2, <2>3
<1>7. CASE RemoveKernelRoute(d, m)
  <2> DEFINE H == kernel[<<d, m>>]
  <2>1. /\ H # {} /\ SetKernelRoute(d, m, {}) /\ Notify("REMOVED", d, H, {})
        /\ H \in SUBSET Hops
    BY <1>1, <1>7 DEF RemoveKernelRoute, TypeOK
  <2>2. CASE d # e
    BY <1>2, <2>1, <2>2, CourseEvent
  <2>3. CASE d = e
    <3>1. H = {w} /\ w \in Hops
      BY <1>4, <2>1, <2>3
    <3>2. KernelIs(e, None)' /\ None \in Aims
      BY <1>3, <1>4, <2>1, <2>3 DEF KernelIs, Aims
    <3>3. Moves(<<"REMOVED", KeyOf(d, H)>>, w, None)
      BY <2>1, <3>1, EventKey DEF Moves
    <3> HIDE DEF H
    <3> QED BY <1>3, <2>1, <2>3, <3>2, <3>3, CourseEvent
  <2> QED BY <2>2, <2>3
<1>8. CASE ReplaceByForeignRoute(d, m)
  <2>1. SetKernelRoute(d, m, {}) /\ d # e /\ nlq' = nlq
    BY <1>8 DEF ReplaceByForeignRoute, Blame
  <2>2. KernelIs(e, w)' /\ AimIs(e, v)'
    BY <1>2, <2>1 DEF AimIs, Busy, TrackedTo, TodoTo, Tracked
  <2> QED BY <2>1, <2>2 DEF OnCourse, Leads
<1> QED BY <1>5, <1>6, <1>7, <1>8

\* The watch takes the oldest event, whose destination goes from v to u.
LEMMA CourseReceive ==
  ASSUME TypeInv, RecvAdded \/ RecvChanged \/ RecvRemoved, NEW e \in Dests,
         NEW v \in Aims, NEW u \in Aims, AimIs(e, v), MovesTo(Head(nlq), e, v, u)
  PROVE  AimIs(e, u)'
<1> DEFINE k == Head(nlq)[2]
<1> USE WatchAssumption
<1>1. /\ wpc = "recv" /\ nlq # <<>> /\ k \in Keys /\ todo = {}
      /\ UNCHANGED <<todo, mirror>>
  <2>1. wpc = "recv" /\ nlq # <<>> /\ UNCHANGED <<todo, mirror>>
    BY DEF RecvAdded, RecvChanged, RecvRemoved, Receive
  <2>2. k \in Keys
    BY <2>1, ReceivedType DEF TypeInv, TypeOK
  <2>3. todo = {}
    BY <2>1 DEF TypeInv, TypeOK
  <2> QED BY <2>1, <2>2, <2>3
<1>2. /\ TrackedTo(e)' = TrackedTo(e) /\ TodoTo(e)' = {} /\ TodoTo(e) = {}
      /\ v = None => TrackedTo(e) = {}
      /\ v # None => TrackedTo(e) = {<<e, v>>}
  BY <1>1 DEF TrackedTo, Tracked, TodoTo, AimIs, Busy
<1>3. CASE k[1] # e
  <2>1. u = v
    BY <1>3 DEF MovesTo
  <2>2. ~Busy(e)' /\ wpc' # "start"
    BY <1>1, <1>3 DEF Busy, RecvAdded, RecvChanged, RecvRemoved
  <2> QED BY <1>2, <2>1, <2>2 DEF AimIs
<1>4. CASE k[1] = e
  <2>1. k = <<e, k[2]>> /\ Moves(Head(nlq), v, u)
    BY <1>1, <1>4, KeyFacts DEF MovesTo
  <2>2. CASE RecvAdded
    <3>1. cur' = k /\ wpc' = "add" /\ v = None /\ u = k[2] /\ u \in Hops
      BY <2>1, <2>2 DEF RecvAdded, Moves
    <3> QED BY <1>2, <1>4, <3>1 DEF AimIs, Busy
  <2>3. CASE RecvChanged
    <3>1. cur' = k /\ wpc' = "purge" /\ u = k[2] /\ u \in Hops
      BY <2>1, <2>3 DEF RecvChanged, Moves
    <3> QED BY <1>2, <1>4, <3>1 DEF AimIs, Busy
  <2>4. CASE RecvRemoved
    <3>1. v = k[2] /\ v \in Hops /\ u = None
      BY <2>1, <2>4 DEF RecvRemoved, Moves
    <3>2. TrackedTo(e) = {k} /\ k \in Tracked
      BY <1>2, <2>1, <3>1 DEF TrackedTo
    <3>3. cur' = k /\ wpc' = "remove"
      BY <2>4, <3>2 DEF RecvRemoved
    <3> QED BY <1>2, <1>4, <3>1, <3>2, <3>3 DEF AimIs, Busy
  <2> QED BY <2>2, <2>3, <2>4
<1> QED BY <1>3, <1>4

LEMMA CourseWatch ==
  ASSUME TypeInv, Watch, NEW e \in Dests, why'[e] = {}, OnCourse(e)
  PROVE  OnCourse(e)'
<1> PICK v \in Aims, w \in Aims : AimIs(e, v) /\ Leads(nlq, e, v, w) /\ KernelIs(e, w)
  BY DEF OnCourse
<1> USE WatchAssumption
<1>1. TypeOK
  BY DEF TypeInv
\* A step that handles no event leads e where it was led.
<1>2. ASSUME NEW u \in Aims, UNCHANGED <<kernel, nlq>>, AimIs(e, u)', u = v
      PROVE  OnCourse(e)'
  <2>1. Leads(nlq, e, v, w)' /\ KernelIs(e, w)'
    BY <1>2 DEF Leads, KernelIs
  <2> QED BY <1>2, <2>1 DEF OnCourse
<1>3. CASE Dump
  <2>1. nlq = <<>> /\ nlq' = nlq /\ UNCHANGED kernel
    BY <1>3 DEF Dump, TypeInv, kernelVars
  <2>2. v = w
    BY <2>1, LeadsNowhere
  <2>3. TrackedTo(e)' = {} /\ ~Busy(e)' /\ wpc' # "start"
    BY <1>3 DEF Dump, AimIs, TrackedTo, Tracked, Busy
  <2>4. todo' = {t \in Dests \X Metrics \X Hops : t[3] \in kernel[<<t[1], t[2]>>]}
    BY <1>3 DEF Dump
  <2>5. CASE w = None
    <3>1. TodoTo(e)' = {}
      BY <2>4, <2>5 DEF TodoTo, KernelIs
    <3> QED BY <1>2, <2>1, <2>2, <2>3, <2>5, <3>1 DEF AimIs
  <2>6. CASE w # None
    <3>1. PICK m \in Metrics : /\ kernel[<<e, m>>] = {w}
                               /\ \A n \in Metrics \ {m} : kernel[<<e, n>>] = {}
      BY <2>6 DEF KernelIs
    <3>2. \A t \in Dests \X Metrics \X Hops :
            t[1] = e /\ t[3] \in kernel[<<t[1], t[2]>>] <=> t = <<e, m, w>>
      BY <3>1
    <3>3. <<e, m, w>> \in Dests \X Metrics \X Hops
      BY <2>6 DEF Aims
    <3>4. TodoTo(e)' = {<<e, m, w>>}
      BY <2>4, <3>2, <3>3 DEF TodoTo
    <3> QED BY <1>2, <2>1, <2>2, <2>3, <2>6, <3>4 DEF AimIs
  <2> QED BY <2>5, <2>6
<1>4. ASSUME NEW t \in todo, AddDumped(t) PROVE OnCourse(e)'
  <2> DEFINE k == <<t[1], t[3]>>
  <2>1. k \in Keys /\ k[1] = t[1] /\ t = <<t[1], t[2], t[3]>>
    BY <1>1 DEF TypeOK, Keys
  <2>2. /\ wpc = "dump" /\ wpc' = "dump" /\ todo' = todo \ {t} /\ AddCall(k, mirror)
        /\ UNCHANGED <<kernel, nlq>>
    BY <1>4 DEF AddDumped, kernelVars
  <2>3. mirror'[k] # Absent /\ \A j \in Keys \ {k} : mirror'[j] = mirror[j]
    BY <1>1, <2>1, <2>2, AddCallType
  <2> HIDE DEF k
  <2>4. CASE t[1] # e
    <3>1. TrackedTo(e)' = TrackedTo(e) /\ TodoTo(e)' = TodoTo(e)
      BY <2>1, <2>2, <2>3, <2>4 DEF TrackedTo, Tracked, TodoTo
    <3> QED BY <1>2, <2>2, <3>1 DEF AimIs, Busy
  <2>5. CASE t[1] = e
    <3>1. t \in TodoTo(e)
      BY <2>5 DEF TodoTo
    <3>2. /\ v # None /\ TrackedTo(e) = {}
          /\ \E m \in Metrics : TodoTo(e) = {<<e, m, v>>}
      BY <2>2, <3>1 DEF AimIs, Busy
    <3>3. t[3] = v /\ TodoTo(e) = {t}
      BY <3>1, <3>2
    <3>4. TodoTo(e)' = {}
      BY <2>2, <3>3 DEF TodoTo
    <3>5. TrackedTo(e)' = {k}
      BY <2>1, <2>3, <2>5, <3>2 DEF TrackedTo, Tracked
    <3>6. k = <<e, v>>
      BY <2>5, <3>3 DEF k
    <3> QED BY <1>2, <2>2, <3>2, <3>4, <3>5, <3>6 DEF AimIs, Busy
  <2> QED BY <2>4, <2>5
<1>5. CASE DumpDone \/ Subscribe \/ RecvFails
  <2>1. /\ UNCHANGED <<kernel, nlq, todo, cur, mirror>>
        /\ wpc \in {"dump", "open", "recv"} /\ wpc' \in {"open", "recv", "done"}
    BY <1>5 DEF DumpDone, Subscribe, RecvFails, kernelVars
  <2>2. TrackedTo(e)' = TrackedTo(e) /\ TodoTo(e)' = TodoTo(e)
    BY <2>1 DEF TrackedTo, Tracked, TodoTo
  <2> QED BY <1>2, <2>1, <2>2 DEF AimIs, Busy
<1>6. CASE RecvAdded \/ RecvChanged \/ RecvRemoved
  <2>1. nlq # <<>> /\ nlq' = Tail(nlq) /\ UNCHANGED kernel
    BY <1>6 DEF RecvAdded, RecvChanged, RecvRemoved, Receive, NextEvents
  <2>2. PICK u \in Aims : MovesTo(Head(nlq), e, v, u) /\ Leads(Tail(nlq), e, u, w)
    BY <1>1, <2>1, LeadsFrom DEF TypeOK
  <2>3. AimIs(e, u)'
    BY <1>6, <2>2, CourseReceive
  <2> QED BY <2>1, <2>2, <2>3 DEF OnCourse, Leads, KernelIs
<1>7. ASSUME NEW k \in Keys, PurgeOne(k) PROVE OnCourse(e)'
  <2>1. /\ wpc = "purge" /\ wpc' = "purge" /\ UNCHANGED <<cur, todo, kernel, nlq>>
        /\ k[1] = cur[1] /\ \A j \in Keys \ {k} : mirror'[j] = mirror[j]
    BY <1>1, <1>7 DEF PurgeOne, Superseded, Erased, kernelVars, TypeOK
  <2>2. CASE cur[1] = e
    BY <1>2, <2>1, <2>2 DEF AimIs, Busy
  <2>3. CASE cur[1] # e
    <3>1. TrackedTo(e)' = TrackedTo(e) /\ TodoTo(e)' = TodoTo(e)
      BY <2>1, <2>3 DEF TrackedTo, Tracked, TodoTo
    <3> QED BY <1>2, <2>1, <2>3, <3>1 DEF AimIs, Busy
  <2> QED BY <2>2, <2>3
<1>8. CASE PurgeDone
  <2>1. /\ wpc = "purge" /\ wpc' = "add" /\ UNCHANGED <<kernel, nlq, todo, cur, mirror>>
        /\ {k \in Tracked : k[1] = cur[1]} = {}
    BY <1>8 DEF PurgeDone, Superseded, kernelVars
  <2>2. TrackedTo(e)' = TrackedTo(e) /\ TodoTo(e)' = TodoTo(e)
    BY <2>1 DEF TrackedTo, Tracked, TodoTo
  <2>3. cur[1] = e => TrackedTo(e) = {}
    BY <2>1 DEF TrackedTo
  <2> QED BY <1>2, <2>1, <2>2, <2>3 DEF AimIs, Busy
<1>9. CASE AddOne
  <2>1. /\ wpc = "add" /\ wpc' = "recv" /\ UNCHANGED <<kernel, nlq, todo>>
        /\ cur \in Keys /\ AddCall(cur, mirror) /\ todo = {}
    BY <1>1, <1>9 DEF AddOne, kernelVars, TypeInv, TypeOK
  <2>2. mirror'[cur] # Absent /\ \A j \in Keys \ {cur} : mirror'[j] = mirror[j]
    BY <1>1, <2>1, AddCallType
  <2>3. TodoTo(e)' = {} /\ TodoTo(e) = {}
    BY <2>1 DEF TodoTo
  <2>4. CASE cur[1] = e
    <3>1. v = cur[2] /\ v # None /\ TrackedTo(e) = {}
      BY <2>1, <2>4 DEF AimIs, Busy
    <3>2. TrackedTo(e)' = {cur} /\ cur = <<e, v>>
      BY <2>1, <2>2, <2>4, <3>1, KeyFacts DEF TrackedTo, Tracked
    <3> QED BY <1>2, <2>1, <2>3, <3>1, <3>2 DEF AimIs, Busy
  <2>5. CASE cur[1] # e
    <3>1. TrackedTo(e)' = TrackedTo(e)
      BY <2>1, <2>2, <2>5 DEF TrackedTo, Tracked
    <3> QED BY <1>2, <2>1, <2>3, <2>5, <3>1 DEF AimIs, Busy
  <2> QED BY <2>4, <2>5
<1>10. CASE RemoveOne
  <2>1. /\ wpc = "remove" /\ wpc' = "recv" /\ UNCHANGED <<kernel, nlq, todo>>
        /\ cur \in Keys /\ todo = {} /\ mirror'[cur] = Absent
        /\ \A j \in Keys \ {cur} : mirror'[j] = mirror[j]
    BY <1>1, <1>10 DEF RemoveOne, Erased, kernelVars, TypeInv, TypeOK
  <2>2. TodoTo(e)' = {} /\ TodoTo(e) = {}
    BY <2>1 DEF TodoTo
  <2>3. CASE cur[1] = e
    <3>1. v = None /\ TrackedTo(e) = {cur}
      BY <2>1, <2>3 DEF AimIs, Busy
    <3>2. TrackedTo(e)' = {}
      BY <2>1, <3>1 DEF TrackedTo, Tracked
    <3> QED BY <1>2, <2>1, <2>2, <3>1, <3>2 DEF AimIs, Busy
  <2>4. CASE cur[1] # e
    <3>1. TrackedTo(e)' = TrackedTo(e)
      BY <2>1, <2>4 DEF TrackedTo, Tracked
    <3> QED BY <1>2, <2>1, <2>2, <2>4, <3>1 DEF AimIs, Busy
  <2> QED BY <2>3, <2>4
<1> QED BY <1>3, <1>4, <1>5, <1>6, <1>7, <1>8, <1>9, <1>10 DEF Watch

LEMMA CourseNext ==
  ASSUME TypeInv, [Next]_vars, NEW e \in Dests, why'[e] = {}, OnCourse(e)
  PROVE  OnCourse(e)'
<1>1. CASE \/ Signal \/ RestartSrmd \/ (\E c \in late : LateCall(c)) \/ UNCHANGED vars
  <2>1. UNCHANGED <<kernel, nlq, wpc, todo, cur, mirror>>
    BY <1>1 DEF Signal, RestartSrmd, LateCall, vars, kernelVars
  <2>2. PICK v \in Aims, w \in Aims :
          AimIs(e, v) /\ Leads(nlq, e, v, w) /\ KernelIs(e, w)
    BY DEF OnCourse
  <2>3. AimIs(e, v)'
    BY <2>1, <2>2 DEF AimIs, Busy, TrackedTo, TodoTo, Tracked
  <2>4. Leads(nlq, e, v, w)'
    BY <2>1, <2>2 DEF Leads
  <2>5. KernelIs(e, w)'
    BY <2>1, <2>2 DEF KernelIs
  <2> QED BY <2>3, <2>4, <2>5 DEF OnCourse
<1> QED BY <1>1, CourseKernel, CourseWatch DEF Next

LEMMA ExactNext ==
  ASSUME TypeInv, TrackInv, ExactInv, [Next]_vars
  PROVE  ExactInv'
<1> SUFFICES ASSUME NEW e \in Dests, why'[e] = {} PROVE OwnIds(e)' /\ OnCourse(e)'
  BY DEF ExactInv
<1>1. why[e] = {}
  BY WhyGrows DEF TypeInv
<1>2. OwnIds(e) /\ OnCourse(e)
  BY <1>1 DEF ExactInv
<1> QED BY <1>1, <1>2, OwnNext, CourseNext

\* With no event left the mirror is where the kernel is.
LEMMA ExactWhenIdle == TypeInv /\ ExactInv => MirrorExact
<1> SUFFICES ASSUME TypeInv, ExactInv, Idle, NEW d \in Dests, why[d] = {},
                    NEW k \in Keys, k[1] = d
             PROVE  Cardinality({i \in Ids : srmd[i] = k})
                      = Cardinality({m \in Metrics : k[2] \in kernel[<<d, m>>]})
  BY DEF MirrorExact, Exact
<1> DEFINE Here == {i \in Ids : srmd[i] = k}
           There == {m \in Metrics : k[2] \in kernel[<<d, m>>]}
<1> USE WatchAssumption
<1>1. OwnIds(d) /\ OnCourse(d) /\ nlq = <<>> /\ wpc = "recv" /\ TypeOK
  BY DEF ExactInv, Idle, TypeInv
<1>2. PICK v \in Aims : AimIs(d, v) /\ KernelIs(d, v)
  BY <1>1, LeadsNowhere DEF OnCourse
<1>3. TodoTo(d) = {}
  BY <1>1 DEF TodoTo, TypeOK
<1>4. \A i \in Ids : srmd[i] = k <=> mirror[k] = i
  BY <1>1 DEF OwnIds
<1>5. mirror[k] = Absent \/ mirror[k] \in Ids
  <2>1. mirror[k] # NoId
    BY <1>1 DEF OwnIds
  <2>2. mirror[k] \in Ids \cup {NoId, Absent}
    BY <1>1 DEF TypeOK
  <2> QED BY <2>1, <2>2
<1>6. k = <<d, k[2]>>
  BY KeyFacts
<1>7. k \in Tracked <=> k[2] = v /\ v # None
  <2>1. k \in TrackedTo(d) <=> k \in Tracked
    BY DEF TrackedTo
  <2>2. TrackedTo(d) = IF v = None THEN {} ELSE {<<d, v>>}
    BY <1>1, <1>2, <1>3 DEF AimIs, Busy
  <2> QED BY <1>6, <2>1, <2>2
<1>8. CASE k \in Tracked
  <2>1. mirror[k] \in Ids
    BY <1>5, <1>8 DEF Tracked
  <2>2. Here = {mirror[k]}
    BY <1>4, <2>1
  <2>3. PICK m \in Metrics : /\ kernel[<<d, m>>] = {v}
                             /\ \A n \in Metrics \ {m} : kernel[<<d, n>>] = {}
    BY <1>2, <1>7, <1>8 DEF KernelIs
  <2>4. \A n \in Metrics : k[2] \in kernel[<<d, n>>] <=> n = m
    BY <1>7, <1>8, <2>3
  <2>5. There = {m}
    BY <2>4
  <2>6. Cardinality({m}) = 1 /\ Cardinality({mirror[k]}) = 1
    BY FS_Singleton
  <2> QED BY <2>2, <2>5, <2>6
<1>9. CASE k \notin Tracked
  <2>1. mirror[k] = Absent
    BY <1>9 DEF Tracked
  <2>2. Here = {}
    BY <1>4, <2>1, KeyFacts
  <2>3. There = {}
    <3>1. CASE v = None
      BY <1>2, <3>1 DEF KernelIs
    <3>2. CASE v # None
      BY <1>2, <1>7, <1>9, <3>2 DEF KernelIs
    <3> QED BY <3>1, <3>2
  <2> QED BY <2>2, <2>3
<1> QED BY <1>8, <1>9

\* Whatever the kernel does to its routes while "sra watch" dumps them, waits
\* for srmd or has events queued, srmd has exactly the kernel's routes to every
\* destination that no named cause of drift struck once no event is left.
THEOREM MirrorIsExact == Spec => []MirrorExact
<1>1. Init => TypeInv /\ TrackInv /\ ExactInv
  BY TypeInit, ExactInit, KeyFacts DEF Init, TrackInv, TrackedIsLive, Tracked
<1>2. TypeInv /\ TrackInv /\ ExactInv /\ [Next]_vars => (TypeInv /\ TrackInv /\ ExactInv)'
  BY TypeNext, TrackNext, ExactNext
<1> QED BY <1>1, <1>2, ExactWhenIdle, PTL DEF Spec
=============================================================================
