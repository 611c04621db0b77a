--------------------------- MODULE RunDaemonProofs ---------------------------
(***************************************************************************)
(* Proofs about RunDaemon, for any nexthop ids, monitors and queue length: *)
(* the nexthop table follows the kernel, and a nexthop that leads to the   *)
(* VRF gateway is submitted.                                               *)
(***************************************************************************)
EXTENDS RunDaemon, FiniteSetTheorems, SequenceTheorems, WellFoundedInduction, TLAPS

-----------------------------------------------------------------------------
(* Natural numbers.                                                         *)

\* Every set of natural numbers that is not empty has a least element: among
\* the intervals 0 .. n that end in it one is contained in no smaller one.
LEMMA LeastElement ==
  ASSUME NEW T, T \subseteq Nat, T # {}
  PROVE  \E x \in T : \A y \in T : x <= y
<1> DEFINE Order == StrictSubsetOrdering(Nat)
           Intervals == {0 .. n : n \in T}
<1>1. Intervals \subseteq FiniteSubsetsOf(Nat) /\ Intervals # {}
  <2>1. ASSUME NEW n \in T PROVE 0 .. n \in SUBSET Nat /\ IsFiniteSet(0 .. n)
    BY FS_Interval
  <2> QED BY <2>1 DEF FiniteSubsetsOf
<1>2. PICK m \in T : \A n \in T : <<0 .. n, 0 .. m>> \notin Order
  <2> HIDE DEF Intervals, Order
  <2>1. \E I \in Intervals : \A J \in Intervals : <<J, I>> \notin Order
    BY <1>1, FS_StrictSubsetOrderingWellFounded, WFMin DEF Order
  <2> QED BY <2>1 DEF Intervals
<1>3. ASSUME NEW n \in T, n < m PROVE FALSE
  <2>1. n \in Nat /\ m \in Nat
    OBVIOUS
  <2>2. /\ 0 .. n \subseteq 0 .. m /\ m \in 0 .. m /\ m \notin 0 .. n
        /\ 0 .. n \subseteq Nat /\ 0 .. m \subseteq Nat
    BY <2>1, <1>3
  <2>3. <<0 .. n, 0 .. m>> \in Order
    BY <2>2 DEF StrictSubsetOrdering
  <2> QED BY <2>3, <1>2
<1> QED BY <1>3

NhQueue == events[Nexthop]

-----------------------------------------------------------------------------
(* Types.                                                                   *)

\* The nexthop monitor gets nexthop events only, and holds one while it
\* handles it; before main opens the sockets there are neither events nor
\* threads.
TypeInv ==
  /\ TypeOK
  /\ NhQueue \in Seq(NhEvents)
  /\ tpc[Nexthop] \in {"update", "check", "submit"} => cur \in NhEvents
  /\ mpc \in {"dump", "open"} =>
       /\ NhQueue = <<>>
       /\ \A m \in Monitors : socket[m] = "none" /\ tpc[m] = "none"

LEMMA NexthopMonitor == Nexthop \in Monitors /\ Nexthop \notin Others
BY RunAssumption DEF Monitors

LEMMA TypeInit == Init => TypeInv
<1> SUFFICES ASSUME Init PROVE TypeInv
  OBVIOUS
<1>1. stop \in BOOLEAN /\ alive \in BOOLEAN /\ up \in BOOLEAN /\ raced \in BOOLEAN
  BY Zenon DEF Init
<1>2. /\ events \in [Monitors -> Seq(NhEvents \cup {NoEvent})]
      /\ \A m \in Monitors : Len(events[m]) <= MaxQueue
      /\ NhQueue = <<>>
  BY RunAssumption, NexthopMonitor DEF Init, NhQueue
<1> QED BY <1>1, <1>2, NexthopMonitor DEF Init, TypeInv, TypeOK, Gateways

\* An event that enters a queue, which has room for it.
LEMMA TypeEnters ==
  ASSUME TypeOK, NEW m \in Monitors, NEW e \in NhEvents \cup {NoEvent},
         Len(events[m]) < MaxQueue
  PROVE  LET q == [events EXCEPT ![m] = Append(@, e)]
         IN  /\ q \in [Monitors -> Seq(NhEvents \cup {NoEvent})]
             /\ \A n \in Monitors : Len(q[n]) <= MaxQueue
BY RunAssumption DEF TypeOK

\* An event that leaves one.
LEMMA TypeLeaves ==
  ASSUME TypeOK, NEW m \in Monitors, events[m] # <<>>
  PROVE  LET q == [events EXCEPT ![m] = Tail(@)]
         IN  /\ q \in [Monitors -> Seq(NhEvents \cup {NoEvent})]
             /\ \A n \in Monitors : Len(q[n]) <= MaxQueue
BY RunAssumption, HeadTailProperties DEF TypeOK

\* What the kernel tells of a nexthop that changes.
Told(i, g) == IF g = "none" THEN <<i, kernel[i], TRUE>> ELSE <<i, g, FALSE>>

LEMMA TypeKernel ==
  ASSUME TypeInv, NEW i \in NhIds, NEW g \in Gateways, ChangeNexthop(i, g)
  PROVE  TypeInv'
<1> USE NexthopMonitor DEF TypeInv, TypeOK, kernelVars, mainVars, monitorVars,
                           history
<1>1. Told(i, g) \in NhEvents
  BY DEF Told, NhEvents
<1>2. CASE Listening(Nexthop)
  <2>1. events' = [events EXCEPT ![Nexthop] = Append(@, Told(i, g))]
    BY <1>2 DEF ChangeNexthop, Told
  <2>2. Len(events[Nexthop]) < MaxQueue /\ mpc \notin {"dump", "open"}
    BY <1>2 DEF Listening
  <2>3. /\ events' \in [Monitors -> Seq(NhEvents \cup {NoEvent})]
        /\ \A m \in Monitors : Len(events'[m]) <= MaxQueue
    BY <1>1, <2>1, <2>2, TypeEnters
  <2>4. NhQueue' \in Seq(NhEvents)
    BY <1>1, <2>1 DEF NhQueue
  <2> HIDE DEF NhEvents, NhQueue
  <2> QED BY <1>2, <2>2, <2>3, <2>4 DEF ChangeNexthop
<1>3. CASE ~Listening(Nexthop)
  BY <1>3 DEF ChangeNexthop, NhQueue
<1> QED BY <1>2, <1>3

LEMMA TypeMain ==
  ASSUME TypeInv, Main \/ Signal
  PROVE  TypeInv'
<1> USE NexthopMonitor
    DEF TypeInv, TypeOK, NhQueue, kernelVars, mainVars, monitorVars, history,
        Goto, After
<1>1. ASSUME NEW Known \in SUBSET NhIds, DumpTables(Known) PROVE TypeInv'
  BY <1>1 DEF DumpTables, Gateways
<1>2. ASSUME NEW Opened \in SUBSET Monitors, StartMonitors(Opened)
      PROVE  TypeInv'
  BY <1>2 DEF StartMonitors
<1>3. CASE BootFails \/ BootSucceeds
  BY <1>3 DEF BootFails, BootSucceeds, WalkNexthops
<1>4. CASE ArmTable \/ ArmClient
  BY <1>4 DEF ArmTable, ArmClient
<1>5. CASE Lookup
  <2>1. Lowest \in NhIds \cup {0}
    <3> DEFINE ids == {i \in NhIds : nexthops[i] = "vrf"}
    <3>1. CASE ids # {}
      <4>1. \E i \in ids : \A j \in ids : i <= j
        BY <3>1, RunAssumption, LeastElement
      <4> QED BY <3>1, <4>1 DEF Lowest
    <3> QED BY <3>1 DEF Lowest
  <2> QED BY <1>5, <2>1 DEF Lookup, WalkNexthops
<1>6. CASE SubmitFirst \/ LeaveLoop \/ LeaveCommand \/ GuardJoins
  BY <1>6 DEF SubmitFirst, LeaveLoop, LeaveCommand, GuardJoins
<1>7. CASE StopSockets \/ GuardCloses
  BY <1>7 DEF StopSockets, GuardCloses, Closed, Reset
<1>8. CASE Signal
  BY <1>8 DEF Signal, Closed, Reset
<1> QED BY <1>1, <1>2, <1>3, <1>4, <1>5, <1>6, <1>7, <1>8 DEF Main

LEMMA TypeMonitor ==
  ASSUME TypeInv, NEW m \in Monitors, Monitor(m) \/ OtherEvent(m)
  PROVE  TypeInv'
<1> USE NexthopMonitor DEF TypeInv, TypeOK, kernelVars, mainVars, monitorVars,
                           history, ThreadGoto
<1>1. CASE EnterRecv(m)
  BY <1>1 DEF EnterRecv, OnError, NhQueue
<1>2. CASE RecvOther(m)
  <2>1. /\ events' \in [Monitors -> Seq(NhEvents \cup {NoEvent})]
        /\ \A n \in Monitors : Len(events'[n]) <= MaxQueue
    BY <1>2, TypeLeaves DEF RecvOther
  <2>2. m # Nexthop /\ NhQueue' = NhQueue /\ tpc'[Nexthop] = tpc[Nexthop]
    BY <1>2 DEF RecvOther, NhQueue
  <2> QED BY <1>2, <2>1, <2>2 DEF RecvOther
<1>3. CASE RecvNexthop
  <2>1. /\ events' \in [Monitors -> Seq(NhEvents \cup {NoEvent})]
        /\ \A n \in Monitors : Len(events'[n]) <= MaxQueue
    BY <1>3, TypeLeaves DEF RecvNexthop
  <2>2. cur' \in NhEvents /\ NhQueue' \in Seq(NhEvents)
    BY <1>3, HeadTailProperties DEF RecvNexthop, NhQueue
  <2> QED BY <1>3, <2>1, <2>2 DEF RecvNexthop
<1>4. CASE UpdateTable
  <2>1. cur \in NhEvents
    BY <1>4 DEF UpdateTable
  <2>2. Updated \in [NhIds -> Gateways]
    BY <2>1 DEF Updated, NhEvents, Gateways
  <2> QED BY <1>4, <2>1, <2>2 DEF UpdateTable, NhQueue
<1>5. CASE CheckTable
  BY <1>5 DEF CheckTable, NhQueue
<1>6. CASE Resubmit
  <2>1. cur \in NhEvents /\ cur[1] \in NhIds
    BY <1>6 DEF Resubmit, NhEvents
  <2> QED BY <1>6, <2>1 DEF Resubmit, NhQueue
<1>7. CASE OtherEvent(m)
  <2>1. /\ events' \in [Monitors -> Seq(NhEvents \cup {NoEvent})]
        /\ \A n \in Monitors : Len(events'[n]) <= MaxQueue
    BY <1>7, TypeEnters DEF OtherEvent, Listening
  <2>2. m # Nexthop /\ NhQueue' = NhQueue
    BY <1>7 DEF OtherEvent, NhQueue
  <2> QED BY <1>7, <2>1, <2>2 DEF OtherEvent
<1> QED BY <1>1, <1>2, <1>3, <1>4, <1>5, <1>6, <1>7 DEF Monitor

LEMMA TypeNext == TypeInv /\ [Next]_vars => TypeInv'
<1>1. TypeInv /\ UNCHANGED vars => TypeInv'
  BY DEF vars, TypeInv, TypeOK, NhQueue, kernelVars, mainVars, monitorVars,
         history
<1> QED BY <1>1, TypeKernel, TypeMain, TypeMonitor DEF Next
-----------------------------------------------------------------------------
(* The table follows the kernel.                                            *)

\* What an event leaves in the table, and where the monitor's thread has yet
\* to apply one.
Result(e) == IF e[3] THEN "none" ELSE e[2]
About(q, i) == \E k \in 1 .. Len(q) : q[k][1] = i
Applying(i) == tpc[Nexthop] = "update" /\ cur[1] = i

\* The last event about i in a queue leaves g in the table.
LastLeaves(q, i, g) ==
  \A k \in 1 .. Len(q) :
    q[k][1] = i /\ (\A l \in k + 1 .. Len(q) : q[l][1] # i) => Result(q[k]) = g

\* The last that is known of each nexthop is true of it: by the queue, else by
\* the event being applied, else by the table.
LastIsTrue ==
  mpc # "dump" =>
    \A i \in NhIds \ missed :
      /\ LastLeaves(NhQueue, i, kernel[i])
      /\ ~About(NhQueue, i) =>
           IF Applying(i) THEN Result(cur) = kernel[i]
                          ELSE nexthops[i] = kernel[i]

LEMMA AboutTail ==
  ASSUME NEW S, NEW q \in Seq(S), q # <<>>, NEW i
  PROVE  /\ About(q, i) <=> Head(q)[1] = i \/ About(Tail(q), i)
         /\ \A g : LastLeaves(q, i, g) =>
              /\ LastLeaves(Tail(q), i, g)
              /\ Head(q)[1] = i /\ ~About(Tail(q), i) => Result(Head(q)) = g
<1> DEFINE h == Head(q)
           r == Tail(q)
<1>1. /\ Len(q) \in Nat /\ Len(q) > 0 /\ Len(r) \in Nat /\ Len(q) = Len(r) + 1
      /\ h = q[1]
      /\ \A k \in 1 .. Len(r) : r[k] = q[k + 1]
  OBVIOUS
<1> HIDE DEF h, r
<1>2. \A k \in 2 .. Len(q) : k - 1 \in 1 .. Len(r) /\ q[k] = r[k - 1]
  BY <1>1
<1>3. \A k \in 1 .. Len(q) : k = 1 \/ k \in 2 .. Len(q)
  BY <1>1
<1>4. 1 \in 1 .. Len(q) /\ \A k \in 1 .. Len(r) : k + 1 \in 1 .. Len(q)
  BY <1>1
<1>5. About(q, i) <=> h[1] = i \/ About(r, i)
  <2>1. ASSUME About(q, i), h[1] # i PROVE About(r, i)
    <3>1. PICK k \in 1 .. Len(q) : q[k][1] = i
      BY <2>1 DEF About
    <3>2. k - 1 \in 1 .. Len(r) /\ r[k - 1][1] = i
      BY <1>1, <1>2, <1>3, <2>1, <3>1
    <3> QED BY <3>2 DEF About
  <2>2. ASSUME About(r, i) PROVE About(q, i)
    <3>1. PICK k \in 1 .. Len(r) : r[k][1] = i
      BY <2>2 DEF About
    <3>2. k + 1 \in 1 .. Len(q) /\ q[k + 1][1] = i
      BY <1>1, <1>4, <3>1
    <3> QED BY <3>2 DEF About
  <2>3. h[1] = i => About(q, i)
    BY <1>1, <1>4 DEF About
  <2> QED BY <2>1, <2>2, <2>3
<1>6. ASSUME NEW g, LastLeaves(q, i, g) PROVE LastLeaves(r, i, g)
  <2> SUFFICES ASSUME NEW k \in 1 .. Len(r), r[k][1] = i,
                      \A l \in k + 1 .. Len(r) : r[l][1] # i
               PROVE  Result(r[k]) = g
    BY DEF LastLeaves
  <2>1. k + 1 \in 1 .. Len(q) /\ q[k + 1] = r[k]
    BY <1>1, <1>4
  <2>2. ASSUME NEW l \in (k + 1) + 1 .. Len(q) PROVE q[l][1] # i
    <3>1. l \in 2 .. Len(q) /\ l - 1 \in k + 1 .. Len(r)
      BY <1>1
    <3>2. q[l] = r[l - 1]
      BY <1>2, <3>1
    <3> QED BY <3>1, <3>2
  <2> QED BY <1>6, <2>1, <2>2 DEF LastLeaves
<1>7. ASSUME NEW g, LastLeaves(q, i, g), h[1] = i, ~About(r, i)
      PROVE  Result(h) = g
  <2>1. ASSUME NEW l \in 1 + 1 .. Len(q) PROVE q[l][1] # i
    <3>1. l \in 2 .. Len(q)
      BY <1>1
    <3> QED BY <1>2, <1>7, <3>1 DEF About
  <2> QED BY <1>1, <1>4, <1>7, <2>1 DEF LastLeaves
<1> QED BY <1>5, <1>6, <1>7 DEF h, r

LEMMA AboutAppend ==
  ASSUME NEW S, NEW q \in Seq(S), NEW e \in S, NEW i
  PROVE  /\ About(Append(q, e), i) <=> About(q, i) \/ e[1] = i
         /\ e[1] = i => LastLeaves(Append(q, e), i, Result(e))
         /\ \A g : e[1] # i /\ LastLeaves(q, i, g) =>
                     LastLeaves(Append(q, e), i, g)
<1> DEFINE r == Append(q, e)
<1>1. /\ Len(q) \in Nat /\ Len(r) = Len(q) + 1
      /\ r[Len(q) + 1] = e
      /\ \A k \in 1 .. Len(q) : r[k] = q[k]
  OBVIOUS
<1>2. \A k : k \in 1 .. Len(r) <=> k \in 1 .. Len(q) \/ k = Len(q) + 1
  BY <1>1
<1> HIDE DEF r
<1>3. About(r, i) <=> About(q, i) \/ e[1] = i
  BY <1>1, <1>2 DEF About
<1>4. ASSUME e[1] = i PROVE LastLeaves(r, i, Result(e))
  <2>1. \A k \in 1 .. Len(q) : Len(r) \in k + 1 .. Len(r)
    BY <1>1
  <2> QED BY <1>1, <1>2, <1>4, <2>1 DEF LastLeaves
<1>5. ASSUME NEW g, e[1] # i, LastLeaves(q, i, g) PROVE LastLeaves(r, i, g)
  <2> SUFFICES ASSUME NEW k \in 1 .. Len(r), r[k][1] = i,
                      \A l \in k + 1 .. Len(r) : r[l][1] # i
               PROVE  Result(r[k]) = g
    BY DEF LastLeaves
  <2>1. k \in 1 .. Len(q) /\ r[k] = q[k]
    BY <1>1, <1>2, <1>5
  <2>2. \A l \in k + 1 .. Len(q) :
          l \in k + 1 .. Len(r) /\ l \in 1 .. Len(q)
    BY <1>1, <2>1
  <2>3. \A l \in k + 1 .. Len(q) : q[l][1] # i
    BY <1>1, <2>2
  <2> QED BY <1>5, <2>1, <2>3 DEF LastLeaves
<1> QED BY <1>3, <1>4, <1>5 DEF r

LEMMA LastIsTrueNext == TypeInv /\ LastIsTrue /\ [Next]_vars => LastIsTrue'
<1> SUFFICES ASSUME TypeInv, LastIsTrue, [Next]_vars PROVE LastIsTrue'
  OBVIOUS
<1> USE NexthopMonitor DEF kernelVars, mainVars, monitorVars, history, Goto,
                           ThreadGoto
<1>t. /\ NhQueue \in Seq(NhEvents) /\ DOMAIN tpc = Monitors
      /\ kernel \in [NhIds -> Gateways] /\ nexthops \in [NhIds -> Gateways]
      /\ events \in [Monitors -> Seq(NhEvents \cup {NoEvent})]
  BY DEF TypeInv, TypeOK
\* Most steps touch none of the three places.
<1>1. ASSUME UNCHANGED <<kernel, NhQueue, nexthops, missed>>,
             tpc'[Nexthop] = "update" <=> tpc[Nexthop] = "update",
             tpc[Nexthop] = "update" => cur' = cur,
             mpc = "dump" => mpc' = "dump"
      PROVE  LastIsTrue'
  BY <1>1 DEF LastIsTrue, Applying
<1>2. ASSUME NEW i \in NhIds, NEW g \in Gateways, ChangeNexthop(i, g)
      PROVE  LastIsTrue'
  <2>1. /\ kernel' = [kernel EXCEPT ![i] = g]
        /\ UNCHANGED <<mpc, tpc, cur, nexthops>>
    BY <1>2 DEF ChangeNexthop
  <2>2. CASE Listening(Nexthop)
    <3> DEFINE e == Told(i, g)
    <3>1. e \in NhEvents /\ e[1] = i /\ Result(e) = g
      BY <1>t DEF Told, NhEvents, Result
    <3>2. NhQueue' = Append(NhQueue, e) /\ missed' = missed
      BY <1>2, <1>t, <2>2 DEF ChangeNexthop, NhQueue, Told
    <3> HIDE DEF e
    <3>3. \A j : About(NhQueue', j) <=> About(NhQueue, j) \/ e[1] = j
      BY <1>t, <3>1, <3>2, AboutAppend
    <3>4. LastLeaves(NhQueue', i, g)
      BY <1>t, <3>1, <3>2, AboutAppend
    <3>5. \A j \in NhIds \ {i} : LastLeaves(NhQueue, j, kernel[j]) =>
                                   LastLeaves(NhQueue', j, kernel[j])
      BY <1>t, <3>1, <3>2, AboutAppend
    <3> QED
      BY <1>t, <2>1, <3>1, <3>2, <3>3, <3>4, <3>5
         DEF LastIsTrue, Applying, LastLeaves, About
  <2>3. CASE ~Listening(Nexthop)
    <3>1. NhQueue' = NhQueue /\ (mpc = "dump" \/ missed' = missed \cup {i})
      BY <1>2, <2>3 DEF ChangeNexthop, NhQueue
    <3> QED BY <1>t, <2>1, <3>1 DEF LastIsTrue, Applying
  <2> QED BY <2>2, <2>3
<1>3. ASSUME NEW Known \in SUBSET NhIds, DumpTables(Known) PROVE LastIsTrue'
  <2>1. /\ NhQueue' = <<>> /\ tpc'[Nexthop] = "none" /\ kernel' = kernel
        /\ missed' = NhIds \ Known
        /\ \A i \in Known : nexthops'[i] = kernel[i]
    BY <1>3 DEF DumpTables, TypeInv, NhQueue
  <2> QED BY <2>1 DEF LastIsTrue, Applying, LastLeaves, About
<1>4. ASSUME NEW Opened \in SUBSET Monitors, StartMonitors(Opened)
      PROVE  LastIsTrue'
  <2>1. tpc[Nexthop] # "update" /\ tpc'[Nexthop] # "update" /\ mpc # "dump"
    BY <1>4 DEF StartMonitors, TypeInv
  <2> QED BY <1>1, <1>4, <2>1 DEF StartMonitors, NhQueue
<1>5. CASE Main /\ ~(\E Known \in SUBSET NhIds : DumpTables(Known))
               /\ ~(\E Opened \in SUBSET Monitors : StartMonitors(Opened))
  BY <1>1, <1>5
     DEF Main, BootFails, BootSucceeds, ArmTable, ArmClient, Lookup,
         SubmitFirst, LeaveLoop, StopSockets, LeaveCommand, GuardCloses,
         GuardJoins, After, NhQueue
<1>6. CASE Signal
  BY <1>1, <1>6, <1>t DEF Signal, NhQueue
<1>7. ASSUME NEW m \in Monitors,
             \/ EnterRecv(m) \/ RecvOther(m) \/ OtherEvent(m)
             \/ CheckTable \/ Resubmit
      PROVE  LastIsTrue'
  <2>1. /\ UNCHANGED <<kernel, nexthops, missed, mpc>>
        /\ tpc[Nexthop] # "update" => tpc'[Nexthop] # "update"
        /\ tpc[Nexthop] = "update" => tpc'[Nexthop] = "update" /\ cur' = cur
    BY <1>7, <1>t
       DEF EnterRecv, OnError, RecvOther, OtherEvent, CheckTable, Resubmit
  <2>2. NhQueue' = NhQueue
    BY <1>7, <1>t
       DEF EnterRecv, RecvOther, OtherEvent, CheckTable, Resubmit, NhQueue
  <2> QED BY <1>1, <2>1, <2>2
<1>8. CASE RecvNexthop
  <2>1. /\ NhQueue # <<>> /\ NhQueue' = Tail(NhQueue) /\ cur' = Head(NhQueue)
        /\ tpc[Nexthop] = "recv" /\ tpc'[Nexthop] = "update"
        /\ UNCHANGED <<kernel, nexthops, missed, mpc>>
    BY <1>8, <1>t DEF RecvNexthop, NhQueue
  <2> SUFFICES ASSUME mpc # "dump", NEW i \in NhIds \ missed
        PROVE  /\ LastLeaves(NhQueue', i, kernel[i])
               /\ ~About(NhQueue', i) =>
                    IF cur'[1] = i THEN Result(cur') = kernel[i]
                                   ELSE nexthops[i] = kernel[i]
    BY ZenonT(60), <2>1 DEF LastIsTrue, Applying, LastLeaves, Result, About
  <2>2. /\ LastLeaves(NhQueue, i, kernel[i])
        /\ ~About(NhQueue, i) => nexthops[i] = kernel[i]
    BY <2>1 DEF LastIsTrue, Applying
  <2>3. About(NhQueue, i) <=> cur'[1] = i \/ About(NhQueue', i)
    BY <1>t, <2>1, AboutTail
  <2>4. /\ LastLeaves(NhQueue', i, kernel[i])
        /\ cur'[1] = i /\ ~About(NhQueue', i) => Result(cur') = kernel[i]
    BY <1>t, <2>1, <2>2, AboutTail
  <2> QED BY <2>2, <2>3, <2>4
<1>9. CASE UpdateTable
  <2>1. /\ tpc[Nexthop] = "update" /\ tpc'[Nexthop] # "update"
        /\ NhQueue' = NhQueue /\ UNCHANGED <<kernel, missed, mpc>>
        /\ \A i \in NhIds :
             nexthops'[i] = IF cur[1] = i THEN Result(cur) ELSE nexthops[i]
    BY <1>9, <1>t DEF UpdateTable, Updated, NhQueue, Result
  <2> QED BY <2>1 DEF LastIsTrue, Applying, LastLeaves, About
<1>10. CASE UNCHANGED vars
  BY <1>1, <1>10 DEF vars, NhQueue
<1> QED
  BY <1>2, <1>3, <1>4, <1>5, <1>6, <1>7, <1>8, <1>9, <1>10 DEF Next, Monitor

LEMMA LastIsTrueInit == Init => LastIsTrue
BY DEF Init, LastIsTrue

\* Whenever the nexthop monitor has handled every event, the table main looks
\* nexthops up in is what the kernel has, but for nexthops that changed before
\* the monitor listened or that the dump did not read.
THEOREM TableIsSound == Spec => []TableSound
<1>1. TypeInv /\ LastIsTrue => TableSound
  <2> SUFFICES ASSUME TypeInv, LastIsTrue, Idle, NEW i \in NhIds \ missed
               PROVE  nexthops[i] = kernel[i]
    BY DEF TableSound, TableFollowsKernel, TypeInv
  <2>1. mpc # "dump" /\ ~About(NhQueue, i) /\ ~Applying(i)
    BY NexthopMonitor DEF Idle, TypeInv, About, NhQueue, Applying
  <2> QED BY <2>1 DEF LastIsTrue
<1>2. TypeInv /\ LastIsTrue /\ [Next]_vars => (TypeInv /\ LastIsTrue)'
  BY TypeNext, LastIsTrueNext
<1> QED BY <1>1, <1>2, TypeInit, LastIsTrueInit, PTL DEF Spec
-----------------------------------------------------------------------------
(* A nexthop that leads to the VRF gateway is submitted.                    *)

\* The monitor has an event about i yet to handle, or holds one that leads to
\* the VRF gateway.
Coming(i) ==
  \/ About(NhQueue, i)
  \/ tpc[Nexthop] \in {"update", "check", "submit"} /\ cur[1] = i /\ cur[2] = "vrf"

\* What main arms, in which order; a nexthop is late only after that.
ArmedInOrder ==
  /\ mpc \in {"dump", "open", "boot", "armTable"} => armed = {}
  /\ mpc = "armClient" => armed = {"table"}
  /\ mpc \in {"lookup", "submit", "loop"} => armed = {"table", "client"}
  /\ armed # {"table", "client"} => late = {}

\* What main has found by now is at most i, or it has yet to look.
Covered(i) ==
  mpc # "lookup" => chosen \in 1 .. i /\ (mpc = "loop" => chosen # i)

\* From arming on, nobody loses a nexthop that leads to the VRF gateway: it was
\* submitted, or the monitor will submit it, or it has not changed since and
\* main finds it, or a lower id.
NexthopTracked ==
  mpc \in {"lookup", "submit", "loop"} /\ ~raced =>
    \A i \in NhIds \ missed : kernel[i] = "vrf" =>
      i \in submitted \/ Coming(i) \/ (i \notin late /\ Covered(i))

LEMMA ArmedInOrderNext ==
  TypeInv /\ ArmedInOrder /\ [Next]_vars => ArmedInOrder'
<1> SUFFICES ASSUME TypeInv, ArmedInOrder, [Next]_vars PROVE ArmedInOrder'
  OBVIOUS
<1> USE DEF ArmedInOrder, kernelVars, mainVars, monitorVars, history, Goto, After
<1>1. CASE Main
  BY <1>1
     DEF Main, DumpTables, StartMonitors, BootFails, BootSucceeds, ArmTable,
         ArmClient, Lookup, SubmitFirst, LeaveLoop, StopSockets, LeaveCommand,
         GuardCloses, GuardJoins
<1>2. ASSUME NEW i \in NhIds, NEW g \in Gateways, ChangeNexthop(i, g)
      PROVE  ArmedInOrder'
  BY <1>2 DEF ChangeNexthop
<1>3. CASE Signal \/ UNCHANGED vars
  BY <1>3 DEF Signal, vars
<1>4. ASSUME NEW m \in Monitors, Monitor(m) \/ OtherEvent(m)
      PROVE  ArmedInOrder'
  BY <1>4 DEF Monitor, EnterRecv, RecvOther, RecvNexthop, UpdateTable,
              CheckTable, Resubmit, OtherEvent
<1> QED BY <1>1, <1>2, <1>3, <1>4 DEF Next

\* What the lookup finds when the table has i.
LEMMA LowestIsLowest ==
  ASSUME NEW i \in NhIds, nexthops[i] = "vrf"
  PROVE  Lowest \in 1 .. i
<1> DEFINE ids == {j \in NhIds : nexthops[j] = "vrf"}
<1>1. i \in ids /\ ids \subseteq Nat \ {0}
  BY RunAssumption
<1>2. \E j \in ids : \A k \in ids : j <= k
  BY <1>1, LeastElement
<1>3. Lowest \in ids /\ \A k \in ids : Lowest <= k
  BY <1>1, <1>2 DEF Lowest
<1> QED BY <1>1, <1>3

LEMMA NexthopTrackedNext ==
  /\ TypeInv /\ LastIsTrue /\ ArmedInOrder /\ NexthopTracked /\ [Next]_vars
  => NexthopTracked'
<1> SUFFICES ASSUME TypeInv, LastIsTrue, ArmedInOrder, NexthopTracked,
                    [Next]_vars
             PROVE  NexthopTracked'
  OBVIOUS
<1> USE NexthopMonitor DEF kernelVars, mainVars, monitorVars, history, Goto,
                           ThreadGoto
<1>t. /\ NhQueue \in Seq(NhEvents) /\ DOMAIN tpc = Monitors
      /\ kernel \in [NhIds -> Gateways]
      /\ events \in [Monitors -> Seq(NhEvents \cup {NoEvent})]
  BY DEF TypeInv, TypeOK
<1>1. ASSUME UNCHANGED <<kernel, missed, late, chosen, mpc, raced>>,
             submitted \subseteq submitted',
             \A i \in NhIds \ missed :
               kernel[i] = "vrf" /\ mpc \in {"lookup", "submit", "loop"} /\ Coming(i)
                 => i \in submitted' \/ Coming(i)'
      PROVE  NexthopTracked'
  BY <1>1 DEF NexthopTracked, Covered
<1>2. ASSUME NEW i \in NhIds, NEW g \in Gateways, ChangeNexthop(i, g)
      PROVE  NexthopTracked'
  <2>1. /\ UNCHANGED <<mpc, raced, chosen, tpc, cur>>
        /\ submitted' = submitted \ {i} /\ late' \subseteq late \cup {i}
        /\ \A j \in NhIds \ {i} : kernel'[j] = kernel[j]
    BY <1>2, <1>t DEF ChangeNexthop
  <2>2. CASE Listening(Nexthop)
    <3> DEFINE e == Told(i, g)
    <3>1. e \in NhEvents /\ e[1] = i
      BY <1>t DEF Told, NhEvents
    <3>2. NhQueue' = Append(NhQueue, e) /\ missed' = missed
      BY <1>2, <1>t, <2>2 DEF ChangeNexthop, NhQueue, Told
    <3> HIDE DEF e
    <3>3. \A j : About(NhQueue', j) <=> About(NhQueue, j) \/ e[1] = j
      BY <1>t, <3>1, <3>2, AboutAppend
    <3>4. Coming(i)' /\ \A j : Coming(j) => Coming(j)'
      BY <2>1, <3>1, <3>3 DEF Coming, About
    <3> QED BY <2>1, <3>2, <3>4 DEF NexthopTracked, Covered
  <2>3. CASE ~Listening(Nexthop)
    <3>1. NhQueue' = NhQueue /\ (mpc = "dump" \/ missed' = missed \cup {i})
      BY <1>2, <2>3 DEF ChangeNexthop, NhQueue
    <3>2. \A j : Coming(j) => Coming(j)'
      BY <2>1, <3>1 DEF Coming
    <3> QED BY <2>1, <3>1, <3>2 DEF NexthopTracked, Covered
  <2> QED BY <2>2, <2>3
<1>3. CASE ArmClient
  <2>1. late' = {} /\ mpc' = "lookup"
    BY <1>3 DEF ArmClient, After, ArmedInOrder
  <2> QED BY <2>1 DEF NexthopTracked, Covered
<1>4. CASE Lookup
  <2>1. /\ UNCHANGED <<kernel, missed, late, tpc, cur, submitted>>
        /\ NhQueue' = NhQueue /\ mpc = "lookup" /\ mpc' = "submit"
        /\ raced' \/ (tpc[Nexthop] # "update" /\ chosen' = Lowest /\ ~raced)
    BY <1>4 DEF Lookup, After, NhQueue, TypeInv, TypeOK
  <2> SUFFICES ASSUME ~raced', NEW i \in NhIds \ missed, kernel[i] = "vrf",
                      i \notin submitted, ~Coming(i)
               PROVE  i \notin late /\ chosen' \in 1 .. i
    BY <2>1 DEF NexthopTracked, Covered, Coming, About
  <2>2. nexthops[i] = "vrf"
    BY <2>1 DEF LastIsTrue, Coming, Applying
  <2>3. i \notin late
    BY <2>1 DEF NexthopTracked
  <2> QED BY <2>1, <2>2, <2>3, LowestIsLowest
<1>5. CASE SubmitFirst
  <2>1. /\ UNCHANGED <<kernel, missed, late, tpc, cur, chosen, raced>>
        /\ NhQueue' = NhQueue /\ mpc = "submit" /\ mpc' = "loop"
        /\ submitted' = submitted \cup {chosen}
    BY <1>5 DEF SubmitFirst, After, NhQueue
  <2>2. \A i : Coming(i) => Coming(i)'
    BY <2>1 DEF Coming
  <2> QED BY <2>1, <2>2 DEF NexthopTracked, Covered
<1>6. CASE Main /\ ~ArmClient /\ ~Lookup /\ ~SubmitFirst
  <2>1. mpc' \notin {"lookup", "submit", "loop"}
    BY <1>6
       DEF Main, DumpTables, StartMonitors, BootFails, BootSucceeds, ArmTable,
           After, LeaveLoop, StopSockets, LeaveCommand, GuardCloses, GuardJoins
  <2> QED BY <2>1 DEF NexthopTracked
<1>7. CASE Signal
  <2>1. \A i : Coming(i) => Coming(i)'
    BY <1>7, <1>t DEF Signal, Coming, NhQueue
  <2> QED BY <1>1, <1>7, <2>1 DEF Signal
<1>8. ASSUME NEW m \in Monitors, EnterRecv(m) \/ RecvOther(m) \/ OtherEvent(m)
      PROVE  NexthopTracked'
  <2>1. NhQueue' = NhQueue
    BY <1>8, <1>t DEF EnterRecv, RecvOther, OtherEvent, NhQueue
  <2>2. tpc[Nexthop] \in {"update", "check", "submit"} =>
          tpc'[Nexthop] = tpc[Nexthop]
    BY <1>8, <1>t DEF EnterRecv, RecvOther, OtherEvent
  <2>3. cur' = cur
    BY <1>8 DEF EnterRecv, RecvOther, OtherEvent
  <2>4. \A i : Coming(i) => Coming(i)'
    BY <2>1, <2>2, <2>3 DEF Coming
  <2> QED BY <1>1, <1>8, <2>4 DEF EnterRecv, RecvOther, OtherEvent
<1>9. CASE RecvNexthop
  <2>1. /\ NhQueue # <<>> /\ NhQueue' = Tail(NhQueue) /\ cur' = Head(NhQueue)
        /\ tpc[Nexthop] = "recv" /\ tpc'[Nexthop] = "update"
        /\ UNCHANGED <<kernel, missed, late, chosen, mpc, raced, submitted>>
    BY <1>9, <1>t DEF RecvNexthop, NhQueue
  <2>2. ASSUME NEW i \in NhIds \ missed, kernel[i] = "vrf", Coming(i),
               mpc # "dump"
        PROVE  Coming(i)'
    <3>1. About(NhQueue, i) /\ LastLeaves(NhQueue, i, "vrf")
      BY <2>1, <2>2 DEF Coming, LastIsTrue
    <3>2. About(NhQueue', i) \/ (cur'[1] = i /\ Result(cur') = "vrf")
      BY <1>t, <2>1, <3>1, AboutTail
    <3> QED BY <2>1, <3>2 DEF Coming, Result
  <2> QED BY <1>1, <2>1, <2>2
<1>10. CASE UpdateTable
  <2>1. \A i : Coming(i) => Coming(i)'
    BY <1>10, <1>t DEF UpdateTable, Coming, NhQueue
  <2> QED BY <1>1, <1>10, <2>1 DEF UpdateTable
<1>11. CASE CheckTable
  <2>1. /\ UNCHANGED <<kernel, missed, late, chosen, mpc, raced, submitted>>
        /\ NhQueue' = NhQueue /\ tpc[Nexthop] = "check"
        /\ armed = {"table", "client"} /\ cur[2] = "vrf" =>
             tpc'[Nexthop] = "submit" /\ cur' = cur
    BY <1>11, <1>t DEF CheckTable, NhQueue
  <2>2. ASSUME NEW i \in NhIds, Coming(i), mpc \in {"lookup", "submit", "loop"}
        PROVE  Coming(i)'
    BY <2>1, <2>2 DEF Coming, ArmedInOrder, About
  <2> QED BY <1>1, <2>1, <2>2
<1>12. CASE Resubmit
  <2>1. /\ UNCHANGED <<kernel, missed, late, chosen, mpc, raced>>
        /\ NhQueue' = NhQueue /\ submitted' = submitted \cup {cur[1]}
    BY <1>12 DEF Resubmit, NhQueue
  <2>2. \A i : Coming(i) => i \in submitted' \/ Coming(i)'
    BY <2>1 DEF Coming, About
  <2> QED BY <1>1, <2>1, <2>2
<1>13. CASE UNCHANGED vars
  BY <1>1, <1>13 DEF vars, Coming, NhQueue
<1> QED
  BY <1>2, <1>3, <1>4, <1>5, <1>6, <1>7, <1>8, <1>9, <1>10, <1>11, <1>12, <1>13
     DEF Next, Monitor

\* Arming the monitor before reading its table leaves no gap: once main is in
\* its loop and the monitor has nothing left to handle, a nexthop that leads to
\* the VRF gateway was submitted since it last changed, unless main found a
\* lower id and it has not changed since.
THEOREM NexthopIsSubmitted == Spec => []NexthopSubmitted
<1> DEFINE Inv == TypeInv /\ LastIsTrue /\ ArmedInOrder /\ NexthopTracked
<1>1. Init => Inv
  BY TypeInit, LastIsTrueInit DEF Init, ArmedInOrder, NexthopTracked
<1>2. Inv /\ [Next]_vars => Inv'
  BY TypeNext, LastIsTrueNext, ArmedInOrderNext, NexthopTrackedNext
<1>3. Inv => NexthopSubmitted
  <2> SUFFICES ASSUME Inv, mpc = "loop", Idle, ~raced, NEW i \in NhIds \ missed,
                      kernel[i] = "vrf", i \notin submitted
               PROVE  i \notin late /\ chosen \in 1 .. i - 1
    BY DEF NexthopSubmitted
  <2>1. ~Coming(i)
    BY DEF Idle, Coming, About, NhQueue
  <2>2. i \notin late /\ chosen \in 1 .. i /\ chosen # i
    BY <2>1 DEF NexthopTracked, Covered
  <2> QED BY <2>2, RunAssumption
<1> HIDE DEF Inv
<1> QED BY <1>1, <1>2, <1>3, PTL DEF Spec
=============================================================================
