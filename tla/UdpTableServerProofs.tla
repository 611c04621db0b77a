------------------------ MODULE UdpTableServerProofs ------------------------
(***************************************************************************)
(* Proof about UdpTableServer, for any number of publishers, clients and   *)
(* snapshots: no subscriber misses the stored snapshot silently.           *)
(***************************************************************************)
EXTENDS UdpTableServer, TLAPS

-----------------------------------------------------------------------------
(* Queues without duplicates.                                               *)

\* The elements of a queue, and whether each is in it once only.
Held(q) == {q[k] : k \in 1 .. Len(q)}
NoDuplicate(q) == \A j, k \in 1 .. Len(q) : q[j] = q[k] => j = k

\* What is left when the oldest element leaves a queue.
LEMMA HeadTail ==
  ASSUME NEW S, NEW q \in Seq(S), q # <<>>
  PROVE  /\ Head(q) \in S /\ Tail(q) \in Seq(S)
         /\ Held(q) = Held(Tail(q)) \cup {Head(q)}
         /\ NoDuplicate(q) =>
              NoDuplicate(Tail(q)) /\ Head(q) \notin Held(Tail(q))
<1>1. /\ Len(q) \in Nat /\ Len(q) > 0 /\ Head(q) = q[1]
      /\ Len(Tail(q)) = Len(q) - 1
      /\ \A k \in 1 .. Len(q) - 1 : Tail(q)[k] = q[k + 1]
      /\ Head(q) \in S /\ Tail(q) \in Seq(S)
  OBVIOUS
<1>2. \A k \in 1 .. Len(q) : k = 1 \/ (k - 1 \in 1 .. Len(q) - 1 /\ q[k] = Tail(q)[k - 1])
  BY <1>1
<1>3. \A k \in 1 .. Len(q) - 1 : k + 1 \in 1 .. Len(q) /\ k + 1 # 1
  BY <1>1
<1>4. Held(q) = Held(Tail(q)) \cup {Head(q)}
  BY <1>1, <1>2, <1>3 DEF Held
<1>5. ASSUME NoDuplicate(q)
      PROVE  NoDuplicate(Tail(q)) /\ Head(q) \notin Held(Tail(q))
  BY <1>1, <1>3, <1>5 DEF NoDuplicate, Held
<1> QED BY <1>1, <1>4, <1>5

\* What is there when an element enters a queue.
LEMMA Appended ==
  ASSUME NEW S, NEW q \in Seq(S), NEW e \in S
  PROVE  /\ Append(q, e) \in Seq(S) /\ Append(q, e) # <<>>
         /\ Held(Append(q, e)) = Held(q) \cup {e}
         /\ NoDuplicate(q) /\ e \notin Held(q) => NoDuplicate(Append(q, e))
<1> DEFINE r == Append(q, e)
<1>1. /\ Len(q) \in Nat /\ Len(r) = Len(q) + 1
      /\ r[Len(q) + 1] = e
      /\ \A k \in 1 .. Len(q) : r[k] = q[k]
      /\ r \in Seq(S) /\ r # <<>>
  OBVIOUS
<1>2. \A k : k \in 1 .. Len(r) <=> k \in 1 .. Len(q) \/ k = Len(q) + 1
  BY <1>1
<1> HIDE DEF r
<1>3. Held(r) = Held(q) \cup {e}
  BY <1>1, <1>2 DEF Held
<1>4. ASSUME NoDuplicate(q), e \notin Held(q) PROVE NoDuplicate(r)
  BY <1>1, <1>2, <1>4 DEF NoDuplicate, Held
<1> QED BY <1>1, <1>3, <1>4 DEF r

-----------------------------------------------------------------------------
(* Types, and what the threads hold.                                        *)

\* Nobody holds or received a snapshot newer than the stored one; whoever
\* pushes has a snapshot to push, and has names left only while it holds
\* subMutex; the listener serves one datagram at a time and is gone when
\* start() may be called.
HeldInv ==
  /\ TypeOK
  /\ \A c \in Clients : best[c] <= data
  /\ \A p \in Publishers :
       /\ payload[p] <= data
       /\ ppc[p] # "idle" => payload[p] \in Versions
       /\ ppc[p] # "send" => rest[p] = <<>>
  /\ snapshot <= data
  /\ \A c, d \in sender : c = d
  /\ opc = "close" \/ (opc = "idle" /\ ~running) => lpc = "off"

\* A snapshot v is sent to c: it receives it, or the datagram is among the
\* failed ones, and nobody loses what it has.
LEMMA Sent ==
  ASSUME HeldInv, NEW c \in Clients, NEW v \in Versions, v <= data,
         SendTo(c, v)
  PROVE  /\ best' \in [Clients -> Versions \cup {0}]
         /\ unsent' \in [Clients -> SUBSET Versions]
         /\ \A d \in Clients :
              /\ best'[d] <= data
              /\ data \in unsent[d] \cup {best[d]} =>
                   data \in unsent'[d] \cup {best'[d]}
         /\ v = data => data \in unsent'[c] \cup {best'[c]}
<1> USE UdpAssumption DEF HeldInv, TypeOK, Versions
<1>1. CASE Received(c, v)
  BY <1>1 DEF Received
<1>2. CASE NotReceived(c, v)
  BY <1>2 DEF NotReceived
<1> QED BY <1>1, <1>2 DEF SendTo

\* The same for a reply, which is not sent when the snapshot is empty.
LEMMA Replied ==
  ASSUME HeldInv, NEW c \in Clients, Reply(c)
  PROVE  /\ best' \in [Clients -> Versions \cup {0}]
         /\ unsent' \in [Clients -> SUBSET Versions]
         /\ \A d \in Clients :
              /\ best'[d] <= data
              /\ data \in unsent[d] \cup {best[d]} =>
                   data \in unsent'[d] \cup {best'[d]}
         /\ snapshot = data => data \in unsent'[c] \cup {best'[c]}
<1>1. CASE snapshot = 0
  BY <1>1, UdpAssumption DEF Reply, clientVars, HeldInv, TypeOK, Versions
<1>2. CASE snapshot # 0
  <2>1. snapshot \in Versions /\ snapshot <= data /\ SendTo(c, snapshot)
    BY <1>2 DEF Reply, HeldInv, TypeOK
  <2> QED BY <2>1, Sent
<1> QED BY <1>1, <1>2

LEMMA HeldInit == Init => HeldInv
<1> SUFFICES ASSUME Init PROVE HeldInv
  OBVIOUS
<1>1. /\ running \in BOOLEAN /\ open \in BOOLEAN /\ wake \in BOOLEAN
      /\ thread \in BOOLEAN
  BY Zenon DEF Init
<1>2. subscribers = <<>> /\ lpc = "off"
  BY DEF Init
<1> QED BY <1>1, <1>2 DEF Init, HeldInv, TypeOK

LEMMA HeldOwner ==
  ASSUME HeldInv, Start \/ StopFlag \/ Owner
  PROVE  HeldInv'
<1> USE DEF HeldInv, TypeOK, publisherVars, listenerVars, clientVars
<1>1. CASE Start
  BY <1>1 DEF Start
<1>2. CASE StopFlag
  BY <1>2 DEF StopFlag
<1>3. CASE StopWake
  BY <1>3 DEF StopWake, PipeByte
<1>4. CASE StopJoin
  BY <1>4 DEF StopJoin
<1>5. CASE StopClose
  BY <1>5 DEF StopClose
<1> QED BY <1>1, <1>2, <1>3, <1>4, <1>5 DEF Owner

LEMMA HeldPublisher ==
  ASSUME HeldInv, NEW p \in Publishers, Publisher(p) \/ SetData(p)
  PROVE  HeldInv'
<1> USE DEF HeldInv, TypeOK, ownerVars, listenerVars, clientVars
<1>1. CASE SetData(p)
  <2>1. data + 1 \in Versions
    BY <1>1, UdpAssumption DEF SetData, Versions
  <2>2. \A n \in Versions \cup {0} : n <= data => n <= data + 1
    BY UdpAssumption DEF Versions
  <2> QED BY <1>1, <2>1, <2>2 DEF SetData
<1>2. CASE LockSubscribers(p)
  BY <1>2 DEF LockSubscribers, Recipients
<1>3. CASE Push(p)
  <2>1. /\ Head(rest[p]) \in Clients /\ Tail(rest[p]) \in Seq(Clients)
        /\ payload[p] \in Versions /\ payload[p] <= data
        /\ SendTo(Head(rest[p]), payload[p])
    BY <1>3, HeadTail DEF Push
  <2>2. /\ best' \in [Clients -> Versions \cup {0}]
        /\ unsent' \in [Clients -> SUBSET Versions]
        /\ \A d \in Clients : best'[d] <= data
    BY <2>1, Sent
  <2> QED BY <1>3, <2>1, <2>2 DEF Push
<1>4. CASE PushDone(p)
  BY <1>4 DEF PushDone
<1> QED BY <1>1, <1>2, <1>3, <1>4 DEF Publisher

LEMMA HeldListener ==
  ASSUME HeldInv, Listener
  PROVE  HeldInv'
<1> USE DEF HeldInv, TypeOK, ownerVars, publisherVars, clientVars, Goto
<1>1. CASE LoopHead \/ Woken
  BY <1>1 DEF LoopHead, Woken
<1>2. CASE CopyData
  <2>1. data <= data
    BY UdpAssumption DEF Versions
  <2> QED BY <1>2, <2>1 DEF CopyData, Snapshot
<1>3. ASSUME NEW c \in Clients, Receive(c) PROVE HeldInv'
  BY <1>3 DEF Receive
<1>4. ASSUME NEW c \in Clients, Register(c) PROVE HeldInv'
  <2>1. NoDuplicate(subscribers)
    BY DEF NoDuplicate
  <2>2. subscribers' \in Seq(Clients) /\ NoDuplicate(subscribers')
    BY <1>4, <2>1, Appended DEF Register, With, Subscribed, Held
  <2>3. \A j, k \in 1 .. Len(subscribers') :
          subscribers'[j] = subscribers'[k] => j = k
    BY <2>2 DEF NoDuplicate
  <2> QED BY <1>4, <2>2, <2>3 DEF Register
<1>5. ASSUME NEW c \in Clients, Reply(c) PROVE HeldInv'
  BY <1>5, Replied DEF Reply
<1> QED BY <1>1, <1>2, <1>3, <1>4, <1>5 DEF Listener

LEMMA HeldNext == HeldInv /\ [Next]_vars => HeldInv'
<1> SUFFICES ASSUME HeldInv, [Next]_vars PROVE HeldInv'
  OBVIOUS
<1> USE DEF HeldInv, TypeOK, ownerVars, publisherVars, listenerVars, clientVars
<1>1. CASE UNCHANGED vars
  BY <1>1 DEF vars
<1>2. ASSUME NEW c \in Clients, NEW kind \in {"query", "subscribe"},
             Ask(c, kind)
      PROVE  HeldInv'
  BY <1>2 DEF Ask
<1> QED BY <1>1, <1>2, HeldOwner, HeldPublisher, HeldListener DEF Next

-----------------------------------------------------------------------------
(* No gap between registration and the pushes.                              *)

LEMMA GapInit == Init => NoSubscriptionGap
BY DEF Init, NoSubscriptionGap, Subscribed

LEMMA GapNext ==
  HeldInv /\ NoSubscriptionGap /\ [Next]_vars => NoSubscriptionGap'
<1> SUFFICES ASSUME HeldInv, NoSubscriptionGap, [Next]_vars
             PROVE  NoSubscriptionGap'
  OBVIOUS
<1> USE DEF ownerVars, publisherVars, listenerVars, clientVars, Goto
<1>t. TypeOK /\ Subscribed \subseteq Clients /\ Subscribed = Held(subscribers)
  BY DEF HeldInv, TypeOK, Subscribed, Held
\* Most actions disturb neither what is stored nor who is going to send it.
<1>1. ASSUME UNCHANGED <<data, best, unsent>>,
             \A c \in Subscribed : Sending(c) => Sending(c)',
             \A c \in Subscribed' : c \in Subscribed \/ Sending(c)'
      PROVE  NoSubscriptionGap'
  BY <1>1 DEF NoSubscriptionGap
<1>2. ASSUME UNCHANGED <<data, best, unsent, subscribers, payload, ppc, rest>>,
             UNCHANGED <<sender, snapshot>>,
             lpc' = lpc \/ lpc \notin {"copy", "reply"}
      PROVE  NoSubscriptionGap'
  <2>1. \A c : Sending(c) => Sending(c)'
    BY <1>2 DEF Sending
  <2>2. UNCHANGED Subscribed
    BY <1>2 DEF Subscribed
  <2> QED BY <1>1, <1>2, <2>1, <2>2
<1>3. CASE Owner \/ Start \/ StopFlag
  BY <1>2, <1>3 DEF Owner, StopWake, StopJoin, StopClose, Start, StopFlag,
                    HeldInv
<1>4. CASE LoopHead \/ Woken \/ UNCHANGED vars
  BY <1>2, <1>4 DEF LoopHead, Woken, vars
<1>5. ASSUME NEW c \in Clients, NEW kind \in {"query", "subscribe"},
             Ask(c, kind)
      PROVE  NoSubscriptionGap'
  BY <1>2, <1>5 DEF Ask
\* setData(): its caller is going to push to everybody.
<1>6. ASSUME NEW p \in Publishers, SetData(p) PROVE NoSubscriptionGap'
  <2>1. payload'[p] = data' /\ ppc'[p] = "lock"
    BY <1>6, <1>t DEF SetData, TypeOK
  <2> QED BY <2>1 DEF NoSubscriptionGap, Sending
<1>7. ASSUME NEW p \in Publishers, LockSubscribers(p)
      PROVE  NoSubscriptionGap'
  <2>1. /\ rest' = [rest EXCEPT ![p] = subscribers] /\ ppc[p] = "lock"
        /\ rest[p] = <<>>
        /\ \A q \in Publishers : ppc'[q] = IF q = p THEN "send" ELSE ppc[q]
        /\ UNCHANGED <<data, best, unsent, subscribers, payload, sender, lpc,
                       snapshot>>
    BY <1>7, <1>t DEF LockSubscribers, Recipients, TypeOK, HeldInv
  <2>2. \A q \in Publishers : rest'[q] = IF q = p THEN subscribers ELSE rest[q]
    BY <2>1, <1>t DEF TypeOK
  <2>3. \A c \in Subscribed : Sending(c) => Sending(c)'
    BY <2>1, <2>2, <1>t DEF Sending, Held
  <2>4. UNCHANGED Subscribed
    BY <2>1 DEF Subscribed
  <2> QED BY <1>1, <2>1, <2>3, <2>4
<1>8. ASSUME NEW p \in Publishers, Push(p) PROVE NoSubscriptionGap'
  <2> DEFINE c == Head(rest[p])
  <2>1. /\ rest[p] \in Seq(Clients) /\ rest[p] # <<>> /\ ppc[p] = "send"
        /\ payload[p] \in Versions /\ payload[p] <= data
        /\ SendTo(c, payload[p])
        /\ \A q \in Publishers :
             rest'[q] = IF q = p THEN Tail(rest[p]) ELSE rest[q]
        /\ UNCHANGED <<data, subscribers, ppc, payload, lpc, sender, snapshot>>
    BY <1>8, <1>t DEF Push, TypeOK, HeldInv
  <2>2. c \in Clients /\ Held(rest[p]) = Held(Tail(rest[p])) \cup {c}
    BY <2>1, HeadTail
  <2> HIDE DEF c
  <2>3. /\ \A d \in Clients : data \in unsent[d] \cup {best[d]} =>
                                data \in unsent'[d] \cup {best'[d]}
        /\ payload[p] = data => data \in unsent'[c] \cup {best'[c]}
    BY <2>1, <2>2, Sent
  <2>4. \A d : Sending(d) => Sending(d)' \/ (d = c /\ payload[p] = data)
    <3>1. \A q \in Publishers : \A d :
            d \in Held(rest[q]) => d \in Held(rest'[q]) \/ (q = p /\ d = c)
      BY <2>1, <2>2
    <3>2. \A d : Sending(d) <=>
            \/ d \in sender /\ (lpc = "copy" \/ (lpc = "reply" /\ snapshot = data))
            \/ \E q \in Publishers :
                 payload[q] = data /\ (ppc[q] = "lock" \/ d \in Held(rest[q]))
      BY DEF Sending, Held
    <3>3. \A d : Sending(d)' <=>
            \/ d \in sender /\ (lpc = "copy" \/ (lpc = "reply" /\ snapshot = data))
            \/ \E q \in Publishers :
                 payload[q] = data /\ (ppc[q] = "lock" \/ d \in Held(rest'[q]))
      BY <2>1 DEF Sending, Held
    <3> QED BY <3>1, <3>2, <3>3
  <2>5. UNCHANGED Subscribed
    BY <2>1 DEF Subscribed
  <2> QED BY <1>t, <2>1, <2>3, <2>4, <2>5 DEF NoSubscriptionGap
<1>9. ASSUME NEW p \in Publishers, PushDone(p) PROVE NoSubscriptionGap'
  <2>1. \A c : Sending(c) => Sending(c)'
    BY <1>9, <1>t DEF PushDone, Sending, TypeOK
  <2>2. UNCHANGED Subscribed
    BY <1>9 DEF PushDone, Subscribed
  <2> QED BY <1>1, <1>9, <2>1, <2>2 DEF PushDone
<1>10. ASSUME NEW c \in Clients, Receive(c) PROVE NoSubscriptionGap'
  <2>1. \A d : Sending(d) => Sending(d)'
    BY <1>10 DEF Receive, Sending
  <2>2. UNCHANGED Subscribed
    BY <1>10 DEF Receive, Subscribed
  <2> QED BY <1>1, <1>10, <2>1, <2>2 DEF Receive
\* Registering comes before copying: the reply will have the stored snapshot.
<1>11. ASSUME NEW c \in Clients, Register(c) PROVE NoSubscriptionGap'
  <2>1. /\ lpc = "register" /\ lpc' = "copy" /\ c \in sender
        /\ subscribers' = With(c)
        /\ UNCHANGED <<data, best, unsent, ppc, payload, rest, sender, snapshot>>
    BY <1>11 DEF Register
  <2>2. \A d : Sending(d) => Sending(d)'
    BY <2>1 DEF Sending
  <2>3. Sending(c)'
    BY <2>1 DEF Sending
  <2>4. Subscribed' \subseteq Subscribed \cup {c}
    BY <2>1, <1>t, Appended DEF With, Subscribed, Held, TypeOK
  <2> QED BY <1>1, <2>1, <2>2, <2>3, <2>4
<1>12. CASE CopyData
  <2>1. \A d : Sending(d) => Sending(d)'
    BY <1>12 DEF CopyData, Snapshot, Sending
  <2>2. UNCHANGED Subscribed
    BY <1>12 DEF CopyData, Subscribed
  <2> QED BY <1>1, <1>12, <2>1, <2>2 DEF CopyData
<1>13. ASSUME NEW c \in Clients, Reply(c) PROVE NoSubscriptionGap'
  <2>1. /\ lpc = "reply" /\ sender = {c}
        /\ UNCHANGED <<data, subscribers, ppc, payload, rest, snapshot>>
    BY <1>13 DEF Reply, HeldInv
  <2>2. \A d : Sending(d) => Sending(d)' \/ (d = c /\ snapshot = data)
    BY <2>1 DEF Sending
  <2>3. UNCHANGED Subscribed
    BY <2>1 DEF Subscribed
  <2> QED BY <1>13, <1>t, <2>1, <2>2, <2>3, Replied DEF NoSubscriptionGap
<1> QED
  BY <1>3, <1>4, <1>5, <1>6, <1>7, <1>8, <1>9, <1>10, <1>11, <1>12, <1>13
     DEF Next, Listener, Publisher

\* A subscriber never misses the stored snapshot silently, however
\* registrations, copies and pushes interleave: it has received it, a datagram
\* with it failed or was lost, or one is still to be sent to it.
THEOREM SubscribersAreSound == Spec => []SubscribersSound
<1>1. HeldInv /\ NoSubscriptionGap => SubscribersSound
  BY DEF HeldInv, SubscribersSound
<1> QED BY <1>1, HeldInit, HeldNext, GapInit, GapNext, PTL DEF Spec
=============================================================================
