--------------------------- MODULE GrpcProcProofs ---------------------------
(***************************************************************************)
(* Proofs about GrpcProc, for any number of callers, controllers and       *)
(* requests: no request is stranded, each response is handed out once, and *)
(* the queue implements WorkQueue.                                         *)
(***************************************************************************)
EXTENDS GrpcProc, TLAPS

-----------------------------------------------------------------------------
(* Queues without duplicates.                                               *)

\* The elements of a queue, and whether each is in it once only.
Held(q) == {q[k] : k \in 1 .. Len(q)}
NoDuplicate(q) == \A j, k \in 1 .. Len(q) : q[j] = q[k] => j = k

\* What is left when the oldest element leaves a queue.
LEMMA HeadTail ==
  ASSUME NEW S, NEW q \in Seq(S), q # <<>>
  PROVE  /\ Head(q) \in S /\ Tail(q) \in Seq(S)
         /\ Held(q) = Held(Tail(q)) \cup {Head(q)}
         /\ NoDuplicate(q) =>
              NoDuplicate(Tail(q)) /\ Head(q) \notin Held(Tail(q))
<1>1. /\ Len(q) \in Nat /\ Len(q) > 0 /\ Head(q) = q[1]
      /\ Len(Tail(q)) = Len(q) - 1
      /\ \A k \in 1 .. Len(q) - 1 : Tail(q)[k] = q[k + 1]
      /\ Head(q) \in S /\ Tail(q) \in Seq(S)
  OBVIOUS
<1>2. \A k \in 1 .. Len(q) : k = 1 \/ (k - 1 \in 1 .. Len(q) - 1 /\ q[k] = Tail(q)[k - 1])
  BY <1>1
<1>3. \A k \in 1 .. Len(q) - 1 : k + 1 \in 1 .. Len(q) /\ k + 1 # 1
  BY <1>1
<1>4. Held(q) = Held(Tail(q)) \cup {Head(q)}
  BY <1>1, <1>2, <1>3 DEF Held
<1>5. ASSUME NoDuplicate(q)
      PROVE  NoDuplicate(Tail(q)) /\ Head(q) \notin Held(Tail(q))
  BY <1>1, <1>3, <1>5 DEF NoDuplicate, Held
<1> QED BY <1>1, <1>4, <1>5

\* What is there when an element enters a queue.
LEMMA Appended ==
  ASSUME NEW S, NEW q \in Seq(S), NEW e \in S
  PROVE  /\ Append(q, e) \in Seq(S) /\ Append(q, e) # <<>>
         /\ Held(Append(q, e)) = Held(q) \cup {e}
         /\ NoDuplicate(q) /\ e \notin Held(q) => NoDuplicate(Append(q, e))
<1> DEFINE r == Append(q, e)
<1>1. /\ Len(q) \in Nat /\ Len(r) = Len(q) + 1
      /\ r[Len(q) + 1] = e
      /\ \A k \in 1 .. Len(q) : r[k] = q[k]
      /\ r \in Seq(S) /\ r # <<>>
  OBVIOUS
<1>2. \A k : k \in 1 .. Len(r) <=> k \in 1 .. Len(q) \/ k = Len(q) + 1
  BY <1>1
<1> HIDE DEF r
<1>3. Held(r) = Held(q) \cup {e}
  BY <1>1, <1>2 DEF Held
<1>4. ASSUME NoDuplicate(q), e \notin Held(q) PROVE NoDuplicate(r)
  BY <1>1, <1>2, <1>4 DEF NoDuplicate, Held
<1> QED BY <1>1, <1>3, <1>4 DEF r

-----------------------------------------------------------------------------
(* Types and wake-ups.                                                      *)

\* Why QueueSound is kept: a caller that pushes has an id, the thread exists
\* exactly between its start and its join, and while the thread holds the
\* mutex before it sleeps the queue stays empty.
QueueInv ==
  /\ QueueSound
  /\ thread <=> wpc # "none"
  /\ \A c \in Callers : cpc[c] = "push" => mine[c] \in Ids
  /\ wpc = "checked" => queue = <<>>

LEMMA QueueInit == Init => QueueInv
<1> SUFFICES ASSUME Init PROVE QueueInv
  OBVIOUS
<1>1. TypeOK
  <2>1. running \in BOOLEAN /\ thread \in BOOLEAN /\ terminated \in BOOLEAN
    BY Zenon DEF Init
  <2>2. nextId \in 1 .. MaxRequests + 1
    BY GrpcProcAssumption DEF Init
  <2> QED BY <2>1, <2>2 DEF Init, TypeOK
<1>2. ~thread /\ wpc = "none"
  BY DEF Init
<1> QED BY <1>1, <1>2 DEF Init, QueueInv, QueueSound, NoStrandedRequest

LEMMA QueueControl ==
  ASSUME QueueInv, ~terminated, NEW k \in Controllers,
         Control(k) \/ StartFlag(k) \/ StopFlag(k)
  PROVE  QueueInv'
<1> USE DEF QueueInv, QueueSound, TypeOK, NoStrandedRequest, ControlStep,
            workerVars, callerVars, controlVars
<1>1. CASE StartFlag(k)
  BY <1>1 DEF StartFlag
<1>2. CASE StartThread(k)
  BY <1>2 DEF StartThread
<1>3. CASE StopFlag(k)
  BY <1>3 DEF StopFlag
<1>4. CASE StopNotify(k)
  BY <1>4 DEF StopNotify, Woken
<1>5. CASE StopJoin(k)
  BY <1>5 DEF StopJoin
<1> QED BY <1>1, <1>2, <1>3, <1>4, <1>5 DEF Control

LEMMA QueueWorker ==
  ASSUME QueueInv, Worker \/ SpuriousWake
  PROVE  QueueInv'
<1> USE DEF QueueInv, QueueSound, TypeOK, NoStrandedRequest,
            workerVars, callerVars, controlVars
<1>1. CASE CheckPredicate
  BY <1>1 DEF CheckPredicate, NothingToDo
<1>2. CASE Sleep
  BY <1>2 DEF Sleep
<1>3. CASE SpuriousWake
  BY <1>3 DEF SpuriousWake
<1>4. CASE Exit
  BY <1>4 DEF Exit
<1>5. CASE Dequeue
  BY <1>5, HeadTail DEF Dequeue, Taken, Remaining
<1>6. CASE StoreResponse
  BY <1>6 DEF StoreResponse
<1> QED BY <1>1, <1>2, <1>3, <1>4, <1>5, <1>6 DEF Worker

LEMMA QueueCaller ==
  ASSUME QueueInv, NEW c \in Callers,
         \/ AllocateId(c) \/ Push(c) \/ NotifyOne(c) \/ GiveUp(c)
         \/ \E i \in Ids : Fetch(c, i)
  PROVE  QueueInv'
<1> USE DEF QueueInv, QueueSound, TypeOK, NoStrandedRequest,
            workerVars, callerVars, controlVars
<1>1. CASE AllocateId(c)
  BY <1>1, GrpcProcAssumption DEF AllocateId, Ids
<1>2. CASE Push(c)
  BY <1>2, Appended DEF Push, MutexFree
<1>3. CASE NotifyOne(c)
  BY <1>3 DEF NotifyOne, Woken
<1>4. CASE GiveUp(c)
  BY <1>4 DEF GiveUp
<1>5. ASSUME NEW i \in Ids, Fetch(c, i) PROVE QueueInv'
  BY <1>5 DEF Fetch, Fetched
<1> QED BY <1>1, <1>2, <1>3, <1>4, <1>5

LEMMA QueueNext == QueueInv /\ [Next]_vars => QueueInv'
<1> SUFFICES ASSUME QueueInv, [Next]_vars PROVE QueueInv'
  OBVIOUS
<1>1. CASE UNCHANGED vars
  BY <1>1 DEF vars, workerVars, callerVars, controlVars, QueueInv, QueueSound,
              TypeOK, NoStrandedRequest
<1> QED BY <1>1, QueueControl, QueueWorker, QueueCaller DEF Next

\* submit() never loses its wake-up, however start(), stop() and other callers
\* interleave with it: a request waits for a sleeping thread only while the
\* caller that pushed it is about to notify.
THEOREM QueueIsSound == Spec => []QueueSound
<1>1. QueueInv => QueueSound
  BY DEF QueueInv
<1> QED BY <1>1, QueueInit, QueueNext, PTL DEF Spec

-----------------------------------------------------------------------------
(* Every request is in one place.                                           *)

\* Where a request may be once its id is in use.
Handed(i) == \E c \in Callers : i \in answers[c]
Placed(i) == i \in Held(queue) \/ i \in current \/ i \in responses \/ Handed(i)

\* Each id is in one place at most: about to be pushed by one caller, queued
\* once, executed, stored, or handed to one caller; fresh ids are in none.
OnePlace ==
  /\ NoDuplicate(queue)
  /\ \A i, j \in current : i = j
  /\ \A i \in Held(queue) : i \notin current /\ i \notin responses
  /\ \A i \in current : i \notin responses
  /\ \A i \in Ids : Handed(i) =>
       i \notin Held(queue) /\ i \notin current /\ i \notin responses
  /\ \A c, d \in Callers : c # d => answers[c] \cap answers[d] = {}
  /\ \A i \in Ids : Placed(i) => i < nextId
  /\ \A c \in Callers : cpc[c] = "push" =>
       /\ mine[c] < nextId /\ ~Placed(mine[c])
       /\ \A d \in Callers \ {c} : cpc[d] = "push" => mine[d] # mine[c]

LEMMA OnePlaceInit == Init => OnePlace
BY DEF Init, OnePlace, NoDuplicate, Held, Handed, Placed

LEMMA OnePlaceNext ==
  QueueInv /\ OnePlace /\ [Next]_vars => OnePlace'
<1> SUFFICES ASSUME QueueInv, OnePlace, [Next]_vars PROVE OnePlace'
  OBVIOUS
<1> USE DEF QueueInv, QueueSound, TypeOK, workerVars, callerVars, controlVars
\* Only these six actions move a request.
<1>1. ASSUME UNCHANGED <<queue, current, responses, nextId, mine, answers>>,
             \A c \in Callers : cpc'[c] = "push" => cpc[c] = "push"
      PROVE  OnePlace'
  BY <1>1 DEF OnePlace, Handed, Placed
<1>2. CASE Dequeue
  <2>1. /\ current = {} /\ current' = {Head(queue)}
        /\ Held(queue) = Held(queue') \cup {Head(queue)}
        /\ NoDuplicate(queue') /\ Head(queue) \notin Held(queue')
        /\ Head(queue) \in Ids
        /\ UNCHANGED <<responses, nextId, cpc, mine, answers>>
    BY <1>2, HeadTail DEF Dequeue, Taken, Remaining, OnePlace
  <2>2. \A i : Placed(i)' <=> Placed(i)
    BY <2>1 DEF Placed, Handed
  <2> QED BY <2>1, <2>2 DEF OnePlace, Handed
<1>3. CASE StoreResponse
  <2>1. /\ current' = {} /\ responses' = responses \cup current
        /\ UNCHANGED <<queue, nextId, cpc, mine, answers>>
    BY <1>3 DEF StoreResponse
  <2>2. \A i : Placed(i)' <=> Placed(i)
    BY <2>1 DEF Placed, Handed
  <2> QED BY <2>1, <2>2 DEF OnePlace, Handed
<1>4. ASSUME NEW c \in Callers, AllocateId(c) PROVE OnePlace'
  <2>1. /\ nextId' = nextId + 1 /\ mine' = [mine EXCEPT ![c] = nextId]
        /\ cpc' = [cpc EXCEPT ![c] = "push"]
        /\ nextId \in Ids
        /\ UNCHANGED <<queue, current, responses, answers>>
    BY <1>4, GrpcProcAssumption DEF AllocateId, Ids
  <2>2. \A i : Placed(i)' <=> Placed(i)
    BY <2>1 DEF Placed, Handed
  <2>3. ~Placed(nextId)
    BY <2>1, GrpcProcAssumption DEF OnePlace, Ids
  <2>4. \A i \in Ids : i < nextId => i < nextId'
    BY <2>1, GrpcProcAssumption DEF Ids
  <2>5. \A d \in Callers : cpc'[d] = "push" =>
          /\ mine'[d] \in Ids /\ mine'[d] < nextId' /\ ~Placed(mine'[d])
          /\ \A e \in Callers \ {d} : cpc'[e] = "push" => mine'[e] # mine'[d]
    BY <2>1, <2>3, <2>4, GrpcProcAssumption DEF OnePlace, Ids
  <2> QED BY <2>1, <2>2, <2>4, <2>5 DEF OnePlace, Handed
<1>5. ASSUME NEW c \in Callers, Push(c) PROVE OnePlace'
  <2>1. /\ cpc[c] = "push" /\ mine[c] \in Ids
        /\ cpc' = [cpc EXCEPT ![c] = "notify"]
        /\ Held(queue') = Held(queue) \cup {mine[c]}
        /\ mine[c] \notin Held(queue) => NoDuplicate(queue')
        /\ UNCHANGED <<current, responses, nextId, mine, answers>>
    BY <1>5, Appended DEF Push, OnePlace
  <2>2. /\ ~Placed(mine[c]) /\ mine[c] < nextId
        /\ \A d \in Callers \ {c} : cpc[d] = "push" => mine[d] # mine[c]
    BY <2>1 DEF OnePlace
  <2>3. \A i : Placed(i)' <=> Placed(i) \/ i = mine[c]
    BY <2>1 DEF Placed, Handed
  <2> QED BY <2>1, <2>2, <2>3 DEF OnePlace, Handed, Placed
<1>6. ASSUME NEW c \in Callers, NEW i \in Ids, Fetch(c, i) PROVE OnePlace'
  <2>1. /\ i \in responses /\ responses' = responses \ {i}
        /\ answers' = [answers EXCEPT ![c] = @ \cup {i}]
        /\ \A d \in Callers : cpc'[d] = "push" => cpc[d] = "push"
        /\ UNCHANGED <<queue, current, nextId, mine>>
    BY <1>6 DEF Fetch, Fetched
  <2>2. \A j : Handed(j)' <=> Handed(j) \/ j = i
    BY <2>1 DEF Handed
  <2>3. \A j : Placed(j)' <=> Placed(j)
    BY <2>1, <2>2 DEF Placed
  <2>4. \A d \in Callers : i \notin answers[d]
    BY <2>1 DEF OnePlace, Handed
  <2>5. \A d, e \in Callers : d # e => answers'[d] \cap answers'[e] = {}
    BY <2>1, <2>4 DEF OnePlace
  <2> QED BY <2>1, <2>2, <2>3, <2>5 DEF OnePlace
<1>7. ASSUME NEW c \in Callers, NotifyOne(c) \/ GiveUp(c) PROVE OnePlace'
  BY <1>1, <1>7 DEF NotifyOne, GiveUp
<1>8. ASSUME NEW k \in Controllers, Control(k) \/ StartFlag(k) \/ StopFlag(k)
      PROVE  OnePlace'
  BY <1>1, <1>8 DEF Control, StartFlag, StartThread, StopFlag, StopNotify,
                    StopJoin
<1>9. CASE CheckPredicate \/ Sleep \/ SpuriousWake \/ Exit \/ UNCHANGED vars
  BY <1>1, <1>9 DEF CheckPredicate, Sleep, SpuriousWake, Exit, vars
<1> QED
  BY <1>2, <1>3, <1>4, <1>5, <1>6, <1>7, <1>8, <1>9 DEF Next, Worker

LEMMA OnePlaceOnce == QueueInv /\ OnePlace => ResponseOnce
<1> SUFFICES ASSUME QueueInv, OnePlace PROVE ResponseOnce
  OBVIOUS
<1>1. \A i : i \in Answered <=> Handed(i)
  BY DEF Answered, Handed
<1>2. Answered \subseteq Ids
  BY DEF Answered, QueueInv, QueueSound, TypeOK
<1>3. Queued = Held(queue)
  BY DEF Queued, Held
<1> QED BY <1>1, <1>2, <1>3 DEF ResponseOnce, OnePlace

\* A response is handed out once at most, to one caller, and is gone from the
\* store then, whoever waits or polls for it and whoever gives up.
THEOREM ResponseIsHandedOutOnce == Spec => []ResponseOnce
<1>1. QueueInv /\ OnePlace /\ [Next]_vars => (QueueInv /\ OnePlace)'
  BY QueueNext, OnePlaceNext
<1> QED BY <1>1, QueueInit, OnePlaceInit, OnePlaceOnce, PTL DEF Spec

-----------------------------------------------------------------------------
(* The queue implements WorkQueue.                                          *)

LEMMA WorkQueueInit == Init => WQ!Init
BY DEF Init, WQ!Init, Answered

LEMMA WorkQueueNext ==
  QueueInv /\ OnePlace /\ [Next]_vars => [WQ!Next]_WQ!vars
<1> SUFFICES ASSUME QueueInv, OnePlace, [Next]_vars
             PROVE  [WQ!Next]_WQ!vars
  OBVIOUS
<1> USE DEF QueueInv, QueueSound, TypeOK, workerVars, callerVars, controlVars
<1>1. ASSUME UNCHANGED <<queue, current, responses, answers>>
      PROVE  UNCHANGED WQ!vars
  BY <1>1 DEF WQ!vars, Answered
<1>2. CASE Dequeue
  <2>1. current = {} /\ UNCHANGED <<responses, answers>>
    BY <1>2 DEF Dequeue
  <2>2. WQ!Begin
    BY <1>2, <2>1 DEF Dequeue, Taken, Remaining, WQ!Begin, Answered
  <2> QED BY <2>2 DEF WQ!Next
<1>3. CASE StoreResponse
  <2>1. current # {} /\ UNCHANGED answers
    BY <1>3 DEF StoreResponse
  <2>2. WQ!Finish
    BY <1>3, <2>1 DEF StoreResponse, WQ!Finish, Answered
  <2> QED BY <2>2 DEF WQ!Next
<1>4. ASSUME NEW c \in Callers, Push(c) PROVE WQ!Next
  <2>1. mine[c] \in Ids /\ ~Placed(mine[c])
    BY <1>4 DEF Push, OnePlace
  <2>2. mine[c] \notin WQ!Waiting \cup current \cup (responses \cup Answered)
    BY <2>1 DEF Placed, Held, Handed, WQ!Waiting, Answered
  <2>3. WQ!Submit(mine[c])
    BY <1>4, <2>2 DEF Push, WQ!Submit, Answered
  <2> QED BY <2>1, <2>3 DEF WQ!Next
<1>5. ASSUME NEW c \in Callers, NEW i \in Ids, Fetch(c, i)
      PROVE  UNCHANGED WQ!vars
  <2>1. /\ i \in responses /\ responses' = responses \ {i}
        /\ answers' = [answers EXCEPT ![c] = @ \cup {i}]
        /\ UNCHANGED <<queue, current>>
    BY <1>5 DEF Fetch, Fetched
  <2>2. Answered' = Answered \cup {i}
    BY <2>1 DEF Answered
  <2> QED BY <2>1, <2>2 DEF WQ!vars
<1>6. ASSUME NEW c \in Callers, AllocateId(c) \/ NotifyOne(c) \/ GiveUp(c)
      PROVE  UNCHANGED WQ!vars
  BY <1>1, <1>6 DEF AllocateId, NotifyOne, GiveUp
<1>7. ASSUME NEW k \in Controllers, Control(k) \/ StartFlag(k) \/ StopFlag(k)
      PROVE  UNCHANGED WQ!vars
  BY <1>1, <1>7 DEF Control, StartFlag, StartThread, StopFlag, StopNotify,
                    StopJoin
<1>8. CASE CheckPredicate \/ Sleep \/ SpuriousWake \/ Exit \/ UNCHANGED vars
  BY <1>1, <1>8 DEF CheckPredicate, Sleep, SpuriousWake, Exit, vars
<1> QED
  BY <1>2, <1>3, <1>4, <1>5, <1>6, <1>7, <1>8 DEF Next, Worker

\* Whatever callers and controllers do, requests are executed one at a time,
\* in queue order and at most once, and one leaves the queue only to be
\* executed.
THEOREM ImplementsWorkQueue == Spec => WorkQueueSpec
<1>1. QueueInv /\ OnePlace /\ [Next]_vars => (QueueInv /\ OnePlace)'
  BY QueueNext, OnePlaceNext
<1> QED
  BY <1>1, QueueInit, OnePlaceInit, WorkQueueInit, WorkQueueNext, PTL
     DEF Spec, WorkQueueSpec, WQ!Spec
=============================================================================
