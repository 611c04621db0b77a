--------------------------- MODULE UdpTableServer ---------------------------
(***************************************************************************)
(* One of the three ports of UdpTableServer, which publishes the kernel    *)
(* tables of sra over UDP.  Publishers store a new snapshot and push it to *)
(* the subscribers; the listener thread answers datagrams, with the        *)
(* snapshot it copied, and registers who sent SUBSCRIBE.                   *)
(*                                                                         *)
(* A snapshot is identified with the number of the setData() call that     *)
(* stored it, 0 for the empty string.  Two locks are held one at a time:   *)
(* dataMutex, around one assignment or one copy, and subMutex, around a    *)
(* whole push or one registration.  The ports share only running_, so that *)
(* the two other ports do not matter here.                                 *)
(***************************************************************************)
EXTENDS Naturals, Sequences

CONSTANTS
  Publishers,   \* threads that call setXxxData()
  Clients,      \* UDP addresses
  MaxVersion,   \* bound on the number of setXxxData() calls
  Oversized     \* snapshots that do not fit one datagram: sendto() fails

ASSUME UdpAssumption ==
  MaxVersion \in Nat /\ Oversized \subseteq 1 .. MaxVersion

Versions == 1 .. MaxVersion

VARIABLES
  opc,          \* where the owner is, who calls start() and stop()
  running,      \* running_
  open,         \* the socket and the stop-pipe are open
  wake,         \* a byte is in the stop-pipe
  thread,       \* the thread is joinable
  data,         \* ps.data
  subscribers,  \* ps.subscribers
  ppc,          \* where each publisher is
  payload,      \* the snapshot a publisher pushes
  rest,         \* the subscribers a publisher has still to send to
  lpc,          \* where the listener is
  sender,       \* whose datagram the listener serves, as a set
  snapshot,     \* the copy of ps.data it will reply with
  request       \* the datagram of each client that waits in the socket

\* History variables: what reached each client.
VARIABLES
  best,         \* the newest snapshot it ever received
  unsent        \* the snapshots of which a datagram to it failed or was lost

ownerVars == <<opc, running, open, wake, thread>>
publisherVars == <<ppc, payload, rest>>
listenerVars == <<lpc, sender, snapshot>>
clientVars == <<best, unsent>>
vars == <<ownerVars, data, subscribers, publisherVars, listenerVars, request,
          clientVars>>

Subscribed == {subscribers[k] : k \in 1 .. Len(subscribers)}

TypeOK ==
  /\ opc \in {"idle", "wake", "join", "close"}
  /\ running \in BOOLEAN /\ open \in BOOLEAN
  /\ wake \in BOOLEAN /\ thread \in BOOLEAN
  /\ data \in Versions \cup {0}
  /\ subscribers \in Seq(Clients)
  /\ \A j, k \in 1 .. Len(subscribers) :
       subscribers[j] = subscribers[k] => j = k
  /\ ppc \in [Publishers -> {"idle", "lock", "send"}]
  /\ payload \in [Publishers -> Versions \cup {0}]
  /\ rest \in [Publishers -> Seq(Clients)]
  /\ lpc \in {"off", "head", "poll", "register", "copy", "reply", "end"}
  /\ sender \in SUBSET Clients
  /\ snapshot \in Versions \cup {0}
  /\ request \in [Clients -> {"none", "query", "subscribe"}]
  /\ best \in [Clients -> Versions \cup {0}]
  /\ unsent \in [Clients -> SUBSET Versions]

Init ==
  /\ opc = "idle" /\ running = FALSE /\ open = FALSE
  /\ wake = FALSE /\ thread = FALSE
  /\ data = 0 /\ subscribers = <<>>
  /\ ppc = [p \in Publishers |-> "idle"]
  /\ payload = [p \in Publishers |-> 0]
  /\ rest = [p \in Publishers |-> <<>>]
  /\ lpc = "off" /\ sender = {} /\ snapshot = 0
  /\ request = [c \in Clients |-> "none"]
  /\ best = [c \in Clients |-> 0]
  /\ unsent = [c \in Clients |-> {}]

-----------------------------------------------------------------------------
(* sendto(), whose result nobody looks at.                                  *)

Received(c, v) ==
  /\ open /\ v \notin Oversized
  /\ best' = [best EXCEPT ![c] = IF v > @ THEN v ELSE @]
  /\ UNCHANGED unsent

\* The socket is closed, the snapshot is too long, or UDP loses the datagram.
NotReceived(c, v) ==
  /\ unsent' = [unsent EXCEPT ![c] = @ \cup {v}]
  /\ UNCHANGED best

SendTo(c, v) == Received(c, v) \/ NotReceived(c, v)

-----------------------------------------------------------------------------
(* The owner: start() and stop().                                           *)

\* Every socket and pipe opens and the thread starts.
Start ==
  /\ opc = "idle" /\ ~running
  /\ running' = TRUE /\ open' = TRUE /\ thread' = TRUE /\ wake' = FALSE
  /\ lpc' = "head"
  /\ UNCHANGED <<opc, data, subscribers, publisherVars, sender, snapshot,
                 request, clientVars>>

\* stop() while nobody runs changes nothing; nor does a failing start(),
\* which calls it to close what was opened.
StopFlag ==
  /\ opc = "idle" /\ running
  /\ running' = FALSE
  /\ opc' = "wake"
  /\ UNCHANGED <<open, wake, thread, data, subscribers, publisherVars,
                 listenerVars, request, clientVars>>

\* The byte written to the stop-pipe stays there until the pipe is closed.
PipeByte_NotWritten == FALSE
PipeByte == TRUE

StopWake ==
  /\ opc = "wake"
  /\ wake' = PipeByte
  /\ opc' = "join"
  /\ UNCHANGED <<running, open, thread, data, subscribers, publisherVars,
                 listenerVars, request, clientVars>>

StopJoin ==
  /\ opc = "join" /\ lpc = "end"
  /\ thread' = FALSE
  /\ lpc' = "off"
  /\ opc' = "close"
  /\ UNCHANGED <<running, open, wake, data, subscribers, publisherVars, sender,
                 snapshot, request, clientVars>>

\* What waits in the socket is gone with it.
StopClose ==
  /\ opc = "close"
  /\ open' = FALSE /\ wake' = FALSE
  /\ request' = [c \in Clients |-> "none"]
  /\ opc' = "idle"
  /\ UNCHANGED <<running, thread, data, subscribers, publisherVars,
                 listenerVars, clientVars>>

-----------------------------------------------------------------------------
(* The publishers: setData() and pushToSubscribers().                       *)

\* The assignment under dataMutex: each call stores a snapshot of its own.
SetData(p) ==
  /\ ppc[p] = "idle" /\ data < MaxVersion
  /\ data' = data + 1
  /\ payload' = [payload EXCEPT ![p] = data + 1]
  /\ ppc' = [ppc EXCEPT ![p] = "lock"]
  /\ UNCHANGED <<ownerVars, subscribers, rest, listenerVars, request,
                 clientVars>>

SubMutexFree == \A p \in Publishers : ppc[p] # "send"

\* Who gets the push, once subMutex is held.
Recipients_AllButNewest ==
  IF subscribers = <<>> THEN <<>>
  ELSE SubSeq(subscribers, 1, Len(subscribers) - 1)
Recipients == subscribers

LockSubscribers(p) ==
  /\ ppc[p] = "lock" /\ SubMutexFree
  /\ rest' = [rest EXCEPT ![p] = Recipients]
  /\ ppc' = [ppc EXCEPT ![p] = "send"]
  /\ UNCHANGED <<ownerVars, data, subscribers, payload, listenerVars, request,
                 clientVars>>

Push(p) ==
  /\ ppc[p] = "send" /\ rest[p] # <<>>
  /\ SendTo(Head(rest[p]), payload[p])
  /\ rest' = [rest EXCEPT ![p] = Tail(@)]
  /\ UNCHANGED <<ownerVars, data, subscribers, ppc, payload, listenerVars,
                 request>>

PushDone(p) ==
  /\ ppc[p] = "send" /\ rest[p] = <<>>
  /\ ppc' = [ppc EXCEPT ![p] = "idle"]
  /\ UNCHANGED <<ownerVars, data, subscribers, payload, rest, listenerVars,
                 request, clientVars>>

-----------------------------------------------------------------------------
(* The listener: runListener().                                             *)

Goto(from, to) == lpc = from /\ lpc' = to

LoopHead ==
  /\ Goto("head", IF running THEN "poll" ELSE "end")
  /\ UNCHANGED <<ownerVars, data, subscribers, publisherVars, sender, snapshot,
                 request, clientVars>>

\* The stop-pipe is readable: it is looked at before the socket.
Woken ==
  /\ wake /\ Goto("poll", "end")
  /\ UNCHANGED <<ownerVars, data, subscribers, publisherVars, sender, snapshot,
                 request, clientVars>>

\* recvfrom() of a datagram of client c.
Receive(c) ==
  /\ ~wake /\ request[c] # "none"
  /\ Goto("poll", IF request[c] = "subscribe" THEN "register" ELSE "copy")
  /\ sender' = {c}
  /\ request' = [request EXCEPT ![c] = "none"]
  /\ UNCHANGED <<ownerVars, data, subscribers, publisherVars, snapshot,
                 clientVars>>

\* The list after a SUBSCRIBE: an address is listed once.
With(c) == IF c \in Subscribed THEN subscribers ELSE Append(subscribers, c)

Register(c) ==
  /\ SubMutexFree /\ c \in sender /\ Goto("register", "copy")
  /\ subscribers' = With(c)
  /\ UNCHANGED <<ownerVars, data, publisherVars, sender, snapshot, request,
                 clientVars>>

\* The copy of ps.data under dataMutex.
Snapshot_Cached == IF snapshot = 0 THEN data ELSE snapshot
Snapshot == data

CopyData ==
  /\ Goto("copy", "reply")
  /\ snapshot' = Snapshot
  /\ UNCHANGED <<ownerVars, data, subscribers, publisherVars, sender, request,
                 clientVars>>

\* The reply, unless the snapshot is the empty string.
Reply(c) ==
  /\ c \in sender /\ Goto("reply", "head")
  /\ IF snapshot = 0 THEN UNCHANGED clientVars ELSE SendTo(c, snapshot)
  /\ sender' = {}
  /\ UNCHANGED <<ownerVars, data, subscribers, publisherVars, snapshot, request>>

-----------------------------------------------------------------------------
(* The clients.                                                             *)

Ask(c, kind) ==
  /\ open /\ request[c] = "none"
  /\ request' = [request EXCEPT ![c] = kind]
  /\ UNCHANGED <<ownerVars, data, subscribers, publisherVars, listenerVars,
                 clientVars>>

-----------------------------------------------------------------------------

Listener ==
  \/ LoopHead \/ Woken \/ CopyData
  \/ \E c \in Clients : Receive(c) \/ Register(c) \/ Reply(c)
Publisher(p) == LockSubscribers(p) \/ Push(p) \/ PushDone(p)
Owner == StopWake \/ StopJoin \/ StopClose

Next ==
  \/ Listener \/ Owner \/ Start \/ StopFlag
  \/ \E p \in Publishers : Publisher(p) \/ SetData(p)
  \/ \E c \in Clients, kind \in {"query", "subscribe"} : Ask(c, kind)

\* Threads run, and one that waits for subMutex again and again gets it.
Fairness ==
  /\ WF_vars(Listener) /\ \A c \in Clients : SF_vars(Register(c))
  /\ WF_vars(Owner)
  /\ \A p \in Publishers : WF_vars(Publisher(p)) /\ SF_vars(LockSubscribers(p))

Spec == Init /\ [][Next]_vars /\ Fairness

-----------------------------------------------------------------------------
(* Properties.                                                              *)

\* The listener or a publisher is going to send the stored snapshot to c.
Sending(c) ==
  \/ c \in sender /\ (lpc = "copy" \/ (lpc = "reply" /\ snapshot = data))
  \/ \E p \in Publishers :
       /\ payload[p] = data
       /\ ppc[p] = "lock" \/ c \in {rest[p][k] : k \in 1 .. Len(rest[p])}

\* Registering before copying the data leaves no gap: whatever subscription
\* and pushes interleave, a subscriber has received the stored snapshot, or a
\* datagram with it failed, or one is still to be sent to it.
NoSubscriptionGap ==
  \A c \in Subscribed :
    data \in unsent[c] \cup {best[c]} \/ Sending(c)

\* The same, with every variable of its type: no address is listed twice.
SubscribersSound == TypeOK /\ NoSubscriptionGap

\* A snapshot that is not replaced reaches each subscriber or fails to: no
\* publisher or listener waits for another for ever.
NewestIsSent ==
  \A c \in Clients, v \in Versions :
    (data = v /\ c \in Subscribed) ~> (data # v \/ v \in unsent[c] \cup {best[c]})

\* stop() returns, whatever the listener was doing: the byte in the pipe stays.
StopReturns == opc # "idle" ~> opc = "idle"
=============================================================================
