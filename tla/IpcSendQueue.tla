----------------------------- MODULE IpcSendQueue -----------------------------
(***************************************************************************)
(* The bounded FIFO that the forked session host puts around               *)
(* child_process.send() (resources/pi-session-host/ipc-send-queue.mjs, as  *)
(* host.mjs creates it).  Everything the host says to the main process     *)
(* goes through it, so the transport sequence checked on the other side is *)
(* only as good as this queue: it may delay a message, never reorder,      *)
(* repeat or silently lose one.                                            *)
(*                                                                         *)
(* A message is its position in the order in which the host called send,   *)
(* with a size in bytes.  JavaScript runs each function to completion, so  *)
(* send and a whole drain loop are one action each.  Node's answer to each *)
(* process.send (writable, above the high-water mark, or an exception) and *)
(* the moment and result of each callback are the environment's choice.    *)
(***************************************************************************)
EXTENDS Integers, Sequences, FiniteSets

CONSTANTS
  maxQueuedMessages,  \* retention bound on queued messages (8192 in the host)
  maxQueuedBytes,     \* retention bound on queued bytes (8 MiB in the host)
  Sizes,              \* the sizes a message may have
  MaxSends            \* bound of the model: calls of send

ASSUME BoundsAssumption ==
  /\ maxQueuedMessages \in Nat \ {0}
  /\ maxQueuedBytes \in Nat \ {0}
  /\ Sizes \subseteq Nat
  /\ MaxSends \in Nat

NoToken == 0   \* blockedToken is undefined; tokens start at 1

VARIABLES
  queue,            \* messages waiting, oldest first: [message, bytes]
  queuedBytes,
  nextToken,
  blockedToken,     \* token of the send that returned false, or NoToken
  closed,
  pressureNotified, \* last value told to onPressureChange
  connected,        \* process.connected
  callbacks,        \* tokens whose process.send callback has not run
  wire,             \* messages Node accepted, in order
  offered           \* calls of send so far, and the number of the last one

queueVars == <<queue, queuedBytes, nextToken, blockedToken, closed, pressureNotified>>
vars == <<queueVars, connected, callbacks, wire, offered>>

Entry == [message : Nat, bytes : Sizes]

-----------------------------------------------------------------------------
Init ==
  /\ queue = <<>>
  /\ queuedBytes = 0
  /\ nextToken = 1
  /\ blockedToken = NoToken
  /\ closed = FALSE
  /\ pressureNotified = FALSE
  /\ connected = TRUE
  /\ callbacks = {}
  /\ wire = <<>>
  /\ offered = 0

(***************************************************************************)
(* close(error): forget the queue for good and report pressure.            *)
(***************************************************************************)
CloseQuietly == \* bug: close does not report pressure
  /\ closed' = TRUE
  /\ blockedToken' = NoToken
  /\ queue' = <<>>
  /\ queuedBytes' = 0
  /\ UNCHANGED pressureNotified

Close ==
  /\ closed' = TRUE
  /\ blockedToken' = NoToken
  /\ queue' = <<>>
  /\ queuedBytes' = 0
  /\ pressureNotified' = TRUE

Outcomes == {"writable", "full", "throws"}

(***************************************************************************)
(* What one process.send of message m does to the wire.  A throwing send   *)
(* consumes a token but hands nothing to Node.                             *)
(***************************************************************************)
Handed(m, outcome) ==
  /\ nextToken' = nextToken + 1
  /\ IF outcome = "throws"
     THEN UNCHANGED <<wire, callbacks>>
     ELSE /\ wire' = Append(wire, m)
          /\ callbacks' = callbacks \cup {nextToken}

(***************************************************************************)
(* process.send returned false: the message is accepted and never retried, *)
(* and later ones wait for its callback.                                   *)
(***************************************************************************)
BlockAndRequeue == \* bug: a false return is taken for a refusal
  /\ blockedToken' = nextToken
  /\ pressureNotified' = TRUE
  /\ queue' = <<[message |-> offered', bytes |-> 0]>>
  /\ UNCHANGED <<queuedBytes, closed>>

BlockOnNextToken == \* bug: the token is read after it was incremented
  /\ blockedToken' = nextToken + 1
  /\ pressureNotified' = TRUE
  /\ UNCHANGED <<queue, queuedBytes, closed>>

Block ==
  /\ blockedToken' = nextToken
  /\ pressureNotified' = TRUE
  /\ UNCHANGED <<queue, queuedBytes, closed>>

(***************************************************************************)
(* send(message) with nothing waiting: dispatch it at once.                *)
(***************************************************************************)
AcceptingWhenClosed == offered < MaxSends \* bug: send does not look at closed

Accepting == closed = FALSE /\ offered < MaxSends

SendNow ==
  /\ Accepting
  /\ blockedToken = NoToken /\ queue = <<>>
  /\ offered' = offered + 1
  /\ \/ /\ ~connected
        /\ Close
        /\ UNCHANGED <<nextToken, wire, callbacks>>
     \/ /\ connected
        /\ \E outcome \in Outcomes :
             /\ Handed(offered', outcome)
             /\ CASE outcome = "throws" -> Close
                  [] outcome = "full" -> Block
                  [] outcome = "writable" ->
                       UNCHANGED <<queue, queuedBytes, closed, blockedToken, pressureNotified>>
  /\ UNCHANGED connected

(***************************************************************************)
(* send(message) behind a blocked send: retain it, or close the transport  *)
(* when the retention bound would be exceeded.                             *)
(***************************************************************************)
FitsOneMore(bytes) == \* bug: the queue length is tested before the push
  /\ Len(queue) <= maxQueuedMessages
  /\ queuedBytes + bytes <= maxQueuedBytes

Fits(bytes) ==
  /\ Len(queue) + 1 <= maxQueuedMessages
  /\ queuedBytes + bytes <= maxQueuedBytes

RetainUncounted(bytes) == \* bug: the bytes are not added
  /\ queue' = Append(queue, [message |-> offered', bytes |-> bytes])
  /\ pressureNotified' = TRUE
  /\ UNCHANGED queuedBytes

Retain(bytes) ==
  /\ queue' = Append(queue, [message |-> offered', bytes |-> bytes])
  /\ queuedBytes' = queuedBytes + bytes
  /\ pressureNotified' = TRUE

SendQueued ==
  /\ Accepting
  /\ ~(blockedToken = NoToken /\ queue = <<>>)
  /\ offered' = offered + 1
  /\ \E bytes \in Sizes :
       \/ /\ Fits(bytes)
          /\ Retain(bytes)
          /\ UNCHANGED <<blockedToken, closed>>
       \/ /\ ~Fits(bytes)
          /\ Close
  /\ UNCHANGED <<nextToken, connected, callbacks, wire>>

(***************************************************************************)
(* drain(): shift and dispatch from the head until Node reports a full     *)
(* channel, a send throws, or nothing is left.  n entries are shifted; the *)
(* last meets the given outcome and the ones before it were writable.  The *)
(* callbacks still to come are cbs and those of the sends made here.       *)
(***************************************************************************)
BytesOf(q) ==
  LET sum[i \in 0..Len(q)] == IF i = 0 THEN 0 ELSE sum[i-1] + q[i].bytes
  IN  sum[Len(q)]

Shifted(n, sent, cbs) ==
  /\ wire' = wire \o [i \in 1..sent |-> queue[i].message]
  /\ callbacks' = cbs \cup (nextToken .. nextToken + sent - 1)
  /\ nextToken' = nextToken + n

DrainOne(cbs) == \* bug: `if` where the loop should be
  LET n == IF queue = <<>> THEN 0 ELSE 1 IN
  /\ connected
  /\ Shifted(n, n, cbs)
  /\ queue' = SubSeq(queue, n + 1, Len(queue))
  /\ queuedBytes' = queuedBytes - BytesOf(SubSeq(queue, 1, n))
  /\ blockedToken' = NoToken
  /\ pressureNotified' = (Len(queue) > n)
  /\ UNCHANGED closed

Drain(cbs) ==
  \/ /\ connected \/ queue = <<>>
     /\ Shifted(Len(queue), Len(queue), cbs)
     /\ queue' = <<>>
     /\ queuedBytes' = queuedBytes - BytesOf(queue)
     /\ blockedToken' = NoToken
     /\ pressureNotified' = FALSE
     /\ UNCHANGED closed
  \/ \E n \in 1..Len(queue) :
     /\ connected
     /\ Shifted(n, n, cbs)
     /\ queue' = SubSeq(queue, n + 1, Len(queue))
     /\ queuedBytes' = queuedBytes - BytesOf(SubSeq(queue, 1, n))
     /\ blockedToken' = nextToken + n - 1
     /\ pressureNotified' = TRUE
     /\ UNCHANGED closed
  \/ \E n \in 1..Len(queue) :
     /\ connected
     /\ Shifted(n, n - 1, cbs)
     /\ Close
  \/ /\ ~connected /\ queue # <<>>
     /\ Shifted(0, 0, cbs)
     /\ Close

(***************************************************************************)
(* complete(token, error), run once for each send Node accepted: an error  *)
(* closes the transport, success of the blocking send resumes the drain.   *)
(***************************************************************************)
Complete(token) ==
  /\ token \in callbacks
  /\ LET cbs == callbacks \ {token} IN
     \/ /\ closed = TRUE \/ blockedToken # token
        /\ callbacks' = cbs
        /\ UNCHANGED <<queueVars, wire>>
     \/ /\ closed = FALSE /\ blockedToken = token
        /\ Drain(cbs)
  /\ UNCHANGED <<connected, offered>>

CompleteWithError(token) ==
  /\ token \in callbacks
  /\ closed = FALSE
  /\ callbacks' = callbacks \ {token}
  /\ Close
  /\ UNCHANGED <<nextToken, wire, connected, offered>>

-----------------------------------------------------------------------------
Shutdown == \* the host closes the queue itself
  /\ closed = FALSE
  /\ Close
  /\ UNCHANGED <<nextToken, connected, callbacks, wire, offered>>

Disconnect == \* the parent is gone; noticed by the next dispatch
  /\ connected
  /\ connected' = FALSE
  /\ UNCHANGED <<queueVars, callbacks, wire, offered>>

Send == SendNow \/ SendQueued

Next ==
  \/ Send
  \/ \E token \in callbacks : Complete(token) \/ CompleteWithError(token)
  \/ Shutdown
  \/ Disconnect

\* Node runs the callback of every send it accepted.
Fairness == \A token \in 1..MaxSends : WF_vars(Complete(token))

Spec == Init /\ [][Next]_vars

FairSpec == Spec /\ Fairness

-----------------------------------------------------------------------------
TypeOK ==
  /\ queue \in Seq(Entry)
  /\ queuedBytes \in Nat
  /\ nextToken \in Nat \ {0}
  /\ blockedToken \in Nat
  /\ closed \in BOOLEAN
  /\ pressureNotified \in BOOLEAN
  /\ connected \in BOOLEAN
  /\ callbacks \subseteq Nat
  /\ wire \in Seq(Nat)
  /\ offered \in Nat

(***************************************************************************)
(* What the main process receives is exactly the first messages the host   *)
(* sent, in order, each once; and while the transport is open the queue    *)
(* holds exactly the rest.  (The transport sequence of session-host.ts     *)
(* declares a gap, and fences the host, whenever this fails.)              *)
(***************************************************************************)
WireIsPrefix == \A i \in 1..Len(wire) : wire[i] = i

QueueIsRest ==
  closed = FALSE =>
    /\ \A i \in 1..Len(queue) : queue[i].message = Len(wire) + i
    /\ offered = Len(wire) + Len(queue)

FifoExactlyOnce == WireIsPrefix /\ QueueIsRest

(***************************************************************************)
(* A message is only ever waiting for a callback that is still to come:    *)
(* nothing can be stranded in an open queue.                               *)
(***************************************************************************)
WaitingHasWaker ==
  closed = FALSE =>
    /\ queue # <<>> => blockedToken # NoToken
    /\ blockedToken # NoToken => blockedToken \in callbacks

(***************************************************************************)
(* The pressure last reported to the shell and terminal producers is the   *)
(* truth: on while a send is blocked and for ever after a close, else off. *)
(***************************************************************************)
PressureTruthful ==
  pressureNotified = TRUE <=> (closed = TRUE \/ blockedToken # NoToken)

(***************************************************************************)
(* The retention bounds hold and the byte count never drifts from what is  *)
(* really queued, over any number of partial drains.                       *)
(***************************************************************************)
RetentionBounded ==
  /\ Len(queue) <= maxQueuedMessages
  /\ queuedBytes = BytesOf(queue)
  /\ queuedBytes <= maxQueuedBytes

(***************************************************************************)
(* Close is final: nothing reaches the wire afterwards, whatever callbacks *)
(* are still to come.                                                      *)
(***************************************************************************)
ClosedIsFinal == [][closed = TRUE => closed' = TRUE /\ wire' = wire]_vars

(***************************************************************************)
(* Every message the queue takes reaches the wire or the transport closes  *)
(* (which the host answers by exiting).                                    *)
(***************************************************************************)
SentOrClosed ==
  \A m \in 1..MaxSends : (offered >= m) ~> (closed = TRUE \/ Len(wire) >= m)

(***************************************************************************)
(* What the queue takes is sent, within its bounds, or the transport is    *)
(* closed for good.                                                        *)
(***************************************************************************)
QueueContract == []RetentionBounded /\ ClosedIsFinal /\ SentOrClosed
=============================================================================
