-------------------------- MODULE IpcSendQueueProofs --------------------------
(***************************************************************************)
(* The order, custody and pressure guarantees of the host's IPC send queue *)
(* for every retention bound and every number of sends.                    *)
(***************************************************************************)
EXTENDS IpcSendQueue, TLAPS, SequenceTheorems

(***************************************************************************)
(* The inductive invariant.  What the properties lack is where tokens come *)
(* from: a callback still to come belongs to a token already handed out,   *)
(* so a fresh token cannot be mistaken for the blocking one.               *)
(***************************************************************************)
Shape ==
  /\ queue \in Seq(Entry)
  /\ wire \in Seq(Nat)
  /\ offered \in Nat
  /\ closed \in BOOLEAN
  /\ pressureNotified \in BOOLEAN
  /\ blockedToken \in Nat
  /\ closed = TRUE => queue = <<>> /\ blockedToken = NoToken

TokensIssued ==
  /\ nextToken \in Nat \ {0}
  /\ callbacks \subseteq Nat
  /\ \A t \in callbacks : 0 < t /\ t < nextToken

WireInv == WireIsPrefix /\ TokensIssued

QueueInv == Shape /\ WireInv /\ QueueIsRest /\ WaitingHasWaker /\ PressureTruthful

-----------------------------------------------------------------------------
(* The queue starts empty, open and unpressured. *)
LEMMA QueueInit == Init => QueueInv
<1> SUFFICES ASSUME Init PROVE QueueInv
  OBVIOUS
<1> USE DEF Init, NoToken
<1>1. Shape
  <2>1. queue \in Seq(Entry) /\ wire \in Seq(Nat)
    OBVIOUS
  <2>2. closed = FALSE /\ pressureNotified = FALSE
    OBVIOUS
  <2>3. offered \in Nat /\ blockedToken \in Nat
    OBVIOUS
  <2> HIDE DEF Init
  <2> QED BY <2>1, <2>2, <2>3 DEF Shape
<1>2. WireInv
  BY DEF WireInv, WireIsPrefix, TokensIssued
<1>3. QueueIsRest /\ WaitingHasWaker
  BY DEF QueueIsRest, WaitingHasWaker
<1>4. PressureTruthful
  BY DEF PressureTruthful
<1> QED BY <1>1, <1>2, <1>3, <1>4 DEF QueueInv

(* Shifting n entries, of which the first sent are handed to Node, extends *)
(* the wire with the next messages in order.                               *)
LEMMA ShiftedExtends ==
  ASSUME QueueInv, closed = FALSE,
         NEW n \in 0..Len(queue), NEW sent \in 0..n,
         NEW cbs \in SUBSET callbacks, Shifted(n, sent, cbs)
  PROVE  wire' \in Seq(Nat) /\ Len(wire') = Len(wire) + sent /\ WireInv'
<1> DEFINE new == [i \in 1..sent |-> queue[i].message]
<1>0. /\ queue \in Seq(Entry) /\ Len(queue) \in Nat /\ wire \in Seq(Nat)
      /\ n \in Nat /\ sent \in Nat
  BY DEF QueueInv, Shape
<1>1. \A i \in 1..sent : queue[i].message = Len(wire) + i
  BY <1>0 DEF QueueInv, QueueIsRest
<1>2. \A i \in 1..sent : new[i] = Len(wire) + i
  BY <1>1
<1>3. new \in Seq(Nat) /\ Len(new) = sent
  <2>1. new \in [1..sent -> Nat]
    BY <1>0, <1>1
  <2> QED BY <2>1, <1>0
<1> HIDE DEF new
<1>4. wire' = wire \o new
  BY DEF Shifted, new
<1>5. /\ wire' \in Seq(Nat) /\ Len(wire') = Len(wire) + sent
      /\ \A i \in 1..Len(wire) + sent :
           wire'[i] = IF i <= Len(wire) THEN wire[i] ELSE new[i - Len(wire)]
  BY <1>0, <1>3, <1>4, ConcatProperties
<1>6. WireIsPrefix'
  <2> SUFFICES ASSUME NEW i \in 1..Len(wire) + sent PROVE wire'[i] = i
    BY <1>5 DEF WireIsPrefix
  <2>1. CASE i <= Len(wire)
    BY <2>1, <1>0, <1>5 DEF QueueInv, WireInv, WireIsPrefix
  <2>2. CASE i > Len(wire)
    <3>1. i - Len(wire) \in 1..sent /\ Len(wire) \in Nat /\ i \in Nat
      BY <2>2, <1>0
    <3>2. wire'[i] = new[i - Len(wire)]
      BY <2>2, <3>1, <1>5
    <3>3. new[i - Len(wire)] = Len(wire) + (i - Len(wire))
      BY <3>1, <1>2
    <3> QED BY <3>1, <3>2, <3>3
  <2> QED BY <2>1, <2>2, <1>0
<1>7. TokensIssued'
  BY <1>0 DEF Shifted, QueueInv, WireInv, TokensIssued
<1> QED BY <1>5, <1>6, <1>7 DEF WireInv

(* Closing keeps the invariant whatever the queue held, as long as the wire *)
(* and the tokens were extended properly.                                   *)
LEMMA CloseKeeps ==
  ASSUME Close, offered' \in Nat, wire' \in Seq(Nat), WireInv'
  PROVE  QueueInv'
<1>1. closed' = TRUE /\ queue' = <<>> /\ blockedToken' = NoToken /\ pressureNotified' = TRUE
  BY DEF Close
<1>2. Shape'
  BY <1>1 DEF Shape, NoToken
<1>3. QueueIsRest' /\ WaitingHasWaker'
  BY <1>1 DEF QueueIsRest, WaitingHasWaker
<1>4. PressureTruthful'
  BY <1>1 DEF PressureTruthful
<1> QED BY <1>2, <1>3, <1>4 DEF QueueInv

(* The part of the invariant about blocking, for a transport left open. *)
LEMMA OpenKeeps ==
  ASSUME closed' = FALSE, queue' \in Seq(Entry), wire' \in Seq(Nat), offered' \in Nat,
         blockedToken' \in Nat, WireInv', QueueIsRest',
         blockedToken' # NoToken => blockedToken' \in callbacks',
         \/ blockedToken' = NoToken /\ pressureNotified' = FALSE /\ queue' = <<>>
         \/ blockedToken' # NoToken /\ pressureNotified' = TRUE
  PROVE  QueueInv'
<1>1. Shape'
  BY DEF Shape
<1>2. WaitingHasWaker'
  BY DEF WaitingHasWaker
<1>3. PressureTruthful'
  BY DEF PressureTruthful
<1> QED BY <1>1, <1>2, <1>3 DEF QueueInv

(* send with nothing waiting. *)
LEMMA SendNowKeeps == QueueInv /\ SendNow => QueueInv'
<1> SUFFICES ASSUME QueueInv, SendNow PROVE QueueInv'
  OBVIOUS
<1>1. closed = FALSE /\ queue = <<>> /\ blockedToken = NoToken /\ offered' = offered + 1
  BY DEF SendNow, Accepting
<1>2. /\ offered = Len(wire) /\ wire \in Seq(Nat) /\ offered \in Nat /\ offered' \in Nat
      /\ queue \in Seq(Entry)
  BY <1>1 DEF QueueInv, Shape, QueueIsRest
<1>3. WireInv /\ nextToken \in Nat \ {0}
  BY DEF QueueInv, WireInv, TokensIssued
<1>4. pressureNotified = FALSE
  BY <1>1 DEF QueueInv, Shape, PressureTruthful
<1>5. CASE Close /\ UNCHANGED <<nextToken, wire, callbacks>>
  <2>1. WireInv'
    BY <1>3, <1>5 DEF WireInv, WireIsPrefix, TokensIssued
  <2> QED BY <1>2, <1>5, <2>1, CloseKeeps
<1>6. ASSUME NEW outcome \in Outcomes, Handed(offered', outcome),
             CASE outcome = "throws" -> Close
               [] outcome = "full" -> Block
               [] outcome = "writable" ->
                    UNCHANGED <<queue, queuedBytes, closed, blockedToken, pressureNotified>>
      PROVE  QueueInv'
  <2>1. CASE outcome = "throws"
    <3>1. Close /\ UNCHANGED <<wire, callbacks>> /\ nextToken' = nextToken + 1
      BY <1>6, <2>1 DEF Handed
    <3>2. WireInv'
      BY <1>3, <3>1 DEF WireInv, WireIsPrefix, TokensIssued
    <3> QED BY <1>2, <3>1, <3>2, CloseKeeps
  <2>2. CASE outcome # "throws"
    <3>1. /\ wire' = Append(wire, offered') /\ nextToken' = nextToken + 1
          /\ callbacks' = callbacks \cup {nextToken}
      BY <1>6, <2>2 DEF Handed
    <3>2. /\ wire' \in Seq(Nat) /\ Len(wire') = Len(wire) + 1
          /\ \A i \in 1..Len(wire) : wire'[i] = wire[i]
          /\ wire'[Len(wire) + 1] = offered'
      BY <1>2, <3>1, AppendProperties
    <3>3. WireIsPrefix'
      BY <1>1, <1>2, <1>3, <3>2 DEF WireInv, WireIsPrefix
    <3>4. TokensIssued'
      BY <1>3, <3>1 DEF WireInv, TokensIssued
    <3>5. /\ queue' = queue /\ closed' = closed
          /\ \/ outcome = "full" /\ blockedToken' = nextToken /\ pressureNotified' = TRUE
             \/ blockedToken' = blockedToken /\ pressureNotified' = pressureNotified
      BY <1>6, <2>2 DEF Block, Outcomes
    <3>6. QueueIsRest'
      BY <1>1, <1>2, <3>2, <3>5 DEF QueueIsRest
    <3>7. CASE blockedToken' = nextToken /\ pressureNotified' = TRUE
      BY <1>1, <1>2, <1>3, <3>1, <3>2, <3>3, <3>4, <3>5, <3>6, <3>7, OpenKeeps
      DEF WireInv, NoToken
    <3>8. CASE blockedToken' = blockedToken /\ pressureNotified' = pressureNotified
      BY <1>1, <1>2, <1>4, <3>2, <3>3, <3>4, <3>5, <3>6, <3>8, OpenKeeps
      DEF WireInv, NoToken
    <3> QED BY <3>5, <3>7, <3>8
  <2> QED BY <2>1, <2>2
<1> QED BY <1>5, <1>6 DEF SendNow

(* send behind a blocked send. *)
LEMMA SendQueuedKeeps == QueueInv /\ SendQueued => QueueInv'
<1> SUFFICES ASSUME QueueInv, SendQueued PROVE QueueInv'
  OBVIOUS
<1>1. /\ closed = FALSE /\ offered' = offered + 1
      /\ ~(blockedToken = NoToken /\ queue = <<>>)
      /\ UNCHANGED <<nextToken, callbacks, wire>>
  BY DEF SendQueued, Accepting
<1>2. /\ offered = Len(wire) + Len(queue) /\ wire \in Seq(Nat) /\ queue \in Seq(Entry)
      /\ offered \in Nat /\ offered' \in Nat /\ wire' \in Seq(Nat)
      /\ \A i \in 1..Len(queue) : queue[i].message = Len(wire) + i
  BY <1>1 DEF QueueInv, Shape, QueueIsRest
<1>3. WireInv'
  BY <1>1 DEF QueueInv, WireInv, WireIsPrefix, TokensIssued
<1>4. CASE Close
  BY <1>2, <1>3, <1>4, CloseKeeps
<1>5. ASSUME NEW bytes \in Sizes, Retain(bytes), UNCHANGED <<blockedToken, closed>>
      PROVE  QueueInv'
  <2> DEFINE e == [message |-> offered', bytes |-> bytes]
  <2>1. e \in Entry /\ e.message = offered'
    BY <1>2, <1>5 DEF Entry
  <2>2. queue' = Append(queue, e) /\ pressureNotified' = TRUE
    BY <1>5 DEF Retain
  <2> HIDE DEF e
  <2>3. /\ queue' \in Seq(Entry) /\ Len(queue') = Len(queue) + 1
        /\ \A i \in 1..Len(queue) : queue'[i] = queue[i]
        /\ queue'[Len(queue) + 1] = e
    BY <2>1, <2>2, <1>2, AppendProperties
  <2>4. ASSUME NEW i \in 1..Len(queue) + 1 PROVE queue'[i].message = Len(wire) + i
    <3>1. CASE i \in 1..Len(queue)
      BY <3>1, <1>2, <2>3
    <3>2. CASE i = Len(queue) + 1
      <4>1. Len(queue) \in Nat /\ Len(wire) \in Nat
        BY <1>2
      <4> QED BY <3>2, <4>1, <1>1, <1>2, <2>1, <2>3
    <3>3. Len(queue) \in Nat
      BY <1>2
    <3> QED BY <3>1, <3>2, <3>3
  <2>5. QueueIsRest'
    <3>1. Len(queue) \in Nat /\ Len(wire) \in Nat
      BY <1>2
    <3>2. wire' = wire /\ offered' = Len(wire') + Len(queue')
      BY <3>1, <1>1, <1>2, <2>3
    <3>3. \A i \in 1..Len(queue') : queue'[i].message = Len(wire') + i
      BY <3>2, <2>3, <2>4
    <3> QED BY <3>2, <3>3 DEF QueueIsRest
  <2>6. blockedToken # NoToken /\ blockedToken \in callbacks /\ blockedToken \in Nat
    BY <1>1 DEF QueueInv, Shape, WaitingHasWaker
  <2> QED BY <1>1, <1>2, <1>3, <1>5, <2>2, <2>3, <2>5, <2>6, OpenKeeps
<1> QED BY <1>4, <1>5 DEF SendQueued

(* A whole drain loop, started by the callback whose token is no longer in cbs. *)
LEMMA DrainKeeps ==
  ASSUME QueueInv, closed = FALSE, UNCHANGED offered,
         NEW cbs \in SUBSET callbacks, Drain(cbs)
  PROVE  QueueInv'
<1> DEFINE L == Len(queue)
<1>1. /\ queue \in Seq(Entry) /\ L \in Nat /\ offered' \in Nat
      /\ wire \in Seq(Nat) /\ nextToken \in Nat \ {0}
      /\ offered' = Len(wire) + L
      /\ \A i \in 1..L : queue[i] \in Entry /\ queue[i].message = Len(wire) + i
  <2>1. Shape /\ TokensIssued /\ QueueIsRest
    BY DEF QueueInv, WireInv
  <2>2. queue \in Seq(Entry) /\ L \in Nat /\ offered' \in Nat /\ wire \in Seq(Nat)
    BY <2>1 DEF Shape
  <2>3. \A i \in 1..L : queue[i] \in Entry
    BY <2>2, ElementOfSeq
  <2> QED BY <2>1, <2>2, <2>3 DEF TokensIssued, QueueIsRest
<1>2. ASSUME NEW n \in 0..L, NEW sent \in 0..n, Shifted(n, sent, cbs), Close
      PROVE  QueueInv'
  BY <1>1, <1>2, ShiftedExtends, CloseKeeps
<1>3. ASSUME NEW n \in 0..L, Shifted(n, n, cbs), UNCHANGED closed,
             queue' = SubSeq(queue, n + 1, L),
             \/ n = L /\ blockedToken' = NoToken /\ pressureNotified' = FALSE
             \/ n # 0 /\ blockedToken' = nextToken + n - 1 /\ pressureNotified' = TRUE
      PROVE  QueueInv'
  <2>1. wire' \in Seq(Nat) /\ Len(wire') = Len(wire) + n /\ WireInv'
    <3>1. n \in 0..n
      BY <1>1
    <3> QED BY <1>3, <3>1, ShiftedExtends
  <2>2. n \in Nat /\ n <= L /\ L \in Nat
    BY <1>1
  <2>3. /\ queue' \in Seq(Entry)
        /\ Len(queue') = IF n + 1 <= L THEN L - (n + 1) + 1 ELSE 0
        /\ \A i \in 1..L - (n + 1) + 1 : queue'[i] = queue[(n + 1) + i - 1]
    <3>1. \A i \in (n + 1)..L : queue[i] \in Entry
      BY <1>1, <2>2
    <3>2. n + 1 \in Int /\ L \in Int
      BY <2>2
    <3> HIDE DEF L
    <3> QED BY <1>3, <3>1, <3>2, SubSeqProperties
  <2>4. Len(queue') = L - n /\ \A i \in 1..(L - n) : queue'[i] = queue[n + i]
    BY <2>2, <2>3
  <2>5. \A i \in 1..(L - n) : queue'[i].message = Len(wire') + i
    BY <1>1, <2>1, <2>2, <2>4
  <2>6. QueueIsRest'
    BY <1>1, <2>1, <2>2, <2>4, <2>5 DEF QueueIsRest
  <2>7. CASE n = L /\ blockedToken' = NoToken /\ pressureNotified' = FALSE
    <3>1. queue' = <<>>
      BY <2>3, <2>4, <2>7, <2>2, EmptySeq
    <3> QED BY <1>1, <1>3, <2>1, <2>3, <2>6, <2>7, <3>1, OpenKeeps DEF NoToken
  <2>8. CASE n # 0 /\ blockedToken' = nextToken + n - 1 /\ pressureNotified' = TRUE
    <3>1. blockedToken' \in Nat /\ blockedToken' # NoToken /\ blockedToken' \in callbacks'
      BY <1>1, <1>3, <2>2, <2>8 DEF Shifted, NoToken
    <3> QED BY <1>1, <1>3, <2>1, <2>3, <2>6, <2>8, <3>1, OpenKeeps
  <2> QED BY <1>3, <2>7, <2>8
<1>4. CASE /\ Shifted(L, L, cbs) /\ queue' = <<>> /\ blockedToken' = NoToken
           /\ pressureNotified' = FALSE /\ UNCHANGED closed
  <2>1. queue' = SubSeq(queue, L + 1, L)
    BY <1>1, <1>4, SubSeqEmpty
  <2>2. L \in 0..L
    BY <1>1
  <2> HIDE DEF L
  <2> QED BY <1>3, <1>4, <2>1, <2>2
<1>5. CASE \E n \in 1..L :
             /\ Shifted(n, n, cbs) /\ queue' = SubSeq(queue, n + 1, L)
             /\ blockedToken' = nextToken + n - 1 /\ pressureNotified' = TRUE
             /\ UNCHANGED closed
  <2>1. PICK n \in 1..L :
             /\ Shifted(n, n, cbs) /\ queue' = SubSeq(queue, n + 1, L)
             /\ blockedToken' = nextToken + n - 1 /\ pressureNotified' = TRUE
             /\ UNCHANGED closed
    BY <1>5
  <2>2. n \in 0..L /\ n # 0
    BY <1>1
  <2> QED BY <1>3, <2>1, <2>2
<1>6. CASE \E n \in 1..L : Shifted(n, n - 1, cbs) /\ Close
  <2>1. PICK n \in 1..L : Shifted(n, n - 1, cbs) /\ Close
    BY <1>6
  <2>2. n \in 0..L /\ n - 1 \in 0..n
    BY <1>1
  <2> QED BY <1>2, <2>1, <2>2
<1>7. CASE Shifted(0, 0, cbs) /\ Close
  BY <1>1, <1>2, <1>7
<1> QED BY <1>4, <1>5, <1>6, <1>7 DEF Drain

(* Every step keeps the invariant. *)
LEMMA QueueStep == QueueInv /\ [Next]_vars => QueueInv'
<1> SUFFICES ASSUME QueueInv, [Next]_vars PROVE QueueInv'
  OBVIOUS
<1>1. CASE Send
  BY <1>1, SendNowKeeps, SendQueuedKeeps DEF Send
<1>2. ASSUME NEW token \in callbacks, Complete(token) PROVE QueueInv'
  <2>1. CASE /\ closed = TRUE \/ blockedToken # token
             /\ UNCHANGED <<queueVars, wire, offered>>
             /\ callbacks' = callbacks \ {token}
    <3>1. Shape' /\ QueueIsRest' /\ PressureTruthful'
      BY <2>1 DEF queueVars, QueueInv, Shape, QueueIsRest, PressureTruthful
    <3>2. WireInv'
      BY <2>1 DEF queueVars, QueueInv, WireInv, WireIsPrefix, TokensIssued
    <3>3. WaitingHasWaker'
      BY <2>1 DEF queueVars, QueueInv, WaitingHasWaker
    <3> QED BY <3>1, <3>2, <3>3 DEF QueueInv
  <2>2. CASE closed = FALSE /\ Drain(callbacks \ {token}) /\ UNCHANGED offered
    BY <2>2, DrainKeeps
  <2> QED BY <1>2, <2>1, <2>2 DEF Complete
<1>3. ASSUME NEW token \in callbacks, CompleteWithError(token) PROVE QueueInv'
  <2>1. Close /\ offered' \in Nat /\ wire' \in Seq(Nat)
    BY <1>3 DEF CompleteWithError, QueueInv, Shape
  <2>2. WireInv'
    BY <1>3 DEF CompleteWithError, QueueInv, WireInv, WireIsPrefix, TokensIssued
  <2> QED BY <2>1, <2>2, CloseKeeps
<1>4. CASE Shutdown
  <2>1. Close /\ offered' \in Nat /\ wire' \in Seq(Nat)
    BY <1>4 DEF Shutdown, QueueInv, Shape
  <2>2. WireInv'
    BY <1>4 DEF Shutdown, QueueInv, WireInv, WireIsPrefix, TokensIssued
  <2> QED BY <2>1, <2>2, CloseKeeps
<1>5. CASE Disconnect \/ UNCHANGED vars
  BY <1>5 DEF Disconnect, vars, queueVars, QueueInv, Shape, WireInv, TokensIssued,
    WireIsPrefix, QueueIsRest, WaitingHasWaker, PressureTruthful
<1> QED BY <1>1, <1>2, <1>3, <1>4, <1>5 DEF Next

(* Main receives a prefix of what the host sent, in order and each once,    *)
(* and an open queue holds the rest, whatever Node does (ipc-send-queue.mjs *)
(* dispatch, send, drain and complete).                                     *)
THEOREM QueueIsFifo == Spec => []FifoExactlyOnce
<1>1. QueueInv => FifoExactlyOnce
  BY DEF QueueInv, WireInv, FifoExactlyOnce
<1> QED BY <1>1, QueueInit, QueueStep, PTL DEF Spec

(* Nothing waits in an open queue without a callback that will drain it. *)
THEOREM QueueNeverStrands == Spec => []WaitingHasWaker
<1>1. QueueInv => WaitingHasWaker
  BY DEF QueueInv
<1> QED BY <1>1, QueueInit, QueueStep, PTL DEF Spec

(* The pressure told to the producers is the queue's own. *)
THEOREM QueuePressure == Spec => []PressureTruthful
<1>1. QueueInv => PressureTruthful
  BY DEF QueueInv
<1> QED BY <1>1, QueueInit, QueueStep, PTL DEF Spec

(* A closed queue stays closed, and nothing reaches the wire through it,   *)
(* whatever callbacks are still to come (ipc-send-queue.mjs close and      *)
(* complete).                                                              *)
THEOREM QueueClosesForGood == Spec => ClosedIsFinal
<1>1. ASSUME [Next]_vars, closed = TRUE PROVE closed' = TRUE /\ wire' = wire
  <2>1. CASE Send
    BY <1>1, <2>1 DEF Send, SendNow, SendQueued, Accepting
  <2>2. ASSUME NEW token \in callbacks, Complete(token) PROVE closed' = TRUE /\ wire' = wire
    BY <1>1, <2>2 DEF Complete, queueVars
  <2>3. ASSUME NEW token \in callbacks, CompleteWithError(token)
        PROVE  closed' = TRUE /\ wire' = wire
    BY <1>1, <2>3 DEF CompleteWithError
  <2>4. CASE Shutdown \/ Disconnect \/ UNCHANGED vars
    BY <1>1, <2>4 DEF Shutdown, Disconnect, vars, queueVars
  <2> QED BY <1>1, <2>1, <2>2, <2>3, <2>4 DEF Next
<1> QED BY <1>1, PTL DEF Spec, ClosedIsFinal
=============================================================================
