-------------------------- MODULE EventStreamProofs ---------------------------
(***************************************************************************)
(* No subscriber ever misses an event: proofs for every ring capacity,     *)
(* journal size, event sizes, number of events and number of clients.      *)
(*                                                                         *)
(* The argument.  The journal is always the last stretch of what the       *)
(* snapshot reflects (JournalIsSuffix); so an event frame that             *)
(* Subscription::next sends without asking for a snapshot is the one right *)
(* after the client's cursor, and the client's state is the run up to its  *)
(* cursor (ViewIsPrefix).  A stream ends only at the cursor of a terminal  *)
(* snapshot (Ending), so an ended client has everything.                   *)
(***************************************************************************)
EXTENDS EventStream, WellFoundedInduction, TLAPS

-----------------------------------------------------------------------------
(* Minima, and what trimming leaves of a stretch of events.                *)

\* A nonempty set of naturals has a least element.
LEMMA MinExists ==
  ASSUME NEW S \in SUBSET Nat, S # {}
  PROVE  \E x \in S : \A y \in S : x <= y
<1> DEFINE R == OpToRel(<, Nat)
<1>1. IsWellFoundedOn(R, Nat)
  BY NatLessThanWellFounded
<1> HIDE DEF R
<1>2. PICK x \in S : \A y \in S : ~ (<<y, x>> \in R)
  BY <1>1, WFMin, Zenon
<1>3. \A a, b \in Nat : a < b => <<a, b>> \in R
  BY DEF R, OpToRel
<1>4. \A y \in S : y \in Nat /\ x \in Nat
  OBVIOUS
<1>5. \A y \in S : ~(y < x)
  BY <1>2, <1>3, <1>4, Zenon
<1>6. \A y \in S : x <= y
  BY <1>4, <1>5, SMT
<1>7. QED
  BY <1>6

\* Min, the oldest event of the journal, is that element.
LEMMA MinIsLeast ==
  ASSUME NEW S \in SUBSET Nat, S # {}
  PROVE  Min(S) \in S /\ \A y \in S : Min(S) <= y
BY MinExists DEF Min

\* pop_front takes from the front: with an event every later one stays.
LEMMA TrimKeepsSuffix ==
  ASSUME NEW J \in SUBSET Nat
  PROVE  /\ Trim(J) \subseteq J
         /\ \A e \in Trim(J), k \in J : e <= k => k \in Trim(J)
<1>1. Trim(J) \subseteq J
  BY DEF Trim
<1>2. ASSUME NEW e \in Trim(J), NEW k \in J, e <= k
      PROVE  k \in Trim(J)
  <2>1. \A n \in From(J, k) : n \in From(J, e)
    <3>1. e \in Nat /\ k \in Nat /\ \A n \in J : n \in Nat
      BY <1>1, <1>2
    <3>2. \A n \in J : n >= k => n >= e
      BY <1>2, <3>1, SMT
    <3>3. QED
      BY <3>2 DEF From
  <2>2. \A n \in From(J, e) : Fits(From(J, n))
    BY DEF Trim
  <2>3. QED
    BY <2>1, <2>2 DEF Trim
<1>3. QED
  BY <1>1, <1>2

\* The events of a set that is the stretch up to top.
Stretch(J, top) == J = (IF J = {} THEN top + 1 ELSE Min(J))..top

\* Trimming a stretch leaves a stretch that begins no earlier.
LEMMA TrimStretch ==
  ASSUME NEW lo \in Nat, NEW top \in Nat
  PROVE  /\ Stretch(Trim(lo..top), top)
         /\ Trim(lo..top) # {} => lo <= Min(Trim(lo..top))
<1> DEFINE K == Trim(lo..top)
<1>1. lo..top \in SUBSET Nat
  OBVIOUS
<1>2. /\ K \subseteq lo..top
      /\ \A e \in K, k \in lo..top : e <= k => k \in K
  BY <1>1, TrimKeepsSuffix
<1> HIDE DEF K
<1>3. CASE K = {}
  <2>1. (top + 1)..top = {}
    BY SMT
  <2>2. QED
    BY <1>3, <2>1 DEF K, Stretch
<1>4. CASE K # {}
  <2>1. K \in SUBSET Nat
    BY <1>1, <1>2
  <2>2. Min(K) \in K /\ \A y \in K : Min(K) <= y
    BY <1>4, <2>1, MinIsLeast
  <2> DEFINE b == Min(K)
  <2>3. b \in lo..top /\ b \in K /\ \A y \in K : b <= y
    BY <1>2, <2>2
  <2> HIDE DEF b
  <2>4. \A x \in K : x \in b..top
    BY <1>2, <2>3, SMT
  <2>5. \A x \in b..top : x \in lo..top /\ b <= x
    BY <2>3, SMT
  <2>6. \A x \in b..top : x \in K
    BY <1>2, <2>3, <2>5
  <2>7. K = b..top /\ lo <= b
    <3>1. K = b..top
      BY <2>4, <2>6, Zenon
    <3>2. lo <= b
      BY <2>3, SMT
    <3>3. QED
      BY <3>1, <3>2
  <2>8. K = Min(K)..top /\ lo <= Min(K)
    BY <2>7 DEF b
  <2>9. Stretch(K, top)
    BY <1>4, <2>8 DEF Stretch
  <2>10. QED
    BY <2>8, <2>9 DEF K
<1>5. QED
  BY <1>3, <1>4

-----------------------------------------------------------------------------
(* Types                                                                   *)

\* The initial state is well typed.
LEMMA TypeInit == Init => TypeOK
<1> SUFFICES ASSUME Init PROVE TypeOK
  OBVIOUS
<1> USE MaxEventsAssumption DEF Init, Events
<1>1. TypeBus
  BY DEF TypeBus
<1>2. TypeCollector
  BY DEF TypeCollector
<1>3. TypeData
  BY DEF TypeData
<1>4. TypeClients
  BY DEF TypeClients
<1>5. Bounds
  BY SMT DEF Bounds
<1>6. QED
  BY <1>1, <1>2, <1>3, <1>4, <1>5 DEF TypeOK

\* The run's own steps touch the bus only.
LEMMA TypeRun ==
  ASSUME TypeOK, Publish \/ Finish \/ Report \/ Lost
  PROVE  TypeOK'
<1> USE MaxEventsAssumption
<1>1. TypeBus'
  <2>1. CASE Publish
    BY <2>1 DEF Publish, TypeOK, TypeBus, Bounds, Events
  <2>2. CASE Finish
    BY <2>2 DEF Finish, TypeOK, TypeBus, Bounds, Events
  <2>3. CASE Report \/ Lost
    BY <2>3 DEF Report, Lost, TypeOK, TypeBus, Events
  <2>4. QED
    BY <2>1, <2>2, <2>3
<1>2. UNCHANGED <<pos, collector, leaving, dataVars, revision, clientVars>>
  BY DEF Publish, Finish, Report, Lost
<1>3. TypeCollector' /\ TypeData' /\ TypeClients'
  BY <1>2 DEF TypeOK, TypeCollector, TypeData, TypeClients, dataVars, clientVars
<1>4. Bounds'
  <2>1. seq' = seq \/ (seq' = seq + 1 /\ seq < MaxEvents)
    BY SMT DEF Publish, Finish, Report, Lost, TypeOK, TypeBus
  <2>2. QED
    BY <1>2, <2>1, SMT DEF Bounds, TypeOK, TypeBus, TypeCollector, TypeData, dataVars
<1>5. QED
  BY <1>1, <1>3, <1>4 DEF TypeOK

\* The collector's steps.
LEMMA TypeCollect ==
  ASSUME TypeOK, Collector
  PROVE  TypeOK'
<1>1. TypeBus' /\ TypeClients'
  BY DEF Collector, Receive, ReceiveLagged, ReceiverEmpty, Pending, Completion, Notify,
         TypeOK, TypeBus, TypeClients, busVars, clientVars
<1>2. CASE Receive
  <2>0. UNCHANGED <<seq, revision>>
    BY <1>2 DEF Receive, busVars
  <2>1. TypeCollector'
    BY <1>2 DEF Receive, TypeOK, TypeCollector, TypeBus, IsLast, Finished
  <2>2. CASE pos + 1 <= snapSeq
    <3>1. UNCHANGED dataVars
      BY <1>2, <2>2 DEF Receive
    <3>2. QED
      BY <1>1, <1>2, <2>0, <2>1, <3>1
         DEF Receive, TypeOK, TypeData, TypeBus, TypeCollector, Bounds, dataVars
  <2>3. CASE ~(pos + 1 <= snapSeq) /\ pos + 1 = snapSeq + 1
    <3>1. Accept(pos + 1)
      BY <1>2, <2>3 DEF Receive
    <3>2. journal' \subseteq Nat
      <4>1. journal \union {pos + 1} \in SUBSET Nat
        BY DEF TypeOK, TypeData, TypeCollector
      <4>2. Trim(journal \union {pos + 1}) \subseteq Nat
        BY <4>1, TrimKeepsSuffix
      <4>3. journal' = Trim(journal \union {pos + 1}) \/ journal' = {}
        BY <3>1 DEF Accept
      <4>4. QED
        BY <4>2, <4>3
    <3>3. /\ snapSeq' \in Nat /\ floor' \in Nat /\ seen' \subseteq Nat
          /\ revision' \in Nat
      BY <2>0, <3>1 DEF Accept, TypeOK, TypeData, TypeCollector
    <3>4. outcome' \in BOOLEAN /\ fault' \in BOOLEAN
      BY <3>1 DEF Accept, TypeOK, TypeData, IsLast, Finished
    <3>5. Bounds'
      <4>1. pos' = pos + 1 /\ pos < seq
        BY <1>2 DEF Receive
      <4>2. snapSeq' = pos + 1 /\ (floor' = floor \/ floor' = pos + 1)
        BY <3>1 DEF Accept
      <4>3. QED
        BY <2>0, <2>3, <4>1, <4>2, SMT
           DEF Bounds, TypeOK, TypeBus, TypeData, TypeCollector
    <3>6. QED
      BY <1>1, <2>1, <3>2, <3>3, <3>4, <3>5 DEF TypeOK, TypeData
  <2>4. CASE ~(pos + 1 <= snapSeq) /\ pos + 1 # snapSeq + 1
    <3>1. Resync /\ UNCHANGED fault
      BY <1>2, <2>4 DEF Receive
    <3>2. TypeData'
      BY <2>0, <3>1 DEF Resync, TypeOK, TypeData, TypeBus, Finished
    <3>3. Bounds'
      BY <1>2, <2>0, <3>1, SMT
         DEF Receive, Resync, Bounds, TypeOK, TypeBus, TypeData, TypeCollector
    <3>4. QED
      BY <1>1, <2>1, <3>2, <3>3 DEF TypeOK
  <2>5. QED
    BY <2>2, <2>3, <2>4
<1>3. CASE ReceiveLagged \/ Completion
  <2>0. UNCHANGED <<seq, revision>> /\ Resync /\ fault' \in BOOLEAN
    BY <1>3 DEF ReceiveLagged, Completion, busVars, TypeOK, TypeData, Resync, Finished
  <2>1. TypeData'
    BY <2>0 DEF Resync, TypeOK, TypeData, TypeBus, Finished
  <2>2. pos' \in Nat /\ pos' <= seq
    BY <1>3, RingAssumption, SMT
       DEF ReceiveLagged, Completion, Lagged, TypeOK, TypeBus, TypeCollector, Bounds
  <2>3. TypeCollector'
    <3>1. leaving' \in BOOLEAN
      BY <1>3, <2>1 DEF ReceiveLagged, Completion, TypeData
    <3>2. collector' = "notify"
      BY <1>3 DEF ReceiveLagged, Completion
    <3>3. QED
      BY <2>2, <3>1, <3>2 DEF TypeCollector
  <2>4. Bounds'
    BY <2>0, <2>2, SMT DEF Resync, Bounds, TypeOK, TypeBus, TypeData
  <2>5. QED
    BY <1>1, <2>1, <2>3, <2>4 DEF TypeOK
<1>4. CASE ReceiverEmpty \/ Pending \/ Notify
  <2>1. TypeCollector'
    BY <1>4 DEF ReceiverEmpty, Pending, Notify, TypeOK, TypeCollector
  <2>2. UNCHANGED <<seq, pos, dataVars>> /\ revision' \in Nat
    BY <1>4 DEF ReceiverEmpty, Pending, Notify, busVars, TypeOK, TypeData
  <2>3. TypeData' /\ Bounds'
    BY <2>2 DEF TypeOK, TypeData, Bounds, dataVars
  <2>4. QED
    BY <1>1, <2>1, <2>3 DEF TypeOK
<1>5. QED
  BY <1>2, <1>3, <1>4 DEF Collector

\* What a client's step leaves alone.
LEMMA ClientsOnlyRead ==
  ASSUME NEW c \in Clients, Subscribe(c) \/ Disconnect(c) \/ Pull(c)
  PROVE  UNCHANGED <<busVars, pos, collector, leaving, dataVars, revision>>
BY DEF Subscribe, Disconnect, Pull, FrameSnapshot, FrameEvent, FrameEnd, NoFrame, Wake

\* Steps of a client.
LEMMA TypeClient ==
  ASSUME TypeOK, NEW c \in Clients, Subscribe(c) \/ Disconnect(c) \/ Pull(c)
  PROVE  TypeOK'
<1>1. UNCHANGED <<busVars, pos, collector, leaving, dataVars, revision>>
  BY ClientsOnlyRead
<1>2. TypeBus' /\ TypeCollector' /\ TypeData' /\ Bounds'
  BY <1>1 DEF TypeOK, TypeBus, TypeCollector, TypeData, Bounds, busVars, dataVars
<1>3. TypeClients'
  <2> USE DEF TypeOK, TypeClients, TypeData
  <2>1. CASE Subscribe(c)
    BY <2>1 DEF Subscribe
  <2>2. CASE Disconnect(c) \/ FrameEnd(c) \/ NoFrame(c) \/ Wake(c)
    BY <2>2 DEF Disconnect, FrameEnd, NoFrame, Wake
  <2>3. CASE FrameSnapshot(c)
    BY <2>3 DEF FrameSnapshot
  <2>4. CASE FrameEvent(c)
    <3>1. Newer(c) \in SUBSET Nat /\ Newer(c) # {}
      BY <2>4 DEF FrameEvent, Newer
    <3>2. Min(Newer(c)) \in Nat
      BY <3>1, MinIsLeast
    <3>3. QED
      BY <2>4, <3>2 DEF FrameEvent
  <2>5. QED
    BY <2>1, <2>2, <2>3, <2>4 DEF Pull
<1>4. QED
  BY <1>2, <1>3 DEF TypeOK

\* Every step keeps the types.
LEMMA TypeStep == TypeOK /\ [Next]_vars => TypeOK'
<1> SUFFICES ASSUME TypeOK, [Next]_vars PROVE TypeOK'
  OBVIOUS
<1>1. CASE UNCHANGED vars
  BY <1>1 DEF vars, busVars, dataVars, clientVars, TypeOK, TypeBus, TypeCollector,
              TypeData, TypeClients, Bounds
<1>2. CASE Next
  BY <1>1, <1>2, TypeRun, TypeCollect, TypeClient DEF Next, Over
<1>3. QED
  BY <1>1, <1>2

\* Type correctness of the stream: the collector is never ahead of the bus, and no
\* client, snapshot or floor points past what was published.
THEOREM TypeCorrect == Spec => []TypeOK
BY TypeInit, TypeStep, PTL DEF Spec

-----------------------------------------------------------------------------
(* The journal                                                             *)

\* The empty journal is the stretch after event 0.
LEMMA JournalInit == Init => JournalIsSuffix
<1> SUFFICES ASSUME Init PROVE JournalIsSuffix
  OBVIOUS
<1>1. 1..0 = {} /\ Oldest = 1
  BY DEF Init, Oldest
<1>2. QED
  BY <1>1 DEF Init, JournalIsSuffix

\* The oldest kept event is at most the one after the snapshot.
LEMMA OldestBound ==
  ASSUME TypeOK, JournalIsSuffix
  PROVE  Oldest \in Nat /\ Oldest <= snapSeq + 1
<1>1. CASE journal = {}
  BY <1>1, SMT DEF Oldest, TypeOK, TypeData
<1>2. CASE journal # {}
  <2>1. Min(journal) \in journal
    BY <1>2, MinIsLeast DEF TypeOK, TypeData
  <2>2. Min(journal) \in Nat /\ Min(journal) \in Oldest..snapSeq /\ Oldest = Min(journal)
    BY <1>2, <2>1 DEF TypeOK, TypeData, JournalIsSuffix, Oldest
  <2>3. QED
    BY <2>2, SMT DEF TypeOK, TypeData
<1>3. QED
  BY <1>1, <1>2

\* Entry::resync restores the shape whatever the journal was.
LEMMA JournalResync ==
  ASSUME TypeOK, Resync
  PROVE  JournalIsSuffix'
<1>1. seen' = 1..seq /\ snapSeq' = seq /\ journal' = {} /\ floor' = seq
  BY DEF Resync
<1>2. Oldest' = seq + 1
  BY <1>1 DEF Oldest
<1>3. (seq + 1)..seq = {} /\ seq < seq + 1
  BY SMT DEF TypeOK, TypeBus
<1>4. QED
  BY <1>1, <1>2, <1>3 DEF JournalIsSuffix

\* Entry::accept of the next event extends it, trims it or starts it over.
LEMMA JournalAccept ==
  ASSUME TypeOK, JournalIsSuffix, Accept(snapSeq + 1)
  PROVE  JournalIsSuffix'
<1> DEFINE e == snapSeq + 1
<1>0. snapSeq \in Nat /\ e \in Nat /\ floor \in Nat /\ floor < Oldest
  BY DEF TypeOK, TypeData, JournalIsSuffix
<1>1. Oldest \in Nat /\ Oldest <= e
  BY OldestBound
<1>2. seen' = 1..snapSeq'
  <2>1. 1..e = 1..snapSeq \union {e}
    BY <1>0, SMT
  <2>2. QED
    BY <2>1 DEF Accept, JournalIsSuffix
<1>3. CASE size[e] <= JournalBytes
  <2>1. journal \union {e} = Oldest..e
    BY <1>0, <1>1, SMT DEF JournalIsSuffix
  <2>2. journal' = Trim(Oldest..e) /\ floor' = floor /\ snapSeq' = e
    BY <1>3, <2>1 DEF Accept
  <2>3. Stretch(journal', e) /\ (journal' # {} => Oldest <= Min(journal'))
    BY <1>0, <1>1, <2>2, TrimStretch
  <2>4. Oldest' = IF journal' = {} THEN e + 1 ELSE Min(journal')
    BY <2>2 DEF Oldest
  <2>5. journal' = Oldest'..e
    BY <2>3, <2>4 DEF Stretch
  <2>6. floor' < Oldest'
    <3>1. CASE journal' = {}
      BY <1>0, <1>1, <2>2, <2>4, <3>1, SMT
    <3>2. CASE journal' # {}
      <4>1. journal' \in SUBSET Nat
        BY <2>2, <1>0, <1>1, TrimKeepsSuffix
      <4>2. Min(journal') \in Nat
        BY <3>2, <4>1, MinIsLeast
      <4>3. QED
        BY <1>0, <1>1, <2>2, <2>3, <2>4, <3>2, <4>2, SMT
    <3>3. QED
      BY <3>1, <3>2
  <2>7. QED
    BY <1>2, <2>2, <2>5, <2>6 DEF JournalIsSuffix
<1>4. CASE ~(size[e] <= JournalBytes)
  <2>1. journal' = {} /\ floor' = e /\ snapSeq' = e
    BY <1>4 DEF Accept
  <2>2. Oldest' = e + 1
    BY <2>1 DEF Oldest
  <2>3. (e + 1)..e = {} /\ e < e + 1
    BY <1>0, SMT
  <2>4. QED
    BY <1>2, <2>1, <2>2, <2>3 DEF JournalIsSuffix
<1>5. QED
  BY <1>3, <1>4

\* Every step keeps the journal a stretch.
LEMMA JournalStep == TypeOK /\ JournalIsSuffix /\ [Next]_vars => JournalIsSuffix'
<1> SUFFICES ASSUME TypeOK, JournalIsSuffix, [Next]_vars PROVE JournalIsSuffix'
  OBVIOUS
<1>1. CASE UNCHANGED dataVars
  <2>1. Oldest' = Oldest
    BY <1>1 DEF dataVars, Oldest
  <2>2. QED
    BY <1>1, <2>1 DEF dataVars, JournalIsSuffix
<1>2. CASE Receive
  <2>1. UNCHANGED dataVars \/ Resync \/ (pos + 1 = snapSeq + 1 /\ Accept(pos + 1))
    BY <1>2 DEF Receive
  <2>2. CASE pos + 1 = snapSeq + 1 /\ Accept(pos + 1)
    BY <2>2, JournalAccept
  <2>3. QED
    BY <1>1, <2>1, <2>2, JournalResync
<1>3. CASE ReceiveLagged \/ Completion
  BY <1>3, JournalResync DEF ReceiveLagged, Completion
<1>4. CASE Publish \/ Finish \/ Report \/ Lost \/ ReceiverEmpty \/ Pending \/ Notify \/ Over
  BY <1>1, <1>4 DEF Publish, Finish, Report, Lost, ReceiverEmpty, Pending, Notify, Over, vars
<1>5. CASE \E c \in Clients : Subscribe(c) \/ Disconnect(c) \/ Pull(c)
  BY <1>1, <1>5, ClientsOnlyRead
<1>6. CASE UNCHANGED vars
  BY <1>1, <1>6 DEF vars
<1>7. QED
  BY <1>2, <1>3, <1>4, <1>5, <1>6 DEF Next, Collector

\* The journal never has a hole, whatever is evicted, too large or resynchronised.
THEOREM JournalSound == Spec => []JournalIsSuffix
BY JournalInit, JournalStep, TypeCorrect, PTL DEF Spec

-----------------------------------------------------------------------------
(* The clients                                                             *)

\* What the clients' steps need to know of one another's state and of the entry.
Inv == TypeOK /\ JournalIsSuffix /\ CursorAccepted /\ ViewIsPrefix

\* An event frame is sent only when it is the one after the cursor.
LEMMA NextFrame ==
  ASSUME Inv, NEW c \in Clients, FrameEvent(c)
  PROVE  Min(Newer(c)) = cursor[c] + 1 /\ cursor[c] + 1 <= snapSeq
<1> DEFINE k == cursor[c]
<1>0. k \in Nat /\ snapSeq \in Nat /\ Oldest \in Nat
  BY OldestBound DEF Inv, TypeOK, TypeClients, TypeData
<1>1. journal = Oldest..snapSeq /\ Oldest <= k + 1
  <2>1. ~(k + 1 < Oldest)
    BY DEF FrameEvent, NeedsSnapshot
  <2>2. QED
    BY <1>0, <2>1, SMT DEF Inv, JournalIsSuffix
<1>2. Newer(c) \in SUBSET Nat /\ Newer(c) # {}
  BY DEF FrameEvent, Newer, Inv, TypeOK, TypeData
<1> DEFINE n == Min(Newer(c))
<1>3. n \in Newer(c) /\ \A y \in Newer(c) : n <= y
  BY <1>2, MinIsLeast
<1>4. n \in Oldest..snapSeq /\ n > k
  BY <1>1, <1>3 DEF Newer
<1>5. k + 1 \in Oldest..snapSeq /\ k + 1 > k
  BY <1>0, <1>1, <1>4, SMT
<1>6. n <= k + 1
  BY <1>1, <1>3, <1>5 DEF Newer
<1>7. QED
  BY <1>0, <1>4, <1>5, <1>6, SMT

\* The snapshot never moves backwards.
LEMMA SnapshotAdvances ==
  ASSUME TypeOK, [Next]_vars
  PROVE  snapSeq <= snapSeq'
<1>0. snapSeq \in Nat /\ seq \in Nat /\ snapSeq <= seq
  BY DEF TypeOK, TypeData, TypeBus, Bounds
<1>1. CASE UNCHANGED dataVars
  BY <1>0, <1>1, SMT DEF dataVars
<1>2. CASE Resync
  BY <1>0, <1>2, SMT DEF Resync
<1>3. CASE Receive
  <2>1. UNCHANGED dataVars \/ Resync \/ (pos + 1 = snapSeq + 1 /\ snapSeq' = pos + 1)
    BY <1>3 DEF Receive, Accept
  <2>2. QED
    BY <1>0, <1>1, <1>2, <2>1, SMT DEF TypeOK, TypeCollector
<1>4. CASE ReceiveLagged \/ Completion
  BY <1>2, <1>4 DEF ReceiveLagged, Completion
<1>5. CASE Publish \/ Finish \/ Report \/ Lost \/ ReceiverEmpty \/ Pending \/ Notify \/ Over
  BY <1>1, <1>5 DEF Publish, Finish, Report, Lost, ReceiverEmpty, Pending, Notify, Over, vars
<1>6. CASE \E c \in Clients : Subscribe(c) \/ Disconnect(c) \/ Pull(c)
  BY <1>1, <1>6, ClientsOnlyRead
<1>7. CASE UNCHANGED vars
  BY <1>1, <1>7 DEF vars
<1>8. QED
  BY <1>3, <1>4, <1>5, <1>6, <1>7 DEF Next, Collector

\* What a client's own step does to its cursor and its view.
LEMMA ClientMoves ==
  ASSUME Inv, NEW c \in Clients, Subscribe(c) \/ Disconnect(c) \/ Pull(c)
  PROVE  /\ cursor'[c] <= snapSeq /\ view'[c] = 1..cursor'[c]
         /\ \A d \in Clients \ {c} : cursor'[d] = cursor[d] /\ view'[d] = view[d]
<1>0. /\ cursor \in [Clients -> Nat] /\ view \in [Clients -> SUBSET Nat]
      /\ snapSeq \in Nat /\ cursor[c] <= snapSeq /\ view[c] = 1..cursor[c]
  BY DEF Inv, TypeOK, TypeClients, TypeData, CursorAccepted, ViewIsPrefix
<1>1. CASE Subscribe(c)
  <2>1. 1..0 = {} /\ 0 <= snapSeq
    BY <1>0, SMT
  <2>2. QED
    BY <1>0, <1>1, <2>1 DEF Subscribe
<1>2. CASE UNCHANGED <<cursor, view>>
  BY <1>0, <1>2
<1>3. CASE FrameSnapshot(c)
  <2>1. seen = 1..snapSeq /\ snapSeq <= snapSeq
    BY <1>0 DEF Inv, JournalIsSuffix
  <2>2. QED
    BY <1>0, <1>3, <2>1 DEF FrameSnapshot
<1>4. CASE FrameEvent(c)
  <2>1. Min(Newer(c)) = cursor[c] + 1 /\ cursor[c] + 1 <= snapSeq
    BY <1>4, NextFrame
  <2>2. /\ cursor' = [cursor EXCEPT ![c] = cursor[c] + 1]
        /\ view' = [view EXCEPT ![c] = view[c] \union {cursor[c] + 1}]
    BY <1>4, <2>1 DEF FrameEvent
  <2>3. 1..cursor[c] \union {cursor[c] + 1} = 1..(cursor[c] + 1)
    BY <1>0, SMT
  <2>4. QED
    BY <1>0, <2>1, <2>2, <2>3
<1>5. QED
  BY <1>1, <1>2, <1>3, <1>4 DEF Pull, Disconnect, FrameEnd, NoFrame, Wake

\* Every step keeps cursors and views.
LEMMA ClientsStep == Inv /\ [Next]_vars => (CursorAccepted /\ ViewIsPrefix)'
<1> SUFFICES ASSUME Inv, [Next]_vars PROVE (CursorAccepted /\ ViewIsPrefix)'
  OBVIOUS
<1>0. /\ snapSeq \in Nat /\ snapSeq' \in Nat /\ snapSeq <= snapSeq'
      /\ cursor \in [Clients -> Nat] /\ cursor' \in [Clients -> Nat]
  <2>1. TypeOK /\ TypeOK'
    BY TypeStep DEF Inv
  <2>2. snapSeq <= snapSeq'
    BY <2>1, SnapshotAdvances
  <2>3. QED
    BY <2>1, <2>2 DEF TypeOK, TypeData, TypeClients
<1>1. CASE UNCHANGED <<cursor, view>>
  <2>1. CursorAccepted'
    BY <1>0, <1>1, SMT DEF Inv, CursorAccepted
  <2>2. ViewIsPrefix'
    BY <1>1 DEF Inv, ViewIsPrefix
  <2>3. QED
    BY <2>1, <2>2
<1>2. ASSUME NEW c \in Clients, Subscribe(c) \/ Disconnect(c) \/ Pull(c)
      PROVE  (CursorAccepted /\ ViewIsPrefix)'
  <2>1. \A d \in Clients : cursor'[d] <= snapSeq /\ view'[d] = 1..cursor'[d]
    BY <1>2, ClientMoves DEF Inv, CursorAccepted, ViewIsPrefix
  <2>2. CursorAccepted'
    BY <1>0, <2>1, SMT DEF CursorAccepted
  <2>3. QED
    BY <2>1, <2>2 DEF ViewIsPrefix
<1>3. CASE Publish \/ Finish \/ Report \/ Lost \/ Collector \/ Over \/ UNCHANGED vars
  <2>1. UNCHANGED clientVars
    BY <1>3 DEF Publish, Finish, Report, Lost, Collector, Receive, ReceiveLagged,
                ReceiverEmpty, Pending, Completion, Notify, Over, vars
  <2>2. QED
    BY <1>1, <2>1 DEF clientVars
<1>4. QED
  BY <1>2, <1>3 DEF Next

\* A client starts with nothing.
LEMMA ClientsInit == Init => CursorAccepted /\ ViewIsPrefix
<1>1. 1..0 = {}
  OBVIOUS
<1>2. QED
  BY <1>1 DEF Init, CursorAccepted, ViewIsPrefix

\* The inductive invariant.
LEMMA InvHolds == Spec => []Inv
<1>1. Init => Inv
  BY TypeInit, JournalInit, ClientsInit DEF Inv
<1>2. Inv /\ [Next]_vars => Inv'
  BY TypeStep, JournalStep, ClientsStep DEF Inv
<1>3. QED
  BY <1>1, <1>2, PTL DEF Spec

\* A client may always come back with the cursor it has.
THEOREM CursorSound == Spec => []CursorAccepted
<1>1. Inv => CursorAccepted
  BY DEF Inv
<1>2. QED
  BY <1>1, InvHolds, PTL

\* No gap and no repetition: a client's state is the run up to its cursor.
THEOREM NoGap == Spec => []ViewIsPrefix
<1>1. Inv => ViewIsPrefix
  BY DEF Inv
<1>2. QED
  BY <1>1, InvHolds, PTL

-----------------------------------------------------------------------------
(* The end of a stream                                                     *)

\* A terminal snapshot is the whole run, a fault means that there is no outcome, and
\* streams end only at the snapshot they end with.
Ending ==
    /\ outcome => Finished /\ snapSeq = seq
    /\ fault => run = "lost"
    /\ \A c \in Clients : conn[c] = "ended" => Terminal /\ (outcome => cursor[c] = snapSeq)

\* Entry::resync, also when the run has ended.
LEMMA EndingResync ==
  ASSUME Inv, Ending, Resync, UNCHANGED <<busVars, clientVars>>,
         fault => fault', fault' => fault \/ run = "lost"
  PROVE  Ending'
<1>0. /\ outcome' = Finished /\ snapSeq' = seq /\ Finished' = Finished /\ seq' = seq
      /\ run' = run /\ conn' = conn /\ cursor' = cursor
  BY DEF Resync, Finished, busVars, clientVars
<1>1. fault' => run' = "lost"
  BY <1>0 DEF Ending
<1>2. ASSUME NEW c \in Clients, conn[c] = "ended"
      PROVE  Terminal' /\ (outcome' => cursor[c] = seq)
  <2>1. CASE fault
    BY <1>0, <2>1 DEF Ending, Terminal, Finished
  <2>2. CASE ~fault
    <3>1. outcome /\ cursor[c] = snapSeq /\ Finished /\ snapSeq = seq
      BY <1>2, <2>2 DEF Ending, Terminal
    <3>2. QED
      BY <1>0, <3>1 DEF Terminal
  <2>3. QED
    BY <2>1, <2>2
<1>3. QED
  BY <1>0, <1>1, <1>2 DEF Ending

\* Steps that leave the entry and the clients' positions alone.
LEMMA EndingStill ==
  ASSUME Inv, Ending, UNCHANGED <<outcome, fault, snapSeq>>,
         outcome => UNCHANGED <<cursor>>, outcome => Finished' /\ seq' = seq,
         run = "lost" => run' = "lost",
         \A c \in Clients : conn'[c] = "ended" => conn[c] = "ended"
  PROVE  Ending'
BY DEF Ending, Terminal

\* An event can only be accepted while the snapshot is not terminal.
LEMMA EndingReceive ==
  ASSUME Inv, Ending, Receive
  PROVE  Ending'
<1>0. UNCHANGED <<busVars, clientVars>>
  BY DEF Receive
<1>1. CASE UNCHANGED dataVars
  BY <1>0, <1>1, EndingStill DEF busVars, clientVars, dataVars, Ending, Finished
<1>2. CASE Resync /\ UNCHANGED fault
  BY <1>0, <1>2, EndingResync
<1>3. CASE pos + 1 = snapSeq + 1 /\ Accept(pos + 1)
  <2>0. pos \in Nat /\ seq \in Nat /\ snapSeq \in Nat
    BY DEF Inv, TypeOK, TypeCollector, TypeBus, TypeData
  <2>1. pos < seq
    BY DEF Receive
  <2>2. snapSeq # seq
    BY <1>3, <2>0, <2>1, SMT
  <2>3. ~outcome
    BY <2>2 DEF Ending
  <2>4. /\ fault' = fault /\ snapSeq' = pos + 1 /\ outcome' = IsLast(pos + 1)
        /\ run' = run /\ seq' = seq /\ conn' = conn
    BY <1>0, <1>3 DEF Accept, busVars, clientVars
  <2>5. outcome' => Finished' /\ snapSeq' = seq'
    BY <2>4 DEF IsLast, Finished
  <2>6. ASSUME NEW c \in Clients, conn'[c] = "ended"
        PROVE  Terminal' /\ ~outcome'
    <3>1. fault /\ run = "lost"
      BY <2>3, <2>4, <2>6 DEF Ending, Terminal
    <3>2. QED
      BY <2>4, <3>1 DEF Terminal, IsLast, Finished
  <2>7. fault' => run' = "lost"
    BY <2>4 DEF Ending
  <2>8. QED
    BY <2>5, <2>6, <2>7 DEF Ending
<1>4. QED
  BY <1>1, <1>2, <1>3 DEF Receive

\* A stream ends with everything sent.
LEMMA EndingFrame ==
  ASSUME Inv, NEW c \in Clients, FrameEnd(c)
  PROVE  cursor[c] = snapSeq
<1>0. /\ cursor[c] \in Nat /\ snapSeq \in Nat /\ Oldest \in Nat
      /\ cursor[c] <= snapSeq /\ journal = Oldest..snapSeq
  BY OldestBound
     DEF Inv, TypeOK, TypeClients, TypeData, CursorAccepted, JournalIsSuffix
<1>1. ~(cursor[c] + 1 < Oldest) /\ \A e \in journal : ~(e > cursor[c])
  BY DEF FrameEnd, NeedsSnapshot, Newer
<1>2. CASE snapSeq \in journal
  BY <1>0, <1>1, <1>2, SMT
<1>3. CASE snapSeq \notin journal
  <2>1. Oldest > snapSeq
    BY <1>0, <1>3, SMT
  <2>2. QED
    BY <1>0, <1>1, <2>1, SMT
<1>4. QED
  BY <1>2, <1>3

\* Steps of a client.
LEMMA EndingClient ==
  ASSUME Inv, Ending, NEW c \in Clients, Subscribe(c) \/ Disconnect(c) \/ Pull(c)
  PROVE  Ending'
<1>0. /\ UNCHANGED <<seq, run, outcome, fault, snapSeq>> /\ Finished' = Finished
      /\ conn \in [Clients -> {"off", "next", "wait", "ended"}]
      /\ cursor \in [Clients -> Nat]
  BY ClientsOnlyRead
     DEF Inv, TypeOK, TypeClients, busVars, dataVars, Finished
<1>1. CASE FrameEnd(c)
  <2>1. /\ conn' = [conn EXCEPT ![c] = "ended"] /\ cursor' = cursor /\ Terminal
        /\ cursor[c] = snapSeq
    BY <1>1, EndingFrame DEF FrameEnd
  <2>2. QED
    BY <1>0, <2>1 DEF Ending, Terminal
<1>2. CASE ~FrameEnd(c)
  <2>1. conn[c] # "ended" /\ conn'[c] # "ended"
    BY <1>0, <1>2 DEF Subscribe, Disconnect, Pull, FrameSnapshot, FrameEvent, NoFrame, Wake
  <2>2. \A d \in Clients \ {c} : conn'[d] = conn[d] /\ cursor'[d] = cursor[d]
    BY <1>0, <1>2 DEF Subscribe, Disconnect, Pull, FrameSnapshot, FrameEvent, NoFrame, Wake
  <2>3. QED
    BY <1>0, <2>1, <2>2 DEF Ending, Terminal
<1>3. QED
  BY <1>1, <1>2

\* Every step keeps Ending.
LEMMA EndingStep == Inv /\ Ending /\ [Next]_vars => Ending'
<1> SUFFICES ASSUME Inv, Ending, [Next]_vars PROVE Ending'
  OBVIOUS
<1>1. CASE Publish \/ Finish \/ Report \/ Lost
  <2>1. UNCHANGED <<dataVars, clientVars>>
    BY <1>1 DEF Publish, Finish, Report, Lost
  <2>2. outcome => Finished' /\ seq' = seq
    BY <1>1 DEF Publish, Finish, Report, Lost, Ending, Finished
  <2>3. run = "lost" => run' = "lost"
    BY <1>1 DEF Publish, Finish, Report, Lost
  <2>4. QED
    BY <2>1, <2>2, <2>3, EndingStill DEF dataVars, clientVars
<1>2. CASE ReceiverEmpty \/ Pending \/ Notify \/ Over \/ UNCHANGED vars
  <2>1. UNCHANGED <<busVars, dataVars, clientVars>>
    BY <1>2 DEF ReceiverEmpty, Pending, Notify, Over, vars
  <2>2. QED
    BY <2>1, EndingStill DEF busVars, dataVars, clientVars, Ending, Finished
<1>3. CASE ReceiveLagged
  BY <1>3, EndingResync DEF ReceiveLagged
<1>4. CASE Completion
  <2>1. Resync /\ UNCHANGED <<busVars, clientVars>> /\ fault' = ~Finished
    BY <1>4 DEF Completion, Resync
  <2>2. run \in {"reported", "lost"}
    BY <1>4 DEF Completion
  <2>3. (fault => fault') /\ (fault' => run = "lost")
    BY <2>1, <2>2 DEF Ending, Finished
  <2>4. QED
    BY <2>1, <2>3, EndingResync
<1>5. CASE \E c \in Clients : Subscribe(c) \/ Disconnect(c) \/ Pull(c)
  BY <1>5, EndingClient
<1>6. QED
  BY <1>1, <1>2, <1>3, <1>4, <1>5, EndingReceive DEF Next, Collector

\* A client whose stream ended has the whole run; a fault is only told of a run that
\* was lost.
THEOREM EndSound == Spec => []EndIsComplete
<1>1. Init => Ending
  BY DEF Init, Ending, Terminal
<1>2. Inv /\ Ending => EndIsComplete
  BY DEF Inv, Ending, Terminal, ViewIsPrefix, EndIsComplete
<1>3. QED
  BY <1>1, <1>2, EndingStep, InvHolds, PTL DEF Spec

\* What a subscriber has is a prefix of the run's events, and all of them at the end.
THEOREM ViewSoundHolds == Spec => []ViewSound
<1>1. ViewIsPrefix /\ EndIsComplete => ViewSound
  BY DEF ViewSound
<1>2. QED
  BY <1>1, NoGap, EndSound, PTL

=============================================================================
