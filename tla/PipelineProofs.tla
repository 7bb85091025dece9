--------------------------- MODULE PipelineProofs ---------------------------
(***************************************************************************)
(* What is proved of the parts holds of them where they are put together:  *)
(* a step of the pipeline is a step of one part and leaves the others as   *)
(* they are.  The proofs about a channel come first: for every number of   *)
(* stages, of requests, of readers and of readers that are killed, a       *)
(* request is handed out in its own stage only, and what a drain has       *)
(* counted is what nobody was handed, of its stage and of those that a     *)
(* channel has kept because it is locked and the only one.                 *)
(***************************************************************************)
EXTENDS MCPipeline, RecursionTheorems, TLAPS

-----------------------------------------------------------------------------
(* The channel, by itself *)

USE DEF Q!deployment

ChannelTypes ==
  /\ readers \in Channels /\ several \in BOOLEAN /\ (several => Q!Cardinality(readers) = 1)
  /\ phase \in {"serve", "drain", "done"}
  /\ stageNow \in Q!Stage /\ produced \in 0 .. ChannelRequests
  /\ buffer \in Seq(Q!Request \cup {Q!None}) /\ channel \in Seq(Q!Request \cup {Q!None})
  /\ holder \in Q!Readers \cup {Q!Nobody}
  /\ count \in Int
  /\ reader \in [Q!Readers -> {"idle", "locked", "received", "counted", "dead"}]
  /\ item \in [Q!Readers -> Q!Request \cup {Q!None}]
  /\ removed \in [Q!Stage -> Int]
  /\ exit \in [Q!Stage -> {"none", "read", "timeout"}]
  /\ fetched \in [Q!Request -> SUBSET Q!Stage] /\ lost \subseteq Q!Request

Active(r) == reader[r] \in {"locked", "received", "counted"}

\* The lock can be had, or will be given back.
LockFree == holder = Q!Nobody \/ (holder \in readers /\ Active(holder))

\* The channel is in use: a stage is served, or drained.
InUse == phase = "serve" \/ (phase = "drain" /\ exit[stageNow] = "none")

\* The only channel was locked for ever before stage s.
Stranded(s) == ~several /\ \E u \in 1 .. s - 1 : exit[u] = "timeout"

\* A reader is inside get only with the lock, and while a stage is served.
LockInv == \A r \in readers : Active(r) => holder = r /\ phase = "serve"

\* What is put into the channel in a stage: its requests, then the None.
ItemAt(j) == IF j = ChannelRequests + 1 THEN Q!None ELSE <<stageNow, j>>
Top   == IF phase = "serve" THEN produced ELSE ChannelRequests + 1
Taken == Top - Len(channel) - Len(buffer)

\* A channel whose lock is free holds the rest of that, in order, and nothing
\* of an earlier stage; its reader has received the last item that is missing.
OrderInv ==
  InUse /\ LockFree =>
    /\ Taken >= 0
    /\ \A i \in 1 .. Len(channel) : channel[i] = ItemAt(Taken + i)
    /\ \A i \in 1 .. Len(buffer) : buffer[i] = ItemAt(Taken + Len(channel) + i)
    /\ count = Top - Taken + (IF holder # Q!Nobody /\ reader[holder] = "received" THEN 1 ELSE 0)
    /\ holder # Q!Nobody /\ reader[holder] \in {"received", "counted"} =>
         Taken >= 1 /\ item[holder] = <<stageNow, Taken>>

\* The requests of stage s that were not served are those after the m-th.
ServedUpTo(s, m) ==
  /\ m \in 0 .. ChannelRequests
  /\ \A k \in 1 .. ChannelRequests : fetched[<<s, k>>] = {} /\ <<s, k>> \notin lost <=> k > m

Held == IF holder \in readers /\ reader[holder] = "counted" THEN 1 ELSE 0

\* The count tells how many were not, but for one that is about to be handed out.
CountInv ==
  InUse /\ ~Stranded(stageNow) => ServedUpTo(stageNow, Top - count - removed[stageNow] - Held)

\* A lock that was lost in this stage was lost with a reader.
JamInv == phase # "done" /\ ~LockFree /\ ~Stranded(stageNow) => holder \in readers /\ reader[holder] = "dead"

\* The only channel, once it was locked for ever, stays so.
StrandedInv == phase # "done" /\ Stranded(stageNow) => ~LockFree

\* How a drain ends.
EndInv ==
  phase = "drain" =>
    /\ exit[stageNow] = "read" => holder = Q!Nobody /\ channel = <<>> /\ buffer = <<>> /\ count = 0
    /\ exit[stageNow] = "timeout" => holder # Q!Nobody

\* Nothing is known yet of later stages.
FutureInv ==
  /\ \A s \in Q!Stage : s > stageNow \/ (s = stageNow /\ phase = "serve") => exit[s] = "none" /\ removed[s] = 0
  /\ \A q \in Q!Request : q[1] > stageNow => fetched[q] = {} /\ q \notin lost

\* What a drain has counted stays right.
PastInv == \A s \in Q!Stage : exit[s] # "none" /\ ~Stranded(s) => ServedUpTo(s, ChannelRequests - removed[s])

ChannelInv ==
  /\ ChannelTypes /\ LockInv /\ OrderInv /\ CountInv /\ JamInv /\ StrandedInv /\ EndInv /\ FutureInv /\ PastInv
  /\ Q!ServedInItsStage
-----------------------------------------------------------------------------
(* Facts about the data *)

\* Sets are finite, and as large, whichever instance of the module says it.
LEMMA SameSize == \A any : Q!Cardinality(any) = Cardinality(any) /\ (Q!IsFiniteSet(any) <=> IsFiniteSet(any))
<1>1. \A any : Q!Cardinality(any) = Cardinality(any)
  BY Zenon DEF Q!Cardinality, Cardinality
<1>2. \A any : Q!IsFiniteSet(any) <=> IsFiniteSet(any)
  BY Zenon DEF Q!IsFiniteSet, IsFiniteSet
<1> QED
  BY <1>1, <1>2


\* The None of a drain is no request.
LEMMA NoneIsNoRequest == ASSUME NEW s, NEW k PROVE <<s, k>> # Q!None
BY DEF Q!None

\* What is put into the channel is told apart.
LEMMA ItemIsNone ==
  ASSUME NEW j \in 1 .. ChannelRequests + 1, Q!RequestQueueAssumption
  PROVE  ItemAt(j) = Q!None <=> j = ChannelRequests + 1
BY NoneIsNoRequest DEF ItemAt, Q!RequestQueueAssumption

\* Readers are workers, and none of them is Nobody.
LEMMA ReadersAreNumbers ==
  ASSUME Q!RequestQueueAssumption, readers \in Channels
  PROVE  readers \subseteq Q!Readers /\ Q!Readers \subseteq Nat /\ Q!Nobody \notin Q!Readers
BY DEF Q!RequestQueueAssumption, Q!Readers, Q!Nobody

\* Lengths and positions are numbers.
LEMMA ChannelPositions ==
  ASSUME Q!RequestQueueAssumption, ChannelTypes
  PROVE  Len(channel) \in Nat /\ Len(buffer) \in Nat /\ Top \in Nat /\ Taken \in Int
<1>1. Len(channel) \in Nat /\ Len(buffer) \in Nat /\ Top \in Nat
  BY DEF ChannelTypes, Top, Q!RequestQueueAssumption
<1> QED
  BY <1>1 DEF Taken

\* Types, step by step.
LEMMA ChannelTypesHold ==
  ASSUME Q!RequestQueueAssumption, ChannelTypes, [Q!Next]_(Q!vars)
  PROVE  ChannelTypes'
<1> USE DEF ChannelTypes, Q!Put, Q!RequestQueueAssumption
<1>1. CASE Q!PutRequest
  BY <1>1 DEF Q!PutRequest, Q!readerVars, Q!Request
<1>2. CASE Q!BeginDrain
  BY <1>2 DEF Q!BeginDrain, Q!readerVars
<1>3. CASE Q!DrainItem
  <2>1. channel' \in Seq(Q!Request \cup {Q!None})
    BY <1>3 DEF Q!DrainItem
  <2>2. exit' \in [Q!Stage -> {"none", "read", "timeout"}] /\ removed' \in [Q!Stage -> Int]
    <3>1. CASE Head(channel) = Q!None
      <4>1. exit' = [exit EXCEPT ![stageNow] = "read"] /\ removed' = [removed EXCEPT ![stageNow] = @ + 0]
        BY <1>3, <3>1 DEF Q!DrainItem, Q!EndDrain
      <4> QED
        BY <4>1
    <3>2. CASE Head(channel) # Q!None
      BY <1>3, <3>2 DEF Q!DrainItem
    <3> QED
      BY <3>1, <3>2
  <2> QED
    BY <1>3, <2>1, <2>2 DEF Q!DrainItem, Q!readerVars
<1>4. CASE Q!DrainTimeout
  BY <1>4 DEF Q!DrainTimeout, Q!EndDrain, Q!Left, Q!readerVars, Q!channelVars
<1>5. CASE Q!NextStage
  <2>1. buffer' \in Seq(Q!Request \cup {Q!None}) /\ channel' \in Seq(Q!Request \cup {Q!None}) /\ count' \in Int
    <3>1. CASE Q!Replaced
      BY <1>5, <3>1 DEF Q!NextStage
    <3>2. CASE ~Q!Replaced
      BY <1>5, <3>2 DEF Q!NextStage, Q!channelVars
    <3> QED
      BY <3>1, <3>2
  <2>2. stageNow' \in Q!Stage /\ produced' \in 0 .. ChannelRequests /\ phase' \in {"serve", "drain", "done"}
    BY <1>5 DEF Q!NextStage, Q!Stage
  <2>3. holder' \in Q!Readers \cup {Q!Nobody}
    BY <1>5 DEF Q!NextStage, Q!channelVars
  <2> QED
    BY <1>5, <2>1, <2>2, <2>3 DEF Q!NextStage
<1>6. CASE Q!Feed
  BY <1>6 DEF Q!Feed, Q!readerVars
<1>7. ASSUME NEW r \in readers, Q!Lock(r) PROVE ChannelTypes'
  BY <1>7, ReadersAreNumbers DEF Q!Lock
<1>8. ASSUME NEW r \in readers, Q!Empty(r) PROVE ChannelTypes'
  BY <1>8, ReadersAreNumbers DEF Q!Empty
<1>9. ASSUME NEW r \in readers, Q!Receive(r) PROVE ChannelTypes'
  BY <1>9, ReadersAreNumbers DEF Q!Receive
<1>10. ASSUME NEW r \in readers, Q!Count(r) PROVE ChannelTypes'
  BY <1>10, ReadersAreNumbers DEF Q!Count
<1>11. ASSUME NEW r \in readers, Q!Deliver(r) PROVE ChannelTypes'
  BY <1>11, ReadersAreNumbers DEF Q!Deliver
<1>12. ASSUME NEW r \in readers, Q!Kill(r) PROVE ChannelTypes'
  BY <1>12, ReadersAreNumbers DEF Q!Kill, Q!channelVars
<1>13. CASE UNCHANGED Q!vars
  BY <1>13 DEF Q!vars, Q!channelVars, Q!readerVars
<1> QED
  BY <1>1, <1>2, <1>3, <1>4, <1>5, <1>6, <1>7, <1>8, <1>9, <1>10, <1>11, <1>12, <1>13
     DEF Q!Next, Q!Main, Q!Get, Q!Done
-----------------------------------------------------------------------------
(* Steps of the main process *)

\* A request is put behind those of its stage.
LEMMA PutKeeps ==
  ASSUME Q!RequestQueueAssumption, ChannelInv, ChannelTypes', Q!PutRequest
  PROVE  ChannelInv'
<1> USE DEF ChannelInv, Q!PutRequest, Q!readerVars, Q!Put
<1>1. LockInv' /\ JamInv' /\ StrandedInv' /\ EndInv' /\ FutureInv'
  BY DEF LockInv, JamInv, StrandedInv, EndInv, FutureInv, InUse, LockFree, Active, Stranded
<1>2. OrderInv'
  <2> SUFFICES ASSUME LockFree PROVE OrderInv'
    BY DEF OrderInv, LockFree, Active
  <2>1. Len(buffer') = Len(buffer) + 1 /\ buffer'[Len(buffer) + 1] = <<stageNow, produced + 1>>
        /\ \A i \in 1 .. Len(buffer) : buffer'[i] = buffer[i]
    BY DEF ChannelTypes
  <2>2. Taken' = Taken /\ Taken \in Int
    BY <2>1 DEF Taken, Top, ChannelTypes
  <2>3. \A j : ItemAt(j)' = ItemAt(j)
    BY DEF ItemAt
  <2>4. ItemAt(Taken + Len(channel) + Len(buffer) + 1) = <<stageNow, produced + 1>>
    BY DEF ItemAt, Taken, Top, ChannelTypes, Q!RequestQueueAssumption
  <2>5. \A i \in 1 .. Len(buffer') : buffer'[i] = ItemAt(Taken + Len(channel) + i)
    <3> SUFFICES ASSUME NEW i \in 1 .. Len(buffer) + 1 PROVE buffer'[i] = ItemAt(Taken + Len(channel) + i)
      BY <2>1
    <3>1. CASE i \in 1 .. Len(buffer)
      BY <2>1, <3>1 DEF OrderInv, InUse
    <3>2. CASE i = Len(buffer) + 1
      <4>1. Taken + Len(channel) + i = Taken + Len(channel) + Len(buffer) + 1
        BY <2>2, <3>2 DEF ChannelTypes
      <4> QED
        BY <2>1, <2>4, <3>2, <4>1
    <3> QED
      BY <3>1, <3>2 DEF ChannelTypes
  <2>6. count' = Top' - Taken + (IF holder # Q!Nobody /\ reader[holder] = "received" THEN 1 ELSE 0)
    BY <2>2 DEF OrderInv, InUse, Top, ChannelTypes
  <2> QED
    BY <2>1, <2>2, <2>3, <2>5, <2>6 DEF OrderInv, InUse, LockFree, Active
<1>3. CountInv'
  BY DEF CountInv, ServedUpTo, InUse, Top, Held, Stranded, ChannelTypes
<1>4. PastInv' /\ Q!ServedInItsStage'
  BY DEF PastInv, ServedUpTo, Stranded, Q!ServedInItsStage
<1> QED
  BY <1>1, <1>2, <1>3, <1>4

\* The None is put behind all of them, when no reader is inside get.
LEMMA BeginDrainKeeps ==
  ASSUME Q!RequestQueueAssumption, ChannelInv, ChannelTypes', Q!BeginDrain
  PROVE  ChannelInv'
<1> USE DEF ChannelInv, Q!BeginDrain, Q!readerVars, Q!Put
<1>1. LockInv' /\ JamInv' /\ StrandedInv' /\ EndInv' /\ FutureInv'
  BY DEF LockInv, JamInv, StrandedInv, EndInv, FutureInv, InUse, LockFree, Active, Stranded, ChannelTypes
<1>2. OrderInv'
  <2> SUFFICES ASSUME LockFree PROVE OrderInv'
    BY DEF OrderInv, LockFree, Active
  <2>1. Len(buffer') = Len(buffer) + 1 /\ buffer'[Len(buffer) + 1] = Q!None
        /\ \A i \in 1 .. Len(buffer) : buffer'[i] = buffer[i]
    BY DEF ChannelTypes
  <2>2. Taken' = Taken /\ Taken \in Int
    BY <2>1 DEF Taken, Top, ChannelTypes, Q!RequestQueueAssumption
  <2>3. \A j : ItemAt(j)' = ItemAt(j)
    BY DEF ItemAt
  <2>4. ItemAt(Taken + Len(channel) + Len(buffer) + 1) = Q!None
    BY DEF ItemAt, Taken, Top, ChannelTypes, Q!RequestQueueAssumption
  <2>5. \A i \in 1 .. Len(buffer') : buffer'[i] = ItemAt(Taken + Len(channel) + i)
    <3> SUFFICES ASSUME NEW i \in 1 .. Len(buffer) + 1 PROVE buffer'[i] = ItemAt(Taken + Len(channel) + i)
      BY <2>1
    <3>1. CASE i \in 1 .. Len(buffer)
      BY <2>1, <3>1 DEF OrderInv, InUse
    <3>2. CASE i = Len(buffer) + 1
      <4>1. Taken + Len(channel) + i = Taken + Len(channel) + Len(buffer) + 1
        BY <2>2, <3>2 DEF ChannelTypes
      <4> QED
        BY <2>1, <2>4, <3>2, <4>1
    <3> QED
      BY <3>1, <3>2 DEF ChannelTypes
  <2>6. count' = Top' - Taken + (IF holder # Q!Nobody /\ reader[holder] = "received" THEN 1 ELSE 0)
    BY <2>2 DEF OrderInv, InUse, Top, ChannelTypes, Q!RequestQueueAssumption, LockInv, Active, LockFree
  <2> QED
    BY <2>1, <2>2, <2>3, <2>5, <2>6 DEF OrderInv, InUse, LockFree, Active
<1>3. CountInv'
  BY SMTT(30) DEF CountInv, ServedUpTo, InUse, Top, Held, Stranded, ChannelTypes, FutureInv
<1>4. PastInv' /\ Q!ServedInItsStage'
  BY DEF PastInv, ServedUpTo, Stranded, Q!ServedInItsStage
<1> QED
  BY <1>1, <1>2, <1>3, <1>4

\* The drain takes a request that nobody was handed, or the None that is last.
LEMMA DrainItemKeeps ==
  ASSUME Q!RequestQueueAssumption, ChannelInv, ChannelTypes', Q!DrainItem
  PROVE  ChannelInv'
<1> USE DEF ChannelInv
<1>1. InUse /\ LockFree /\ ~Stranded(stageNow) /\ Held = 0 /\ phase = "drain" /\ Top = ChannelRequests + 1
  BY ReadersAreNumbers DEF Q!DrainItem, InUse, LockFree, StrandedInv, Held, Top, ChannelTypes
<1>2. /\ Taken \in Nat /\ Taken + 1 \in 1 .. ChannelRequests + 1
      /\ Head(channel) = ItemAt(Taken + 1) /\ count = Len(channel) + Len(buffer) /\ count \in Nat /\ count >= 1
  <2>1. Len(channel) \in Nat \ {0} /\ Len(buffer) \in Nat /\ Head(channel) = channel[1]
    BY DEF ChannelTypes, Q!DrainItem
  <2>2. Taken \in Nat /\ count = Top - Taken
    BY <1>1, <2>1 DEF OrderInv, Taken, ChannelTypes, Q!DrainItem, Q!RequestQueueAssumption
  <2>3. channel[1] = ItemAt(Taken + 1)
    BY <1>1, <2>1 DEF OrderInv
  <2>4. Top - Taken = Len(channel) + Len(buffer) /\ ChannelRequests \in Nat
    BY <1>1, <2>1 DEF Taken, Q!RequestQueueAssumption
  <2> QED
    BY <1>1, <2>1, <2>2, <2>3, <2>4
<1>3. /\ Len(channel') = Len(channel) - 1
      /\ \A i \in 1 .. Len(channel') : channel'[i] = channel[i + 1]
      /\ \A j : ItemAt(j)' = ItemAt(j)
  BY DEF Q!DrainItem, ChannelTypes, ItemAt
<1>4. LockInv' /\ JamInv' /\ Q!ServedInItsStage'
  BY <1>1 DEF Q!DrainItem, Q!readerVars, LockInv, JamInv, LockFree, Active, Q!ServedInItsStage
<1>5. FutureInv'
  BY DEF Q!DrainItem, Q!EndDrain, FutureInv, ChannelTypes, Q!readerVars, Q!Stage
<1>6. \A s \in Q!Stage : s # stageNow => exit'[s] = exit[s] /\ removed'[s] = removed[s]
  BY DEF Q!DrainItem, Q!EndDrain, ChannelTypes
<1>7. \A s \in Q!Stage : s =< stageNow => (Stranded(s)' <=> Stranded(s))
  <2>1. several' = several
    BY DEF Q!DrainItem
  <2>2. \A s \in Q!Stage : s =< stageNow => \A u \in 1 .. s - 1 : exit'[u] = exit[u]
    BY <1>6 DEF ChannelTypes, Q!Stage, Q!RequestQueueAssumption
  <2> QED
    BY <2>1, <2>2 DEF Stranded
<1>8. StrandedInv'
  BY <1>1, <1>7 DEF StrandedInv, Q!DrainItem, ChannelTypes, Q!Stage
<1>9. CASE Head(channel) = Q!None
  <2>1. Taken = ChannelRequests /\ Len(channel) = 1 /\ Len(buffer) = 0 /\ count = 1
    <3>1. Taken + 1 = ChannelRequests + 1
      BY <1>2, <1>9, ItemIsNone
    <3>2. Len(channel) \in Nat \ {0} /\ Len(buffer) \in Nat
      BY DEF ChannelTypes, Q!DrainItem
    <3>3. Top - (Len(channel) + Len(buffer)) = ChannelRequests
      BY <1>1, <3>1, <3>2 DEF Taken, Q!RequestQueueAssumption
    <3>4. Taken = ChannelRequests
      BY <1>2, <3>1 DEF Q!RequestQueueAssumption
    <3>5. Len(channel) + Len(buffer) = 1
      BY <1>1, <3>2, <3>3 DEF Q!RequestQueueAssumption
    <3>6. count = 1
      BY <1>2, <3>5
    <3>7. \A m \in Nat \ {0}, n \in Nat : m + n = 1 => m = 1 /\ n = 0
      OBVIOUS
    <3> QED
      BY <3>2, <3>4, <3>5, <3>6, <3>7
  <2>2. exit'[stageNow] = "read" /\ removed' = removed /\ channel' = <<>> /\ buffer' = <<>> /\ count' = 0
    BY <1>9, <2>1 DEF Q!DrainItem, Q!EndDrain, ChannelTypes
  <2>3. ServedUpTo(stageNow, ChannelRequests - removed[stageNow])
    BY <1>1, <2>1 DEF CountInv, ChannelTypes, Q!RequestQueueAssumption
  <2>4. PastInv'
    BY <1>5, <1>6, <1>7, <2>2, <2>3, SMTT(60) DEF PastInv, FutureInv, ServedUpTo, Q!DrainItem, Q!readerVars, ChannelTypes, Q!Stage
  <2> QED
    BY <1>4, <1>5, <1>8, <2>2, <2>4 DEF OrderInv, CountInv, EndInv, JamInv, InUse, Q!DrainItem
<1>10. CASE Head(channel) # Q!None
  <2>1. exit' = exit /\ removed' = [removed EXCEPT ![stageNow] = @ + 1]
    BY <1>10 DEF Q!DrainItem
  <2>2. Taken' = Taken + 1 /\ Top' = Top /\ count' = count - 1 /\ Held' = Held
    <3>1. Len(channel) \in Nat /\ Len(buffer) \in Nat
      BY DEF ChannelTypes
    <3>2. Top' = Top /\ count' = count - 1 /\ Held' = Held /\ buffer' = buffer
      BY DEF Top, Q!DrainItem, Q!readerVars, Held
    <3> QED
      BY <1>1, <1>3, <3>1, <3>2 DEF Taken, Q!RequestQueueAssumption
  <2>3. OrderInv'
    <3>1. /\ UNCHANGED <<phase, stageNow, buffer, holder, reader, item>> /\ Len(channel) \in Nat /\ Len(channel') \in Nat
          /\ Taken \in Nat /\ Top \in Nat /\ count \in Nat /\ holder = Q!Nobody
      BY <1>2, ChannelPositions DEF Q!DrainItem, Q!readerVars, ChannelTypes
    <3>2. \A i \in 1 .. Len(channel') : channel'[i] = ItemAt(Taken + i)'
      <4> SUFFICES ASSUME NEW i \in 1 .. Len(channel') PROVE channel'[i] = ItemAt(Taken + i)'
        OBVIOUS
      <4>1. i + 1 \in 1 .. Len(channel) /\ Taken' + i = Taken + (i + 1)
        BY <1>3, <2>2, <3>1, SMTT(30)
      <4>2. channel[i + 1] = ItemAt(Taken + (i + 1))
        BY <1>1, <4>1 DEF OrderInv
      <4> QED
        BY <1>3, <3>1, <4>1, <4>2 DEF ItemAt
    <3>3. \A i \in 1 .. Len(buffer') : buffer'[i] = ItemAt(Taken + Len(channel) + i)'
      <4>1. Taken' + Len(channel') = Taken + Len(channel)
        BY <1>3, <2>2, <3>1
      <4>2. \A i \in 1 .. Len(buffer) : buffer[i] = ItemAt(Taken + Len(channel) + i)
        BY <1>1 DEF OrderInv
      <4> QED
        BY <3>1, <4>1, <4>2 DEF ItemAt
    <3>4. count' = Top' - Taken' + 0
      <4>1. count = Top - Taken
        BY <1>1, <3>1 DEF OrderInv
      <4> QED
        BY <2>2, <3>1, <4>1
    <3> QED
      BY <2>2, <3>1, <3>2, <3>3, <3>4 DEF OrderInv
  <2>4. CountInv'
    <3>1. removed'[stageNow] = removed[stageNow] + 1 /\ removed[stageNow] \in Int /\ stageNow' = stageNow
      BY <2>1 DEF Q!DrainItem, ChannelTypes
    <3>2. Top' - count' - removed'[stageNow] - Held' = Top - count - removed[stageNow] - Held
      BY <1>1, <1>2, <2>2, <3>1, SMTT(30) DEF Q!RequestQueueAssumption
    <3>3. ServedUpTo(stageNow, Top - count - removed[stageNow] - Held)
      BY <1>1 DEF CountInv
    <3>4. fetched' = fetched /\ lost' = lost
      BY DEF Q!DrainItem, Q!readerVars
    <3> QED
      BY <3>1, <3>2, <3>3, <3>4 DEF CountInv, ServedUpTo
  <2>5. EndInv' /\ PastInv'
    BY <1>6, <1>7, <2>1 DEF EndInv, PastInv, ServedUpTo, Stranded, Q!DrainItem, ChannelTypes, Q!readerVars
  <2> QED
    BY <1>4, <1>5, <1>8, <2>3, <2>4, <2>5
<1> QED
  BY <1>9, <1>10

\* The drain gives up on a channel that is locked for ever, and trusts the count.
LEMMA DrainTimeoutKeeps ==
  ASSUME Q!RequestQueueAssumption, ChannelInv, ChannelTypes', Q!DrainTimeout
  PROVE  ChannelInv'
<1> USE DEF ChannelInv
<1>1. InUse /\ ~LockFree /\ holder # Q!Nobody /\ Held = 0 /\ phase = "drain" /\ Top = ChannelRequests + 1
  BY DEF Q!DrainTimeout, Q!NothingArrives, InUse, LockFree, Held, Top, LockInv, Active
<1>2. exit' = [exit EXCEPT ![stageNow] = "timeout"] /\ removed' = [removed EXCEPT ![stageNow] = @ + (count - 1)]
  BY DEF Q!DrainTimeout, Q!EndDrain, Q!Left
<1>3. \A s \in Q!Stage : s =< stageNow => (Stranded(s)' <=> Stranded(s))
  BY <1>2 DEF Stranded, Q!DrainTimeout, ChannelTypes, Q!Stage
<1>4. LockInv' /\ JamInv' /\ StrandedInv' /\ Q!ServedInItsStage' /\ OrderInv' /\ CountInv' /\ EndInv'
  <2>1. UNCHANGED <<readers, phase, stageNow, holder, reader, fetched, lost>>
    BY DEF Q!DrainTimeout, Q!readerVars, Q!channelVars
  <2>2. exit'[stageNow] = "timeout"
    BY <1>2 DEF ChannelTypes
  <2>3. Stranded(stageNow)' <=> Stranded(stageNow)
    BY <1>3, <2>1 DEF ChannelTypes, Q!Stage
  <2>4. LockInv' /\ JamInv' /\ StrandedInv' /\ Q!ServedInItsStage'
    BY <1>1, <2>1, <2>3 DEF LockInv, JamInv, StrandedInv, Q!ServedInItsStage, LockFree, Active
  <2> QED
    BY <1>1, <2>1, <2>2, <2>4 DEF OrderInv, CountInv, EndInv, InUse
<1>5. FutureInv'
  BY <1>2 DEF Q!DrainTimeout, FutureInv, ChannelTypes, Q!readerVars, Q!Stage
<1>6. ~Stranded(stageNow) => ServedUpTo(stageNow, ChannelRequests - removed'[stageNow])
  BY <1>1, <1>2 DEF CountInv, ChannelTypes, Q!RequestQueueAssumption
<1>7. PastInv'
  BY <1>2, <1>3, <1>5, <1>6 DEF PastInv, FutureInv, ServedUpTo, Q!DrainTimeout, Q!readerVars, ChannelTypes, Q!Stage
<1> QED
  BY <1>4, <1>5, <1>7

\* One of several channels that is locked for ever is replaced with its reader; the
\* only one is not, and stays locked.
LEMMA NextStageKeeps ==
  ASSUME Q!RequestQueueAssumption, ChannelInv, ChannelTypes', Q!NextStage
  PROVE  ChannelInv'
<1> USE DEF ChannelInv
<1>1. /\ phase = "drain" /\ exit[stageNow] # "none" /\ produced' = 0
      /\ UNCHANGED <<readers, several, item, removed, exit, fetched, lost>>
      /\ \A r \in Q!Readers : reader'[r] = "idle"
      /\ phase' \in {"serve", "done"}
      /\ stageNow' \in {stageNow, stageNow + 1} /\ (phase' = "serve" => stageNow' = stageNow + 1)
  BY DEF Q!NextStage
<1>2. ~ \E r \in readers : Active(r)'
  BY <1>1, ReadersAreNumbers DEF Active, ChannelTypes
<1>3. LockInv' /\ EndInv' /\ Q!ServedInItsStage'
  BY <1>1, <1>2 DEF LockInv, EndInv, Q!ServedInItsStage
<1>4. FutureInv'
  BY <1>1, SMTT(30) DEF FutureInv, ChannelTypes, Q!Stage, Q!Request
<1>5. PastInv'
  BY <1>1 DEF PastInv, ServedUpTo, Stranded
<1>6. stageNow \in Nat \ {0} /\ (phase' = "serve" => 1 .. stageNow' - 1 = 1 .. stageNow)
      /\ 1 .. stageNow = (1 .. stageNow - 1) \cup {stageNow}
  BY <1>1, SMTT(30) DEF ChannelTypes, Q!Stage, Q!RequestQueueAssumption
<1>7. CASE phase' = "done"
  BY <1>3, <1>4, <1>5, <1>7 DEF OrderInv, CountInv, JamInv, StrandedInv, InUse
<1>8. CASE phase' = "serve" /\ Stranded(stageNow)'
  <2>1. ~several /\ \E u \in 1 .. stageNow : exit[u] = "timeout"
    BY <1>1, <1>8, <1>6 DEF Stranded
  <2>2. holder # Q!Nobody
    <3>1. CASE exit[stageNow] = "timeout"
      BY <1>1, <3>1 DEF EndInv
    <3>2. CASE exit[stageNow] # "timeout"
      <4>1. Stranded(stageNow)
        BY <1>6, <2>1, <3>2 DEF Stranded
      <4> QED
        BY <1>1, <4>1 DEF StrandedInv, LockFree
    <3> QED
      BY <3>1, <3>2
  <2>3. ~Q!Replaced
    BY <2>1 DEF Q!Replaced
  <2>4. ~LockFree'
    BY <1>2, <2>2, <2>3 DEF Q!NextStage, Q!channelVars, LockFree
  <2> QED
    BY <1>3, <1>4, <1>5, <1>8, <2>4 DEF OrderInv, CountInv, JamInv, StrandedInv
<1>9. CASE phase' = "serve" /\ ~Stranded(stageNow)'
  <2>1. buffer' = <<>> /\ channel' = <<>> /\ holder' = Q!Nobody /\ count' = 0
    <3>1. CASE Q!Replaced
      BY <3>1 DEF Q!NextStage
    <3>2. CASE ~Q!Replaced
      <4>1. exit[stageNow] # "timeout"
        <5> SUFFICES ASSUME exit[stageNow] = "timeout" PROVE FALSE
          OBVIOUS
        <5>1. several
          BY <1>1, <1>9, <1>6 DEF Stranded
        <5>2. ~Stranded(stageNow)
          BY <5>1 DEF Stranded
        <5>3. ~LockFree
          BY <1>1 DEF EndInv, LockFree, LockInv
        <5> QED
          BY <1>1, <3>2, <5>1, <5>2, <5>3 DEF Q!Replaced, JamInv
      <4> QED
        BY <1>1, <3>2, <4>1 DEF EndInv, Q!NextStage, Q!channelVars, ChannelTypes
    <3> QED
      BY <3>1, <3>2
  <2>2. Top' = 0 /\ Taken' = 0 /\ Held' = 0
    <3>1. Held' = 0
      BY <1>1, <2>1, ReadersAreNumbers DEF Held, ChannelTypes
    <3>2. Top' = 0 /\ Len(channel') = 0 /\ Len(buffer') = 0
      BY <1>1, <1>9, <2>1 DEF Top
    <3> QED
      BY <3>1, <3>2 DEF Taken
  <2>3. OrderInv' /\ JamInv' /\ StrandedInv'
    BY <1>9, <2>1, <2>2 DEF OrderInv, JamInv, StrandedInv, LockFree
  <2>4. CountInv'
    <3>1. stageNow' \in Q!Stage /\ stageNow' > stageNow /\ removed'[stageNow'] = 0
      BY <1>1, <1>4, <1>9, <1>6 DEF ChannelTypes, FutureInv
    <3>2. \A k \in 1 .. ChannelRequests : fetched'[<<stageNow', k>>] = {} /\ <<stageNow', k>> \notin lost'
      BY <1>1, <3>1 DEF FutureInv, Q!Request
    <3> QED
      BY <2>1, <2>2, <3>1, <3>2 DEF CountInv, ServedUpTo, Q!RequestQueueAssumption
  <2> QED
    BY <1>3, <1>4, <1>5, <2>3, <2>4
<1> QED
  BY <1>1, <1>7, <1>8, <1>9
-----------------------------------------------------------------------------
(* Steps of the feeder thread and of the readers *)

\* An item goes from the buffer to the pipe: the order stays.
LEMMA FeedKeeps ==
  ASSUME Q!RequestQueueAssumption, ChannelInv, ChannelTypes', Q!Feed
  PROVE  ChannelInv'
<1> USE DEF ChannelInv
<1>1. /\ Len(channel') = Len(channel) + 1 /\ Len(buffer') = Len(buffer) - 1
      /\ \A i \in 1 .. Len(channel) : channel'[i] = channel[i]
      /\ channel'[Len(channel) + 1] = buffer[1]
      /\ \A i \in 1 .. Len(buffer') : buffer'[i] = buffer[i + 1]
      /\ Len(channel) \in Nat /\ Len(buffer) \in Nat \ {0}
  BY DEF Q!Feed, ChannelTypes
<1>2. Taken' = Taken /\ Top' = Top /\ Held' = Held /\ \A j : ItemAt(j)' = ItemAt(j)
  <2>1. Top' = Top /\ Held' = Held /\ \A j : ItemAt(j)' = ItemAt(j)
    BY DEF Q!Feed, Q!readerVars, Top, Held, ItemAt
  <2> QED
    BY <1>1, <2>1, ChannelPositions DEF Taken
<1>3. LockInv' /\ JamInv' /\ StrandedInv' /\ FutureInv' /\ PastInv' /\ Q!ServedInItsStage' /\ CountInv'
  BY <1>2 DEF Q!Feed, Q!readerVars, LockInv, JamInv, StrandedInv, FutureInv, PastInv, Q!ServedInItsStage, CountInv,
              ServedUpTo, InUse, LockFree, Active, Stranded
<1>4. EndInv'
  BY <1>1 DEF EndInv, Q!Feed, Q!readerVars
<1>5. OrderInv'
  <2> SUFFICES ASSUME InUse, LockFree PROVE OrderInv'
    BY DEF OrderInv, InUse, LockFree, Active, Q!Feed, Q!readerVars
  <2>1. \A i \in 1 .. Len(channel') : channel'[i] = ItemAt(Taken + i)
    <3>1. buffer[1] = ItemAt(Taken + Len(channel) + 1)
      BY <1>1 DEF OrderInv
    <3> SUFFICES ASSUME NEW i \in 1 .. Len(channel) + 1 PROVE channel'[i] = ItemAt(Taken + i)
      BY <1>1
    <3>2. CASE i \in 1 .. Len(channel)
      BY <1>1, <3>2 DEF OrderInv
    <3>3. CASE i = Len(channel) + 1
      <4>1. Taken + i = Taken + Len(channel) + 1
        BY <1>1, <3>3, ChannelPositions
      <4> QED
        BY <1>1, <3>1, <3>3, <4>1
    <3> QED
      BY <1>1, <3>2, <3>3
  <2>2. \A i \in 1 .. Len(buffer') : buffer'[i] = ItemAt(Taken + Len(channel') + i)
    <3> SUFFICES ASSUME NEW i \in 1 .. Len(buffer') PROVE buffer'[i] = ItemAt(Taken + Len(channel') + i)
      OBVIOUS
    <3>1. buffer'[i] = buffer[i + 1] /\ i + 1 \in 1 .. Len(buffer)
      BY <1>1
    <3>2. Taken + Len(channel) + (i + 1) = Taken + Len(channel') + i
      BY <1>1, ChannelPositions
    <3> QED
      BY <3>1, <3>2 DEF OrderInv
  <2> QED
    BY <1>2, <2>1, <2>2 DEF OrderInv, Q!Feed, Q!readerVars
<1> QED
  BY <1>3, <1>4, <1>5

\* What the steps of readers leave alone.
MainIdle == UNCHANGED <<readers, several, phase, stageNow, produced, buffer, removed, exit>>

LEMMA ReadersLeave ==
  ASSUME ChannelInv, MainIdle, fetched' = fetched, lost' = lost
  PROVE  /\ FutureInv' /\ PastInv' /\ Q!ServedInItsStage'
         /\ \A s : Stranded(s)' <=> Stranded(s)
         /\ InUse' = InUse /\ Top' = Top /\ \A j : ItemAt(j)' = ItemAt(j)
BY DEF ChannelInv, MainIdle, FutureInv, PastInv, ServedUpTo, Stranded, Q!ServedInItsStage, InUse, Top, ItemAt

\* A reader gets the lock only if nobody has it.
LEMMA LockKeeps ==
  ASSUME Q!RequestQueueAssumption, ChannelInv, ChannelTypes', NEW r \in readers, Q!Lock(r)
  PROVE  ChannelInv'
<1> USE DEF ChannelInv
<1>1. MainIdle /\ UNCHANGED <<channel, count, item, fetched, lost>>
  BY DEF Q!Lock, MainIdle
<1>2. /\ phase = "serve" /\ holder = Q!Nobody /\ holder' = r /\ reader'[r] = "locked" /\ r # Q!Nobody
      /\ \A q \in readers : q # r => reader'[q] = reader[q]
  BY ReadersAreNumbers DEF Q!Lock, ChannelTypes
<1>3. LockFree /\ LockFree' /\ Held = 0 /\ Held' = 0 /\ Taken' = Taken
  BY <1>1, <1>2, ReadersLeave, ReadersAreNumbers DEF MainIdle, LockFree, Active, Held, ChannelTypes, Taken
<1>4. LockInv' /\ JamInv' /\ StrandedInv' /\ EndInv'
  <2>1. \A q \in readers : q # r => ~Active(q)'
    BY <1>2, ReadersAreNumbers DEF LockInv, Active, ChannelTypes
  <2> QED
    BY <1>1, <1>2, <1>3, <2>1, ReadersLeave DEF LockInv, JamInv, StrandedInv, EndInv, MainIdle
<1>5. OrderInv'
  BY <1>1, <1>2, <1>3, ReadersLeave DEF OrderInv, MainIdle
<1>6. CountInv'
  BY <1>1, <1>3, ReadersLeave DEF CountInv, ServedUpTo, MainIdle
<1> QED
  BY <1>1, <1>4, <1>5, <1>6, ReadersLeave

\* A reader that finds nothing gives the lock back.
LEMMA EmptyKeeps ==
  ASSUME Q!RequestQueueAssumption, ChannelInv, ChannelTypes', NEW r \in readers, Q!Empty(r)
  PROVE  ChannelInv'
<1> USE DEF ChannelInv
<1>1. MainIdle /\ UNCHANGED <<channel, count, item, fetched, lost>>
  BY DEF Q!Empty, MainIdle
<1>2. /\ phase = "serve" /\ holder = r /\ holder' = Q!Nobody /\ reader[r] = "locked" /\ reader'[r] = "idle"
      /\ \A q \in readers : q # r => reader'[q] = reader[q]
  BY ReadersAreNumbers DEF Q!Empty, ChannelTypes, LockInv, Active
<1>3. LockFree /\ LockFree' /\ Held = 0 /\ Held' = 0 /\ Taken' = Taken
  BY <1>1, <1>2, ReadersLeave, ReadersAreNumbers DEF MainIdle, LockFree, Active, Held, ChannelTypes, Taken
<1>4. LockInv' /\ JamInv' /\ StrandedInv' /\ EndInv'
  <2>1. \A q \in readers : ~Active(q)'
    BY <1>2 DEF LockInv, Active
  <2> QED
    BY <1>1, <1>2, <1>3, <2>1, ReadersLeave DEF LockInv, JamInv, StrandedInv, EndInv, MainIdle
<1>5. OrderInv'
  BY <1>1, <1>2, <1>3, ReadersLeave DEF OrderInv, MainIdle
<1>6. CountInv'
  BY <1>1, <1>3, ReadersLeave DEF CountInv, ServedUpTo, MainIdle
<1> QED
  BY <1>1, <1>4, <1>5, <1>6, ReadersLeave

\* The item that is received is the next of the stage.
LEMMA ReceiveKeeps ==
  ASSUME Q!RequestQueueAssumption, ChannelInv, ChannelTypes', NEW r \in readers, Q!Receive(r)
  PROVE  ChannelInv'
<1> USE DEF ChannelInv
<1>1. MainIdle /\ UNCHANGED <<holder, count, fetched, lost>>
  BY DEF Q!Receive, MainIdle
<1>2. /\ phase = "serve" /\ holder = r /\ reader[r] = "locked" /\ reader'[r] = "received" /\ r # Q!Nobody
      /\ \A q \in readers : q # r => reader'[q] = reader[q]
  BY ReadersAreNumbers DEF Q!Receive, ChannelTypes, LockInv, Active
<1>3. LockFree /\ LockFree' /\ Held = 0 /\ Held' = 0 /\ InUse
  BY <1>1, <1>2 DEF MainIdle, LockFree, Active, Held, InUse
<1>4. /\ Len(channel) \in Nat \ {0} /\ Len(channel') = Len(channel) - 1
      /\ \A i \in 1 .. Len(channel') : channel'[i] = channel[i + 1]
      /\ item'[r] = channel[1]
  BY DEF Q!Receive, ChannelTypes
<1>5. Taken' = Taken + 1
  BY <1>1, <1>4, ChannelPositions, ReadersLeave DEF Taken, MainIdle
<1>6. Taken >= 0 /\ Taken + 1 =< produced
  BY <1>2, <1>3, <1>4, ChannelPositions DEF OrderInv, Taken, Top, ChannelTypes
<1>7. item'[r] = <<stageNow, Taken + 1>>
  <2>1. item'[r] = ItemAt(Taken + 1)
    BY <1>3, <1>4 DEF OrderInv
  <2> QED
    <3>1. produced =< ChannelRequests /\ produced \in Int /\ ChannelRequests \in Nat
      BY DEF ChannelTypes, Q!RequestQueueAssumption
    <3>2. Taken + 1 # ChannelRequests + 1
      BY <1>6, <3>1, ChannelPositions
    <3> QED
      BY <2>1, <3>2 DEF ItemAt
<1>8. LockInv' /\ JamInv' /\ StrandedInv' /\ EndInv'
  BY <1>1, <1>2, <1>3, ReadersLeave DEF LockInv, JamInv, StrandedInv, EndInv, Active, MainIdle
<1>9. OrderInv'
  <2>1. \A i \in 1 .. Len(channel') : channel'[i] = ItemAt(Taken' + i)
    <3> SUFFICES ASSUME NEW i \in 1 .. Len(channel) - 1 PROVE channel'[i] = ItemAt(Taken' + i)
      BY <1>4
    <3>1. channel'[i] = channel[i + 1]
      BY <1>4
    <3>2. i + 1 \in 1 .. Len(channel)
      BY <1>4
    <3>3. Taken' + i = Taken + (i + 1)
      BY <1>5, ChannelPositions
    <3> QED
      BY <1>3, <3>1, <3>2, <3>3 DEF OrderInv
  <2>2. \A i \in 1 .. Len(buffer) : buffer[i] = ItemAt(Taken' + Len(channel') + i)
    <3>1. Taken' + Len(channel') = Taken + Len(channel)
      BY <1>4, <1>5, ChannelPositions
    <3> QED
      BY <1>3, <3>1 DEF OrderInv
  <2>3. count = Top - Taken' + 1
    BY <1>2, <1>3, <1>5, ChannelPositions DEF OrderInv
  <2>4. /\ holder' = r /\ reader'[holder'] = "received" /\ Taken' >= 1 /\ item'[holder'] = <<stageNow', Taken'>>
        /\ buffer' = buffer /\ count' = count
    BY <1>1, <1>2, <1>5, <1>6, <1>7, ChannelPositions DEF MainIdle
  <2>5. \A j : ItemAt(j)' = ItemAt(j)
    BY <1>1, ReadersLeave
  <2>6. Taken' >= 0
    BY <1>5, <1>6, ChannelPositions
  <2> QED
    BY <1>1, <1>2, <2>1, <2>2, <2>3, <2>4, <2>5, <2>6, ReadersLeave DEF OrderInv
<1>10. CountInv'
  BY <1>1, <1>3, ReadersLeave DEF CountInv, ServedUpTo, MainIdle
<1> QED
  BY <1>1, <1>8, <1>9, <1>10, ReadersLeave

\* The item is counted before it is handed out.
LEMMA CountKeeps ==
  ASSUME Q!RequestQueueAssumption, ChannelInv, ChannelTypes', NEW r \in readers, Q!Count(r)
  PROVE  ChannelInv'
<1> USE DEF ChannelInv
<1>1. MainIdle /\ UNCHANGED <<channel, holder, item, fetched, lost>> /\ count' = count - 1
  BY DEF Q!Count, MainIdle
<1>2. /\ phase = "serve" /\ holder = r /\ reader[r] = "received" /\ reader'[r] = "counted" /\ r # Q!Nobody
      /\ \A q \in readers : q # r => reader'[q] = reader[q]
  BY ReadersAreNumbers DEF Q!Count, ChannelTypes, LockInv, Active
<1>3. LockFree /\ LockFree' /\ Held = 0 /\ Held' = 1 /\ Taken' = Taken /\ InUse
  BY <1>1, <1>2, ReadersLeave DEF MainIdle, LockFree, Active, Held, InUse, Taken
<1>4. LockInv' /\ JamInv' /\ StrandedInv' /\ EndInv'
  BY <1>1, <1>2, <1>3, ReadersLeave DEF LockInv, JamInv, StrandedInv, EndInv, Active, MainIdle
<1>5. OrderInv'
  <2>1. count' = Top - Taken /\ Taken >= 1 /\ item[r] = <<stageNow, Taken>>
    BY <1>1, <1>2, <1>3, ChannelPositions DEF OrderInv
  <2> QED
    BY <1>1, <1>2, <1>3, <2>1, ChannelPositions, ReadersLeave DEF OrderInv, MainIdle
<1>6. CountInv'
  <2>1. Top' - count' - removed'[stageNow] - Held' = Top - count - removed[stageNow] - Held
    <3>1. count \in Int /\ removed[stageNow] \in Int /\ Top' = Top /\ removed' = removed
      BY <1>1, ReadersLeave DEF ChannelTypes, MainIdle
    <3> QED
      BY <1>1, <1>3, <3>1, ChannelPositions
  <2> QED
    BY <1>1, <2>1, ReadersLeave DEF CountInv, ServedUpTo, MainIdle
<1> QED
  BY <1>1, <1>4, <1>5, <1>6, ReadersLeave

\* A worker is handed the item it has received, a request of this stage.
LEMMA DeliverKeeps ==
  ASSUME Q!RequestQueueAssumption, ChannelInv, ChannelTypes', NEW r \in readers, Q!Deliver(r)
  PROVE  ChannelInv'
<1> USE DEF ChannelInv
<1>1. MainIdle /\ UNCHANGED <<channel, count, item, lost>>
  BY DEF Q!Deliver, MainIdle
<1>2. /\ phase = "serve" /\ holder = r /\ holder' = Q!Nobody /\ reader[r] = "counted" /\ reader'[r] = "idle"
      /\ r # Q!Nobody /\ \A q \in readers : q # r => reader'[q] = reader[q]
  BY ReadersAreNumbers DEF Q!Deliver, ChannelTypes, LockInv, Active
<1>3. LockFree /\ LockFree' /\ InUse /\ ~Stranded(stageNow) /\ Held = 1 /\ Held' = 0 /\ Taken' = Taken
  BY <1>1, <1>2, ReadersLeave, ReadersAreNumbers
     DEF MainIdle, LockFree, Active, Held, InUse, StrandedInv, ChannelTypes, Taken, Top
<1>4. /\ Taken \in 1 .. ChannelRequests /\ item[r] = <<stageNow, Taken>> /\ count = Top - Taken
      /\ <<stageNow, Taken>> \in Q!Request
  <2>1. Taken >= 1 /\ item[r] = <<stageNow, Taken>> /\ count = Top - Taken
    BY <1>2, <1>3, ChannelPositions DEF OrderInv
  <2>2. Top =< ChannelRequests /\ Len(channel) \in Nat /\ Len(buffer) \in Nat /\ Top \in Nat /\ ChannelRequests \in Nat
    BY <1>2, ChannelPositions DEF Top, ChannelTypes, Q!RequestQueueAssumption
  <2>3. Taken \in 1 .. ChannelRequests
    BY <2>1, <2>2 DEF Taken
  <2> QED
    BY <2>1, <2>3 DEF Q!Request, ChannelTypes
<1>5. fetched' = [fetched EXCEPT ![<<stageNow, Taken>>] = @ \cup {stageNow}]
  BY <1>4, NoneIsNoRequest DEF Q!Deliver
<1>6. LockInv' /\ JamInv' /\ StrandedInv' /\ EndInv'
  <2>1. \A q \in readers : ~Active(q)'
    BY <1>2 DEF LockInv, Active
  <2>2. Stranded(stageNow)' <=> Stranded(stageNow)
    BY <1>1 DEF Stranded, MainIdle
  <2> QED
    BY <1>1, <1>2, <1>3, <2>1, <2>2 DEF LockInv, JamInv, StrandedInv, EndInv, MainIdle
<1>7. OrderInv'
  <2>1. Top' = Top /\ \A j : ItemAt(j)' = ItemAt(j)
    BY <1>1 DEF MainIdle, Top, ItemAt
  <2> QED
    BY <1>1, <1>2, <1>3, <1>4, <2>1 DEF OrderInv, MainIdle
<1>8. Q!ServedInItsStage'
  BY <1>4, <1>5 DEF Q!ServedInItsStage, ChannelTypes
<1>9. FutureInv'
  <2>1. \A q \in Q!Request : q[1] > stageNow => q # <<stageNow, Taken>>
    BY DEF ChannelTypes, Q!Stage
  <2>2. \A q \in Q!Request : q[1] > stageNow => fetched'[q] = fetched[q]
    BY <1>5, <2>1 DEF ChannelTypes
  <2> QED
    BY <1>1, <2>2 DEF FutureInv, MainIdle
<1>10. CountInv'
  <2>1. ServedUpTo(stageNow, Taken - 1)
    <3>1. removed[stageNow] = 0
      BY <1>2 DEF FutureInv, ChannelTypes
    <3> QED
      BY <1>3, <1>4, <3>1, ChannelPositions DEF CountInv
  <2>2. ServedUpTo(stageNow, Taken)'
    <3>1. fetched'[<<stageNow, Taken>>] # {}
      BY <1>4, <1>5 DEF ChannelTypes
    <3>2. \A k \in 1 .. ChannelRequests : k # Taken => fetched'[<<stageNow, k>>] = fetched[<<stageNow, k>>]
      BY <1>4, <1>5 DEF ChannelTypes, Q!Request
    <3> QED
      BY <1>1, <1>3, <1>4, <2>1, <3>1, <3>2, ChannelPositions DEF ServedUpTo, MainIdle
  <2>3. Top' - count' - removed'[stageNow'] - Held' = Taken'
    <3>1. removed[stageNow] = 0
      BY <1>2 DEF FutureInv, ChannelTypes
    <3> QED
      BY <1>1, <1>3, <1>4, <3>1, ChannelPositions DEF MainIdle, Top
  <2> QED
    BY <2>2, <2>3 DEF CountInv
<1>11. PastInv'
  <2>1. \A s \in Q!Stage : exit[s] # "none" => s # stageNow
    BY <1>2 DEF FutureInv
  <2>2. \A s \in Q!Stage, k \in 1 .. ChannelRequests : s # stageNow => fetched'[<<s, k>>] = fetched[<<s, k>>]
    BY <1>4, <1>5 DEF ChannelTypes, Q!Request
  <2>3. \A s : Stranded(s)' <=> Stranded(s)
    BY <1>1 DEF Stranded, MainIdle
  <2> QED
    BY <1>1, <2>1, <2>2, <2>3 DEF PastInv, ServedUpTo, MainIdle
<1> QED
  BY <1>6, <1>7, <1>8, <1>9, <1>10, <1>11

\* A reader that is killed with the lock takes it along, and what it has received.
LEMMA KillKeeps ==
  ASSUME Q!RequestQueueAssumption, ChannelInv, ChannelTypes', NEW r \in readers, Q!Kill(r)
  PROVE  ChannelInv'
<1> USE DEF ChannelInv
<1>1. MainIdle /\ UNCHANGED <<channel, count, holder, item, fetched>>
  BY DEF Q!Kill, MainIdle, Q!channelVars
<1>2. /\ phase = "serve" /\ reader'[r] = "dead"
      /\ \A q \in readers : q # r => reader'[q] = reader[q]
  BY DEF Q!Kill, ChannelTypes
<1>3. LockInv' /\ EndInv'
  BY <1>1, <1>2 DEF LockInv, EndInv, Active, MainIdle
<1>4. Top' = Top /\ Taken' = Taken /\ InUse' = InUse /\ (\A j : ItemAt(j)' = ItemAt(j)) /\ (\A s : Stranded(s)' <=> Stranded(s))
  BY <1>1 DEF MainIdle, Top, Taken, InUse, ItemAt, Stranded
<1>5. LockFree' => LockFree
  BY <1>1, <1>2 DEF LockFree, Active, MainIdle
<1>6. StrandedInv'
  BY <1>1, <1>4, <1>5 DEF StrandedInv, MainIdle
<1>7. JamInv'
  BY <1>1, <1>2, <1>4 DEF JamInv, LockFree, Active, MainIdle
<1>8. OrderInv'
  <2>1. LockFree' /\ holder # Q!Nobody => holder # r /\ reader'[holder] = reader[holder]
    BY <1>1, <1>2 DEF LockFree, Active, MainIdle
  <2> QED
    BY <1>1, <1>4, <1>5, <2>1 DEF OrderInv, MainIdle
<1>9. CASE reader[r] = "counted"
  <2>1. holder = r /\ r # Q!Nobody /\ LockFree /\ InUse /\ ~Stranded(stageNow) /\ Held = 1 /\ Held' = 0
    BY <1>1, <1>2, <1>9, ReadersAreNumbers DEF LockInv, Active, LockFree, InUse, StrandedInv, Held, MainIdle, ChannelTypes
  <2>2. /\ Taken \in 1 .. ChannelRequests /\ item[r] = <<stageNow, Taken>> /\ count = Top - Taken
        /\ <<stageNow, Taken>> \in Q!Request
    <3>1. Taken >= 1 /\ item[r] = <<stageNow, Taken>> /\ count = Top - Taken
      BY <1>9, <2>1, ChannelPositions DEF OrderInv
    <3>2. Top =< ChannelRequests /\ Len(channel) \in Nat /\ Len(buffer) \in Nat /\ Top \in Nat /\ ChannelRequests \in Nat
      BY <1>2, ChannelPositions DEF Top, ChannelTypes, Q!RequestQueueAssumption
    <3>3. Taken \in 1 .. ChannelRequests
      BY <3>1, <3>2 DEF Taken
    <3> QED
      BY <3>1, <3>3 DEF Q!Request, ChannelTypes
  <2>3. lost' = lost \cup {<<stageNow, Taken>>}
    BY <1>9, <2>2, NoneIsNoRequest DEF Q!Kill
  <2>4. FutureInv' /\ Q!ServedInItsStage'
    <3>1. \A q \in Q!Request : q[1] > stageNow => q # <<stageNow, Taken>>
      BY DEF ChannelTypes, Q!Stage
    <3> QED
      BY <1>1, <2>3, <3>1 DEF FutureInv, Q!ServedInItsStage, MainIdle
  <2>5. removed[stageNow] = 0
    BY <1>2 DEF FutureInv, ChannelTypes
  <2>6. CountInv'
    <3>1. ServedUpTo(stageNow, Taken - 1)
      BY <2>1, <2>2, <2>5, ChannelPositions DEF CountInv
    <3>2. ServedUpTo(stageNow, Taken)'
      BY <1>1, <1>4, <2>2, <2>3, <3>1, ChannelPositions DEF ServedUpTo, MainIdle
    <3>3. Top' - count' - removed'[stageNow'] - Held' = Taken'
      BY <1>1, <1>4, <2>1, <2>2, <2>5, ChannelPositions DEF MainIdle
    <3> QED
      BY <3>2, <3>3 DEF CountInv
  <2>7. PastInv'
    <3>1. \A s \in Q!Stage : exit[s] # "none" => s # stageNow
      BY <1>2 DEF FutureInv
    <3>2. \A s \in Q!Stage, k \in 1 .. ChannelRequests : s # stageNow => (<<s, k>> \in lost' <=> <<s, k>> \in lost)
      BY <2>3
    <3> QED
      BY <1>1, <1>4, <3>1, <3>2 DEF PastInv, ServedUpTo, MainIdle
  <2> QED
    BY <1>3, <1>6, <1>7, <1>8, <2>4, <2>6, <2>7
<1>10. CASE reader[r] # "counted"
  <2>1. lost' = lost
    BY <1>10 DEF Q!Kill
  <2>2. Held' = Held
    BY <1>1, <1>2, <1>10 DEF Held, MainIdle
  <2>3. CountInv'
    BY <1>1, <1>4, <2>1, <2>2 DEF CountInv, ServedUpTo, MainIdle
  <2> QED
    BY <1>1, <1>3, <1>6, <1>7, <1>8, <2>1, <2>3, ReadersLeave
<1> QED
  BY <1>9, <1>10

\* Nothing is in the channel at first.
LEMMA ChannelInit ==
  ASSUME Q!RequestQueueAssumption, Q!Init
  PROVE  ChannelInv
<1>1. ChannelTypes /\ Q!ServedInItsStage
  BY DEF Q!Init, Q!Deployed, ChannelTypes, Q!RequestQueueAssumption, Q!Stage, Q!ServedInItsStage
<1>2. Top = 0 /\ Taken = 0 /\ Held = 0 /\ count = 0 /\ removed[stageNow] = 0
  <2>1. Top = 0 /\ Len(channel) = 0 /\ Len(buffer) = 0 /\ count = 0 /\ removed[stageNow] = 0
    BY <1>1 DEF Q!Init, Top, ChannelTypes
  <2>2. Held = 0
    BY <1>1, ReadersAreNumbers DEF Q!Init, Held, ChannelTypes
  <2> QED
    BY <2>1, <2>2 DEF Taken
<1>3. ~Stranded(stageNow)
  BY DEF Q!Init, Stranded
<1>4. LockInv /\ JamInv /\ StrandedInv /\ EndInv /\ FutureInv /\ PastInv
  BY <1>1, <1>3, ReadersAreNumbers
     DEF Q!Init, LockInv, JamInv, StrandedInv, EndInv, FutureInv, PastInv, LockFree, Active, ChannelTypes
<1>5. OrderInv
  BY <1>2 DEF Q!Init, OrderInv
<1>6. CountInv
  BY <1>2 DEF Q!Init, CountInv, ServedUpTo, Q!RequestQueueAssumption, Q!Request, Q!Stage
<1> QED
  BY <1>1, <1>4, <1>5, <1>6 DEF ChannelInv

\* No step breaks the invariant.
LEMMA ChannelKeeps ==
  ASSUME Q!RequestQueueAssumption, ChannelInv, [Q!Next]_(Q!vars)
  PROVE  ChannelInv'
<1>1. ChannelTypes'
  BY ChannelTypesHold DEF ChannelInv
<1>2. CASE Q!Main
  BY <1>1, <1>2, PutKeeps, BeginDrainKeeps, DrainItemKeeps, DrainTimeoutKeeps, NextStageKeeps DEF Q!Main
<1>3. CASE Q!Feed
  BY <1>1, <1>3, FeedKeeps
<1>4. ASSUME NEW r \in readers, Q!Lock(r) \/ Q!Get(r) \/ Q!Kill(r)
      PROVE  ChannelInv'
  BY <1>1, <1>4, LockKeeps, EmptyKeeps, ReceiveKeeps, CountKeeps, DeliverKeeps, KillKeeps DEF Q!Get
<1>5. CASE UNCHANGED Q!vars
  <2>1. UNCHANGED <<readers, several, phase, stageNow, produced, buffer, channel, holder, count, removed, exit, reader, item,
                    fetched, lost>>
    BY <1>5 DEF Q!vars, Q!channelVars, Q!readerVars
  <2> QED
    BY <2>1 DEF ChannelInv, ChannelTypes, LockInv, OrderInv, CountInv, JamInv, StrandedInv, EndInv, FutureInv, PastInv,
              Q!ServedInItsStage, ServedUpTo, Stranded, InUse, LockFree, Active, Taken, Top, ItemAt, Held
<1> QED
  BY <1>2, <1>3, <1>4, <1>5 DEF Q!Next, Q!Done

LEMMA ChannelInvHolds ==
  ASSUME Q!RequestQueueAssumption
  PROVE  Q!Spec => []ChannelInv
<1>1. Q!Init => ChannelInv
  BY ChannelInit
<1>2. ChannelInv /\ [Q!Next]_(Q!vars) => ChannelInv'
  BY ChannelKeeps
<1> QED
  BY <1>1, <1>2, PTL DEF Q!Spec
-----------------------------------------------------------------------------
(* A channel that stays locked *)

\* What is kept in the only channel once it is locked for ever: nothing of a stage is
\* served, and what is put comes on top of what the stage before left, and of its None.
OnTop ==
  phase # "done" /\ Stranded(stageNow) =>
    /\ exit[stageNow - 1] = "timeout"
    /\ ServedUpTo(stageNow, 0)
    /\ InUse => count = removed[stageNow - 1] + 1 + Top /\ removed[stageNow] = 0

\* A drain that meets a locked channel has read nothing, and leaves its None there.
LockedDrain ==
  phase = "drain" =>
    /\ exit[stageNow] = "none" /\ holder # Q!Nobody => removed[stageNow] = 0
    /\ exit[stageNow] = "timeout" => count = removed[stageNow] + 1

\* What the drains of a channel that stays locked have counted.
PastOnTop ==
  /\ \A s \in Q!Stage : s < stageNow => exit[s] # "none"
  /\ \A s \in Q!Stage : exit[s] # "none" /\ Stranded(s) =>
       /\ exit[s] = "timeout" /\ exit[s - 1] = "timeout"
       /\ ServedUpTo(s, 0)
       /\ removed[s] = removed[s - 1] + ChannelRequests + 1

KeptInv == OnTop /\ LockedDrain /\ PastOnTop

\* The stages, and the one before.
LEMMA StagesBefore ==
  ASSUME Q!RequestQueueAssumption, ChannelTypes, NEW s \in Q!Stage
  PROVE  /\ s \in Nat \ {0} /\ s <= NumStages /\ ChannelRequests \in Nat /\ removed[s] \in Int
         /\ Stranded(s) => s - 1 \in Q!Stage /\ s - 1 \in 1 .. s - 1
<1>1. s \in Nat \ {0} /\ s <= NumStages /\ ChannelRequests \in Nat /\ removed[s] \in Int /\ NumStages \in Nat
  BY DEF Q!Stage, Q!RequestQueueAssumption, ChannelTypes
<1>2. ASSUME Stranded(s) PROVE s - 1 \in Q!Stage /\ s - 1 \in 1 .. s - 1
  <2>1. PICK u \in 1 .. s - 1 : exit[u] = "timeout"
    BY <1>2 DEF Stranded
  <2>2. u \in Nat /\ 1 <= u /\ u <= s - 1
    BY <1>1, <2>1
  <2> QED
    BY <1>1, <2>2 DEF Q!Stage
<1> QED
  BY <1>1, <1>2

LEMMA KeptInit == ASSUME Q!RequestQueueAssumption, Q!Init, ChannelInv PROVE KeptInv
BY DEF Q!Init, KeptInv, OnTop, LockedDrain, PastOnTop, Stranded, Q!Stage

\* A stage begins.
LEMMA NextStageKeepsOnTop ==
  ASSUME Q!RequestQueueAssumption, ChannelInv, ChannelInv', KeptInv, Q!NextStage
  PROVE  KeptInv'
<1> USE DEF KeptInv
<1>1. /\ phase = "drain" /\ exit[stageNow] # "none" /\ produced' = 0
      /\ UNCHANGED <<several, removed, exit, fetched, lost>>
      /\ \/ phase' = "done" /\ stageNow' = stageNow
         \/ phase' = "serve" /\ stageNow' = stageNow + 1
  BY DEF Q!NextStage
<1>2. \A s : Stranded(s)' <=> Stranded(s)
  BY <1>1 DEF Stranded
<1>3. stageNow \in Q!Stage /\ stageNow \in Nat /\ stageNow' \in Q!Stage
  BY DEF ChannelInv, ChannelTypes, Q!Stage, Q!RequestQueueAssumption
<1>4. PastOnTop'
  <2>1. \A s \in Q!Stage : s < stageNow' => exit'[s] # "none"
    <3> SUFFICES ASSUME NEW s \in Q!Stage, s < stageNow' PROVE exit'[s] # "none"
      OBVIOUS
    <3>1. s < stageNow \/ s = stageNow
      BY <1>1, <1>3 DEF Q!Stage
    <3> QED
      BY <1>1, <3>1 DEF PastOnTop
  <2> QED
    BY <1>1, <1>2, <2>1 DEF PastOnTop, ServedUpTo
<1>5. OnTop'
  <2> SUFFICES ASSUME phase' = "serve", Stranded(stageNow)'
               PROVE  /\ exit'[stageNow' - 1] = "timeout"
                      /\ ServedUpTo(stageNow, 0)'
                      /\ count' = removed'[stageNow' - 1] + 1 + Top' /\ removed'[stageNow'] = 0
    <3>1. phase' # "done" => phase' = "serve"
      BY <1>1
    <3> QED
      BY <3>1 DEF OnTop
  <2>1. stageNow' = stageNow + 1 /\ stageNow' - 1 = stageNow
    BY <1>1, <1>3
  <2>2. ~several /\ (exit[stageNow] = "timeout" \/ Stranded(stageNow))
    <3>1. PICK u \in 1 .. stageNow' - 1 : exit[u] = "timeout"
      BY <1>1 DEF Stranded
    <3>2. u = stageNow \/ u \in 1 .. stageNow - 1
      BY <1>3, <2>1, <3>1
    <3> QED
      BY <1>1, <3>1, <3>2 DEF Stranded
  <2>3. exit[stageNow] = "timeout"
    BY <1>1, <1>3, <2>2 DEF PastOnTop
  <2>4. count' = count /\ count = removed[stageNow] + 1
    BY <1>1, <2>2, <2>3 DEF Q!NextStage, Q!Replaced, Q!channelVars, LockedDrain
  <2>5. Top' = 0 /\ removed[stageNow] \in Int
    BY <1>1, <1>3 DEF Top, ChannelInv, ChannelTypes
  <2>6. removed'[stageNow'] = 0 /\ \A k \in 1 .. ChannelRequests : fetched'[<<stageNow', k>>] = {} /\ <<stageNow', k>> \notin lost'
    <3>1. stageNow' > stageNow
      BY <1>3, <2>1
    <3>2. \A k \in 1 .. ChannelRequests : <<stageNow', k>> \in Q!Request
      BY <1>3 DEF Q!Request
    <3> QED
      BY <1>1, <1>3, <3>1, <3>2 DEF ChannelInv, FutureInv
  <2>7. ServedUpTo(stageNow, 0)'
    <3>1. \A k \in 1 .. ChannelRequests : k > 0
      BY DEF Q!RequestQueueAssumption
    <3> QED
      BY <2>6, <3>1 DEF ServedUpTo, Q!RequestQueueAssumption
  <2> QED
    BY <1>1, <2>1, <2>3, <2>4, <2>5, <2>6, <2>7
<1> QED
  BY <1>1, <1>4, <1>5 DEF LockedDrain

\* What is put comes on top; what is taken out of a channel in use is no step of one
\* that stays locked, and a drain that meets the lock counts what there is.
LEMMA MainKeepsOnTop ==
  ASSUME Q!RequestQueueAssumption, ChannelInv, ChannelInv', KeptInv,
         Q!PutRequest \/ Q!BeginDrain \/ Q!DrainItem \/ Q!DrainTimeout
  PROVE  KeptInv'
<1> USE DEF KeptInv
<1>1. /\ phase # "done" /\ phase' # "done" /\ stageNow' = stageNow /\ several' = several
      /\ fetched' = fetched /\ lost' = lost
  BY DEF Q!PutRequest, Q!BeginDrain, Q!DrainItem, Q!DrainTimeout, Q!readerVars
<1>2. /\ stageNow \in Q!Stage /\ stageNow \in Nat /\ exit \in [Q!Stage -> {"none", "read", "timeout"}] /\ removed \in [Q!Stage -> Int]
      /\ count \in Int /\ ChannelRequests \in Nat /\ produced \in Nat
  BY SMTT(30) DEF ChannelInv, ChannelTypes, Q!Stage, Q!RequestQueueAssumption
<1>3. /\ \A s \in Q!Stage : s # stageNow => exit'[s] = exit[s] /\ removed'[s] = removed[s]
      /\ exit[stageNow] = "none" /\ InUse
  BY <1>2 DEF Q!PutRequest, Q!BeginDrain, Q!DrainItem, Q!DrainTimeout, Q!EndDrain, InUse, ChannelInv, FutureInv
<1>4. \A s \in Q!Stage : s =< stageNow => (Stranded(s)' <=> Stranded(s))
  <2>1. \A s \in Q!Stage : s =< stageNow => \A u \in 1 .. s - 1 : u \in Q!Stage /\ u # stageNow
    BY <1>2 DEF Q!Stage, Q!RequestQueueAssumption
  <2> QED
    BY <1>1, <1>3, <2>1 DEF Stranded
<1>5. \A s \in Q!Stage : exit'[s] # "none" => s <= stageNow
  <2>1. \A s \in Q!Stage : s <= stageNow \/ s > stageNow
    BY <1>2 DEF Q!Stage
  <2> QED
    BY <1>2, <1>3, <2>1 DEF ChannelInv, FutureInv, Q!Stage
<1>6. \A s \in Q!Stage : Stranded(s) => s - 1 \in Q!Stage /\ s - 1 # s /\ (s <= stageNow => s - 1 # stageNow)
  BY <1>2, StagesBefore DEF ChannelInv
<1>7. CASE Q!PutRequest \/ Q!BeginDrain
  <2>1. exit' = exit /\ removed' = removed
    BY <1>7 DEF Q!PutRequest, Q!BeginDrain
  <2>2. PastOnTop'
    BY <1>1, <1>4, <1>5, <2>1 DEF PastOnTop, ServedUpTo
  <2>3. count' = count + 1 /\ Top' = Top + 1 /\ Top \in Nat
    BY <1>2, <1>7 DEF Q!PutRequest, Q!BeginDrain, Q!Put, Top
  <2>4. OnTop'
    <3> SUFFICES ASSUME Stranded(stageNow)' PROVE OnTop'
      BY <1>1 DEF OnTop
    <3>1. /\ Stranded(stageNow) /\ exit[stageNow - 1] = "timeout" /\ ServedUpTo(stageNow, 0)
          /\ count = removed[stageNow - 1] + 1 + Top /\ removed[stageNow] = 0
      BY <1>1, <1>2, <1>3, <1>4 DEF OnTop
    <3>2. ServedUpTo(stageNow, 0)'
      BY <1>1, <3>1 DEF ServedUpTo
    <3>3. removed[stageNow - 1] \in Int
      BY <1>2, <1>6, <3>1
    <3>4. count' = removed[stageNow - 1] + 1 + Top'
      BY <1>2, <2>3, <3>1, <3>3
    <3> QED
      BY <1>1, <2>1, <3>1, <3>2, <3>4 DEF OnTop
  <2>5. LockedDrain'
    <3>1. CASE Q!PutRequest
      BY <3>1 DEF Q!PutRequest, LockedDrain
    <3>2. CASE Q!BeginDrain
      <4>1. removed[stageNow] = 0
        BY <1>2, <3>2 DEF Q!BeginDrain, ChannelInv, FutureInv
      <4> QED
        BY <1>1, <1>3, <2>1, <4>1 DEF LockedDrain
    <3> QED
      BY <1>7, <3>1, <3>2
  <2> QED
    BY <2>2, <2>4, <2>5
<1>8. CASE Q!DrainItem
  <2>1. phase' = "drain" /\ holder' = Q!Nobody /\ holder = Q!Nobody
    BY <1>8 DEF Q!DrainItem
  <2>2. ~Stranded(stageNow) /\ ~Stranded(stageNow)'
    BY <1>1, <1>2, <1>4, <2>1 DEF ChannelInv, StrandedInv, LockFree
  <2>3. exit'[stageNow] \in {"none", "read"}
    BY <1>2, <1>3, <1>8 DEF Q!DrainItem, Q!EndDrain
  <2>4. PastOnTop'
    BY <1>1, <1>3, <1>4, <1>5, <1>6, <2>2 DEF PastOnTop, ServedUpTo
  <2> QED
    BY <1>1, <2>1, <2>2, <2>3, <2>4 DEF OnTop, LockedDrain
<1>9. CASE Q!DrainTimeout
  <2>1. /\ phase = "drain" /\ phase' = "drain" /\ holder # Q!Nobody /\ count' = count
        /\ exit'[stageNow] = "timeout" /\ removed'[stageNow] = removed[stageNow] + (count - 1)
    BY <1>2, <1>9 DEF Q!DrainTimeout, Q!NothingArrives, Q!EndDrain, Q!Left, Q!channelVars
  <2>2. removed[stageNow] = 0 /\ removed'[stageNow] = count - 1
    BY <1>2, <1>3, <2>1 DEF LockedDrain
  <2>3. LockedDrain'
    BY <1>1, <1>2, <2>1, <2>2 DEF LockedDrain
  <2>4. Stranded(stageNow) => /\ exit[stageNow - 1] = "timeout" /\ ServedUpTo(stageNow, 0)
                              /\ removed[stageNow - 1] \in Int
                              /\ count - 1 = removed[stageNow - 1] + ChannelRequests + 1
    <3> SUFFICES ASSUME Stranded(stageNow)
                 PROVE  /\ exit[stageNow - 1] = "timeout" /\ ServedUpTo(stageNow, 0)
                        /\ removed[stageNow - 1] \in Int
                        /\ count - 1 = removed[stageNow - 1] + ChannelRequests + 1
      OBVIOUS
    <3>1. exit[stageNow - 1] = "timeout" /\ ServedUpTo(stageNow, 0) /\ count = removed[stageNow - 1] + 1 + Top
      BY <1>1, <1>3 DEF OnTop
    <3>2. removed[stageNow - 1] \in Int /\ Top = ChannelRequests + 1
      BY <1>2, <1>6, <2>1 DEF Top
    <3> QED
      BY <1>2, <3>1, <3>2
  <2>5. PastOnTop'
    <3>1. \A s \in Q!Stage : exit'[s] # "none" /\ Stranded(s)' =>
            /\ exit'[s] = "timeout" /\ exit'[s - 1] = "timeout"
            /\ ServedUpTo(s, 0)'
            /\ removed'[s] = removed'[s - 1] + ChannelRequests + 1
      <4> SUFFICES ASSUME NEW s \in Q!Stage, exit'[s] # "none", Stranded(s)'
                   PROVE  /\ exit'[s] = "timeout" /\ exit'[s - 1] = "timeout"
                          /\ ServedUpTo(s, 0)'
                          /\ removed'[s] = removed'[s - 1] + ChannelRequests + 1
        OBVIOUS
      <4>1. s <= stageNow /\ Stranded(s) /\ s - 1 \in Q!Stage /\ s - 1 # stageNow
        BY <1>4, <1>5, <1>6
      <4>2. exit'[s - 1] = exit[s - 1] /\ removed'[s - 1] = removed[s - 1]
        BY <1>3, <4>1
      <4>3. CASE s = stageNow
        BY <1>1, <2>1, <2>2, <2>4, <4>1, <4>2, <4>3 DEF ServedUpTo
      <4>4. CASE s # stageNow
        BY <1>1, <1>3, <4>1, <4>2, <4>4 DEF PastOnTop, ServedUpTo
      <4> QED
        BY <4>3, <4>4
    <3>2. \A s \in Q!Stage : s < stageNow' => exit'[s] # "none"
      BY <1>1, <1>2, <1>3 DEF PastOnTop, Q!Stage
    <3> QED
      BY <3>1, <3>2 DEF PastOnTop
  <2>6. OnTop'
    <3> SUFFICES ASSUME Stranded(stageNow)' PROVE OnTop'
      BY <1>1 DEF OnTop
    <3>1. Stranded(stageNow) /\ ~InUse'
      BY <1>1, <1>2, <1>4, <2>1 DEF InUse
    <3>2. exit'[stageNow - 1] = exit[stageNow - 1]
      BY <1>2, <1>3, <1>6, <3>1
    <3> QED
      BY <1>1, <2>4, <3>1, <3>2 DEF OnTop, ServedUpTo
  <2> QED
    BY <2>3, <2>5, <2>6
<1> QED
  BY <1>7, <1>8, <1>9

\* A reader takes nothing out of a channel that stays locked, and serves requests of
\* its stage only.
LEMMA ReadersKeepOnTop ==
  ASSUME Q!RequestQueueAssumption, ChannelInv, ChannelInv', KeptInv, NEW r \in readers, Q!Lock(r) \/ Q!Get(r) \/ Q!Kill(r)
  PROVE  KeptInv'
<1> USE DEF KeptInv
<1>1. /\ UNCHANGED <<several, phase, stageNow, produced, removed, exit>>
      /\ fetched' = fetched \/ (Q!Deliver(r) /\ item[r] # Q!None /\ fetched' = [fetched EXCEPT ![item[r]] = @ \cup {stageNow}])
      /\ lost' = lost \/ (reader[r] = "counted" /\ lost' = lost \cup {item[r]})
  BY DEF Q!Lock, Q!Get, Q!Empty, Q!Receive, Q!Count, Q!Deliver, Q!Kill, Q!channelVars
<1>2. phase = "serve" /\ stageNow \in Q!Stage /\ exit[stageNow] = "none" /\ InUse
  BY DEF Q!Lock, Q!Get, Q!Empty, Q!Receive, Q!Count, Q!Deliver, Q!Kill, ChannelInv, LockInv, Active, FutureInv, ChannelTypes, InUse
<1>3. reader[r] = "counted" => LockFree /\ item[r][1] = stageNow
  <2> SUFFICES ASSUME reader[r] = "counted" PROVE LockFree /\ item[r][1] = stageNow
    OBVIOUS
  <2>1. holder = r /\ LockFree /\ holder # Q!Nobody
    BY ReadersAreNumbers DEF ChannelInv, ChannelTypes, LockInv, Active, LockFree
  <2>2. item[r] = <<stageNow, Taken>>
    BY <1>2, <2>1 DEF ChannelInv, OrderInv
  <2> QED
    BY <2>1, <2>2
<1>4. \A s \in Q!Stage, k \in 1 .. ChannelRequests :
        s # stageNow \/ ~LockFree => fetched'[<<s, k>>] = fetched[<<s, k>>] /\ (<<s, k>> \in lost' <=> <<s, k>> \in lost)
  <2> SUFFICES ASSUME NEW s \in Q!Stage, NEW k \in 1 .. ChannelRequests, s # stageNow \/ ~LockFree
               PROVE  fetched'[<<s, k>>] = fetched[<<s, k>>] /\ (<<s, k>> \in lost' <=> <<s, k>> \in lost)
    OBVIOUS
  <2>1. reader[r] = "counted" => <<s, k>> # item[r]
    BY <1>3
  <2>2. Q!Deliver(r) => reader[r] = "counted"
    BY DEF Q!Deliver
  <2>3. <<s, k>> \in Q!Request /\ fetched \in [Q!Request -> SUBSET Q!Stage]
    BY DEF Q!Request, ChannelInv, ChannelTypes
  <2> QED
    BY <1>1, <2>1, <2>2, <2>3
<1>5. \A s \in Q!Stage : (s # stageNow \/ ~LockFree) /\ ServedUpTo(s, 0) => ServedUpTo(s, 0)'
  BY <1>4 DEF ServedUpTo
<1>6. \A s : Stranded(s)' <=> Stranded(s)
  BY <1>1 DEF Stranded
<1>7. PastOnTop'
  BY <1>1, <1>2, <1>5, <1>6 DEF PastOnTop
<1>8. OnTop'
  <2> SUFFICES ASSUME Stranded(stageNow) PROVE OnTop'
    BY <1>1, <1>6 DEF OnTop
  <2>1. ~LockFree
    BY <1>2 DEF ChannelInv, StrandedInv
  <2>2. ~Active(r) /\ holder # Q!Nobody
    BY <2>1 DEF ChannelInv, LockInv, LockFree
  <2>3. Q!Kill(r)
    BY <2>2 DEF Q!Lock, Q!Get, Q!Empty, Q!Receive, Q!Count, Q!Deliver, Active
  <2>4. count' = count /\ Top' = Top /\ InUse' = InUse
    BY <1>1, <2>3 DEF Q!Kill, Q!channelVars, Top, InUse
  <2> QED
    BY <1>1, <1>2, <1>5, <1>6, <2>1, <2>4 DEF OnTop
<1>9. LockedDrain'
  BY <1>1, <1>2 DEF LockedDrain
<1> QED
  BY <1>7, <1>8, <1>9

LEMMA KeptInvHolds ==
  ASSUME Q!RequestQueueAssumption
  PROVE  Q!Spec => []KeptInv
<1>1. Q!Init /\ ChannelInv => KeptInv
  BY KeptInit
<1>2. ChannelInv /\ ChannelInv' /\ KeptInv /\ [Q!Next]_(Q!vars) => KeptInv'
  <2> SUFFICES ASSUME ChannelInv, ChannelInv', KeptInv, [Q!Next]_(Q!vars) PROVE KeptInv'
    OBVIOUS
  <2>1. CASE UNCHANGED Q!vars \/ Q!Feed
    <3>1. UNCHANGED <<several, phase, stageNow, produced, holder, count, removed, exit, fetched, lost>>
      BY <2>1 DEF Q!vars, Q!channelVars, Q!readerVars, Q!Feed
    <3> QED
      BY <3>1 DEF KeptInv, OnTop, LockedDrain, PastOnTop, Stranded, ServedUpTo, InUse, Top
  <2>2. CASE Q!Main
    BY <2>2, MainKeepsOnTop, NextStageKeepsOnTop DEF Q!Main
  <2>3. ASSUME NEW r \in readers, Q!Lock(r) \/ Q!Get(r) \/ Q!Kill(r) PROVE KeptInv'
    BY <2>3, ReadersKeepOnTop
  <2> QED
    BY <2>1, <2>2, <2>3 DEF Q!Next, Q!Done
<1> QED
  BY <1>1, <1>2, ChannelInvHolds, PTL DEF Q!Spec
-----------------------------------------------------------------------------
(* Theorems *)

\* However readers are killed and locks stranded, a worker is handed a request in
\* the stage it was put for: nothing a stage leaves behind reaches the next (drain).
THEOREM RequestsStayInTheirStage ==
  ASSUME Q!RequestQueueAssumption
  PROVE  Q!Spec => []Q!ServedInItsStage
<1>1. ChannelInv => Q!ServedInItsStage
  BY DEF ChannelInv
<1> QED
  BY <1>1, ChannelInvHolds, PTL

\* The numbers after m are as many as there are.
LEMMA SizeOfRest ==
  ASSUME Q!RequestQueueAssumption, ChannelTypes, NEW s \in Q!Stage, NEW m, ServedUpTo(s, m)
  PROVE  Cardinality(Q!Unserved(s)) = ChannelRequests - m /\ IsFiniteSet(Q!Unserved(s))
<1> DEFINE f == [k \in m + 1 .. ChannelRequests |-> <<s, k>>]
<1>1. m \in 0 .. ChannelRequests /\ ChannelRequests \in Nat
  BY DEF ServedUpTo, Q!RequestQueueAssumption
<1>2. Q!Unserved(s) = {<<s, k>> : k \in m + 1 .. ChannelRequests}
  <2>1. ASSUME NEW q \in Q!Unserved(s) PROVE q \in {<<s, k>> : k \in m + 1 .. ChannelRequests}
    <3>1. PICK k \in 1 .. ChannelRequests : q = <<s, k>>
      BY DEF Q!Unserved, Q!Request
    <3>2. k > m
      BY <3>1 DEF ServedUpTo, Q!Unserved
    <3> QED
      BY <1>1, <3>1, <3>2
  <2>2. ASSUME NEW k \in m + 1 .. ChannelRequests PROVE <<s, k>> \in Q!Unserved(s)
    <3>1. k \in 1 .. ChannelRequests /\ k > m
      BY <1>1
    <3> QED
      BY <3>1 DEF ServedUpTo, Q!Unserved, Q!Request
  <2> QED
    BY <2>1, <2>2
<1>3. f \in Bijection(m + 1 .. ChannelRequests, Q!Unserved(s))
  <2>1. f \in [m + 1 .. ChannelRequests -> Q!Unserved(s)]
    BY <1>2
  <2>2. \A a, b \in m + 1 .. ChannelRequests : f[a] = f[b] => a = b
    OBVIOUS
  <2>3. \A q \in Q!Unserved(s) : \E k \in m + 1 .. ChannelRequests : f[k] = q
    BY <1>2
  <2> QED
    BY <2>1, <2>2, <2>3 DEF Bijection, Injection, Surjection, IsInjective
<1>4. IsFiniteSet(m + 1 .. ChannelRequests) /\ Cardinality(m + 1 .. ChannelRequests) = ChannelRequests - m
  <2>1. m + 1 \in Int /\ ChannelRequests \in Int /\ (m + 1 > ChannelRequests => ChannelRequests - m = 0)
        /\ ChannelRequests - (m + 1) + 1 = ChannelRequests - m
    BY <1>1
  <2> QED
    BY <2>1, FS_Interval
<1> QED
  BY <1>3, <1>4, FS_Bijection DEF ExistsBijection

\* The requests that the drain of stage s finds, and what it counts.
Found(s) == UNION {Q!Unserved(u) : u \in Q!Counted(s)}
Exact(s) == removed[s] = Cardinality(Found(s)) + Cardinality(Q!Counted(s)) - 1

\* The drain of a channel that is not left locked counts its own stage.
LEMMA OwnStage ==
  ASSUME Q!RequestQueueAssumption, ChannelInv, NEW s \in Q!Stage, Q!Drained(s), ~Stranded(s)
  PROVE  /\ Exact(s) /\ IsFiniteSet(Found(s))
         /\ Q!Counted(s) = {s}
<1>1. Q!Counted(s) = {s} /\ Found(s) = Q!Unserved(s)
  BY DEF Q!Counted, Stranded, Found
<1>2. ServedUpTo(s, ChannelRequests - removed[s])
  BY DEF ChannelInv, PastInv, Q!Drained
<1>3. Cardinality(Q!Unserved(s)) = ChannelRequests - (ChannelRequests - removed[s]) /\ IsFiniteSet(Q!Unserved(s))
  BY <1>2, SizeOfRest DEF ChannelInv
<1>4. removed[s] \in Int /\ ChannelRequests \in Nat
  BY DEF ChannelInv, ChannelTypes, Q!RequestQueueAssumption
<1>5. Cardinality({s}) = 1
  BY FS_Singleton
<1> QED
  BY <1>1, <1>3, <1>4, <1>5 DEF Exact

\* The drain of one that is left locked counts its own stage, the None of the drain
\* before, and all that this has counted.
LEMMA OnTopOfTheLast ==
  ASSUME Q!RequestQueueAssumption, ChannelInv, KeptInv, NEW s \in Q!Stage, Q!Drained(s), Stranded(s),
         Exact(s - 1), IsFiniteSet(Found(s - 1)), IsFiniteSet(Q!Counted(s - 1))
  PROVE  Exact(s) /\ IsFiniteSet(Found(s)) /\ IsFiniteSet(Q!Counted(s))
<1>1. /\ exit[s - 1] = "timeout" /\ ServedUpTo(s, 0) /\ removed[s] = removed[s - 1] + ChannelRequests + 1
      /\ s \in Nat \ {0} /\ s - 1 \in Q!Stage /\ s - 1 \in 1 .. s - 1 /\ ~several
      /\ ChannelRequests \in Nat /\ removed[s - 1] \in Int
  BY StagesBefore DEF KeptInv, PastOnTop, Q!Drained, ChannelInv, Stranded
<1>2. Q!Counted(s) = Q!Counted(s - 1) \cup {s} /\ s \notin Q!Counted(s - 1)
  <2>1. \A u : u \in 1 .. s - 1 <=> u = s - 1 \/ u \in 1 .. s - 1 - 1
    BY <1>1
  <2>2. s # s - 1 /\ s \notin 1 .. s - 1 - 1
    BY <1>1
  <2> QED
    BY <1>1, <2>1, <2>2 DEF Q!Counted
<1>3. Found(s) = Found(s - 1) \cup Q!Unserved(s)
  BY <1>2 DEF Found
<1>4. Found(s - 1) \cap Q!Unserved(s) = {}
  BY <1>2 DEF Found, Q!Unserved
<1>5. Cardinality(Q!Unserved(s)) = ChannelRequests /\ IsFiniteSet(Q!Unserved(s))
  <2>1. Cardinality(Q!Unserved(s)) = ChannelRequests - 0 /\ IsFiniteSet(Q!Unserved(s))
    BY <1>1, SizeOfRest DEF ChannelInv
  <2> QED
    BY <1>1, <2>1
<1>6. Cardinality(Found(s)) = Cardinality(Found(s - 1)) + ChannelRequests /\ IsFiniteSet(Found(s))
  <2>1. /\ Cardinality(Found(s)) = Cardinality(Found(s - 1)) + Cardinality(Q!Unserved(s)) - Cardinality({})
        /\ IsFiniteSet(Found(s))
    BY <1>3, <1>4, <1>5, FS_Union
  <2>2. Cardinality({}) = 0 /\ Cardinality(Found(s - 1)) \in Nat
    BY FS_EmptySet, FS_CardinalityType
  <2> QED
    BY <1>1, <1>5, <2>1, <2>2
<1>7. Cardinality(Q!Counted(s)) = Cardinality(Q!Counted(s - 1)) + 1 /\ IsFiniteSet(Q!Counted(s))
  BY <1>2, FS_AddElement
<1>8. Cardinality(Found(s - 1)) \in Nat /\ Cardinality(Q!Counted(s - 1)) \in Nat
  BY FS_CardinalityType
<1> QED
  BY <1>1, <1>6, <1>7, <1>8 DEF Exact

\* What a drain has counted is what no worker was handed, whether it has read the
\* channel empty or trusted the count of a channel a dead reader has locked (drain);
\* and where this is the only channel, of all stages since (_teardown_stage).
THEOREM DrainsAreExact ==
  ASSUME Q!RequestQueueAssumption
  PROVE  Q!Spec => []Q!DrainIsExact
<1>1. ChannelInv /\ KeptInv => Q!DrainIsExact
  <2> SUFFICES ASSUME ChannelInv, KeptInv
               PROVE  \A s \in Q!Stage : Q!Drained(s) => Exact(s)
    BY SameSize DEF Q!DrainIsExact, Exact, Found
  <2> DEFINE Good == {n \in Nat : n \in Q!Stage /\ Q!Drained(n) =>
                                    Exact(n) /\ IsFiniteSet(Found(n)) /\ IsFiniteSet(Q!Counted(n))}
  <2>1. 0 \in Good
    BY DEF Q!Stage
  <2>2. ASSUME NEW n \in Nat, n \in Good PROVE n + 1 \in Good
    <3> SUFFICES ASSUME n + 1 \in Q!Stage, Q!Drained(n + 1)
                 PROVE  Exact(n + 1) /\ IsFiniteSet(Found(n + 1)) /\ IsFiniteSet(Q!Counted(n + 1))
      OBVIOUS
    <3>1. CASE ~Stranded(n + 1)
      BY <3>1, OwnStage, FS_Singleton
    <3>2. CASE Stranded(n + 1)
      <4>1. (n + 1) - 1 = n
        OBVIOUS
      <4>2. n \in Q!Stage /\ exit[n] = "timeout"
        BY <3>2, <4>1, StagesBefore DEF ChannelInv, KeptInv, PastOnTop, Q!Drained
      <4>3. Exact(n) /\ IsFiniteSet(Found(n)) /\ IsFiniteSet(Q!Counted(n))
        BY <2>2, <4>2 DEF Q!Drained
      <4> QED
        BY <3>2, <4>1, <4>3, OnTopOfTheLast
    <3> QED
      BY <3>1, <3>2
  <2>3. \A n \in Nat : n \in Good
    <3> HIDE DEF Good
    <3> QED
      BY <2>1, <2>2, NatSetInduction
  <2>4. \A s \in Q!Stage : s \in Nat
    BY DEF Q!Stage
  <2> QED
    BY <2>3, <2>4
<1> QED
  BY <1>1, ChannelInvHolds, KeptInvHolds, PTL
-----------------------------------------------------------------------------
(* The parts of the pipeline *)

LEMMA PermitsPart == Init /\ [][Next]_vars => C!Spec
<1>1. Init => C!Init
  BY DEF Init
<1>2. [Next]_vars => [C!Next]_C!vars
  <2> SUFFICES ASSUME [Next]_vars PROVE C!Next \/ UNCHANGED C!vars
    OBVIOUS
  <2>1. CASE Only("C") /\ C!Next
    BY <2>1
  <2>2. ASSUME UNCHANGED splitVars PROVE UNCHANGED C!vars
    BY <2>2 DEF splitVars, C!vars, C!mainVars, C!semVars
  <2> QED
    BY <2>1, <2>2 DEF Next, Only, vars
<1> QED
  BY <1>1, <1>2, PTL DEF C!Spec

LEMMA ChannelPart == Init /\ [][Next]_vars => Q!Spec
<1>1. Init => Q!Init
  BY DEF Init
<1>2. [Next]_vars => [Q!Next]_Q!vars
  <2> SUFFICES ASSUME [Next]_vars PROVE Q!Next \/ UNCHANGED Q!vars
    OBVIOUS
  <2>1. CASE Only("Q") /\ Q!Next
    BY <2>1
  <2>2. ASSUME UNCHANGED channelVars PROVE UNCHANGED Q!vars
    BY <2>2 DEF channelVars, Q!vars, Q!channelVars, Q!readerVars
  <2> QED
    BY <2>1, <2>2 DEF Next, Only, vars
<1> QED
  BY <1>1, <1>2, PTL DEF Q!Spec

LEMMA MetricsPart == Init /\ [][Next]_vars => M!Spec
<1>1. Init => M!Init
  BY DEF Init
<1>2. [Next]_vars => [M!Next]_M!vars
  <2> SUFFICES ASSUME [Next]_vars PROVE M!Next \/ UNCHANGED M!vars
    OBVIOUS
  <2>1. CASE Only("M") /\ M!Next
    BY <2>1
  <2>2. ASSUME UNCHANGED metricVars PROVE UNCHANGED M!vars
    BY <2>2 DEF metricVars, M!vars, M!attemptVars, M!outcomeVars, M!collectorVars
  <2> QED
    BY <2>1, <2>2 DEF Next, Only, vars
<1> QED
  BY <1>1, <1>2, PTL DEF M!Spec

\* However levels change and workers die, no permit of a worker's semaphore is
\* lost, and none is there twice (_set_worker_concurrency, Worker.loop).
THEOREM PipelineKeepsPermits == Spec => []PermitsConserved
<1>1. C!Spec => []C!PermitsConserved
  BY PipelineAssumption, C!PermitsAreConserved
<1> QED
  BY <1>1, PermitsPart, PTL DEF Spec, PermitsConserved

\* However a level is split over the workers, and whatever becomes of them, a stage
\* never has more requests in flight than its level (_set_worker_concurrency).
THEOREM PipelineRespectsLevels == Spec => []LevelRespected
<1>1. C!Spec => []C!LevelRespected
  BY PipelineAssumption, C!LevelIsRespected
<1> QED
  BY <1>1, PermitsPart, PTL DEF Spec, LevelRespected

\* However readers of a channel are killed, a request is handed out in its stage
\* only, and a drain counts what nobody was handed, of its stage and of those that
\* the channel has kept (RequestQueue.drain).
THEOREM PipelineDrainsExactly == Spec => []DrainIsExact
<1>1. Q!Spec => []Q!ServedInItsStage
  BY PipelineAssumption, RequestsStayInTheirStage
<1>2. Q!Spec => []Q!DrainIsExact
  BY PipelineAssumption, DrainsAreExact
<1> QED
  BY <1>1, <1>2, ChannelPart, PTL DEF Spec, DrainIsExact

\* However many attempts a request takes, and wherever the last one breaks, the
\* request is settled once and its metric tells the last attempt (process_request).
THEOREM PipelineIsTruthful == Spec => []MetricIsTruthful
<1>1. M!Spec => []M!SettledOnce
  BY PipelineAssumption, M!RequestsSettleOnce
<1>2. M!Spec => []M!MetricIsTruthful
  BY M!MetricsAreTruthful
<1> QED
  BY <1>1, <1>2, MetricsPart, PTL DEF Spec, MetricIsTruthful

\* Whatever the batches, and whatever a worker still holds when the None is put, the
\* collector keeps the metrics that arrive before the None and no other
\* (_drain_batch).
THEOREM PipelineKeepsMetrics == Spec => []KeepsWhatArrives
<1>1. M!Spec => []M!KeepsWhatArrives
  BY PipelineAssumption, M!MetricsAreKept
<1> QED
  BY <1>1, MetricsPart, PTL DEF Spec, KeepsWhatArrives

\* The breaker the collector feeds is open if and only if its samples so far have
\* called for it once (SimpleCircuitBreaker.feed).
THEOREM PipelineBreakerIsRight == Spec => []BreakerOpensRightly
<1>1. M!Spec => []M!BreakerOpensRightly
  BY PipelineAssumption, M!BreakerIsRight
<1> QED
  BY <1>1, MetricsPart, PTL DEF Spec, BreakerOpensRightly
-----------------------------------------------------------------------------
(* Stages without workers *)

\* The types of the variables, and of the parameters.
StageTypes ==
  /\ pc \in {"ready", "loop", "asleep", "join", "leave", "done"}
  /\ NumStages \in Nat \ {0} /\ stage \in 1 .. NumStages
  /\ StageTime \in Nat /\ clock \in 0 .. StageTime
  /\ Len(Schedule) \in Nat /\ next \in 1 .. Len(Schedule) + 1
  /\ unstarted \in 0 .. Len(Schedule) /\ tasks \in 0 .. Len(Schedule) /\ local_finished \in 0 .. Len(Schedule)
  /\ interrupt_sig \in BOOLEAN /\ breaker_open \in BOOLEAN /\ raising \in BOOLEAN
  /\ status \in {"RUNNING", "COMPLETED", "FAILED", "INTERRUPTED"}
  /\ runtime_info \in [1 .. NumStages -> {"none", "RUNNING", "COMPLETED", "FAILED", "INTERRUPTED"}]
  /\ open_stage \in 0 .. NumStages /\ started_before \in Nat
  /\ starts \in [1 .. NumStages -> Nat] /\ ends \in [1 .. NumStages -> Nat]

\* Where the runner of a stage is at work.
AtWork == {"loop", "asleep", "join"}

\* What has been told of the stages: of those before, one start and one end; of
\* the stage at hand a start, if its runner has told it, which is what the number
\* of starts since the runner began shows; of those after, nothing.
ReportInv ==
  /\ \A s \in S!Stage : s < stage => starts[s] = 1 /\ ends[s] = 1
  /\ \A s \in S!Stage : s > stage => starts[s] = 0 /\ ends[s] = 0 /\ runtime_info[s] = "none"
  /\ pc = "ready" => starts[stage] = 0 /\ ends[stage] = 0 /\ open_stage = 0 /\ runtime_info[stage] = "none"
  /\ pc \in AtWork => starts[stage] = 1 /\ ends[stage] = 0 /\ open_stage = stage /\ runtime_info[stage] = "none"
  /\ pc = "leave" => /\ ends[stage] = 0
                     /\ \/ starts[stage] = 1 /\ open_stage = stage
                        \/ starts[stage] = 0 /\ open_stage = 0
  /\ pc = "done" => starts[stage] = 1 /\ ends[stage] = 1 /\ open_stage = 0
  /\ pc \in AtWork \cup {"leave"} => S!StagesStarted = started_before + starts[stage]

\* A request that a task was made of is to be started, in flight or finished.
WorkInv ==
  /\ pc \in AtWork => local_finished + tasks + unstarted = next - 1
  /\ pc = "asleep" => next <= Len(Schedule)
  /\ pc \in {"leave", "done"} =>
       /\ tasks = 0
       /\ open_stage = stage => local_finished + unstarted = next - 1 /\ (~raising => unstarted = 0)

\* Nothing that is due within the stage is left to be sent.
Whole == clock >= Duration \/ \A i \in next .. Len(Schedule) : Schedule[i] >= Duration

WholeInv ==
  /\ pc \in {"loop", "asleep"} => status = "RUNNING"
  /\ pc = "join" => status # "COMPLETED" /\ (status = "RUNNING" => Whole)
  /\ pc = "leave" /\ runtime_info[stage] = "COMPLETED" => Whole

StageInv == StageTypes /\ ReportInv /\ WorkInv /\ WholeInv

\* The stages that have been started are counted with the sum of the starts.
LEMMA StartedIs ==
  /\ S!StagesStarted = SumOver(starts, S!Stage)
  /\ S!StagesStarted' = SumOver(starts', S!Stage)
  BY Zenon DEF S!StagesStarted, SumOver, MapThenSumSet, MapThenFoldSet, S!MapThenSumSet, S!MapThenFoldSet

\* It is a number, the same as long as nothing is told, and one more with a start.
LEMMA StartedGrows ==
  ASSUME StageTypes
  PROVE  /\ S!StagesStarted \in Nat
         /\ UNCHANGED starts => S!StagesStarted' = S!StagesStarted
         /\ starts' = S!Tell(starts) => S!StagesStarted' = S!StagesStarted + 1
<1> DEFINE All == S!Stage
<1>1. IsFiniteSet(All) /\ starts \in [All -> Nat] /\ stage \in All
  <2>1. IsFiniteSet(All)
    BY FS_Interval DEF S!Stage, StageTypes
  <2> QED
    BY <2>1 DEF StageTypes, S!Stage
<1> HIDE DEF All
<1>2. SumOver(starts, All) \in Nat
  BY <1>1, SumIsNat
<1>3. ASSUME starts' = S!Tell(starts) PROVE SumOver(starts', All) = SumOver(starts, All) + 1
  <2>1. /\ starts' \in [All -> Nat] /\ starts'[stage] = starts[stage] + 1
        /\ \A s \in All \ {stage} : starts'[s] = starts[s]
    BY <1>1, <1>3 DEF S!Tell
  <2> DEFINE before == starts
             after  == starts'
             Rest   == All \ {stage}
  <2>2. SumOver(before, All) = before[stage] + SumOver(before, Rest)
    BY <1>1, SumAdd
  <2>3. SumOver(after, All) = after[stage] + SumOver(after, Rest)
    BY <1>1, <2>1, SumAdd
  <2>4. IsFiniteSet(Rest) /\ \A s \in Rest : after[s] \in Nat /\ after[s] = before[s] /\ before[s] \in Nat
    BY <1>1, <2>1, FS_RemoveElement
  <2>5. SumOver(after, Rest) = SumOver(before, Rest) /\ SumOver(before, Rest) \in Nat
    <3> HIDE DEF before, after, Rest
    <3> QED
      BY <2>4, SumAgrees, SumIsNat
  <2>6. before[stage] \in Nat /\ after[stage] = before[stage] + 1
    BY <1>1, <2>1
  <2> HIDE DEF Rest, before, after
  <2>7. SumOver(after, All) = SumOver(before, All) + 1
    BY <2>2, <2>3, <2>5, <2>6
  <2> QED
    BY <2>7 DEF before, after
<1> QED
  BY <1>2, <1>3, StartedIs DEF All

\* Requests are due at numbers.
LEMMA DueAreNumbers ==
  ASSUME NEW s \in Seq(Nat) PROVE Len(s) \in Nat /\ \A i \in 1 .. Len(s) : s[i] \in Nat
OBVIOUS

\* The requests of a stage are due one after the other.
LEMMA DueInOrder ==
  ASSUME PipelineAssumption
  PROVE  \A i, j \in 1 .. Len(Schedule) : i <= j => Schedule[i] <= Schedule[j]
<1>1. Schedule \in Seq(Nat) /\ \A i \in 1 .. Len(Schedule) - 1 : Schedule[i] <= Schedule[i + 1]
  BY DEF PipelineAssumption, S!InProcessAssumption
<1> DEFINE Good == {k \in Nat : \A i, j \in 1 .. Len(Schedule) : j = i + k => Schedule[i] <= Schedule[j]}
<1>2. 0 \in Good
  BY <1>1
<1>3. ASSUME NEW k \in Nat, k \in Good PROVE k + 1 \in Good
  <2> SUFFICES ASSUME NEW i \in 1 .. Len(Schedule), NEW j \in 1 .. Len(Schedule), j = i + (k + 1)
               PROVE  Schedule[i] <= Schedule[j]
    OBVIOUS
  <2> DEFINE h == i + k
  <2>1. h \in 1 .. Len(Schedule) - 1 /\ h \in 1 .. Len(Schedule) /\ j = h + 1
    BY <1>1
  <2>2. Schedule[i] <= Schedule[h]
    BY <1>3, <2>1
  <2>3. Schedule[h] <= Schedule[j]
    <3>1. Schedule[h] <= Schedule[h + 1]
      <4> HIDE DEF h
      <4> QED
        BY <1>1, <2>1
    <3> QED
      BY <2>1, <3>1
  <2> HIDE DEF h
  <2>4. Schedule[i] \in Nat /\ Schedule[h] \in Nat /\ Schedule[j] \in Nat
    BY <1>1, <2>1, DueAreNumbers
  <2> QED
    BY <2>2, <2>3, <2>4
<1>4. \A k \in Nat : k \in Good
  <2> HIDE DEF Good
  <2> QED
    BY <1>2, <1>3, NatSetInduction
<1> SUFFICES ASSUME NEW i \in 1 .. Len(Schedule), NEW j \in 1 .. Len(Schedule), i <= j
             PROVE  Schedule[i] <= Schedule[j]
  OBVIOUS
<1>5. j - i \in Nat /\ j = i + (j - i)
  BY <1>1
<1> QED
  BY <1>4, <1>5

\* Nothing is told, and the runner goes on or is left.
LEMMA NothingTold ==
  ASSUME StageTypes, ReportInv, UNCHANGED <<stage, runtime_info, starts, ends, open_stage, started_before>>,
         pc' = pc \/ (pc \in AtWork /\ pc' \in AtWork \cup {"leave"})
  PROVE  ReportInv'
<1>1. S!StagesStarted' = S!StagesStarted
  BY StartedGrows
<1>2. pc' \in AtWork => pc \in AtWork
  BY DEF AtWork
<1>3. pc' \in AtWork \cup {"leave"} => pc \in AtWork \cup {"leave"}
  BY DEF AtWork
<1>4. /\ pc' = "leave" => pc = "leave" \/ pc \in AtWork
      /\ pc' = "ready" => pc = "ready"
      /\ pc' = "done" => pc = "done"
  BY DEF AtWork
<1> QED
  BY <1>1, <1>2, <1>3, <1>4 DEF ReportInv

LEMMA StagesInit == ASSUME PipelineAssumption, S!Init PROVE StageInv
<1>1. /\ Schedule \in Seq(Nat) /\ NumStages \in Nat \ {0} /\ StageTime \in Nat
  BY DEF PipelineAssumption, S!InProcessAssumption
<1>2. StageTypes
  <2>1. Len(Schedule) \in Nat /\ 1 \in 1 .. NumStages /\ 1 \in 1 .. Len(Schedule) + 1
    BY <1>1
  <2>2. /\ starts \in [1 .. NumStages -> Nat] /\ ends \in [1 .. NumStages -> Nat]
        /\ runtime_info \in [1 .. NumStages -> {"none", "RUNNING", "COMPLETED", "FAILED", "INTERRUPTED"}]
    BY DEF S!Init, S!Stage
  <2>3. 0 \in 0 .. StageTime /\ 0 \in 0 .. Len(Schedule) /\ 0 \in 0 .. NumStages /\ 0 \in Nat
    BY <1>1, <2>1
  <2>4. /\ pc = "ready" /\ stage = 1 /\ clock = 0 /\ next = 1 /\ unstarted = 0 /\ tasks = 0 /\ local_finished = 0
        /\ status = "RUNNING" /\ interrupt_sig = FALSE /\ breaker_open = FALSE /\ raising = FALSE
        /\ open_stage = 0 /\ started_before = 0
    BY DEF S!Init
  <2> QED
    BY <1>1, <2>1, <2>2, <2>3, <2>4 DEF StageTypes
<1>3. ReportInv
  BY <1>1 DEF S!Init, ReportInv, S!Stage, AtWork
<1>4. WorkInv /\ WholeInv
  BY DEF S!Init, WorkInv, WholeInv, AtWork
<1> QED
  BY <1>2, <1>3, <1>4 DEF StageInv

\* A stage begins: its runner tells a start, or it raises before.
LEMMA BeginKeeps == ASSUME StageInv, S!BeginStage PROVE StageInv'
<1> USE DEF StageInv
<1>1. /\ pc = "ready"
      /\ clock' = 0 /\ next' = 1 /\ unstarted' = 0 /\ tasks' = 0 /\ status' = "RUNNING"
      /\ started_before' = S!StagesStarted
      /\ \/ pc' = "loop" /\ local_finished' = 0 /\ open_stage' = stage /\ starts' = S!Tell(starts) /\ raising' = raising
         \/ pc' = "leave" /\ raising' = TRUE /\ UNCHANGED <<local_finished, open_stage, starts>>
      /\ UNCHANGED <<stage, interrupt_sig, breaker_open, runtime_info, ends>>
  BY DEF S!BeginStage, S!FinishedAtStart
<1>2. S!StagesStarted \in Nat
  BY StartedGrows
<1>3. starts' = S!Tell(starts) => /\ starts' \in [1 .. NumStages -> Nat] /\ starts'[stage] = starts[stage] + 1
                                  /\ \A s \in S!Stage : s # stage => starts'[s] = starts[s]
  <2>0. starts \in [1 .. NumStages -> Nat] /\ stage \in 1 .. NumStages
    BY DEF StageTypes
  <2>1. starts \in [1 .. NumStages -> Nat] /\ stage \in 1 .. NumStages /\ starts[stage] + 1 \in Nat
    <3> HIDE DEF StageInv
    <3> QED
      BY <2>0
  <2>2. ASSUME starts' = S!Tell(starts) PROVE starts' = [starts EXCEPT ![stage] = starts[stage] + 1]
    BY <2>2 DEF S!Tell
  <2> QED
    BY <2>1, <2>2 DEF S!Stage
<1>4. starts[stage] = 0 /\ ends[stage] = 0 /\ open_stage = 0 /\ runtime_info[stage] = "none"
  BY <1>1 DEF ReportInv
<1>5. StageTypes'
  <2>1. 0 \in 0 .. StageTime /\ 1 \in 1 .. Len(Schedule) + 1 /\ 0 \in 0 .. Len(Schedule) /\ stage \in 0 .. NumStages
    BY DEF StageTypes
  <2>2. starts' \in [1 .. NumStages -> Nat] /\ local_finished' \in 0 .. Len(Schedule) /\ open_stage' \in 0 .. NumStages
    BY <1>1, <1>3, <2>1 DEF StageTypes
  <2>3. pc' \in {"loop", "leave"} /\ raising' \in BOOLEAN /\ started_before' \in Nat
    BY <1>1, <1>2 DEF StageTypes
  <2> QED
    BY <1>1, <2>1, <2>2, <2>3 DEF StageTypes
<1>6. ReportInv'
  <2>1. CASE pc' = "loop"
    <3>1. starts' = S!Tell(starts) /\ open_stage' = stage
      BY <1>1, <2>1
    <3>2. S!StagesStarted' = started_before' + starts'[stage]
      BY <1>1, <1>2, <1>3, <1>4, <3>1, StartedGrows
    <3>3. /\ \A s \in S!Stage : s < stage => starts'[s] = 1 /\ ends[s] = 1
          /\ \A s \in S!Stage : s > stage => starts'[s] = 0 /\ ends[s] = 0 /\ runtime_info[s] = "none"
      <4>1. \A s \in S!Stage : s < stage \/ s > stage => s # stage
        BY DEF S!Stage, StageTypes
      <4> QED
        BY <1>3, <3>1, <4>1 DEF ReportInv
    <3>4. starts'[stage] = 1
      BY <1>3, <1>4, <3>1
    <3> QED
      BY <1>1, <1>4, <2>1, <3>1, <3>2, <3>3, <3>4 DEF ReportInv, AtWork
  <2>2. CASE pc' # "loop"
    <3>1. pc' = "leave" /\ UNCHANGED <<open_stage, starts>>
      BY <1>1, <2>2
    <3>2. S!StagesStarted' = started_before' + starts'[stage]
      BY <1>1, <1>2, <1>4, <3>1, StartedGrows
    <3> QED
      BY <1>1, <1>4, <3>1, <3>2 DEF ReportInv, AtWork
  <2> QED
    BY <2>1, <2>2
<1>7. WorkInv'
  BY <1>1, <1>4 DEF WorkInv, AtWork, StageTypes
<1>8. WholeInv'
  BY <1>1, <1>4 DEF WholeInv
<1> QED
  BY <1>5, <1>6, <1>7, <1>8

\* The loop is left: cut short, or with nothing left to be sent.
LEMMA LoopLeft ==
  ASSUME PipelineAssumption, StageInv, S!Interrupted \/ S!BreakerOpen \/ S!TimeIsOver PROVE StageInv'
<1> USE DEF StageInv
<1>1. /\ pc = "loop" /\ pc' = "join"
      /\ UNCHANGED <<stage, clock, next, unstarted, tasks, local_finished, interrupt_sig, breaker_open, runtime_info, raising,
                     open_stage, started_before, starts, ends>>
      /\ \/ status' \in {"INTERRUPTED", "FAILED"}
         \/ /\ status' = status
            /\ next <= Len(Schedule) => ~(Schedule[next] < Duration /\ clock < Duration)
  BY DEF S!Interrupted, S!BreakerOpen, S!TimeIsOver, S!Leave, S!HasNext, S!MayStillSend, S!InTime, S!reportVars
<1>2. status = "RUNNING"
  BY <1>1 DEF WholeInv
<1>3. StageTypes'
  BY <1>1 DEF StageTypes
<1>4. ReportInv'
  BY <1>1, NothingTold DEF AtWork
<1>5. WorkInv'
  BY <1>1 DEF WorkInv, AtWork
<1>6. WholeInv'
  <2>1. CASE status' \in {"INTERRUPTED", "FAILED"}
    BY <1>1, <2>1 DEF WholeInv
  <2>2. CASE status' = status /\ (next <= Len(Schedule) => ~(Schedule[next] < Duration /\ clock < Duration))
    <3>1. Duration \in Nat /\ Schedule \in Seq(Nat) /\ clock \in Nat /\ next \in Nat /\ Len(Schedule) \in Nat
      BY DEF PipelineAssumption, S!InProcessAssumption, StageTypes
    <3>2. CASE clock >= Duration
      BY <1>1, <1>2, <2>2, <3>2 DEF WholeInv, Whole
    <3>3. CASE clock < Duration
      <4>1. ASSUME NEW i \in next .. Len(Schedule) PROVE Schedule[i] >= Duration
        <5>1. next \in 1 .. Len(Schedule) /\ i \in 1 .. Len(Schedule) /\ next <= i
          BY <3>1 DEF StageTypes
        <5>2. Schedule[next] <= Schedule[i]
          BY <5>1, DueInOrder
        <5>3. Schedule[next] \in Nat /\ Schedule[i] \in Nat
          BY <3>1, <5>1, DueAreNumbers
        <5>4. ~(Schedule[next] < Duration)
          <6>1. next <= Len(Schedule)
            BY <3>1, <5>1
          <6> QED
            BY <2>2, <3>3, <6>1
        <5>5. Schedule[next] >= Duration
          BY <3>1, <5>3, <5>4
        <5> HIDE <2>2
        <5> QED
          BY <3>1, <5>2, <5>3, <5>5, SMTT(30)
      <4> QED
        BY <1>1, <1>2, <2>2, <4>1 DEF WholeInv, Whole
    <3> QED
      BY <3>1, <3>2, <3>3
  <2> QED
    BY <1>1, <2>1, <2>2
<1> QED
  BY <1>3, <1>4, <1>5, <1>6

\* A request is sent, at once or after a sleep, which nothing cuts short.
LEMMA SendKeeps == ASSUME PipelineAssumption, StageInv, S!SendNow \/ S!Wake \/ S!Sleep PROVE StageInv'
<1> USE DEF StageInv
<1>1. /\ pc \in {"loop", "asleep"} /\ pc' \in {"loop", "asleep"} /\ next <= Len(Schedule)
      /\ \/ next' = next + 1 /\ unstarted' = unstarted + 1 /\ pc' = "loop"
         \/ UNCHANGED <<next, unstarted>>
      /\ UNCHANGED <<stage, clock, tasks, local_finished, status, interrupt_sig, breaker_open, runtime_info, raising,
                     open_stage, started_before, starts, ends>>
  BY DEF S!SendNow, S!Wake, S!Sleep, S!CreateTask, S!MayStillSend, S!HasNext, S!stageVars, S!reportVars, WorkInv
<1>2. local_finished + tasks + unstarted = next - 1
  BY <1>1 DEF WorkInv, AtWork
<1>3. StageTypes'
  <2>1. next' \in 1 .. Len(Schedule) + 1 /\ unstarted' \in 0 .. Len(Schedule)
    BY <1>1, <1>2 DEF StageTypes
  <2> QED
    BY <1>1, <2>1 DEF StageTypes
<1>4. ReportInv'
  BY <1>1, NothingTold DEF AtWork
<1>5. local_finished' + tasks' + unstarted' = next' - 1
  <2>1. local_finished \in Nat /\ tasks \in Nat /\ unstarted \in Nat /\ next \in Nat
    BY DEF StageTypes
  <2>2. local_finished' = local_finished /\ tasks' = tasks
    BY <1>1
  <2>3. CASE next' = next + 1 /\ unstarted' = unstarted + 1
    BY <1>2, <2>1, <2>2, <2>3
  <2>4. CASE UNCHANGED <<next, unstarted>>
    BY <1>2, <2>1, <2>2, <2>4
  <2> QED
    BY <1>1, <2>3, <2>4
<1>6. WorkInv'
  BY <1>1, <1>5 DEF WorkInv
<1>7. WholeInv'
  BY <1>1 DEF WholeInv
<1> QED
  BY <1>3, <1>4, <1>6, <1>7

\* The event loop starts the tasks that were created.
LEMMA StartKeeps == ASSUME StageInv, S!StartTasks PROVE StageInv'
<1> USE DEF StageInv
<1>1. /\ pc \in AtWork
      /\ tasks' = tasks + unstarted /\ unstarted' = 0
      /\ UNCHANGED <<pc, stage, clock, next, local_finished, status, interrupt_sig, breaker_open, runtime_info, raising,
                     open_stage, started_before, starts, ends>>
  BY DEF S!StartTasks, S!Awaits, S!reportVars, AtWork
<1>2. local_finished + tasks + unstarted = next - 1
  BY <1>1 DEF WorkInv
<1>3. /\ Len(Schedule) \in Nat /\ next \in 1 .. Len(Schedule) + 1 /\ unstarted \in 0 .. Len(Schedule)
      /\ tasks \in 0 .. Len(Schedule) /\ local_finished \in 0 .. Len(Schedule)
  BY DEF StageTypes
<1>4. tasks' \in 0 .. Len(Schedule) /\ unstarted' \in 0 .. Len(Schedule) /\ local_finished' + tasks' + unstarted' = next' - 1
  BY <1>1, <1>2, <1>3
<1>5. StageTypes'
  BY <1>1, <1>4 DEF StageTypes
<1>6. ReportInv'
  BY <1>1, NothingTold
<1>7. WorkInv'
  BY <1>1, <1>4 DEF WorkInv, AtWork
<1>8. WholeInv'
  BY <1>1 DEF WholeInv, Whole
<1> QED
  BY <1>5, <1>6, <1>7, <1>8

\* An exception of the loop or of a task cancels what is in flight.
LEMMA RaiseKeeps == ASSUME StageInv, S!LoadRaises \/ S!TaskRaises PROVE StageInv'
<1> USE DEF StageInv
<1>1. /\ pc \in AtWork /\ pc' = "leave" /\ raising' = TRUE
      /\ local_finished' = local_finished + tasks /\ tasks' = 0
      /\ UNCHANGED <<stage, clock, next, unstarted, status, interrupt_sig, breaker_open, runtime_info,
                     open_stage, started_before, starts, ends>>
  BY DEF S!LoadRaises, S!TaskRaises, S!Raise, S!CancelsStarted, S!Awaits, S!reportVars, AtWork
<1>2. local_finished + tasks + unstarted = next - 1 /\ runtime_info[stage] = "none"
  BY <1>1 DEF WorkInv, ReportInv
<1>3. StageTypes'
  <2>1. local_finished' \in 0 .. Len(Schedule) /\ tasks' \in 0 .. Len(Schedule)
    BY <1>1, <1>2 DEF StageTypes
  <2> QED
    BY <1>1, <2>1 DEF StageTypes
<1>4. ReportInv'
  BY <1>1, NothingTold
<1>5. WorkInv'
  <2>1. local_finished' + unstarted' = next' - 1
    BY <1>1, <1>2 DEF StageTypes
  <2> QED
    BY <1>1, <2>1 DEF WorkInv, AtWork
<1>6. WholeInv'
  BY <1>1, <1>2 DEF WholeInv
<1> QED
  BY <1>3, <1>4, <1>5, <1>6

LEMMA TaskEndsKeeps == ASSUME StageInv, S!TaskEnds PROVE StageInv'
<1> USE DEF StageInv
<1>1. /\ pc \in AtWork /\ tasks > 0
      /\ local_finished' = local_finished + 1 /\ tasks' = tasks - 1
      /\ breaker_open' \in {breaker_open, TRUE}
      /\ UNCHANGED <<pc, stage, clock, next, unstarted, status, interrupt_sig, runtime_info, raising,
                     open_stage, started_before, starts, ends>>
  BY DEF S!TaskEnds, S!Awaits, S!reportVars, AtWork
<1>2. local_finished + tasks + unstarted = next - 1
  BY <1>1 DEF WorkInv
<1>3. StageTypes'
  <2>1. /\ Len(Schedule) \in Nat /\ next \in 1 .. Len(Schedule) + 1
        /\ unstarted \in 0 .. Len(Schedule) /\ tasks \in 0 .. Len(Schedule) /\ local_finished \in 0 .. Len(Schedule)
        /\ breaker_open \in BOOLEAN
    BY DEF StageTypes
  <2>2. /\ tasks > 0 /\ local_finished' = local_finished + 1 /\ tasks' = tasks - 1
        /\ breaker_open' \in {breaker_open, TRUE}
    BY <1>1
  <2>3. local_finished' \in 0 .. Len(Schedule) /\ tasks' \in 0 .. Len(Schedule)
    BY <1>2, <2>1, <2>2
  <2>4. breaker_open' \in BOOLEAN
    BY <2>1, <2>2
  <2> QED
    BY <1>1, <2>3, <2>4 DEF StageTypes
<1>4. ReportInv'
  BY <1>1, NothingTold
<1>5. local_finished' + tasks' + unstarted' = next' - 1
  <2>1. local_finished \in Nat /\ tasks \in Nat /\ unstarted \in Nat /\ next \in Nat
    BY DEF StageTypes
  <2>2. local_finished' = local_finished + 1 /\ tasks' = tasks - 1 /\ unstarted' = unstarted /\ next' = next
    BY <1>1
  <2> QED
    BY <1>2, <2>1, <2>2
<1>6. WorkInv'
  BY <1>1, <1>5 DEF WorkInv, AtWork
<1>7. WholeInv'
  BY <1>1 DEF WholeInv, Whole
<1> QED
  BY <1>3, <1>4, <1>6, <1>7

\* All requests of a stage have ended: its status is recorded.
LEMMA JoinKeeps == ASSUME StageInv, S!Join PROVE StageInv'
<1> USE DEF StageInv
<1>1. /\ pc = "join" /\ pc' = "leave" /\ unstarted = 0 /\ tasks = 0
      /\ status' = IF status = "RUNNING" THEN "COMPLETED" ELSE status
      /\ runtime_info' = [runtime_info EXCEPT ![stage] = status']
      /\ UNCHANGED <<stage, clock, next, unstarted, tasks, local_finished, interrupt_sig, breaker_open, raising,
                     open_stage, started_before, starts, ends>>
  BY DEF S!Join, S!AllEnded, S!reportVars
<1>2. status' \in {"RUNNING", "COMPLETED", "FAILED", "INTERRUPTED"}
  BY <1>1 DEF StageTypes
<1>3. /\ runtime_info' \in [1 .. NumStages -> {"none", "RUNNING", "COMPLETED", "FAILED", "INTERRUPTED"}]
      /\ runtime_info'[stage] = status'
      /\ \A s \in S!Stage : s # stage => runtime_info'[s] = runtime_info[s]
  BY <1>1, <1>2 DEF StageTypes, S!Stage
<1>4. StageTypes'
  BY <1>1, <1>2, <1>3 DEF StageTypes
<1>5. ReportInv'
  <2>1. S!StagesStarted' = S!StagesStarted
    BY <1>1, StartedGrows
  <2>2. \A s \in S!Stage : s > stage => s # stage
    BY DEF S!Stage, StageTypes
  <2> QED
    BY <1>1, <1>3, <2>1, <2>2 DEF ReportInv, AtWork
<1>6. WorkInv'
  BY <1>1 DEF WorkInv, AtWork, StageTypes
<1>7. WholeInv'
  BY <1>1, <1>3 DEF WholeInv, Whole
<1> QED
  BY <1>4, <1>5, <1>6, <1>7

\* The stage is left: a start is told if there was none, and then its end.
LEMMA LeaveKeeps == ASSUME StageInv, S!LeaveStage PROVE StageInv'
<1> USE DEF StageInv
<1>1. /\ pc = "leave"
      /\ starts' = S!StartIfMissing /\ open_stage' = 0
      /\ IF starts' # starts \/ open_stage # 0 THEN ends' = S!Tell(ends) ELSE UNCHANGED ends
      /\ \/ pc' = "done" /\ stage' = stage
         \/ pc' = "ready" /\ stage' = stage + 1 /\ stage # NumStages
      /\ UNCHANGED <<clock, next, unstarted, tasks, local_finished, status, interrupt_sig, breaker_open, runtime_info, raising,
                     started_before>>
  BY DEF S!LeaveStage, S!EndReportedStage, S!stageVars
<1>2. /\ S!StagesStarted = started_before + starts[stage] /\ ends[stage] = 0
      /\ \/ starts[stage] = 1 /\ open_stage = stage
         \/ starts[stage] = 0 /\ open_stage = 0
  BY <1>1 DEF ReportInv
<1>3. stage \in S!Stage /\ stage \in Nat /\ stage # 0 /\ started_before \in Nat
  BY DEF StageTypes, S!Stage
<1>4. /\ starts' \in [1 .. NumStages -> Nat] /\ starts'[stage] = 1
      /\ \A s \in S!Stage : s # stage => starts'[s] = starts[s]
      /\ starts' # starts \/ open_stage # 0
  <2>1. CASE starts[stage] = 1
    <3>1. S!StartIfMissing = starts
      BY <1>2, <1>3, <2>1 DEF S!StartIfMissing
    <3> QED
      BY <1>1, <1>2, <1>3, <2>1, <3>1 DEF StageTypes
  <2>2. CASE starts[stage] = 0
    <3>1. S!StartIfMissing = S!Tell(starts)
      BY <1>2, <1>3, <2>2 DEF S!StartIfMissing
    <3> QED
      BY <1>1, <1>3, <2>2, <3>1 DEF S!Tell, StageTypes, S!Stage
  <2> QED
    BY <1>2, <2>1, <2>2
<1>5. /\ ends' \in [1 .. NumStages -> Nat] /\ ends'[stage] = 1
      /\ \A s \in S!Stage : s # stage => ends'[s] = ends[s]
  <2>1. ends' = S!Tell(ends)
    BY <1>1, <1>4
  <2> QED
    BY <1>2, <1>3, <2>1, SMTT(30) DEF S!Tell, StageTypes, S!Stage
<1>6. StageTypes'
  <2>1. stage' \in 1 .. NumStages /\ pc' \in {"done", "ready"} /\ 0 \in 0 .. NumStages
    BY <1>1, SMTT(30) DEF StageTypes
  <2> QED
    BY <1>1, <1>4, <1>5, <2>1 DEF StageTypes
<1>7. ReportInv'
  <2>1. \A s \in S!Stage : s <= stage => starts'[s] = 1 /\ ends'[s] = 1
    <3> SUFFICES ASSUME NEW s \in S!Stage, s <= stage PROVE starts'[s] = 1 /\ ends'[s] = 1
      OBVIOUS
    <3>1. s = stage \/ (s < stage /\ s # stage)
      BY DEF S!Stage, StageTypes
    <3> QED
      BY <1>4, <1>5, <3>1 DEF ReportInv
  <2>2. \A s \in S!Stage : s > stage => starts'[s] = 0 /\ ends'[s] = 0 /\ runtime_info[s] = "none"
    <3> SUFFICES ASSUME NEW s \in S!Stage, s > stage PROVE starts'[s] = 0 /\ ends'[s] = 0 /\ runtime_info[s] = "none"
      OBVIOUS
    <3>1. s # stage
      BY DEF S!Stage, StageTypes
    <3> QED
      BY <1>4, <1>5, <3>1 DEF ReportInv
  <2>3. CASE pc' = "done"
    <3>1. \A s \in S!Stage : s < stage => s <= stage
      BY DEF S!Stage, StageTypes
    <3> QED
      BY <1>1, <1>4, <1>5, <2>1, <2>2, <2>3, <3>1 DEF ReportInv, AtWork
  <2>4. CASE pc' = "ready"
    <3>1. stage' = stage + 1 /\ stage + 1 \in S!Stage
      BY <1>1, <2>4 DEF S!Stage, StageTypes
    <3>2. \A s \in S!Stage : (s < stage + 1 => s <= stage) /\ (s > stage + 1 => s > stage) /\ stage + 1 > stage
      BY DEF S!Stage, StageTypes
    <3> QED
      BY <1>1, <2>1, <2>2, <2>4, <3>1, <3>2 DEF ReportInv, AtWork
  <2> QED
    BY <1>1, <2>3, <2>4
<1>8. WorkInv'
  BY <1>1, <1>3 DEF WorkInv, AtWork
<1>9. WholeInv'
  BY <1>1 DEF WholeInv
<1> QED
  BY <1>6, <1>7, <1>8, <1>9

\* An interrupt is noticed later, and time passes.
LEMMA TimePasses == ASSUME PipelineAssumption, StageInv, S!Interrupt \/ S!Tick \/ UNCHANGED S!vars PROVE StageInv'
<1> USE DEF StageInv
<1>1. /\ clock' = clock \/ (clock' = clock + 1 /\ clock < StageTime)
      /\ interrupt_sig' \in {interrupt_sig, TRUE}
      /\ UNCHANGED <<pc, stage, next, unstarted, tasks, local_finished, status, breaker_open, runtime_info, raising,
                     open_stage, started_before, starts, ends>>
  BY DEF S!Interrupt, S!Tick, S!vars, S!stageVars, S!reportVars
<1>2. StageTypes'
  <2>1. StageTime \in Nat /\ clock \in 0 .. StageTime /\ interrupt_sig \in BOOLEAN
    BY DEF StageTypes
  <2>2. clock' \in 0 .. StageTime
    <3>1. clock' = clock \/ (clock' = clock + 1 /\ clock < StageTime)
      BY <1>1
    <3> QED
      BY <2>1, <3>1
  <2>3. interrupt_sig' \in BOOLEAN
    BY <1>1, <2>1
  <2> QED
    BY <1>1, <2>2, <2>3 DEF StageTypes
<1>3. ReportInv'
  BY <1>1, NothingTold
<1>4. WorkInv'
  BY <1>1 DEF WorkInv
<1>5. Whole => Whole'
  <2>1. Duration \in Nat
    BY DEF PipelineAssumption, S!InProcessAssumption
  <2>2. clock >= Duration => clock' >= Duration
    BY <1>1, <2>1 DEF StageTypes
  <2> QED
    BY <1>1, <2>2 DEF Whole
<1>6. WholeInv'
  BY <1>1, <1>5 DEF WholeInv
<1> QED
  BY <1>2, <1>3, <1>4, <1>6

LEMMA StagesKeep == ASSUME PipelineAssumption, StageInv, [S!Next]_(S!vars) PROVE StageInv'
<1>1. CASE S!Run
  BY <1>1, BeginKeeps, LoopLeft, SendKeeps, StartKeeps, RaiseKeeps, JoinKeeps, LeaveKeeps DEF S!Run
<1>2. CASE S!TaskEnds \/ S!TaskRaises
  BY <1>2, TaskEndsKeeps, RaiseKeeps
<1>3. CASE S!Interrupt \/ S!Tick \/ S!Done \/ UNCHANGED S!vars
  BY <1>3, TimePasses DEF S!Done
<1> QED
  BY <1>1, <1>2, <1>3 DEF S!Next

LEMMA StagesFollow == ASSUME PipelineAssumption, StageInv PROVE StagesAreReportedTruly
<1> USE DEF StageInv
<1>1. S!ReportedOnce
  <2> SUFFICES ASSUME NEW s \in S!Stage
               PROVE  IF s < stage \/ (pc = "done" /\ s = stage) THEN starts[s] = 1 /\ ends[s] = 1
                      ELSE starts[s] \in {0, 1} /\ ends[s] = 0 /\ (starts[s] = 1 => open_stage = s)
    BY DEF S!ReportedOnce
  <2>1. CASE s < stage
    BY <2>1 DEF ReportInv
  <2>2. CASE s = stage
    <3>1. ~(s < stage)
      BY <2>2 DEF S!Stage, StageTypes
    <3> QED
      BY <2>2, <3>1 DEF ReportInv, AtWork, StageTypes
  <2>3. CASE s > stage
    <3>1. ~(s < stage) /\ s # stage
      BY <2>3 DEF S!Stage, StageTypes
    <3> QED
      BY <2>3, <3>1 DEF ReportInv
  <2> QED
    BY <2>1, <2>2, <2>3 DEF S!Stage, StageTypes
<1>2. S!NothingOutlivesItsStage
  BY DEF WorkInv, S!NothingOutlivesItsStage
<1>3. S!CompletedIsWhole
  BY DEF WholeInv, Whole, S!CompletedIsWhole
<1> QED
  BY <1>1, <1>2, <1>3 DEF StagesAreReportedTruly

LEMMA StagesPart == Init /\ [][Next]_vars => S!Spec
<1>1. Init => S!Init
  BY DEF Init
<1>2. [Next]_vars => [S!Next]_S!vars
  <2> SUFFICES ASSUME [Next]_vars PROVE S!Next \/ UNCHANGED S!vars
    OBVIOUS
  <2>1. CASE Only("S") /\ S!Next
    BY <2>1
  <2>2. ASSUME UNCHANGED stageVars PROVE UNCHANGED S!vars
    BY <2>2 DEF stageVars, S!vars, S!stageVars, S!reportVars
  <2> QED
    BY <2>1, <2>2 DEF Next, Only, vars
<1> QED
  BY <1>1, <1>2, PTL DEF S!Spec

\* Whatever its schedule, and wherever it is cut, breaks or raises, a stage without
\* workers is told once to begin and once to end, outlives its requests, and is
\* completed only if all that was due has been sent (_run_reported_stage,
\* _run_in_process_stage).
THEOREM StagesAreTruthful == Spec => []StagesAreReportedTruly
<1>1. S!Init => StageInv
  BY PipelineAssumption, StagesInit
<1>2. StageInv /\ [S!Next]_(S!vars) => StageInv'
  BY PipelineAssumption, StagesKeep
<1>3. StageInv => StagesAreReportedTruly
  BY PipelineAssumption, StagesFollow
<1> QED
  BY <1>1, <1>2, <1>3, StagesPart, PTL DEF Spec, S!Spec
=============================================================================
