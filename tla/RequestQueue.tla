---------------------------- MODULE RequestQueue ----------------------------
(***************************************************************************)
(* A channel between the main process and workers (utils/request_queue.py) *)
(* is a multiprocessing.Queue: put leaves an item in a buffer, from which a*)
(* feeder thread moves it into a pipe; a reader takes the channel's lock,  *)
(* then an item out of the pipe, then counts it, then unlocks.  The main   *)
(* process puts the requests of a stage, and drains the channel at its end.*)
(* A reader that is killed half-way leaves the lock taken for ever.  If    *)
(* every worker has a channel of its own, this is replaced with its worker;*)
(* the channel of a run that has only one is kept.                         *)
(***************************************************************************)
EXTENDS Integers, Sequences, FiniteSets

CONSTANTS
  Channels,     \* the workers that read a channel, for each channel considered
  NumStages,
  NumRequests,  \* requests of a stage
  MaxKills      \* bound: readers killed in the whole run

RequestQueueAssumption ==
  /\ \A c \in Channels : c \subseteq Nat /\ c # {} /\ IsFiniteSet(c)
  /\ NumStages \in Nat \ {0} /\ NumRequests \in Nat /\ MaxKills \in Nat

Stage   == 1 .. NumStages
Request == Stage \X (1 .. NumRequests)
Readers == UNION Channels
None    == <<>>       \* what drain puts, and readers skip
Nobody  == -1

VARIABLES
  readers,     \* the readers of this channel
  several,     \* whether it is one of several, num_channels > 1
  phase,       \* of the main process: serve, drain, done
  now,         \* the stage
  produced,    \* requests of it that have been put
  buffer,      \* items put, and not written by the feeder thread
  pipe,        \* items written, and not read
  holder,      \* who holds the lock
  count,       \* items put, less those counted by their readers
  reader,      \* where each reader is: idle, locked, received, counted, dead
  item,        \* what it has received
  removed,     \* what the drain of each stage has counted
  exit,        \* how it ended: "none", "read", "timeout"
  kills,
  fetched,     \* request -> the stages in which it was handed to a worker (history)
  lost         \* requests received and counted by readers killed at once (history)

deployment  == <<readers, several>>
channelVars == <<buffer, pipe, holder, count>>
readerVars  == <<reader, item, kills, fetched, lost>>
vars == <<deployment, phase, now, produced, channelVars, removed, exit, readerVars>>

\* Each worker reads a channel of its own, or all of them read the only one.
Deployed == readers \in Channels /\ several \in BOOLEAN /\ (several => Cardinality(readers) = 1)

TypeOK ==
  /\ Deployed
  /\ phase \in {"serve", "drain", "done"}
  /\ now \in Stage /\ produced \in 0 .. NumRequests
  /\ buffer \in Seq(Request \cup {None}) /\ pipe \in Seq(Request \cup {None})
  /\ holder \in Readers \cup {Nobody}
  /\ count \in Nat
  /\ reader \in [Readers -> {"idle", "locked", "received", "counted", "dead"}]
  /\ item \in [Readers -> Request \cup {None}]
  /\ removed \in [Stage -> Nat]
  /\ exit \in [Stage -> {"none", "read", "timeout"}]
  /\ kills \in 0 .. MaxKills
  /\ fetched \in [Request -> SUBSET Stage] /\ lost \subseteq Request
-----------------------------------------------------------------------------
(* The main process *)

Put(x) == buffer' = Append(buffer, x) /\ count' = count + 1

PutRequest ==
  /\ phase = "serve"
  /\ produced < NumRequests
  /\ Put(<<now, produced + 1>>)
  /\ produced' = produced + 1
  /\ UNCHANGED <<deployment, phase, now, pipe, holder, removed, exit, readerVars>>

\* Nobody is reading any more: every worker is at the boundary, or dead.
BeginDrain ==
  /\ phase = "serve"
  /\ produced = NumRequests
  /\ \A r \in readers : reader[r] \in {"idle", "dead"}
  /\ phase' = "drain"
  /\ Put(None)
  /\ UNCHANGED <<deployment, now, produced, pipe, holder, removed, exit, readerVars>>

EndDrain(how, more) ==
  /\ exit' = [exit EXCEPT ![now] = how]
  /\ removed' = [removed EXCEPT ![now] = @ + more]

\* The drain takes an item, and ends with the None it has put.
DrainItem ==
  /\ phase = "drain" /\ exit[now] = "none"
  /\ holder = Nobody
  /\ pipe # <<>>
  /\ pipe' = Tail(pipe)
  /\ count' = count - 1
  /\ IF Head(pipe) = None THEN EndDrain("read", 0)
                          ELSE removed' = [removed EXCEPT ![now] = @ + 1] /\ UNCHANGED exit
  /\ UNCHANGED <<deployment, phase, now, produced, buffer, holder, readerVars>>

\* Defect: the drain gives up as soon as nothing is in the pipe.
NothingToRead == pipe = <<>> \/ holder # Nobody

\* The lock is not to be had: a dead reader holds it.
NothingArrives == holder # Nobody

\* Defect: the None of the drain is taken for a request.
LeftWithNone == count

Left == count - 1

DrainTimeout ==
  /\ phase = "drain" /\ exit[now] = "none"
  /\ NothingArrives
  /\ EndDrain("timeout", Left)
  /\ UNCHANGED <<deployment, phase, now, produced, channelVars, readerVars>>

\* One of several channels is replaced when its worker is, the only channel never.
Replaced == several /\ \E r \in readers : reader[r] = "dead"

\* The dead workers are replaced, and the next stage begins.
NextStage ==
  /\ phase = "drain" /\ exit[now] # "none"
  /\ IF Replaced THEN buffer' = <<>> /\ pipe' = <<>> /\ holder' = Nobody /\ count' = 0
                 ELSE UNCHANGED channelVars
  /\ reader' = [r \in Readers |-> "idle"]
  /\ produced' = 0
  /\ IF now = NumStages THEN phase' = "done" /\ now' = now
                        ELSE phase' = "serve" /\ now' = now + 1
  /\ UNCHANGED <<deployment, item, removed, exit, kills, fetched, lost>>
-----------------------------------------------------------------------------
(* The feeder thread, and the readers *)

Feed ==
  /\ buffer # <<>>
  /\ pipe' = Append(pipe, Head(buffer))
  /\ buffer' = Tail(buffer)
  /\ UNCHANGED <<deployment, phase, now, produced, holder, count, removed, exit, readerVars>>

\* get_nowait takes the lock at once or not at all.
Lock(r) ==
  /\ phase = "serve"
  /\ reader[r] = "idle" /\ holder = Nobody
  /\ holder' = r
  /\ reader' = [reader EXCEPT ![r] = "locked"]
  /\ UNCHANGED <<deployment, phase, now, produced, buffer, pipe, count, item, removed, exit, kills, fetched, lost>>

\* Empty: nothing is in the pipe, whatever is in the buffer.
Empty(r) ==
  /\ reader[r] = "locked" /\ pipe = <<>>
  /\ holder' = Nobody
  /\ reader' = [reader EXCEPT ![r] = "idle"]
  /\ UNCHANGED <<deployment, phase, now, produced, buffer, pipe, count, item, removed, exit, kills, fetched, lost>>

Receive(r) ==
  /\ reader[r] = "locked" /\ pipe # <<>>
  /\ item' = [item EXCEPT ![r] = Head(pipe)]
  /\ pipe' = Tail(pipe)
  /\ reader' = [reader EXCEPT ![r] = "received"]
  /\ UNCHANGED <<deployment, phase, now, produced, buffer, holder, count, removed, exit, kills, fetched, lost>>

Count(r) ==
  /\ reader[r] = "received"
  /\ count' = count - 1
  /\ reader' = [reader EXCEPT ![r] = "counted"]
  /\ UNCHANGED <<deployment, phase, now, produced, buffer, pipe, holder, item, removed, exit, kills, fetched, lost>>

\* get_nowait returns: the worker serves a request, and skips a None.
Deliver(r) ==
  /\ reader[r] = "counted"
  /\ holder' = Nobody
  /\ reader' = [reader EXCEPT ![r] = "idle"]
  /\ fetched' = IF item[r] = None THEN fetched ELSE [fetched EXCEPT ![item[r]] = @ \cup {now}]
  /\ UNCHANGED <<deployment, phase, now, produced, buffer, pipe, count, item, removed, exit, kills, lost>>

\* The process of a reader ends; a lock it holds is never given back.
Kill(r) ==
  /\ kills < MaxKills
  /\ phase = "serve" /\ reader[r] # "dead"
  /\ kills' = kills + 1
  /\ reader' = [reader EXCEPT ![r] = "dead"]
  /\ lost' = IF reader[r] = "counted" /\ item[r] # None THEN lost \cup {item[r]} ELSE lost
  /\ UNCHANGED <<deployment, phase, now, produced, channelVars, item, removed, exit, fetched>>

Done == phase = "done" /\ UNCHANGED vars
-----------------------------------------------------------------------------
Init ==
  /\ Deployed
  /\ phase = "serve" /\ now = 1 /\ produced = 0
  /\ buffer = <<>> /\ pipe = <<>> /\ holder = Nobody /\ count = 0
  /\ reader = [r \in Readers |-> "idle"]
  /\ item = [r \in Readers |-> None]
  /\ removed = [s \in Stage |-> 0]
  /\ exit = [s \in Stage |-> "none"]
  /\ kills = 0
  /\ fetched = [q \in Request |-> {}]
  /\ lost = {}

Main   == PutRequest \/ BeginDrain \/ DrainItem \/ DrainTimeout \/ NextStage
Get(r) == Empty(r) \/ Receive(r) \/ Count(r) \/ Deliver(r)

Next ==
  \/ Main \/ Feed
  \/ \E r \in readers : Lock(r) \/ Get(r) \/ Kill(r)
  \/ Done

Spec == Init /\ [][Next]_vars
-----------------------------------------------------------------------------
(* Properties *)

\* A worker is handed a request in the stage it was put for, and once: nothing
\* that a stage leaves in the channel, in the buffer or the pipe, reaches the next.
ServedInItsStage ==
  \A q \in Request : fetched[q] \subseteq {q[1]}

\* The requests of a stage that no worker was handed, nor died of at once.
Unserved(s) == {q \in Request : q[1] = s /\ fetched[q] = {} /\ q \notin lost}

Drained(s) == exit[s] # "none"

\* The stages whose items the drain of stage s finds: its own and, in a channel that
\* is kept although a dead reader has locked it, those that have left theirs there.
Counted(s) == {s} \cup {u \in 1 .. s - 1 : ~several /\ exit[u] = "timeout"}

\* What the drain of a stage has counted are the requests that were not served,
\* whether it has read the channel empty or had to trust the count of a locked
\* one, in which the None of the drain is left too.  A channel that stays locked
\* has every later drain count those of the earlier stages once more, and their
\* Nones.
DrainIsExact ==
  \A s \in Stage : Drained(s) =>
    removed[s] = Cardinality(UNION {Unserved(u) : u \in Counted(s)}) + Cardinality(Counted(s)) - 1
=============================================================================
