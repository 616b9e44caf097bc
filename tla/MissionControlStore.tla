------------------------ MODULE MissionControlStore ------------------------
(***************************************************************************)
(* The store of mission control, routing/missioncontrol_store.go: payment  *)
(* results wait in a queue, a ticker goroutine (run) writes the queue to   *)
(* the database every flush interval and prunes the oldest records, other  *)
(* goroutines add results (AddResult), clear the store (ResetHistory),     *)
(* change the limit (SetConfig) and stop the ticker (stop).                *)
(*                                                                         *)
(* A result is the natural number that its key is: keys are compared as    *)
(* bytes, time first, so the database returns them in chronological order. *)
(* The time is taken before AddResult, by several goroutines: results need *)
(* not be added in that order.                                             *)
(*                                                                         *)
(* The lock of queueCond is modelled by what it forbids: while the ticker  *)
(* holds it between its check of the queue and Wait, nobody else touches   *)
(* the queue.  stop does not take it.  A Signal with nobody waiting is     *)
(* lost.                                                                   *)
(***************************************************************************)
EXTENDS Integers, Sequences, FiniteSets, SequencesExt

CONSTANTS
    MaxResult,    \* bound of the model: results are 1 .. MaxResult
    MaxRecords,   \* limits SetConfig may choose, 0 for none
    InitialMax,   \* the limit the store is created with
    Stoppers,     \* goroutines that may stop the ticker: none or one
    AddTwice,     \* the model lets a result be added again
    ClearAllowed  \* the model includes ResetHistory

ASSUME MissionControlStoreAssumption ==
    /\ MaxResult \in Nat
    /\ MaxRecords \subseteq Nat /\ InitialMax \in MaxRecords
    /\ AddTwice \in BOOLEAN /\ ClearAllowed \in BOOLEAN

ResultKeys == 1 .. MaxResult

VARIABLES
    db,          \* resultsKey bucket: the stored results
    queue,       \* results not yet added to the database
    keys,        \* stored keys in the order of storage
    keysMap,     \* the stored keys as a map
    maxRecords,  \* records to keep
    batch,       \* the queue that storeResults took
    ticker,      \* where the goroutine of run is
    done,        \* the channel done is closed
    stopper,     \* where the goroutine that calls stop is
    reported,    \* of the model: the results added so far
    cleared      \* of the model: those added before the last clear

storeVars == <<db, queue, keys, keysMap, maxRecords, batch, ticker, done, stopper,
               reported, cleared>>

StoreTypeOK ==
    /\ db \subseteq ResultKeys
    /\ queue \in Seq(ResultKeys) /\ batch \in Seq(ResultKeys)
    /\ keys \in Seq(ResultKeys)
    /\ keysMap \subseteq ResultKeys
    /\ maxRecords \in MaxRecords
    /\ ticker \in {"check", "empty", "wait", "woken", "timer", "store", "exit"}
    /\ ticker = "store" <=> batch # <<>>
    /\ done \in BOOLEAN
    /\ stopper \in [Stoppers -> {"idle", "signal", "wait", "stopped"}]
    /\ reported \subseteq ResultKeys
    /\ cleared \subseteq ResultKeys

\* The order in which a cursor visits the bucket.
Chronological(S) ==
    CHOOSE s \in [1 .. Cardinality(S) -> S] :
        \A i, j \in DOMAIN s : i < j => s[i] < s[j]

Drop(s, n) == SubSeq(s, n + 1, Len(s))

StoreInit ==
    /\ db = {} /\ queue = <<>> /\ keys = <<>> /\ keysMap = {}
    /\ maxRecords = InitialMax
    /\ batch = <<>>
    /\ ticker = "check" /\ done = FALSE
    /\ stopper = [s \in Stoppers |-> "idle"]
    /\ reported = {} /\ cleared = {}

-----------------------------------------------------------------------------
(* The goroutines that use the store.                                      *)

\* The ticker holds the lock of the queue.
Locked == ticker = "empty"

Signalled == IF ticker = "wait" THEN "woken" ELSE ticker

\* Faulty: the ticker is not told.
AddResultSilent(r) ==
    /\ ~Locked
    /\ r \notin reported \/ AddTwice
    /\ Len(queue) < MaxResult
    /\ queue' = Append(queue, r)
    /\ reported' = reported \cup {r}
    /\ UNCHANGED <<db, keys, keysMap, maxRecords, batch, ticker, done, stopper,
                   cleared>>

AddResult(r) ==
    /\ ~Locked
    /\ r \notin reported \/ AddTwice
    /\ Len(queue) < MaxResult
    /\ queue' = Append(queue, r)
    /\ ticker' = Signalled
    /\ reported' = reported \cup {r}
    /\ UNCHANGED <<db, keys, keysMap, maxRecords, batch, done, stopper, cleared>>

\* clear, on behalf of ResetHistory.  The keys in memory stay.
Clear ==
    /\ ClearAllowed
    /\ ~Locked
    /\ db' = {} /\ queue' = <<>>
    /\ cleared' = reported
    /\ UNCHANGED <<keys, keysMap, maxRecords, batch, ticker, done, stopper, reported>>

SetMaxRecords(n) ==
    /\ n # maxRecords
    /\ maxRecords' = n
    /\ UNCHANGED <<db, queue, keys, keysMap, batch, ticker, done, stopper, reported,
                   cleared>>

\* stop: close the channel, signal, wait for the ticker.
StopClose(s) ==
    /\ stopper[s] = "idle"
    /\ done' = TRUE
    /\ stopper' = [stopper EXCEPT ![s] = "signal"]
    /\ UNCHANGED <<db, queue, keys, keysMap, maxRecords, batch, ticker, reported,
                   cleared>>

StopSignal(s) ==
    /\ stopper[s] = "signal"
    /\ ticker' = Signalled
    /\ stopper' = [stopper EXCEPT ![s] = "wait"]
    /\ UNCHANGED <<db, queue, keys, keysMap, maxRecords, batch, done, reported,
                   cleared>>

StopReturn(s) ==
    /\ stopper[s] = "wait"
    /\ ticker = "exit"
    /\ stopper' = [stopper EXCEPT ![s] = "stopped"]
    /\ UNCHANGED <<db, queue, keys, keysMap, maxRecords, batch, ticker, done,
                   reported, cleared>>

-----------------------------------------------------------------------------
(* The goroutine of run.                                                   *)

At(from, to) ==
    /\ ticker = from
    /\ ticker' = to
    /\ UNCHANGED <<maxRecords, done, stopper, reported, cleared>>

\* Under the lock: is there something to store?
CheckQueue ==
    /\ At("check", IF queue = <<>> THEN "empty" ELSE "timer")
    /\ UNCHANGED <<db, queue, keys, keysMap, batch>>

\* Wait releases the lock.
Wait ==
    /\ At("empty", "wait")
    /\ UNCHANGED <<db, queue, keys, keysMap, batch>>

Woken ==
    /\ At("woken", IF done THEN "exit" ELSE "check")
    /\ UNCHANGED <<db, queue, keys, keysMap, batch>>

TimerDone ==
    /\ done
    /\ At("timer", "exit")
    /\ UNCHANGED <<db, queue, keys, keysMap, batch>>

\* The flush interval is over: storeResults takes the queue, if clear has
\* left anything.
TakeQueue ==
    /\ At("timer", IF queue = <<>> THEN "check" ELSE "store")
    /\ batch' = queue
    /\ queue' = <<>>
    /\ UNCHANGED <<db, keys, keysMap>>

Repeated(l) ==
    {i \in DOMAIN l : l[i] \in keysMap \/ \E j \in 1 .. i - 1 : l[j] = l[i]}

\* The loop over the batch removes a repeated result and thereby ends, since
\* the removed element has no successor: what follows stays in the list, but
\* does not count as new.
Dedup(l) ==
    IF Repeated(l) = {} THEN [list |-> l, count |-> Len(l)]
    ELSE LET i == CHOOSE i \in Repeated(l) : \A j \in Repeated(l) : i <= j
         IN  [list  |-> SubSeq(l, 1, i - 1) \o SubSeq(l, i + 1, Len(l)),
              count |-> i - 1]

\* How many records have to go, how many of the stored keys that is, and how
\* many of the batch are not stored at all.
ToDelete(d) ==
    IF maxRecords = 0 \/ Len(keys) + d.count <= maxRecords THEN 0
    ELSE Len(keys) + d.count - maxRecords
OldToDelete(d) == Min({ToDelete(d), Len(keys)})
NewToDrop(d)   == Min({ToDelete(d) - OldToDelete(d), Len(d.list)})

\* Faulty: the limit is applied to the stored keys only.
StoreResultsLate ==
    /\ At("store", "check")
    /\ LET d == Dedup(batch)
           over == IF maxRecords = 0 \/ Len(keys) <= maxRecords THEN 0
                   ELSE Len(keys) - maxRecords
       IN  /\ db' = (db \cup Range(d.list)) \ Range(SubSeq(keys, 1, over))
           /\ keys' = Drop(keys, over) \o d.list
           /\ keysMap' = keysMap \ Range(SubSeq(keys, 1, over))
    /\ batch' = <<>>
    /\ UNCHANGED queue

\* Faulty: the newest keys are pruned.
StoreResultsNewest ==
    /\ At("store", "check")
    /\ LET d    == Dedup(batch)
           kept == Len(keys) - OldToDelete(d)
           list == Drop(d.list, NewToDrop(d))
       IN  /\ db' = (db \cup Range(list)) \ Range(Drop(keys, kept))
           /\ keys' = SubSeq(keys, 1, kept) \o list
           /\ keysMap' = keysMap \ Range(Drop(keys, kept))
    /\ batch' = <<>>
    /\ UNCHANGED queue

\* Faulty: the keys of the stored results are not remembered.
StoreResultsForgets ==
    /\ At("store", "check")
    /\ LET d    == Dedup(batch)
           old  == Range(SubSeq(keys, 1, OldToDelete(d)))
           list == Drop(d.list, NewToDrop(d))
       IN  /\ db' = (db \cup Range(list)) \ old
           /\ keys' = Drop(keys, OldToDelete(d))
           /\ keysMap' = keysMap \ old
    /\ batch' = <<>>
    /\ UNCHANGED queue

\* One database transaction, then the keys in memory; keysMap only shrinks.
StoreResults ==
    /\ At("store", "check")
    /\ LET d    == Dedup(batch)
           old  == Range(SubSeq(keys, 1, OldToDelete(d)))
           list == Drop(d.list, NewToDrop(d))
       IN  /\ db' = (db \cup Range(list)) \ old
           /\ keys' = Drop(keys, OldToDelete(d)) \o list
           /\ keysMap' = keysMap \ old
    /\ batch' = <<>>
    /\ UNCHANGED queue

\* The transaction fails: the batch is lost.
StoreResultsError ==
    /\ At("store", "check")
    /\ batch' = <<>>
    /\ UNCHANGED <<db, queue, keys, keysMap>>

\* The process starts again: newMissionControlStore reads the keys, and the
\* limit is the configured one.
StoreRestart ==
    /\ keys' = Chronological(db)
    /\ keysMap' = db
    /\ maxRecords' = InitialMax
    /\ queue' = <<>> /\ batch' = <<>>
    /\ ticker' = "check" /\ done' = FALSE
    /\ stopper' = [s \in Stoppers |-> "idle"]
    /\ UNCHANGED <<db, reported, cleared>>

-----------------------------------------------------------------------------

Ticker == \/ CheckQueue \/ Wait \/ Woken \/ TimerDone \/ TakeQueue
          \/ StoreResults \/ StoreResultsError

Stop(s) == StopClose(s) \/ StopSignal(s) \/ StopReturn(s)

StoreNext ==
    \/ \E r \in ResultKeys : AddResult(r)
    \/ Clear
    \/ \E n \in MaxRecords : SetMaxRecords(n)
    \/ \E s \in Stoppers : Stop(s)
    \/ Ticker
    \/ StoreRestart

StoreSpec == StoreInit /\ [][StoreNext]_storeVars

\* The goroutines run once they are started.
FairSpec == /\ StoreSpec
            /\ WF_storeVars(Ticker)
            /\ \A s \in Stoppers : WF_storeVars(StopSignal(s) \/ StopReturn(s))

-----------------------------------------------------------------------------

\* Every record on disk is known in memory, else it would never be pruned
\* (keys "holds the stored MC store item keys in the order of storage").
RecordsTracked == db \subseteq Range(keys)

\* A step that changes what is stored, other than Clear.
Stores == ticker = "store" /\ ticker' = "check" /\ db' # db

\* Storing a batch leaves no more records than the limit, whatever was stored,
\* cleared or configured before.
LimitKept ==
    [][Stores /\ maxRecords > 0 => Cardinality(db') <= maxRecords]_storeVars

\* Results go out in the order they came in ("the order of storage"): one that
\* is pruned, or not even stored, came before every one that is kept.
OldestPruned ==
    [][Stores =>
          LET order == keys \o batch
          IN  \A gone \in (db \cup Range(batch)) \ db', kept \in db' :
                  \E i, j \in DOMAIN order :
                      i < j /\ order[i] = gone /\ order[j] = kept]_storeVars

\* A queued result does not wait for ever unless the ticker is stopped.
QueueFlushed == queue # <<>> ~> queue = <<>> \/ done

\* keysMap is there "to check if a new payment result has already been stored",
\* and the test of the store says "Store again to test idempotency": a result
\* that is added again does not count twice.
NoKeyTwice == \A i, j \in DOMAIN keys : keys[i] = keys[j] => i = j

\* ResetHistory returns mission control "to a state as if no payment attempts
\* have been made": what was reported before never comes back to disk.
ClearedStaysCleared == db \cap cleared = {}

\* "stop stops the store ticker goroutine": a call of stop returns.
StopReturns == \A s \in Stoppers : stopper[s] = "signal" ~> stopper[s] # "signal"
                                                            /\ stopper[s] # "wait"
=============================================================================
