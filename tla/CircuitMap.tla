----------------------------- MODULE CircuitMap -----------------------------
(***************************************************************************)
(* The circuit map of the HTLC switch (htlcswitch/circuit_map.go) for HTLCs *)
(* that arrive on one channel and leave on another.  A circuit is known by  *)
(* its incoming HTLC; its keystone is the index of the HTLC on the outgoing *)
(* channel.  cm is the map in memory, db its two buckets on disk; every     *)
(* operator is one critical section or one transaction of a method, so that *)
(* a specification can interleave and crash between them.  The hash index  *)
(* serves queries only and is left out; channels do not close              *)
(* (cleanClosedChannels).                                                  *)
(***************************************************************************)
EXTENDS Integers, FiniteSetsExt

CONSTANTS
    HTLC,       \* incoming HTLCs, by index
    MaxIndex,   \* bound on the indices of the outgoing channel
    None

ASSUME HTLCAssumption == HTLC \subseteq Nat
ASSUME MaxIndexAssumption == MaxIndex \in Nat \ {0}
ASSUME NoneAssumption == None \notin HTLC \cup Nat

Index == 0 .. MaxIndex - 1

\* pending: the circuits, new or LoadedFromDisk.  outgoing: their Outgoing key.
\* opened: circuits by keystone.  closed: circuits that got a response.
CircuitMaps ==
    [pending  : [HTLC -> {"none", "new", "loaded"}],
     outgoing : [HTLC -> Index \cup {None}],
     opened   : [Index -> HTLC \cup {None}],
     closed   : SUBSET HTLC]

\* The buckets circuit-adds and circuit-keystones.
Buckets == [adds : SUBSET HTLC, keystones : [Index -> HTLC \cup {None}]]

EmptyMap == [pending  |-> [h \in HTLC |-> "none"],
             outgoing |-> [h \in HTLC |-> None],
             opened   |-> [i \in Index |-> None],
             closed   |-> {}]

EmptyBuckets == [adds |-> {}, keystones |-> [i \in Index |-> None]]

HasKeystone(cm, h) == cm.outgoing[h] # None

-----------------------------------------------------------------------------
(* CommitCircuits.                                                         *)

CommitActionUnchecked(cm, h) ==
    IF cm.pending[h] = "none" THEN "add"
    ELSE IF cm.pending[h] = "new" THEN "drop" ELSE "fail"

CommitActionResent(cm, h) == IF cm.pending[h] = "new" THEN "drop" ELSE "add"

\* What becomes of an Add that is forwarded (again): a circuit with a keystone
\* waits for its answer, one made since the start has its packet in a mailbox,
\* one from disk has lost it.
CommitAction(cm, h) ==
    IF cm.pending[h] = "none" THEN "add"
    ELSE IF HasKeystone(cm, h) \/ cm.pending[h] = "new" THEN "drop"
    ELSE "fail"

AddPending(cm, h) == [cm EXCEPT !.pending[h] = "new"]

PutAdd(db, h) == [db EXCEPT !.adds = @ \cup {h}]

-----------------------------------------------------------------------------
(* OpenCircuits: ks maps the outgoing indices of a batch to HTLCs.         *)

\* Neither ErrDuplicateKeystone nor ErrUnknownCircuit.
CanOpen(cm, ks) ==
    \A i \in DOMAIN ks :
        cm.opened[i] = None /\ cm.pending[ks[i]] # "none"

PutKeystones(db, ks) ==
    [db EXCEPT !.keystones =
        [i \in Index |-> IF i \in DOMAIN ks THEN ks[i] ELSE @[i]]]

SetKeystones(cm, ks) ==
    [cm EXCEPT
        !.outgoing = [h \in HTLC |->
            IF \E i \in DOMAIN ks : ks[i] = h
            THEN CHOOSE i \in DOMAIN ks :
                     ks[i] = h /\ \A j \in DOMAIN ks : ks[j] = h => j <= i
            ELSE @[h]],
        !.opened = [i \in Index |->
            IF i \in DOMAIN ks THEN ks[i] ELSE @[i]]]

-----------------------------------------------------------------------------
(* FailCircuit and CloseCircuit.                                           *)

CanFail(cm, h) == cm.pending[h] # "none" /\ h \notin cm.closed

\* A keystone nobody answered yet; the circuit may be gone from pending.
CanClose(cm, i) == cm.opened[i] # None /\ cm.opened[i] \notin cm.closed

MarkClosed(cm, h) == [cm EXCEPT !.closed = @ \cup {h}]

-----------------------------------------------------------------------------
(* DeleteCircuits: S are the circuits found in pending.                    *)

Found(cm, S) == {h \in S : cm.pending[h] # "none"}

\* The keystones that go with the circuits of S.
KeystonesOf(cm, S) == {cm.outgoing[h] : h \in {g \in S : HasKeystone(cm, g)}}

DeletePending(cm, S) ==
    [cm EXCEPT
        !.pending = [h \in HTLC |-> IF h \in S THEN "none" ELSE @[h]],
        !.closed  = @ \ S,
        !.opened  = [i \in Index |->
            IF i \in KeystonesOf(cm, S) THEN None ELSE @[i]]]

DeleteBuckets(cm, db, S) ==
    [adds      |-> db.adds \ S,
     keystones |-> [i \in Index |->
         IF i \in KeystonesOf(cm, S) THEN None ELSE db.keystones[i]]]

\* The deleted circuits are garbage: nobody looks at their key any more.
ForgetDeleted(cm, S) ==
    [cm EXCEPT !.outgoing =
        [h \in HTLC |-> IF h \in S THEN None ELSE @[h]]]

-----------------------------------------------------------------------------
(* TrimOpenCircuits and NewCircuitMap.                                     *)

TrimmedOneEarly(cm, start) == {i \in Index : i >= start - 1 /\ cm.opened[i] # None}

\* Scan forward from start until an index that is not open.
Trimmed(cm, start) ==
    {i \in Index : i >= start /\ \A j \in start .. i : cm.opened[j] # None}

TrimMap(cm, S) ==
    [cm EXCEPT
        !.opened   = [i \in Index |-> IF i \in S THEN None ELSE @[i]],
        !.outgoing = [h \in HTLC |->
            IF \E i \in S : cm.opened[i] = h THEN None ELSE @[h]]]

DeleteKeystones(db, S) ==
    [db EXCEPT !.keystones =
        [i \in Index |-> IF i \in S THEN None ELSE @[i]]]

\* Keystones are read in key order, so the last one of a circuit becomes its
\* Outgoing key; a keystone without circuit stays on disk, unused.
RestoreMemState(db) ==
    LET keys(h) == {i \in Index : db.keystones[i] = h}
    IN  [pending  |-> [h \in HTLC |->
             IF h \in db.adds THEN "loaded" ELSE "none"],
         outgoing |-> [h \in HTLC |->
             IF h \in db.adds /\ keys(h) # {} THEN Max(keys(h)) ELSE None],
         opened   |-> [i \in Index |->
             IF db.keystones[i] \in db.adds THEN db.keystones[i] ELSE None],
         closed   |-> {}]
=============================================================================
