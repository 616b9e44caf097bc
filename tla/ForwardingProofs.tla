-------------------------- MODULE ForwardingProofs --------------------------
(***************************************************************************)
(* Theorems of the switch (package htlcswitch): of the forwarding, for any *)
(* set of HTLCs, any number of indices of the outgoing channel, of crashes *)
(* and of flaps; and of the interceptor in front of it, for any set of     *)
(* HTLCs, every expiry and any number of blocks, flaps, restarts and       *)
(* sessions.                                                               *)
(*                                                                         *)
(* Of the forwarding, whatever is replayed, flaps, crashes and expires:    *)
(*                                                                         *)
(*   Typing              disk and memory are well typed                    *)
(*   LossSafety          an HTLC is failed or settled back as its HTLCs on *)
(*                       the outgoing channel are                          *)
(*   OnceSafety          an HTLC is committed once on the outgoing channel *)
(*   KeptSafety          circuit and keystone stay on disk until then      *)
(*                                                                         *)
(* Two invariants carry them.  Base holds always: the circuit of an HTLC   *)
(* that is locked in stays while it is routed, delivered or committed,     *)
(* which is why CommitCircuits cannot take it a second time.  Inv holds    *)
(* while the history is Undisturbed, and follows an HTLC through its       *)
(* packets (offer, forwarding, mail, local), its circuit in memory and on  *)
(* disk, and its response: at any time it is in one place, a circuit       *)
(* without keystone stands for no HTLC of the outgoing channel, and the    *)
(* keystones that are not committed have no gap, although mailboxes fail   *)
(* Adds whose keystone link O left on disk.                                *)
(*                                                                         *)
(* Of the interceptor:                                                     *)
(*   InterceptTyping     state and messages are well typed                 *)
(*   InTimeSafety        nothing is held up to the reject delta            *)
(*   ClientSafety        the client was offered what is held               *)
(*   RequiredSafety      nothing goes out that the client did not resume   *)
(*   CareSafety          no HTLC is forgotten, if the client gives right   *)
(*                       preimages                                         *)
(*   ReplaySafety        an HTLC the client saw is not failed back         *)
(***************************************************************************)
EXTENDS Forwarding, InterceptableSwitch, SumTheorems, TLAPS

-----------------------------------------------------------------------------
(* Mailboxes.                                                              *)

\* What AckPacket leaves of a mailbox.
LEMMA WithoutEffect ==
    ASSUME NEW T, NEW s \in Seq(T), NEW S
    PROVE  Without(s, S) \in Seq(T) /\ ToSet(Without(s, S)) = ToSet(s) \ S
<1> DEFINE kept == {k \in DOMAIN s : s[k] \notin S}
           n == Cardinality(kept)
           order == CHOOSE o \in [1 .. n -> kept] :
                        \A i, j \in DOMAIN o : i < j => o[i] < o[j]
<1>1. kept \in SUBSET Nat /\ IsFiniteSet(kept)
  <2>1. IsFiniteSet(1 .. Len(s))
    BY FS_Interval
  <2>2. kept \subseteq 1 .. Len(s)
    OBVIOUS
  <2> QED
    BY <2>1, <2>2, FS_Subset
<1>2. n \in Nat
  BY <1>1, FS_CardinalityType
<1>3. order \in [1 .. n -> kept] /\ \A i, j \in DOMAIN order : i < j => order[i] < order[j]
  <2>1. \E o \in [1 .. n -> kept] : \A i, j \in DOMAIN o : i < j => o[i] < o[j]
    <3> HIDE DEF kept
    <3> QED
      BY <1>1, SortedExists
  <2> HIDE DEF n, kept
  <2> QED
    BY <2>1
<1>4. Without(s, S) = [k \in DOMAIN order |-> s[order[k]]]
  BY DEF Without
<1> HIDE DEF order
<1>5. \A x \in kept : \E i \in 1 .. n : order[i] = x
  <2> HIDE DEF kept
  <2> QED
    BY <1>1, <1>3, SortedListing
<1>6. \A k \in 1 .. n : order[k] \in DOMAIN s /\ s[order[k]] \in T /\ s[order[k]] \notin S
  BY <1>3
<1> HIDE DEF n
<1>7. Without(s, S) \in Seq(T)
  BY <1>2, <1>3, <1>4, <1>6
<1>8. ToSet(Without(s, S)) = ToSet(s) \ S
  <2>1. ASSUME NEW h \in ToSet(Without(s, S))
        PROVE  h \in ToSet(s) \ S
    BY <1>3, <1>4, <1>6, <2>1 DEF ToSet
  <2>2. ASSUME NEW h \in ToSet(s) \ S
        PROVE  h \in ToSet(Without(s, S))
    <3>1. PICK k \in DOMAIN s : s[k] = h
      BY <2>2 DEF ToSet
    <3>2. k \in kept
      BY <2>2, <3>1
    <3>3. PICK i \in 1 .. n : order[i] = k
      BY <1>5, <3>2
    <3> QED
      BY <1>3, <1>4, <3>1, <3>3 DEF ToSet
  <2> QED
    BY <2>1, <2>2
<1> QED
  BY <1>7, <1>8

\* What AddPacket makes of it.
LEMMA AddMailEffect ==
    ASSUME NEW h \in HTLC, mail \in Seq(HTLC), AddMail(h)
    PROVE  mail' \in Seq(HTLC) /\ ToSet(mail') = ToSet(mail) \cup {h}
<1>1. CASE h \in ToSet(mail)
  BY <1>1 DEF AddMail
<1>2. CASE h \notin ToSet(mail)
  <2>1. mail' = Append(mail, h)
    BY <1>2 DEF AddMail
  <2>2. /\ mail' \in Seq(HTLC) /\ Len(mail) \in Nat
        /\ DOMAIN mail = 1 .. Len(mail) /\ DOMAIN mail' = 1 .. Len(mail) + 1
        /\ \A k \in 1 .. Len(mail) : mail'[k] = mail[k]
        /\ mail'[Len(mail) + 1] = h
    BY <2>1
  <2>3. ToSet(mail') = ToSet(mail) \cup {h}
    <3>1. ASSUME NEW x \in ToSet(mail')
          PROVE  x \in ToSet(mail) \cup {h}
      <4>1. PICK k \in 1 .. Len(mail) + 1 : x = mail'[k]
        BY <2>2, <3>1 DEF ToSet
      <4>2. k \in 1 .. Len(mail) \/ k = Len(mail) + 1
        BY <2>2
      <4> QED
        BY <2>2, <4>1, <4>2 DEF ToSet
    <3>2. ASSUME NEW x \in ToSet(mail) \cup {h}
          PROVE  x \in ToSet(mail')
      <4>1. CASE x = h
        <5>1. Len(mail) + 1 \in 1 .. Len(mail) + 1
          BY <2>2
        <5> QED
          BY <2>2, <4>1, <5>1 DEF ToSet
      <4>2. CASE x \in ToSet(mail)
        <5>1. PICK k \in 1 .. Len(mail) : x = mail[k]
          BY <2>2, <4>2 DEF ToSet
        <5>2. k \in 1 .. Len(mail) + 1
          BY <2>2
        <5> QED
          BY <2>2, <5>1, <5>2 DEF ToSet
      <4> QED
        BY <3>2, <4>1, <4>2
    <3> QED
      BY <3>1, <3>2
  <2> QED
    BY <2>2, <2>3
<1> QED
  BY <1>1, <1>2

-----------------------------------------------------------------------------
(* What every behaviour keeps, whatever is forwarded again and torn.       *)

Locked(h) == incoming[h] = "locked"

Gone(h) == incoming[h] \in {"failed", "settled"}

\* O has an HTLC for h.
Carried(h) == \E i \in Index : outHtlc[i] = h

\* Nothing is known of an HTLC that was not locked in.
Known ==
    \A h \in HTLC : incoming[h] = "none" =>
        /\ offer # h /\ h \notin replay /\ forwarding # h
        /\ h \notin ToSet(mail) /\ reply[h] = None /\ h \notin db.adds
        /\ \A i \in Index : cm.opened[i] # h /\ db.keystones[i] # h /\ outHtlc[i] # h

\* Only answers are routed, only circuits of removed HTLCs are deleted.
Answered == \A i \in toRoute : answer[i] # "none"

GoneKeys == \A h \in closedKeys \cup deleting : Gone(h)

Indices ==
    /\ committed <= batch /\ batch <= nextO
    /\ linkO # "up" => stepO = "idle" /\ nextO = committed
    /\ stepO = "signed" => nextO = committed

\* The local log of O holds packets it took from the mailbox, each once.
InLog ==
    \A i \in committed .. nextO - 1 :
        /\ local[i] \in taken
        /\ \A j \in committed .. nextO - 1 : local[i] = local[j] => i = j

\* The circuit of an HTLC that is routed, delivered or committed stays, on disk
\* and in memory, until the HTLC is removed.
AddsKept ==
    \A h \in HTLC : Locked(h) =>
        /\ h \in ToSet(mail) \/ Carried(h) \/ (forwarding = h /\ step = "route") =>
             h \in db.adds
        /\ h \in db.adds \/ (forwarding = h /\ step = "write") => cm.pending[h] # "none"

\* An HTLC that is being removed has a response.
Removing ==
    /\ \A h \in removing : Locked(h) /\ reply[h] # None
    /\ linkI # "deleted" => removed = {}

\* A packet whose circuit was made just now is nowhere else yet.
Handled ==
    forwarding # None /\ step # "commit" /\ forwarding \notin again =>
        forwarding \notin ToSet(mail) /\ ~ Carried(forwarding)

\* A packet in the mailbox of O is not committed, unless the signature was made
\* just now.
Delivered ==
    \A h \in ToSet(mail) \ again :
        Carried(h) => stepO = "signed" /\ h \in openedKeys /\ h \in taken

\* No two HTLCs of O carry the same.
CarriedOnce ==
    \A i, j \in Index : outHtlc[i] = outHtlc[j] /\ outHtlc[i] \in HTLC \ again => i = j

Base ==
    /\ TypeOK
    /\ Known /\ Answered /\ GoneKeys /\ Indices /\ InLog
    /\ Removing /\ AddsKept /\ Handled /\ Delivered /\ CarriedOnce

\* Nothing is not an HTLC.
LEMMA NotNone == None \notin HTLC /\ None \notin Index /\ Index \subseteq Nat /\ HTLC \subseteq Nat
  BY HTLCAssumption, NoneAssumption, MaxIndexAssumption DEF Index

\* The types the steps need.
LEMMA Types ==
    ASSUME TypeOK
    PROVE  /\ incoming \in [HTLC -> {"none", "locked", "failed", "settled"}]
           /\ outHtlc \in [Index -> HTLC \cup {None}]
           /\ answer \in [Index -> {"none", "settle", "fail"}]
           /\ acked \subseteq Index /\ toRoute \subseteq Index
           /\ db = [adds |-> db.adds, keystones |-> db.keystones]
           /\ db.adds \subseteq HTLC /\ db.keystones \in [Index -> HTLC \cup {None}]
           /\ cm = [pending |-> cm.pending, outgoing |-> cm.outgoing,
                    opened |-> cm.opened, closed |-> cm.closed]
           /\ cm.pending \in [HTLC -> {"none", "new", "loaded"}]
           /\ cm.outgoing \in [HTLC -> Index \cup {None}]
           /\ cm.opened \in [Index -> HTLC \cup {None}]
           /\ cm.closed \subseteq HTLC
           /\ mail \in Seq(HTLC) /\ ToSet(mail) \subseteq HTLC
           /\ taken \subseteq ToSet(mail)
           /\ reply \in [HTLC -> Replies \cup {None}]
           /\ local \in [Index -> HTLC \cup {None}]
           /\ committed \in Nat /\ committed <= MaxIndex
           /\ batch \in Nat /\ nextO \in Nat /\ nextO <= MaxIndex
           /\ forwarding \in HTLC \cup {None} /\ offer \in HTLC \cup {None}
           /\ replay \subseteq HTLC /\ removing \subseteq HTLC
           /\ deleting \subseteq HTLC /\ closedKeys \subseteq HTLC
           /\ openedKeys \subseteq HTLC /\ trimmed \subseteq Index
           /\ MaxIndex \in Nat /\ removed \subseteq deleting
<1>1. ToSet(mail) \subseteq HTLC
  BY DEF TypeOK, ToSet
<1>2. /\ committed \in Nat /\ committed <= MaxIndex /\ nextO \in Nat
      /\ nextO <= MaxIndex /\ MaxIndex \in Nat
  BY MaxIndexAssumption DEF TypeOK
<1>3. batch \in Nat
  BY <1>2 DEF TypeOK
<1>4. /\ db = [adds |-> db.adds, keystones |-> db.keystones]
      /\ db.adds \subseteq HTLC /\ db.keystones \in [Index -> HTLC \cup {None}]
  BY DEF TypeOK, Buckets
<1>5. /\ cm = [pending |-> cm.pending, outgoing |-> cm.outgoing,
               opened |-> cm.opened, closed |-> cm.closed]
      /\ cm.pending \in [HTLC -> {"none", "new", "loaded"}]
      /\ cm.outgoing \in [HTLC -> Index \cup {None}]
      /\ cm.opened \in [Index -> HTLC \cup {None}]
      /\ cm.closed \subseteq HTLC
  BY DEF TypeOK, CircuitMaps
<1> QED
  BY <1>1, <1>2, <1>3, <1>4, <1>4, <1>5 DEF TypeOK

\* The first of the packets to replay.
LEMMA FirstReplayed ==
    ASSUME TypeOK, replay # {}
    PROVE  Min(replay) \in replay
<1>1. replay \in SUBSET Nat
  BY NotNone DEF TypeOK
<1>2. PICK n \in replay : \A m \in replay : n <= m
  BY <1>1, SmallestNat
<1> QED
  BY <1>2 DEF Min

\* What every part of it is about.
LEMMA BaseFrames ==
    ASSUME Base
    PROVE  /\ UNCHANGED <<incoming, offer, replay, forwarding, mail, reply, db.adds,
                        db.keystones, cm.opened, outHtlc>> => Known'
           /\ UNCHANGED <<toRoute, answer>> => Answered'
           /\ UNCHANGED <<incoming, closedKeys, deleting>> => GoneKeys'
           /\ UNCHANGED <<committed, batch, nextO, linkO, stepO>> => Indices'
           /\ UNCHANGED <<committed, nextO, local, taken>> => InLog'
           /\ UNCHANGED <<incoming, removing, reply, linkI, removed>> => Removing'
           /\ UNCHANGED <<incoming, mail, outHtlc, forwarding, step, db.adds, cm.pending>>
                => AddsKept'
           /\ UNCHANGED <<forwarding, step, mail, outHtlc, again>> => Handled'
           /\ UNCHANGED <<mail, outHtlc, stepO, openedKeys, taken, again>> => Delivered'
           /\ UNCHANGED <<outHtlc, again>> => CarriedOnce'
<1>1. /\ UNCHANGED <<incoming, offer, replay, forwarding, mail, reply, db.adds,
                   db.keystones, cm.opened, outHtlc>> => Known'
      /\ UNCHANGED <<toRoute, answer>> => Answered'
      /\ UNCHANGED <<incoming, closedKeys, deleting>> => GoneKeys'
  BY DEF Base, Known, Answered, GoneKeys, Gone
<1>2. /\ UNCHANGED <<committed, batch, nextO, linkO, stepO>> => Indices'
      /\ UNCHANGED <<committed, nextO, local, taken>> => InLog'
      /\ UNCHANGED <<incoming, removing, reply, linkI, removed>> => Removing'
  BY DEF Base, Indices, InLog, Removing, Locked
<1>3. UNCHANGED <<incoming, mail, outHtlc, forwarding, step, db.adds, cm.pending>>
          => AddsKept'
  BY DEF Base, AddsKept, Locked, Carried
<1>4. UNCHANGED <<forwarding, step, mail, outHtlc, again>> => Handled'
  BY DEF Base, Handled, Carried
<1>5. /\ UNCHANGED <<mail, outHtlc, stepO, openedKeys, taken, again>> => Delivered'
      /\ UNCHANGED <<outHtlc, again>> => CarriedOnce'
  BY DEF Base, Delivered, CarriedOnce, Carried
<1> QED
  BY <1>1, <1>2, <1>3, <1>4, <1>5

\* A new HTLC has left no trace yet.
LEMMA LockInBase ==
    ASSUME Base, NEW h \in HTLC, LockIn(h)
    PROVE  Base'
<1>1. /\ TypeOK /\ incoming[h] = "none" /\ offer' = h
      /\ incoming' = [incoming EXCEPT ![h] = "locked"]
      /\ UNCHANGED <<closedKeys, outHtlc, committed, openedKeys, answer, acked, db,
                   cm, mail, taken, reply, toRoute, forwarding, step, quit, linkI,
                   replay, removing, deleting, removed, linkO, stepO, local, nextO,
                   batch, trimmed, again, torn>>
  BY DEF Base, LockIn, Free, mailO, varsF, varsO, history
<1>2. TypeOK'
  BY <1>1, Types DEF TypeOK
<1>3. Known'
  BY <1>1, Types DEF Base, Known
<1>4. GoneKeys'
  BY <1>1, Types DEF Base, GoneKeys, Gone
<1>5. AddsKept' /\ Removing'
  BY <1>1, Types DEF Base, AddsKept, Removing, Known, Locked, Carried
<1>6. /\ Answered' /\ Indices' /\ InLog' /\ Handled' /\ Delivered' /\ CarriedOnce'
  BY <1>1, BaseFrames
<1> QED
  BY <1>2, <1>3, <1>4, <1>5, <1>6 DEF Base

\* A packet goes from the log of link I to the switch.
LEMMA HandOverBase ==
    ASSUME Base, Replay \/ Accept
    PROVE  Base'
<1>1. /\ TypeOK
      /\ UNCHANGED <<incoming, closedKeys, outHtlc, committed, openedKeys, answer,
                   acked, db, cm, mail, taken, reply, toRoute, linkI, removing,
                   deleting, removed, linkO, stepO, local, nextO, batch, trimmed,
                   again, torn>>
  BY DEF Base, Replay, Accept, disk, mailO, varsF, varsO, history
<1>2. CASE Replay
  <2>1. /\ Min(replay) \in replay /\ replay' \subseteq replay /\ offer' \in {Min(replay), None}
        /\ UNCHANGED <<forwarding, step, quit>>
    BY <1>1, <1>2, FirstReplayed DEF Replay, varsF
  <2>2. TypeOK'
    BY <1>1, <2>1, Types DEF TypeOK
  <2>3. Known'
    BY <1>1, <2>1, NotNone DEF Base, Known
  <2> QED
    BY <1>1, <2>1, <2>2, <2>3, BaseFrames DEF Base
<1>3. CASE Accept
  <2>1. /\ offer # None /\ forwarding = None /\ forwarding' = offer /\ step' = "commit"
        /\ quit' = FALSE /\ offer' = None /\ UNCHANGED replay
    BY <1>3 DEF Accept
  <2>2. TypeOK'
    BY <1>1, <2>1, Types DEF TypeOK
  <2>3. Known'
    BY <1>1, <2>1, NotNone DEF Base, Known
  <2>4. AddsKept' /\ Handled'
    BY <1>1, <2>1 DEF Base, AddsKept, Handled, Locked, Carried
  <2> QED
    BY <1>1, <2>1, <2>2, <2>3, <2>4, BaseFrames DEF Base
<1> QED
  BY <1>2, <1>3

\* A circuit is made for an HTLC that is delivered nowhere, or again.
LEMMA CommitBase ==
    ASSUME Base, NEW h \in HTLC, Commit(h)
    PROVE  Base'
<1>1. /\ TypeOK /\ forwarding = h /\ step = "commit" /\ h # None /\ incoming[h] # "none"
      /\ UNCHANGED <<incoming, closedKeys, outHtlc, committed, openedKeys, answer,
                   acked, db, mail, taken, toRoute, linkI, offer, replay, removing,
                   deleting, removed, linkO, stepO, local, nextO, batch, trimmed,
                   torn>>
  BY NotNone DEF Base, Known, Commit, disk, mailO, varsI, varsO
<1>2. CASE /\ cm.pending[h] = "none" /\ cm' = AddPending(cm, h) /\ step' = "write"
           /\ again' = IF incoming[h] = "locked" THEN again ELSE again \cup {h}
           /\ UNCHANGED <<forwarding, quit, reply>>
  <2>1. /\ cm' \in CircuitMaps /\ UNCHANGED cm.opened
        /\ cm'.pending = [cm.pending EXCEPT ![h] = "new"]
    BY <1>1, <1>2, Types DEF AddPending, CircuitMaps
  <2>2. again' \subseteq HTLC /\ again \subseteq again' /\ (h \notin again' => Locked(h))
    BY <1>1, <1>2 DEF TypeOK, Locked
  <2>3. h \notin again' => h \notin ToSet(mail) /\ ~ Carried(h)
    BY <1>2, <2>2 DEF Base, AddsKept
  <2>4. TypeOK'
    BY <1>1, <1>2, <2>1, <2>2, Types DEF TypeOK
  <2>5. AddsKept'
    BY <1>1, <1>2, <2>1, Types DEF Base, AddsKept, Locked, Carried
  <2>6. Handled'
    BY <1>1, <1>2, <2>3 DEF Handled, Carried
  <2>7. Delivered' /\ CarriedOnce'
    BY <1>1, <2>2 DEF Base, Delivered, CarriedOnce, Carried
  <2> QED
    BY <1>1, <1>2, <2>1, <2>4, <2>5, <2>6, <2>7, BaseFrames DEF Base
<1>3. CASE /\ forwarding' = None /\ quit' = FALSE
           /\ (reply' = reply \/ AddReply(h, LocalFail))
           /\ UNCHANGED <<step, cm, again>>
  <2>1. /\ reply' \in [HTLC -> Replies \cup {None}]
        /\ \A g \in HTLC \ {h} : reply'[g] = reply[g]
        /\ reply[h] # None => reply'[h] = reply[h]
    BY <1>1, <1>3, Types DEF AddReply, LocalFail, Replies
  <2>2. TypeOK'
    BY <1>1, <1>3, <2>1, Types DEF TypeOK
  <2>3. Known'
    BY <1>1, <1>3, <2>1, NotNone DEF Base, Known
  <2>4. AddsKept'
    BY <1>1, <1>3, NotNone DEF Base, AddsKept, Locked, Carried
  <2>5. Handled'
    BY <1>3 DEF Handled
  <2>6. Removing'
    BY <1>1, <1>3, <2>1, Types DEF Base, Removing, Locked
  <2> QED
    BY <1>1, <1>3, <2>2, <2>3, <2>4, <2>5, <2>6, BaseFrames DEF Base
<1> QED
  BY <1>2, <1>3, <1>1, Types DEF Commit, Done, CommitAction

\* The circuit of the packet at hand gets to disk.
LEMMA WriteCircuitBase ==
    ASSUME Base, NEW h \in HTLC, WriteCircuit(h)
    PROVE  Base'
<1>1. /\ TypeOK /\ forwarding = h /\ step = "write" /\ step' = "route"
      /\ db' = [adds |-> db.adds \cup {h}, keystones |-> db.keystones]
      /\ UNCHANGED <<incoming, closedKeys, outHtlc, committed, openedKeys, answer,
                   acked, cm, mail, taken, reply, toRoute, forwarding, quit, linkI,
                   offer, replay, removing, deleting, removed, linkO, stepO, local,
                   nextO, batch, trimmed, again, torn>>
  BY Types DEF Base, WriteCircuit, PutAdd, disk, mailO, varsI, varsO, history
<1>2. h # None /\ db'.adds = db.adds \cup {h} /\ db'.keystones = db.keystones
  BY <1>1, NotNone
<1>3. TypeOK'
  BY <1>1, <1>2, Types DEF TypeOK, Buckets
<1>4. Known'
  BY <1>1, <1>2 DEF Base, Known
<1>5. AddsKept'
  BY <1>1, <1>2 DEF Base, AddsKept, Locked, Carried
<1>6. Handled'
  BY <1>1, <1>2 DEF Base, Handled, Carried
<1> QED
  BY <1>1, <1>2, <1>3, <1>4, <1>5, <1>6, BaseFrames DEF Base

\* The packet goes to the mailbox, or fails.
LEMMA RouteBase ==
    ASSUME Base, NEW h \in HTLC, Route(h)
    PROVE  Base'
<1>1. /\ TypeOK /\ forwarding = h /\ step = "route" /\ forwarding' = None /\ quit' = FALSE
      /\ h # None /\ incoming[h] # "none" /\ taken \subseteq ToSet(mail')
      /\ UNCHANGED <<incoming, closedKeys, outHtlc, committed, openedKeys, answer,
                   acked, db, cm, taken, toRoute, step, linkI, offer, replay, removing,
                   deleting, removed, linkO, stepO, local, nextO, batch, trimmed,
                   again, torn>>
  <2>1. AddMail(h) => taken \subseteq ToSet(mail')
    BY AddMailEffect, Types DEF Base
  <2> QED
    BY <2>1, NotNone, Types DEF Base, Known, Route, Done, mailO, disk, varsI, varsO, history
<1>2. /\ mail' \in Seq(HTLC) /\ ToSet(mail') \subseteq ToSet(mail) \cup {h}
      /\ reply' \in [HTLC -> Replies \cup {None}]
      /\ \A g \in HTLC \ {h} : reply'[g] = reply[g]
      /\ reply[h] # None => reply'[h] = reply[h]
  <2>1. AddMail(h) => mail' \in Seq(HTLC) /\ ToSet(mail') = ToSet(mail) \cup {h}
    BY <1>1, Types, AddMailEffect
  <2>2. ASSUME AddReply(h, LocalFail)
        PROVE  /\ reply' \in [HTLC -> Replies \cup {None}]
               /\ \A g \in HTLC \ {h} : reply'[g] = reply[g]
               /\ reply[h] # None => reply'[h] = reply[h]
    BY <1>1, <2>2, Types DEF AddReply, LocalFail, Replies
  <2> QED
    BY <1>1, <2>1, <2>2, Types DEF Route, mailO
<1>3. TypeOK'
  BY <1>1, <1>2, Types DEF TypeOK
<1>4. Known'
  BY <1>1, <1>2, NotNone DEF Base, Known
<1>5. AddsKept'
  BY <1>1, <1>2, NotNone DEF Base, AddsKept, Locked, Carried
<1>6. Removing'
  BY <1>1, <1>2, Types DEF Base, Removing, Locked
<1>7. Handled'
  BY <1>1 DEF Handled
<1>8. Delivered'
  BY <1>1, <1>2 DEF Base, Delivered, Handled, Carried
<1> QED
  BY <1>1, <1>3, <1>4, <1>5, <1>7, <1>8, <1>6, BaseFrames DEF Base

\* An Add leaves the mailbox, its circuit with it.
LEMMA FailAddBase ==
    ASSUME Base, NEW h \in HTLC, FailAdd(h), h \in ToSet(mail) \ taken,
           UNCHANGED <<incoming, closedKeys, outHtlc, committed, openedKeys, answer,
                        acked, db, toRoute, forwarding, step, quit, linkI, offer, replay,
                        removing, deleting, removed, linkO, stepO, local, nextO, batch,
                        trimmed, again, torn>>
    PROVE  Base'
<1>1. TypeOK /\ mail' \in Seq(HTLC) /\ ToSet(mail') = ToSet(mail) \ {h} /\ taken' = taken \ {h}
  BY Types, WithoutEffect DEF Base, FailAdd, AckMail
<1>2. incoming[h] # "none"
  BY DEF Base, Known
<1>3. /\ UNCHANGED <<cm.pending, cm.opened>> /\ cm' \in CircuitMaps
      /\ reply' \in [HTLC -> Replies \cup {None}]
      /\ \A g \in HTLC \ {h} : reply'[g] = reply[g]
      /\ reply[h] # None => reply'[h] = reply[h]
  <2>1. CASE CanFail(cm, h)
    <3>1. cm' = [cm EXCEPT !.closed = @ \cup {h}]
      BY <2>1 DEF FailAdd, MarkClosed
    <3>2. reply' = [reply EXCEPT ![h] = IF @ = None THEN LocalFail ELSE @]
      BY <2>1 DEF FailAdd, AddReply
    <3>3. LocalFail \in Replies
      BY DEF LocalFail, Replies
    <3> QED
      BY <1>1, <3>1, <3>2, <3>3, Types DEF CircuitMaps
  <2>2. CASE ~ CanFail(cm, h)
    BY <1>1, <2>2, Types DEF FailAdd, CircuitMaps
  <2> QED
    BY <2>1, <2>2
<1>4. TypeOK'
  BY <1>1, <1>3, Types DEF TypeOK
<1>5. Known'
  BY <1>1, <1>2, <1>3, NotNone DEF Base, Known
<1>6. InLog'
  BY <1>1, Types DEF Base, InLog
<1>7. AddsKept'
  BY <1>1, <1>3 DEF Base, AddsKept, Locked, Carried
<1>8. Removing'
  BY <1>1, <1>3, Types DEF Base, Removing, Locked
<1>9. Handled' /\ Delivered'
  BY <1>1, <1>3 DEF Base, Handled, Delivered, Carried
<1> QED
  BY <1>4, <1>5, <1>6, <1>7, <1>8, <1>9, BaseFrames DEF Base

\* Link O takes an Add, or it fails or expires.
LEMMA DownstreamAddBase ==
    ASSUME Base, NEW h \in HTLC, DownstreamAdd(h) \/ Expire(h)
    PROVE  Base'
<1>1. /\ TypeOK /\ h \in ToSet(mail) \ taken
      /\ UNCHANGED <<incoming, closedKeys, outHtlc, committed, openedKeys, answer,
                   acked, db, toRoute, forwarding, step, quit, linkI, offer, replay,
                   removing, deleting, removed, linkO, stepO, batch, trimmed, again,
                   torn>>
  BY DEF Base, DownstreamAdd, Expire, IdleO, IsHead, disk, varsF, varsI, varsO, history
<1>2. CASE FailAdd(h) /\ UNCHANGED <<local, nextO>>
  BY <1>1, <1>2, FailAddBase
<1>3. CASE /\ linkO = "up" /\ stepO = "idle"
           /\ nextO < MaxIndex /\ local' = [local EXCEPT ![nextO] = h]
           /\ nextO' = nextO + 1 /\ taken' = taken \cup {h}
           /\ UNCHANGED <<mail, cm, reply>>
  <2>1. nextO \in Index /\ committed <= nextO
    BY <1>1, <1>3, Types DEF Index, Base, Indices
  <2>2. local'[nextO] = h /\ \A i \in Index : i # nextO => local'[i] = local[i]
    BY <1>3, <2>1, Types, <1>1
  <2>3. \A i \in committed .. nextO : i \in Index /\ (i # nextO => i \in committed .. nextO - 1)
    BY <1>1, <1>3, Types DEF Index
  <2>4. TypeOK'
    BY <1>1, <1>3, <2>1, Types DEF TypeOK
  <2>5. Indices'
    BY <1>1, <1>3, Types DEF Base, Indices
  <2>6. InLog'
    <3>1. nextO' - 1 = nextO
      BY <1>1, <1>3, Types
    <3> QED
      BY <1>1, <1>3, <2>2, <2>3, <3>1 DEF Base, InLog
  <2>7. Delivered'
    BY <1>1, <1>3 DEF Base, Delivered, Carried
  <2> QED
    BY <1>1, <1>3, <2>4, <2>5, <2>6, <2>7, BaseFrames DEF Base
<1> QED
  BY <1>2, <1>3 DEF DownstreamAdd, Expire, IdleO, varsO

\* What link O forgets.
LEMMA EndOBase ==
    ASSUME Base, EndO, stepO = "idle", linkO \in {"sync", "up"},
           UNCHANGED <<incoming, closedKeys, outHtlc, committed, openedKeys, answer,
                        acked, db, cm, mail, reply, forwarding, step, quit, linkI, offer,
                        replay, removing, deleting, removed, trimmed, again, torn>>
    PROVE  Base'
<1>1. /\ TypeOK /\ linkO' = "down" /\ stepO' = "idle" /\ taken' = {}
      /\ local' = [i \in Index |-> None] /\ nextO' = committed /\ batch' = committed
      /\ toRoute' \subseteq toRoute
  BY DEF Base, EndO
<1>2. TypeOK'
  BY <1>1, Types DEF TypeOK
<1>3. Answered' /\ Delivered'
  BY <1>1 DEF Base, Answered, Delivered, Carried
<1>4. Indices' /\ InLog'
  BY <1>1, Types DEF Base, Indices, InLog
<1> QED
  BY <1>1, <1>2, <1>3, <1>4, BaseFrames DEF Base

\* The keystones of what link O took get to disk, then to memory.
LEMMA OpenCircuitsBase ==
    ASSUME Base, OpenCircuits \/ CircuitsOpened
    PROVE  Base'
<1>1. /\ TypeOK /\ committed <= batch /\ batch <= nextO
      /\ UNCHANGED <<incoming, closedKeys, outHtlc, committed, openedKeys, answer,
                   acked, mail, reply, forwarding, step, quit, linkI, offer, replay,
                   removing, deleting, removed, trimmed, again, torn>>
  BY DEF Base, OpenCircuits, CircuitsOpened, Indices, disk, mailO, varsF, varsI, history
<1>2. \A i \in batch .. nextO - 1 :
          /\ i \in Index /\ i \in committed .. nextO - 1
          /\ local[i] \in HTLC /\ local[i] \in ToSet(mail) /\ incoming[local[i]] # "none"
          /\ \A j \in batch .. nextO - 1 : local[i] = local[j] => i = j
  <2>1. \A i \in batch .. nextO - 1 : i \in Index /\ i \in committed .. nextO - 1
    BY <1>1, Types DEF Index
  <2> QED
    BY <1>1, <2>1, Types DEF Base, InLog, Known
<1>3. CASE OpenCircuits /\ db' = PutKeystones(db, Keystones)
          /\ linkO = "up" /\ stepO = "idle" /\ batch < nextO /\ stepO' = "opening"
          /\ UNCHANGED <<cm, linkO, taken, local, nextO, batch, toRoute>>
  <2>1. /\ db' \in Buckets /\ db'.adds = db.adds /\ db'.keystones \in [Index -> HTLC \cup {None}]
        /\ \A i \in Index : db'.keystones[i] =
               IF i \in batch .. nextO - 1 THEN local[i] ELSE db.keystones[i]
    BY <1>1, <1>3, Types DEF PutKeystones, Keystones, Buckets
  <2>2. TypeOK'
    BY <1>1, <1>3, <2>1, Types DEF TypeOK
  <2>3. Known'
    BY <1>1, <1>2, <1>3, <2>1 DEF Base, Known
  <2>4. Indices' /\ Delivered'
    BY <1>1, <1>3 DEF Base, Indices, Delivered, Carried
  <2> QED
    BY <1>1, <1>3, <2>1, <2>2, <2>3, <2>4, BaseFrames DEF Base
<1>4. CASE EndO /\ linkO = "up" /\ stepO = "idle" /\ UNCHANGED <<cm, db>>
  BY <1>1, <1>4, EndOBase
<1>5. CASE /\ stepO = "opening" /\ cm' = SetKeystones(cm, Keystones)
           /\ batch' = nextO /\ stepO' = "idle"
           /\ UNCHANGED <<db, taken, toRoute, linkO, local, nextO>>
  <2> DEFINE ks == Keystones
             opens(h) == IF \E i \in DOMAIN ks : ks[i] = h
                       THEN CHOOSE i \in DOMAIN ks :
                                ks[i] = h /\ \A j \in DOMAIN ks : ks[j] = h => j <= i
                       ELSE cm.outgoing[h]
             open(i) == IF i \in DOMAIN ks THEN ks[i] ELSE cm.opened[i]
  <2>1. DOMAIN ks = batch .. nextO - 1 /\ \A i \in batch .. nextO - 1 : ks[i] = local[i]
    BY DEF Keystones
  <2>2. cm' = [pending |-> cm.pending, outgoing |-> [h \in HTLC |-> opens(h)],
               opened |-> [i \in Index |-> open(i)], closed |-> cm.closed]
    <3> HIDE DEF ks
    <3> QED
      BY <1>1, <1>5, Types DEF SetKeystones, ks
  <2>3. ASSUME NEW h \in HTLC PROVE opens(h) \in Index \cup {None}
    <3> HIDE DEF ks
    <3>1. CASE \E i \in DOMAIN ks : ks[i] = h
      <4>1. PICK i \in DOMAIN ks : ks[i] = h
        BY <3>1
      <4>2. \A j \in DOMAIN ks : ks[j] = h => j = i /\ j <= i /\ j \in Index
        BY <1>1, <1>2, <2>1, <4>1, Types DEF Index
      <4> QED
        BY <4>1, <4>2
    <3>2. CASE ~ \E i \in DOMAIN ks : ks[i] = h
      BY <1>1, <3>2, Types
    <3> QED
      BY <3>1, <3>2
  <2>4. \A i \in Index : /\ open(i) \in HTLC \cup {None}
                         /\ open(i) # None => open(i) = cm.opened[i] \/ incoming[open(i)] # "none"
    BY <1>1, <1>2, <2>1, Types
  <2> HIDE DEF ks, opens, open
  <2>5. cm' \in CircuitMaps /\ UNCHANGED cm.pending
    BY <1>1, <2>2, <2>3, <2>4, Types DEF CircuitMaps
  <2>6. TypeOK'
    BY <1>1, <1>5, <2>5, Types DEF TypeOK
  <2>7. Known'
    BY <1>1, <1>5, <2>2, <2>4, NotNone DEF Base, Known
  <2>8. Indices' /\ Delivered'
    BY <1>1, <1>5, Types DEF Base, Indices, Delivered, Carried
  <2> QED
    BY <1>1, <1>5, <2>5, <2>6, <2>7, <2>8, BaseFrames DEF Base
<1> QED
  BY <1>1, <1>3, <1>4, <1>5 DEF OpenCircuits, CircuitsOpened, IdleO, mailO, varsF, varsI

\* A batch is committed: these HTLCs were not.
LEMMA SignNextCommitmentBase ==
    ASSUME Base, SignNextCommitment
    PROVE  Base'
<1>1. /\ TypeOK /\ linkO = "up" /\ stepO = "idle" /\ batch = nextO /\ committed < nextO
      /\ committed' = nextO /\ stepO' = "signed"
      /\ outHtlc' = [i \in Index |-> IF i \in committed .. nextO - 1 THEN local[i] ELSE outHtlc[i]]
      /\ openedKeys' = {local[i] : i \in committed .. nextO - 1}
      /\ UNCHANGED <<incoming, closedKeys, answer, acked, db, cm, mail, taken, reply,
                   toRoute, forwarding, step, quit, linkI, offer, replay, removing,
                   deleting, removed, linkO, local, nextO, batch, trimmed, again, torn>>
  BY DEF Base, SignNextCommitment, IdleO, mailO, varsF, varsI, history
<1>2. \A i \in committed .. nextO - 1 :
         /\ i \in Index /\ local[i] \in HTLC /\ local[i] \in taken /\ local[i] \in ToSet(mail)
         /\ outHtlc'[i] = local[i] /\ local[i] \in openedKeys' /\ incoming[local[i]] # "none"
         /\ \A j \in committed .. nextO - 1 : local[i] = local[j] => i = j
  <2>1. \A i \in committed .. nextO - 1 : i \in Index
    BY <1>1, Types DEF Index
  <2> QED
    BY <1>1, <2>1, Types DEF Base, InLog, Known
<1>3. \A i \in Index : i \in committed .. nextO - 1 \/ outHtlc'[i] = outHtlc[i]
  BY <1>1
<1>4. \A h \in ToSet(mail) \ again : ~ Carried(h)
  BY <1>1 DEF Base, Delivered
<1>5. \A h \in HTLC : Carried(h)' => Carried(h) \/ (h \in openedKeys' /\ h \in taken /\ h \in ToSet(mail))
  <2> SUFFICES ASSUME NEW h \in HTLC, NEW i \in Index, outHtlc'[i] = h
               PROVE  Carried(h) \/ (h \in openedKeys' /\ h \in taken /\ h \in ToSet(mail))
    BY <1>1 DEF Carried
  <2> QED
    BY <1>2, <1>3 DEF Carried
<1>6. TypeOK'
  <2>1. openedKeys' \subseteq HTLC
    BY <1>1, <1>2
  <2>2. \A i \in Index :
           (IF i \in committed .. nextO - 1 THEN local[i] ELSE outHtlc[i]) \in HTLC \cup {None}
    BY <1>1, Types
  <2>3. outHtlc' \in [Index -> HTLC \cup {None}]
    BY <1>1, <2>2
  <2> QED
    BY <1>1, <2>1, <2>3, Types DEF TypeOK
<1>7. Known'
  BY <1>1, <1>2, <1>3 DEF Base, Known
<1>8. Indices' /\ InLog'
  BY <1>1, Types DEF Base, Indices, InLog
<1>9. AddsKept'
  BY <1>1, <1>5 DEF Base, AddsKept, Locked
<1>10. Handled'
  BY <1>1, <1>5, Types DEF Base, Handled
<1>11. Delivered'
  BY <1>1, <1>4, <1>5, Types DEF Delivered
<1>12. CarriedOnce'
  <2> SUFFICES ASSUME NEW i \in Index, NEW j \in Index, outHtlc'[i] = outHtlc'[j],
                      outHtlc'[i] \in HTLC \ again
               PROVE  i = j
    BY <1>1 DEF CarriedOnce
  <2>1. CASE i \in committed .. nextO - 1 /\ j \in committed .. nextO - 1
    BY <1>2, <2>1
  <2>2. CASE i \in committed .. nextO - 1 /\ outHtlc'[j] = outHtlc[j]
    BY <1>2, <1>4, <2>2 DEF Carried
  <2>3. CASE outHtlc'[i] = outHtlc[i] /\ j \in committed .. nextO - 1
    BY <1>2, <1>4, <2>3 DEF Carried
  <2>4. CASE outHtlc'[i] = outHtlc[i] /\ outHtlc'[j] = outHtlc[j]
    BY <2>4 DEF Base, CarriedOnce
  <2> QED
    BY <1>3, <2>1, <2>2, <2>3, <2>4
<1> QED
  BY <1>1, <1>6, <1>7, <1>8, <1>9, <1>10, <1>11, <1>12, BaseFrames DEF Base

\* They leave the mailbox.
LEMMA AckAddsBase ==
    ASSUME Base, AckAdds
    PROVE  Base'
<1>1. /\ TypeOK /\ stepO = "signed" /\ stepO' = "idle" /\ nextO = committed /\ linkO = "up"
      /\ committed <= batch /\ batch <= nextO
      /\ mail' \in Seq(HTLC) /\ ToSet(mail') = ToSet(mail) \ openedKeys
      /\ taken' = taken \ openedKeys
      /\ UNCHANGED <<incoming, closedKeys, outHtlc, committed, openedKeys, answer,
                   acked, db, cm, reply, toRoute, forwarding, step, quit, linkI, offer,
                   replay, removing, deleting, removed, linkO, local, nextO, batch,
                   trimmed, again, torn>>
  <2>1. stepO = "signed" /\ nextO = committed /\ linkO = "up" /\ committed <= batch /\ batch <= nextO
    BY DEF Base, AckAdds, Indices
  <2> QED
    BY <2>1, WithoutEffect, Types DEF Base, AckAdds, AckMail, disk, varsF, varsI, history
<1>2. TypeOK'
  BY <1>1, Types DEF TypeOK
<1>3. Known' /\ AddsKept' /\ Handled' /\ Delivered'
  BY <1>1 DEF Base, Known, AddsKept, Handled, Delivered, Locked, Carried
<1>4. Indices' /\ InLog'
  BY <1>1, Types DEF Base, Indices, InLog
<1> QED
  BY <1>1, <1>2, <1>3, <1>4, BaseFrames DEF Base

\* An HTLC is answered.
LEMMA AnswerBase ==
    ASSUME Base, NEW i \in Index, NEW kind \in {"settle", "fail"}, Answer(i, kind)
    PROVE  Base'
<1>1. /\ TypeOK /\ stepO = "idle"
      /\ answer' = [answer EXCEPT ![i] = kind] /\ openedKeys' \subseteq openedKeys
      /\ toRoute' = toRoute \cup {i}
      /\ UNCHANGED <<incoming, closedKeys, outHtlc, committed, acked, db, cm, mail,
                   taken, reply, forwarding, step, quit, linkI, offer, replay, removing,
                   deleting, removed, linkO, stepO, local, nextO, batch, trimmed, again,
                   torn>>
  BY DEF Base, Answer, IdleO, mailO, varsF, varsI, varsO, history
<1>2. TypeOK'
  BY <1>1, Types DEF TypeOK
<1>3. Answered' /\ Delivered'
  BY <1>1, Types DEF Base, Answered, Delivered, Carried
<1> QED
  BY <1>1, <1>2, <1>3, BaseFrames DEF Base

\* The answer finds a circuit, or not.
LEMMA RouteAnswerBase ==
    ASSUME Base, NEW i \in Index, RouteAnswer(i)
    PROVE  Base'
<1>1. /\ TypeOK /\ i \in toRoute /\ answer[i] # "none" /\ toRoute' = toRoute \ {i}
      /\ UNCHANGED <<incoming, closedKeys, outHtlc, committed, openedKeys, answer, db,
                   mail, taken, forwarding, step, quit, linkI, offer, replay, removing,
                   deleting, removed, linkO, stepO, local, nextO, batch, trimmed, again,
                   torn>>
  BY DEF Base, Answered, RouteAnswer, mailO, varsF, varsI, varsO, history
<1>2. CASE /\ CanClose(cm, i) /\ cm' = MarkClosed(cm, cm.opened[i])
           /\ AddReply(cm.opened[i], [kind |-> answer[i], dest |-> i])
           /\ UNCHANGED acked
  <2> DEFINE h == cm.opened[i]
             r == [kind |-> answer[i], dest |-> i]
  <2>1. h \in HTLC /\ incoming[h] # "none"
    BY <1>1, <1>2, Types DEF CanClose, Base, Known
  <2>2. /\ UNCHANGED <<cm.pending, cm.opened>> /\ cm' \in CircuitMaps
    <3>1. cm' = [cm EXCEPT !.closed = cm.closed \cup {h}]
      BY <1>2 DEF MarkClosed
    <3> HIDE DEF h
    <3> QED
      BY <1>1, <2>1, <3>1, Types DEF CircuitMaps
  <2>3. r \in Replies /\ reply' = [reply EXCEPT ![h] = IF reply[h] = None THEN r ELSE reply[h]]
    BY <1>1, <1>2, <2>1, Types DEF Replies, AddReply
  <2> HIDE DEF h, r
  <2>4. TypeOK'
    BY <1>1, <1>2, <2>1, <2>2, <2>3, Types DEF TypeOK
  <2>5. Known' /\ Answered' /\ AddsKept' /\ Removing'
    BY <1>1, <2>1, <2>2, <2>3, Types DEF Base, Known, Answered, AddsKept, Removing, Locked,
      Carried
  <2> QED
    BY <1>1, <2>4, <2>5, BaseFrames DEF Base
<1>3. CASE acked' \subseteq acked \cup {i} /\ UNCHANGED <<cm, reply>>
  <2>1. TypeOK'
    BY <1>1, <1>3, Types DEF TypeOK
  <2>2. Answered'
    BY <1>1 DEF Base, Answered
  <2> QED
    BY <1>1, <1>3, <2>1, <2>2, BaseFrames DEF Base
<1> QED
  BY <1>2, <1>3 DEF RouteAnswer

\* A response is for an HTLC of I that was locked in.
LEMMA DownstreamResponseBase ==
    ASSUME Base, NEW h \in HTLC, DownstreamResponse(h)
    PROVE  Base'
<1>1. /\ TypeOK /\ linkI = "up" /\ removed = {}
      /\ reply[h] # None /\ reply[h] \in Replies /\ incoming[h] # "none"
      /\ UNCHANGED <<incoming, closedKeys, outHtlc, committed, openedKeys, answer, db,
                   cm, mail, taken, toRoute, forwarding, step, quit, offer, replay,
                   removed, linkO, stepO, local, nextO, batch, trimmed, again, torn>>
  BY Types DEF Base, Known, Removing, DownstreamResponse, Free, mailO, varsF, varsO,
     history
<1>2. CASE /\ incoming[h] = "locked" /\ removing' = removing \cup {h}
           /\ UNCHANGED <<acked, reply, linkI, deleting>>
  <2>1. TypeOK' /\ Removing'
    BY <1>1, <1>2, Types DEF Base, TypeOK, Removing, Locked
  <2> QED
    BY <1>1, <1>2, <2>1, BaseFrames DEF Base
<1>3. CASE /\ incoming[h] # "locked" /\ acked' = acked \cup ({reply[h].dest} \ {None})
           /\ linkI' = "delete" /\ deleting' = {h} /\ UNCHANGED <<reply, removing>>
  <2>1. TypeOK' /\ Removing'
    BY <1>1, <1>3, Types DEF Base, TypeOK, Replies, Removing, Locked
  <2>2. GoneKeys'
    BY <1>1, <1>3, Types DEF Base, GoneKeys, Gone
  <2> QED
    BY <1>1, <1>3, <2>1, <2>2, BaseFrames DEF Base
<1>4. CASE /\ incoming[h] # "locked" /\ reply' = [reply EXCEPT ![h] = None]
           /\ UNCHANGED <<acked, removing, linkI, deleting>>
  <2>1. TypeOK' /\ Removing'
    BY <1>1, <1>4, Types DEF Base, TypeOK, Removing, Locked
  <2>2. Known'
    BY <1>1, <1>4, Types DEF Base, Known
  <2> QED
    BY <1>1, <1>4, <2>1, <2>2, BaseFrames DEF Base
<1> QED
  BY <1>1, <1>2, <1>3, <1>4 DEF DownstreamResponse, StartDelete, Free

\* What is removed from I is gone.
LEMMA SignRemovalBase ==
    ASSUME Base, SignRemoval
    PROVE  Base'
<1>1. /\ TypeOK /\ linkI = "up" /\ removed = {}
      /\ incoming' = [h \in HTLC |-> IF h \notin removing THEN incoming[h]
                                     ELSE IF reply[h].kind = "settle" THEN "settled" ELSE "failed"]
      /\ acked' = acked \cup ({reply[h].dest : h \in removing} \ {None})
      /\ closedKeys' = removing /\ removing' = {} /\ linkI' = "delete" /\ deleting' = removing
      /\ UNCHANGED <<outHtlc, committed, openedKeys, answer, db, cm, mail, taken, reply,
                   toRoute, forwarding, step, quit, offer, replay, removed, linkO, stepO,
                   local, nextO, batch, trimmed, again, torn>>
  BY DEF Base, Removing, SignRemoval, Free, StartDelete, mailO, varsF, varsO, history
<1>2. /\ \A h \in HTLC : h \notin removing => incoming'[h] = incoming[h]
      /\ \A h \in removing : h \in HTLC /\ incoming'[h] \in {"settled", "failed"}
      /\ \A h \in removing : reply[h] \in Replies
  BY <1>1, Types DEF Base, Removing
<1>3. TypeOK'
  BY <1>1, <1>2, Types DEF TypeOK, Replies
<1>4. Known' /\ Removing'
  BY <1>1, <1>2 DEF Base, Known, Removing
<1>5. GoneKeys'
  BY <1>1, <1>2 DEF GoneKeys, Gone
<1>6. AddsKept'
  BY <1>1, <1>2 DEF Base, AddsKept, Locked, Carried
<1> QED
  BY <1>1, <1>3, <1>4, <1>5, <1>6, BaseFrames DEF Base

\* Circuits of removed HTLCs are deleted in memory.
LEMMA DeleteCircuitsBase ==
    ASSUME Base, DeleteCircuits
    PROVE  Base'
<1> DEFINE S == Found(cm, deleting)
<1>1. /\ TypeOK /\ linkI = "delete" /\ linkI' = "deleted" /\ removed' = S
      /\ cm' = DeletePending(cm, S) /\ torn' \in BOOLEAN
      /\ UNCHANGED <<incoming, closedKeys, outHtlc, committed, openedKeys, answer,
                   acked, db, mail, taken, reply, toRoute, forwarding, step, quit, offer,
                   replay, removing, deleting, linkO, stepO, local, nextO, batch,
                   trimmed, again>>
  BY DEF Base, DeleteCircuits, disk, mailO, varsF, varsO
<1>2. S \subseteq HTLC /\ S \subseteq deleting /\ \A h \in S : ~ Locked(h)
  BY <1>1, Types DEF Found, Base, GoneKeys, Gone, Locked
<1>3. /\ cm' \in CircuitMaps
      /\ \A h \in HTLC : cm'.pending[h] = IF h \in S THEN "none" ELSE cm.pending[h]
      /\ \A i \in Index : cm'.opened[i] \in {None, cm.opened[i]}
  <2> HIDE DEF S
  <2> QED
    BY <1>1, Types DEF DeletePending, CircuitMaps
<1> HIDE DEF S
<1>4. TypeOK'
  BY <1>1, <1>2, <1>3, Types DEF TypeOK
<1>5. Known' /\ Removing'
  BY <1>1, <1>3, NotNone DEF Base, Known, Removing, Locked
<1>6. AddsKept'
  BY <1>1, <1>2, <1>3 DEF Base, AddsKept, Locked, Carried
<1> QED
  BY <1>1, <1>4, <1>5, <1>6, BaseFrames DEF Base

\* They are deleted on disk.
LEMMA CircuitsDeletedBase ==
    ASSUME Base, CircuitsDeleted
    PROVE  Base'
<1> DEFINE K == KeystonesOf(cm, removed)
<1>1. /\ TypeOK /\ linkI = "deleted" /\ linkI' = "up" /\ deleting' = {} /\ removed' = {}
      /\ db' = DeleteBuckets(cm, db, removed) /\ cm' = ForgetDeleted(cm, removed)
      /\ reply' = [h \in HTLC |-> IF h \in deleting THEN None ELSE reply[h]]
      /\ closedKeys' \subseteq closedKeys
      /\ UNCHANGED <<incoming, outHtlc, committed, openedKeys, answer, acked, mail,
                   taken, toRoute, forwarding, step, quit, offer, replay, removing,
                   linkO, stepO, local, nextO, batch, trimmed, again, torn>>
  BY DEF Base, CircuitsDeleted, mailO, varsF, varsO, history
<1>2. removed \subseteq deleting /\ deleting \subseteq HTLC /\ \A h \in deleting : ~ Locked(h)
  BY <1>1, Types DEF Base, GoneKeys, Gone, Locked
<1>3. UNCHANGED <<cm.pending, cm.opened>> /\ cm' \in CircuitMaps
  BY <1>1, Types DEF ForgetDeleted, CircuitMaps
<1>4. /\ db'.adds = db.adds \ removed /\ db' \in Buckets
      /\ \A i \in Index : db'.keystones[i] \in {None, db.keystones[i]}
  <2> HIDE DEF K
  <2> QED
    BY <1>1, Types DEF DeleteBuckets, Buckets, K
<1>5. TypeOK'
  BY <1>1, <1>2, <1>3, <1>4, Types DEF TypeOK
<1>6. Known'
  BY <1>1, <1>3, <1>4, Types, NotNone DEF Base, Known
<1>7. Removing' /\ GoneKeys'
  BY <1>1, <1>2, Types DEF Base, Removing, GoneKeys, Locked, Gone
<1>8. AddsKept'
  BY <1>1, <1>2, <1>3, <1>4 DEF Base, AddsKept, Locked, Carried
<1> QED
  BY <1>1, <1>3, <1>5, <1>6, <1>7, <1>8, BaseFrames DEF Base

\* Link I forgets what it offers, and replays what is not removed.
LEMMA FlapIBase ==
    ASSUME Base, StopI \/ StartI
    PROVE  Base'
<1>1. /\ TypeOK /\ removed = {}
      /\ UNCHANGED <<incoming, closedKeys, outHtlc, committed, openedKeys, answer,
                   acked, db, cm, mail, taken, reply, toRoute, forwarding, step,
                   removed, linkO, stepO, local, nextO, batch, trimmed, again, torn>>
  BY DEF Base, Removing, StopI, StartI, disk, mailO, varsF, varsO, history
<1>2. CASE StopI
  <2>1. /\ linkI' = "down" /\ offer' = None /\ replay' = {} /\ removing' = {}
        /\ quit' \in BOOLEAN /\ UNCHANGED deleting
    BY <1>2 DEF StopI
  <2>2. TypeOK'
    BY <1>1, <2>1, Types DEF TypeOK
  <2>3. Known' /\ Removing'
    BY <1>1, <2>1, NotNone DEF Base, Known, Removing
  <2> QED
    BY <1>1, <2>1, <2>2, <2>3, BaseFrames DEF Base
<1>3. CASE StartI
  <2>1. /\ linkI' = "delete" /\ deleting' = closedKeys
        /\ replay' = {h \in HTLC : incoming[h] = "locked"}
        /\ UNCHANGED <<offer, removing, quit>>
    BY <1>3 DEF StartI, StartDelete, varsF
  <2>2. TypeOK'
    BY <1>1, <2>1, Types DEF TypeOK
  <2>3. Known' /\ GoneKeys' /\ Removing'
    BY <1>1, <2>1 DEF Base, Known, GoneKeys, Gone, Removing, Locked
  <2> QED
    BY <1>1, <2>2, <2>3, BaseFrames DEF Base
<1> QED
  BY <1>2, <1>3

\* Link O stops.
LEMMA StopOBase ==
    ASSUME Base, StopO
    PROVE  Base'
<1>1. /\ EndO /\ stepO = "idle" /\ linkO \in {"sync", "up"}
      /\ UNCHANGED <<incoming, closedKeys, outHtlc, committed, openedKeys, answer,
                   acked, db, cm, mail, reply, forwarding, step, quit, linkI, offer,
                   replay, removing, deleting, removed, trimmed, again, torn>>
  BY DEF StopO, disk, varsF, varsI, history
<1> QED
  BY <1>1, EndOBase

\* Keystones are trimmed, in memory and on disk.
LEMMA TrimBase ==
    ASSUME Base, StartO \/ TrimKeystones
    PROVE  Base'
<1>1. /\ TypeOK /\ linkO # "up" /\ linkO' \in {"trimmed", "sync"} /\ linkO' # "up"
      /\ UNCHANGED <<incoming, closedKeys, outHtlc, committed, openedKeys, answer,
                   acked, mail, taken, reply, toRoute, forwarding, step, quit, linkI,
                   offer, replay, removing, deleting, removed, stepO, local, nextO,
                   batch, again, torn>>
  BY DEF Base, StartO, TrimKeystones, disk, mailO, varsF, varsI, history
<1>2. Indices'
  BY <1>1 DEF Base, Indices
<1>3. CASE StartO
  <2> DEFINE T == Trimmed(cm, committed)
  <2>1. cm' = TrimMap(cm, T) /\ trimmed' = T /\ UNCHANGED db /\ T \subseteq Index
    BY <1>3 DEF StartO, Trimmed
  <2>2. /\ UNCHANGED cm.pending /\ cm' \in CircuitMaps
        /\ \A i \in Index : cm'.opened[i] \in {None, cm.opened[i]}
    <3> HIDE DEF T
    <3> QED
      BY <1>1, <2>1, Types DEF TrimMap, CircuitMaps
  <2> HIDE DEF T
  <2>3. TypeOK'
    BY <1>1, <2>1, <2>2, Types DEF TypeOK
  <2>4. Known'
    BY <1>1, <2>1, <2>2, NotNone DEF Base, Known
  <2> QED
    BY <1>1, <1>2, <2>1, <2>2, <2>3, <2>4, BaseFrames DEF Base
<1>4. CASE TrimKeystones
  <2>1. db' = DeleteKeystones(db, trimmed) /\ trimmed' = {} /\ UNCHANGED cm
    BY <1>4 DEF TrimKeystones
  <2>2. /\ db'.adds = db.adds /\ db' \in Buckets
        /\ \A i \in Index : db'.keystones[i] \in {None, db.keystones[i]}
    BY <1>1, <2>1, Types DEF DeleteKeystones, Buckets
  <2>3. TypeOK'
    BY <1>1, <2>1, <2>2, Types DEF TypeOK
  <2>4. Known'
    BY <1>1, <2>1, <2>2, NotNone DEF Base, Known
  <2> QED
    BY <1>1, <1>2, <2>1, <2>2, <2>3, <2>4, BaseFrames DEF Base
<1> QED
  BY <1>3, <1>4

\* Link O starts: the mailbox over, answers again.
LEMMA SyncOBase ==
    ASSUME Base, SyncO
    PROVE  Base'
<1>1. /\ TypeOK /\ linkO = "sync" /\ linkO' = "up" /\ stepO = "idle" /\ nextO = committed
      /\ openedKeys' \in {openedKeys, {}} /\ taken' = {} /\ toRoute' = toRoute \cup Unacked
      /\ UNCHANGED <<incoming, closedKeys, outHtlc, committed, answer, acked, db, cm,
                   reply, forwarding, step, quit, linkI, offer, replay, removing,
                   deleting, removed, stepO, local, nextO, batch, trimmed, again, torn>>
  BY DEF Base, Indices, SyncO, varsF, varsI, history
<1>2. mail' \in Seq(HTLC) /\ ToSet(mail') = ToSet(mail) \ openedKeys'
  BY <1>1, WithoutEffect, Types DEF SyncO
<1>3. Unacked \subseteq Index /\ \A i \in Unacked : answer[i] # "none"
  BY DEF Unacked
<1>4. TypeOK'
  BY <1>1, <1>2, <1>3, Types DEF TypeOK
<1>5. Known' /\ Answered' /\ Handled' /\ AddsKept' /\ Delivered'
  BY <1>1, <1>2, <1>3 DEF Base, Known, Answered, Handled, AddsKept, Delivered, Locked,
     Carried
<1>6. Indices' /\ InLog'
  BY <1>1, Types DEF Base, Indices, InLog
<1> QED
  BY <1>1, <1>4, <1>5, <1>6, BaseFrames DEF Base

\* What is on disk makes a circuit map.
LEMMA RestartBase ==
    ASSUME Base, Restart
    PROVE  Base'
<1> DEFINE r == RestoreMemState(db)
           T == Trimmed(r, committed)
           keys(h) == {i \in Index : db.keystones[i] = h}
<1>1. /\ TypeOK /\ cm' = TrimMap(r, T) /\ db' = DeleteKeystones(db, T)
      /\ mail' = <<>> /\ taken' = {} /\ reply' = [h \in HTLC |-> None]
      /\ toRoute' = Unacked /\ forwarding' = None /\ step' = "commit" /\ quit' = FALSE
      /\ linkI' = "down" /\ offer' = None /\ replay' = {} /\ removing' = {} /\ deleting' = {}
      /\ removed' = {} /\ linkO' = "down" /\ stepO' = "idle" /\ trimmed' = {}
      /\ local' = [i \in Index |-> None] /\ nextO' = committed /\ batch' = committed
      /\ UNCHANGED <<incoming, closedKeys, outHtlc, committed, openedKeys, answer, acked,
                   again, torn>>
  BY DEF Base, Restart, disk, history
<1>2. /\ mail' \in Seq(HTLC) /\ ToSet(mail') = {}
      /\ Unacked \subseteq Index /\ \A i \in Unacked : answer[i] # "none"
  BY <1>1 DEF ToSet, Unacked
<1>3. /\ r.pending = [h \in HTLC |-> IF h \in db.adds THEN "loaded" ELSE "none"]
      /\ r.opened = [i \in Index |-> IF db.keystones[i] \in db.adds THEN db.keystones[i] ELSE None]
      /\ r.outgoing = [h \in HTLC |->
             IF h \in db.adds /\ keys(h) # {} THEN Max(keys(h)) ELSE None]
      /\ r = [pending |-> r.pending, outgoing |-> r.outgoing, opened |-> r.opened, closed |-> r.closed]
      /\ r.closed = {}
  BY DEF RestoreMemState
<1>4. \A h \in HTLC : keys(h) # {} => Max(keys(h)) \in Index
  <2> SUFFICES ASSUME NEW h \in HTLC, keys(h) # {}
               PROVE  Max(keys(h)) \in Index
    OBVIOUS
  <2> DEFINE D == {MaxIndex - n : n \in keys(h)}
  <2>1. keys(h) \subseteq Index /\ D \in SUBSET Nat /\ D # {}
    BY MaxIndexAssumption DEF Index
  <2>2. PICK d \in D : \A e \in D : d <= e
    BY <2>1, SmallestNat
  <2>3. PICK m \in keys(h) : \A n \in keys(h) : n <= m
    <3>1. PICK m \in keys(h) : d = MaxIndex - m
      BY <2>2
    <3>2. \A n \in keys(h) : n \in Int /\ d <= MaxIndex - n
      BY <2>1, <2>2, MaxIndexAssumption DEF Index
    <3> HIDE DEF keys, D
    <3> QED
      BY <3>1, <3>2, MaxIndexAssumption
  <2> HIDE DEF keys, D
  <2>4. Max(keys(h)) \in keys(h)
    BY <2>3 DEF Max
  <2> QED
    BY <2>1, <2>4
<1>5. r \in CircuitMaps
  <2>1. r.outgoing \in [HTLC -> Index \cup {None}]
    <3> HIDE DEF keys, r
    <3> QED
      BY <1>3, <1>4
  <2>2. r.pending \in [HTLC -> {"none", "new", "loaded"}] /\ r.opened \in [Index -> HTLC \cup {None}]
    <3> HIDE DEF r
    <3> QED
      BY <1>1, <1>3, Types
  <2> HIDE DEF r
  <2> QED
    BY <1>3, <2>1, <2>2 DEF CircuitMaps
<1> HIDE DEF r, keys
<1>6. T \subseteq Index
  BY DEF Trimmed
<1> HIDE DEF T
<1>7. /\ cm' \in CircuitMaps /\ cm'.pending = r.pending
      /\ \A i \in Index : cm'.opened[i] \in {None, r.opened[i]}
  <2>1. /\ r.outgoing \in [HTLC -> Index \cup {None}] /\ r.pending \in [HTLC -> {"none", "new", "loaded"}]
        /\ r.opened \in [Index -> HTLC \cup {None}]
    BY <1>5 DEF CircuitMaps
  <2>2. cm' = [pending |-> r.pending,
               outgoing |-> [h \in HTLC |-> IF \E i \in T : r.opened[i] = h THEN None ELSE r.outgoing[h]],
               opened |-> [i \in Index |-> IF i \in T THEN None ELSE r.opened[i]],
               closed |-> {}]
    BY <1>1, <1>3 DEF TrimMap
  <2> QED
    BY <2>1, <2>2 DEF CircuitMaps
<1>8. /\ db'.adds = db.adds /\ db' \in Buckets
      /\ \A i \in Index : db'.keystones[i] \in {None, db.keystones[i]}
  BY <1>1, Types DEF DeleteKeystones, Buckets
<1>9. TypeOK'
  BY <1>1, <1>2, <1>7, <1>8, Types DEF TypeOK
<1>10. Known'
  <2>1. \A i \in Index : cm'.opened[i] \in {None, db.keystones[i]}
    BY <1>3, <1>7
  <2> QED
    BY <1>1, <1>2, <1>8, <2>1, NotNone DEF Base, Known
<1>11. Answered' /\ GoneKeys' /\ Removing' /\ Handled' /\ Delivered'
  BY <1>1, <1>2 DEF Base, Answered, GoneKeys, Gone, Removing, Handled, Delivered
<1>12. Indices' /\ InLog'
  BY <1>1, Types DEF Indices, InLog
<1>13. AddsKept'
  BY <1>1, <1>2, <1>3, <1>7, <1>8, NotNone DEF Base, AddsKept, Locked, Carried
<1>14. CarriedOnce'
  BY <1>1, BaseFrames
<1> QED
  BY <1>9, <1>10, <1>11, <1>12, <1>13, <1>14 DEF Base

\* Initially both channels, the mailbox and the circuit map are empty.
LEMMA InitBase ==
    ASSUME Init
    PROVE  Base
<1>1. TypeOK
  <2>1. EmptyMap \in CircuitMaps /\ EmptyBuckets \in Buckets
    BY DEF EmptyMap, EmptyBuckets, CircuitMaps, Buckets
  <2>2. ToSet(<<>>) = {} /\ <<>> \in Seq(HTLC)
    BY DEF ToSet
  <2>3. /\ committed \in 0 .. MaxIndex /\ nextO \in 0 .. MaxIndex
        /\ batch \in committed .. nextO \cup {committed}
    BY MaxIndexAssumption DEF Init
  <2>4. /\ incoming \in [HTLC -> {"none", "locked", "failed", "settled"}]
        /\ outHtlc \in [Index -> HTLC \cup {None}]
        /\ answer \in [Index -> {"none", "settle", "fail"}]
        /\ local \in [Index -> HTLC \cup {None}]
        /\ reply \in [HTLC -> Replies \cup {None}]
    BY DEF Init
  <2>5. mail \in Seq(HTLC) /\ taken \subseteq ToSet(mail)
    BY <2>2 DEF Init
  <2>6. db \in Buckets /\ cm \in CircuitMaps
    BY <2>1 DEF Init
  <2>7. /\ acked \subseteq Index /\ toRoute \subseteq Index
        /\ closedKeys \subseteq HTLC /\ openedKeys \subseteq HTLC
        /\ replay \subseteq HTLC /\ removing \subseteq HTLC
        /\ deleting \subseteq HTLC /\ removed \subseteq deleting
        /\ trimmed \subseteq Index
    BY DEF Init
  <2>8. /\ linkI \in {"down", "up", "delete", "deleted"}
        /\ forwarding \in HTLC \cup {None} /\ step \in {"commit", "write", "route"}
        /\ quit \in BOOLEAN /\ offer \in HTLC \cup {None}
        /\ linkO \in {"down", "trimmed", "sync", "up"}
        /\ stepO \in {"idle", "opening", "signed"}
        /\ again \subseteq HTLC /\ torn \in BOOLEAN
    BY DEF Init
  <2> QED
    BY <2>3, <2>4, <2>5, <2>6, <2>7, <2>8 DEF TypeOK
<1>2. ToSet(mail) = {} /\ \A i \in Index : outHtlc[i] = None
  BY DEF Init, ToSet
<1>3. /\ \A h \in HTLC : cm.pending[h] = "none" /\ h \notin db.adds
      /\ \A i \in Index : cm.opened[i] = None /\ db.keystones[i] = None
  BY DEF Init, EmptyMap, EmptyBuckets
<1>4. Known /\ AddsKept
  BY <1>2, <1>3, NotNone DEF Init, Known, AddsKept, Locked
<1>5. Answered /\ GoneKeys /\ Removing /\ Handled /\ Delivered /\ CarriedOnce
  BY <1>2, NotNone DEF Init, Answered, GoneKeys, Removing, Handled, Delivered, CarriedOnce
<1>6. Indices /\ InLog
  BY DEF Init, Indices, InLog
<1> QED
  BY <1>1, <1>4, <1>5, <1>6 DEF Base

\* Every step keeps the base: one case for each group of actions of Next.
LEMMA StepBase ==
    ASSUME Base, [Next]_vars
    PROVE  Base'
<1>1. CASE UNCHANGED vars
  <2>1. UNCHANGED <<disk, db, cm, mailO, reply, toRoute, varsF, varsI, varsO, history>>
    BY <1>1 DEF vars
  <2>2. TypeOK'
    BY <2>1 DEF Base, TypeOK, disk, mailO, varsF, varsI, varsO, history
  <2> QED
    BY <2>1, <2>2, BaseFrames DEF Base, disk, mailO, varsF, varsI, varsO, history
<1>2. CASE \E h \in HTLC : LockIn(h) \/ DownstreamAdd(h) \/ Expire(h)
  BY <1>2, LockInBase, DownstreamAddBase
<1>3. CASE ForwardAdd
  BY <1>3, HandOverBase, CommitBase, WriteCircuitBase, RouteBase DEF ForwardAdd
<1>4. CASE CommitO
  BY <1>4, OpenCircuitsBase, SignNextCommitmentBase, AckAddsBase DEF CommitO
<1>5. CASE \E i \in Index :
              RouteAnswer(i) \/ \E kind \in {"settle", "fail"} : Answer(i, kind)
  BY <1>5, RouteAnswerBase, AnswerBase
<1>6. CASE Respond \/ SignRemoval \/ Delete
  BY <1>6, DownstreamResponseBase, SignRemovalBase, DeleteCircuitsBase, CircuitsDeletedBase
     DEF Respond, Delete
<1>7. CASE StopI \/ StartI \/ StopO \/ ConnectO
  BY <1>7, FlapIBase, StopOBase, TrimBase, SyncOBase DEF ConnectO
<1>8. CASE Restart
  BY <1>8, RestartBase
<1> QED
  BY <1>1, <1>2, <1>3, <1>4, <1>5, <1>6, <1>7, <1>8 DEF Next

\* The base is an invariant, without any assumption.
LEMMA BaseInvariant == Spec => []Base
<1>1. Init => Base
  BY InitBase
<1>2. Base /\ [Next]_vars => Base'
  BY StepBase
<1> QED
  BY <1>1, <1>2, PTL DEF Spec
-----------------------------------------------------------------------------
(* What holds as long as nothing is disturbed.                             *)

\* The packets on their way into the switch are of HTLCs that are not removed,
\* but one that waits for its circuit may be; one whose circuit was made has no
\* response and is nowhere else.
Packets ==
    /\ offer # None => Locked(offer)
    /\ \A h \in replay : Locked(h)
    /\ forwarding # None => Locked(forwarding) \/ (step = "commit" /\ Gone(forwarding))
    /\ forwarding # None /\ step # "commit" =>
         /\ cm.pending[forwarding] = "new" /\ reply[forwarding] = None
         /\ forwarding \notin ToSet(mail) /\ ~ Carried(forwarding)
         /\ step = "route" => forwarding \in db.adds

\* A packet in the mailbox of O has no response and is not committed, unless
\* the signature was made just now.
Waiting ==
    \A h \in ToSet(mail) :
        /\ Locked(h) /\ cm.pending[h] = "new" /\ h \in db.adds /\ reply[h] = None
        /\ Carried(h) => stepO = "signed" /\ h \in openedKeys /\ h \in taken

\* Nor is a packet in the local log of O.
LocalLog == \A i \in committed .. nextO - 1 : ~ Carried(local[i])

\* The HTLCs of O have indices in a row, no two carry the same HTLC, and a
\* circuit is open, in memory and on disk, as long as there is one.
Commitment ==
    \A i \in Index :
        /\ outHtlc[i] # None <=> i < committed
        /\ outHtlc[i] # None =>
             /\ incoming[outHtlc[i]] # "none"
             /\ (Locked(outHtlc[i]) \/ cm.pending[outHtlc[i]] # "none") => cm.opened[i] = outHtlc[i]
             /\ outHtlc[i] \in db.adds => db.keystones[i] = outHtlc[i]
             /\ \A j \in Index : outHtlc[i] = outHtlc[j] => i = j

\* What has an answer left the mailbox long ago.
Answers ==
    \A i \in Index :
        /\ answer[i] # "none" => i < committed /\ outHtlc[i] \notin ToSet(mail)
        /\ i \in toRoute => answer[i] # "none"

\* The map in memory and the buckets on disk.
CircuitsKnown ==
    \A h \in HTLC :
        /\ incoming[h] = "none" =>
             cm.pending[h] = "none" /\ h \notin db.adds /\ reply[h] = None
        /\ Locked(h) /\ h \in db.adds => cm.pending[h] # "none"
        /\ cm.pending[h] # "none" =>
             h \in db.adds \/ (forwarding = h /\ step = "write")

\* opened and outgoing are inverse to each other, the keystones of opened are
\* on disk.
CircuitsOpen ==
    \A h \in HTLC : \A i \in Index :
        /\ cm.opened[i] = h =>
             /\ cm.outgoing[h] = i /\ cm.pending[h] # "none"
             /\ db.keystones[i] = h /\ h \in db.adds
        /\ cm.outgoing[h] = i =>
             \/ cm.opened[i] = h
             \/ cm.pending[h] = "none" /\ outHtlc[i] = h

\* A keystone on disk is of a committed HTLC, of one in the mailbox or, while
\* link O is down, of one that has its circuit; those that are not committed
\* have no gap.
KeystonesOnDisk ==
    \A i \in Index : db.keystones[i] # None =>
        /\ i < committed => outHtlc[i] = db.keystones[i]
        /\ i >= committed =>
             \/ db.keystones[i] \in ToSet(mail)
             \/ /\ linkO \in {"down", "trimmed"}
                /\ db.keystones[i] \in db.adds /\ cm.pending[db.keystones[i]] # "none"
        /\ \A j \in Index : db.keystones[j] = db.keystones[i] => i = j
        /\ \A j \in committed .. i : db.keystones[j] # None

OpenedBy == IF stepO = "opening" THEN nextO ELSE batch

\* The keystones that are not committed, through the stages of link O.
Uncommitted ==
    \A i \in Index : i >= committed =>
        /\ linkO = "up" =>
             /\ cm.opened[i] = IF i < batch THEN local[i] ELSE None
             /\ db.keystones[i] = IF i < OpenedBy THEN local[i] ELSE None
        /\ linkO = "down" => cm.opened[i] = db.keystones[i]
        /\ linkO = "trimmed" =>
             cm.opened[i] = None /\ (db.keystones[i] # None => i \in trimmed)
        /\ linkO = "sync" => db.keystones[i] = None

TrimmedOnly ==
    /\ \A i \in trimmed : i >= committed
    /\ linkO # "trimmed" => trimmed = {}

\* A response of the node itself is of an HTLC that O does not have, another
\* one is the answer of the peer of O.
Responses ==
    \A h \in HTLC : reply[h] # None =>
        /\ Locked(h) => cm.pending[h] # "none"
        /\ reply[h].dest = None => reply[h].kind = "fail" /\ ~ Carried(h)
        /\ reply[h].dest # None =>
             outHtlc[reply[h].dest] = h /\ answer[reply[h].dest] = reply[h].kind

\* What is deleted is no more in memory.
Removals == \A h \in removed : cm.pending[h] = "none"

Balance == \A h \in HTLC : Balanced(h)

Inv ==
    /\ Packets /\ Waiting /\ LocalLog /\ Commitment /\ Answers
    /\ CircuitsKnown /\ CircuitsOpen /\ KeystonesOnDisk /\ Uncommitted
    /\ TrimmedOnly /\ Responses /\ Removals
    /\ Balance

\* What every part of the invariant is about.
LEMMA Frames ==
    ASSUME Base, Base', Inv
    PROVE  /\ UNCHANGED <<offer, replay, forwarding, step, incoming,
                        cm.pending, reply, mail, outHtlc, db.adds>>
                => Packets'
           /\ UNCHANGED <<mail, incoming, cm.pending, db.adds, reply,
                        outHtlc, stepO, openedKeys, taken>>
                => Waiting'
           /\ UNCHANGED <<committed, nextO, local, taken, outHtlc>>
                => LocalLog'
           /\ UNCHANGED <<outHtlc, committed, incoming, cm.opened, cm.pending,
                        db.adds, db.keystones>>
                => Commitment'
           /\ UNCHANGED <<answer, committed, outHtlc, mail, toRoute>>
                => Answers'
           /\ UNCHANGED <<incoming, cm.pending, db.adds, reply, forwarding,
                        step>>
                => CircuitsKnown'
           /\ UNCHANGED <<cm.opened, cm.outgoing, cm.pending, db.keystones,
                        db.adds, outHtlc>>
                => CircuitsOpen'
           /\ UNCHANGED <<db.keystones, committed, outHtlc, mail, linkO, db.adds,
                        cm.pending>>
                => KeystonesOnDisk'
           /\ UNCHANGED <<committed, linkO, cm.opened, db.keystones, batch,
                        nextO, stepO, local, trimmed>>
                => Uncommitted'
           /\ UNCHANGED <<trimmed, committed, linkO>>
                => TrimmedOnly'
           /\ UNCHANGED <<reply, incoming, cm.pending, outHtlc, answer>>
                => Responses'
           /\ UNCHANGED <<removing, incoming, reply, closedKeys, deleting,
                        removed, cm.pending, linkI>>
                => Removals'
           /\ UNCHANGED <<incoming, outHtlc, answer>>
                => Balance'
<1>1. ASSUME UNCHANGED <<offer, replay, forwarding, step, incoming,
                        cm.pending, reply, mail, outHtlc, db.adds>>
      PROVE  Packets'
  BY <1>1 DEF Base, Inv, Packets, Gone, Locked, Carried
<1>2. ASSUME UNCHANGED <<mail, incoming, cm.pending, db.adds, reply,
                        outHtlc, stepO, openedKeys, taken>>
      PROVE  Waiting'
  BY <1>2 DEF Base, Inv, Waiting, Locked, Carried
<1>3. ASSUME UNCHANGED <<committed, nextO, local, taken, outHtlc>>
      PROVE  LocalLog'
  BY <1>3 DEF Base, Inv, InLog, LocalLog, Carried
<1>4. ASSUME UNCHANGED <<outHtlc, committed, incoming, cm.opened, cm.pending,
                        db.adds, db.keystones>>
      PROVE  Commitment'
  BY <1>4 DEF Base, Inv, Commitment, Locked
<1>5. ASSUME UNCHANGED <<answer, committed, outHtlc, mail, toRoute>>
      PROVE  Answers'
  BY <1>5 DEF Base, Inv, Answers
<1>6. ASSUME UNCHANGED <<incoming, cm.pending, db.adds, reply, forwarding,
                        step>>
      PROVE  CircuitsKnown'
  BY <1>6 DEF Base, Inv, CircuitsKnown, Locked
<1>7. ASSUME UNCHANGED <<cm.opened, cm.outgoing, cm.pending, db.keystones,
                        db.adds, outHtlc>>
      PROVE  CircuitsOpen'
  BY <1>7 DEF Base, Inv, CircuitsOpen
<1>8. ASSUME UNCHANGED <<db.keystones, committed, outHtlc, mail, linkO, db.adds,
                        cm.pending>>
      PROVE  KeystonesOnDisk'
  BY <1>8 DEF Base, Inv, KeystonesOnDisk
<1>9. ASSUME UNCHANGED <<committed, linkO, cm.opened, db.keystones, batch,
                        nextO, stepO, local, trimmed>>
      PROVE  Uncommitted'
  BY <1>9 DEF Base, Inv, Uncommitted, OpenedBy
<1>10. ASSUME UNCHANGED <<trimmed, committed, linkO>>
      PROVE  TrimmedOnly'
  BY <1>10 DEF Base, Inv, TrimmedOnly
<1>11. ASSUME UNCHANGED <<reply, incoming, cm.pending, outHtlc, answer>>
      PROVE  Responses'
  BY <1>11 DEF Base, Inv, Responses, Locked, Carried
<1>12. ASSUME UNCHANGED <<removing, incoming, reply, closedKeys, deleting,
                        removed, cm.pending, linkI>>
      PROVE  Removals'
  BY <1>12 DEF Base, Inv, Removals
<1>13. ASSUME UNCHANGED <<incoming, outHtlc, answer>>
      PROVE  Balance'
  BY <1>13 DEF Base, Inv, Balance, Balanced, Outgoing
<1> QED
  BY <1>1, <1>2, <1>3, <1>4, <1>5, <1>6, <1>7, <1>8, <1>9, <1>10, <1>11, <1>12, <1>13

-----------------------------------------------------------------------------
(* The steps.                                                              *)

\* A new HTLC has left no trace yet.
LEMMA LockInInv ==
    ASSUME Base, Base', Inv, NEW h \in HTLC, LockIn(h)
    PROVE  Inv'
<1>1. /\ TypeOK /\ incoming[h] = "none" /\ offer' = h
      /\ incoming' = [incoming EXCEPT ![h] = "locked"]
      /\ UNCHANGED <<closedKeys, outHtlc, committed, openedKeys, answer,
                   acked, db, cm, mail, taken, reply, toRoute, forwarding, step,
                   quit, linkI, replay, removing, deleting, removed, linkO, stepO,
                   local, nextO, batch, trimmed>>
  BY DEF Base, Inv, LockIn, Free, mailO, varsF, varsO
<1>2. /\ cm.pending[h] = "none" /\ h \notin db.adds /\ reply[h] = None /\ ~ Carried(h)
      /\ h # None /\ Outgoing(h) = {} /\ h \notin ToSet(mail)
  BY <1>1, NotNone DEF Base, Inv, CircuitsKnown, Commitment, Carried, Outgoing, Waiting, Locked
<1>3. Packets'
  BY <1>1, <1>2, Types, NotNone DEF Base, Inv, Packets, Gone, Locked, Carried
<1>4. Waiting'
  BY <1>1, <1>2, Types DEF Base, Inv, Waiting, Locked, Carried
<1>5. Commitment'
  BY <1>1, <1>2, Types DEF Base, Inv, Commitment, Locked, Carried
<1>6. CircuitsKnown'
  BY <1>1, <1>2, Types DEF Base, Inv, CircuitsKnown, Locked
<1>7. Responses'
  BY <1>1, <1>2, Types DEF Base, Inv, Responses, Locked, Carried
<1>8. Removals'
  BY <1>1, <1>2, Types DEF Base, Inv, Removals
<1>9. Balance'
  BY <1>1, <1>2, Types DEF Base, Inv, Balance, Balanced, Outgoing
<1>10. /\ LocalLog' /\ Answers' /\ CircuitsOpen'
      /\ KeystonesOnDisk' /\ Uncommitted' /\ TrimmedOnly'
  BY <1>1, <1>2, Types, Frames
<1> QED
  BY <1>3, <1>4, <1>5, <1>6, <1>7, <1>8, <1>9, <1>10 DEF Base, Inv

\* Only HTLCs that are not removed are replayed.
LEMMA ReplayInv ==
    ASSUME Base, Base', Inv, Replay
    PROVE  Inv'
<1>1. /\ TypeOK /\ Min(replay) \in replay /\ replay' = replay \ {Min(replay)}
      /\ offer' \in {Min(replay), None}
      /\ UNCHANGED <<incoming, closedKeys, outHtlc, committed, openedKeys,
                   answer, acked, db, cm, mail, taken, reply, toRoute, forwarding,
                   step, quit, linkI, removing, deleting, removed, linkO, stepO,
                   local, nextO, batch, trimmed>>
  BY FirstReplayed DEF Base, Inv, Replay, disk, mailO, varsF, varsO
<1>2. Packets'
  BY <1>1, Types, NotNone DEF Base, Inv, Packets, Gone, Locked, Carried
<1>3. /\ Waiting' /\ LocalLog' /\ Commitment' /\ Answers'
      /\ CircuitsKnown' /\ CircuitsOpen' /\ KeystonesOnDisk'
      /\ Uncommitted' /\ TrimmedOnly' /\ Responses' /\ Removals'
      /\ Balance'
  BY <1>1, Types, Frames
<1> QED
  BY <1>2, <1>3 DEF Base, Inv

\* The packet at hand is of an HTLC that is not removed.
LEMMA AcceptInv ==
    ASSUME Base, Base', Inv, Accept
    PROVE  Inv'
<1>1. /\ TypeOK /\ offer # None /\ forwarding = None /\ forwarding' = offer
      /\ step' = "commit" /\ quit' = FALSE /\ offer' = None
      /\ UNCHANGED <<incoming, closedKeys, outHtlc, committed, openedKeys,
                   answer, acked, db, cm, mail, taken, reply, toRoute, linkI, replay,
                   removing, deleting, removed, linkO, stepO, local, nextO, batch,
                   trimmed>>
  BY DEF Base, Inv, Accept, disk, mailO, varsO
<1>2. Packets'
  BY <1>1, Types DEF Base, Inv, Packets, Gone, Locked, Carried
<1>3. CircuitsKnown'
  BY <1>1, Types, NotNone DEF Base, Inv, CircuitsKnown, Locked
<1>4. /\ Waiting' /\ LocalLog' /\ Commitment' /\ Answers'
      /\ CircuitsOpen' /\ KeystonesOnDisk' /\ Uncommitted'
      /\ TrimmedOnly' /\ Responses' /\ Removals' /\ Balance'
  BY <1>1, Types, Frames
<1> QED
  BY <1>2, <1>3, <1>4 DEF Base, Inv

\* A circuit is made for an HTLC that has none, in memory, on disk or on O; a
\* circuit from disk without keystone is of no HTLC of O.
LEMMA CommitInv ==
    ASSUME Base, Base', Inv, NEW h \in HTLC, Commit(h), again' = {}
    PROVE  Inv'
<1>1. /\ TypeOK /\ forwarding = h /\ step = "commit"
      /\ UNCHANGED <<incoming, closedKeys, outHtlc, committed, openedKeys,
                   answer, acked, db, mail, taken, toRoute, linkI, offer, replay,
                   removing, deleting, removed, linkO, stepO, local, nextO, batch,
                   trimmed>>
  BY DEF Base, Inv, Commit, disk, mailO, varsI, varsO
<1>2. h # None /\ (Locked(h) \/ Gone(h))
  BY <1>1, NotNone DEF Base, Inv, Packets, Gone
<1>3. CASE forwarding' = None /\ quit' = FALSE /\ UNCHANGED <<step, cm, reply>>
  <2>1. Packets'
    BY <1>1, <1>2, <1>3 DEF Base, Inv, Packets, Gone, Locked, Carried
  <2>2. CircuitsKnown'
    BY <1>1, <1>2, <1>3 DEF Base, Inv, CircuitsKnown, Locked
  <2>3. /\ Waiting' /\ LocalLog' /\ Commitment' /\ Answers'
        /\ CircuitsOpen' /\ KeystonesOnDisk' /\ Uncommitted'
        /\ TrimmedOnly' /\ Responses' /\ Removals' /\ Balance'
    BY <1>1, <1>2, <1>3, Frames
  <2> QED
    BY <2>1, <2>2, <2>3 DEF Base, Inv
<1>4. CASE /\ cm.pending[h] = "none" /\ cm' = AddPending(cm, h)
           /\ step' = "write" /\ UNCHANGED <<forwarding, quit, reply>>
           /\ Locked(h)
  <2>1. /\ cm' \in CircuitMaps
        /\ cm'.pending = [cm.pending EXCEPT ![h] = "new"]
        /\ UNCHANGED <<cm.outgoing, cm.opened, cm.closed>>
    BY <1>1, <1>4, Types DEF AddPending, CircuitMaps
  <2>2. /\ h \notin db.adds /\ ~ Carried(h) /\ h \notin ToSet(mail) /\ reply[h] = None
    BY <1>4 DEF Base, AddsKept, Inv, CircuitsKnown, Responses
  <2>3. Packets'
    BY <1>1, <1>2, <1>4, <2>1, <2>2, Types DEF Base, Inv, Packets, Locked, Gone, Carried
  <2>4. Waiting'
    BY <1>1, <1>2, <1>4, <2>1, Types DEF Base, Inv, Waiting, Locked, Carried
  <2>5. CircuitsKnown'
    BY <1>1, <1>2, <1>4, <2>1, Types DEF Base, Inv, CircuitsKnown, Locked
  <2>6. CircuitsOpen'
    BY <1>1, <1>2, <1>4, <2>1, <2>2, Types DEF Base, Inv, CircuitsOpen, Carried
  <2>7. Responses'
    BY <1>1, <1>2, <1>4, <2>1, Types DEF Base, Inv, Responses, Locked, Carried
  <2>8. Removals'
    BY <1>1, <1>2, <1>4, <2>1, Types DEF Base, Inv, Removals, GoneKeys, Gone, Locked
  <2>9. Commitment'
    BY <1>1, <2>1, <2>2, Types DEF Base, Inv, Commitment, Locked, Carried
  <2>10. KeystonesOnDisk'
    BY <1>1, <2>1, Types DEF Base, Inv, KeystonesOnDisk
  <2>11. LocalLog' /\ Answers' /\ Uncommitted' /\ TrimmedOnly' /\ Balance'
    BY <1>1, <1>2, <1>4, <2>1, Types, Frames
  <2> QED
    BY <2>3, <2>4, <2>5, <2>6, <2>7, <2>8, <2>9, <2>10, <2>11 DEF Inv
<1>5. CASE /\ cm.pending[h] = "loaded" /\ ~ HasKeystone(cm, h)
           /\ AddReply(h, LocalFail)
           /\ forwarding' = None /\ quit' = FALSE /\ UNCHANGED <<step, cm>>
  <2>1. Packets'
    BY <1>1, <1>2, <1>5, Types DEF Base, Inv, Packets, Gone, Locked, Carried, AddReply,
      LocalFail
  <2>2. Waiting'
    BY <1>1, <1>2, <1>5, Types DEF Base, Inv, Waiting, Locked, Carried, AddReply,
      LocalFail
  <2>3. CircuitsKnown'
    BY <1>1, <1>2, <1>5, Types DEF Base, Inv, CircuitsKnown, Locked, AddReply,
      LocalFail
  <2>4. Responses'
    BY <1>1, <1>2, <1>5, Types, NotNone DEF Base, Inv, Responses, Locked, Carried,
      Commitment, CircuitsOpen, HasKeystone, Replies, AddReply, LocalFail
  <2>5. Removals'
    BY <1>1, <1>2, <1>5, Types DEF Base, Inv, Removals
  <2>6. /\ LocalLog' /\ Commitment' /\ Answers'
        /\ CircuitsOpen' /\ KeystonesOnDisk' /\ Uncommitted'
        /\ TrimmedOnly' /\ Balance'
    BY <1>1, <1>2, <1>5, Types, Frames
  <2> QED
    BY <2>1, <2>2, <2>3, <2>4, <2>5, <2>6 DEF Base, Inv
<1> QED
  <2>1. CASE CommitAction(cm, h) = "add" /\ step' = "write"
    BY <1>1, <1>4, <2>1, Types DEF Commit, CommitAction, Locked, Done
  <2> QED
    BY <1>1, <1>3, <1>5, <2>1, Types DEF Commit, Done, CommitAction

\* The circuit of the packet at hand gets to disk.
LEMMA WriteCircuitInv ==
    ASSUME Base, Base', Inv, NEW h \in HTLC, WriteCircuit(h)
    PROVE  Inv'
<1>1. /\ TypeOK /\ forwarding = h /\ step = "write" /\ step' = "route"
      /\ db' = [adds |-> db.adds \cup {h}, keystones |-> db.keystones]
      /\ UNCHANGED <<incoming, closedKeys, outHtlc, committed, openedKeys,
                   answer, acked, cm, mail, taken, reply, toRoute, forwarding, quit,
                   linkI, offer, replay, removing, deleting, removed, linkO, stepO,
                   local, nextO, batch, trimmed>>
  BY Types DEF Base, Inv, WriteCircuit, PutAdd, disk, mailO, varsI, varsO
<1>2. h # None /\ db'.adds = db.adds \cup {h} /\ db'.keystones = db.keystones
  BY <1>1, NotNone
<1>3. Packets'
  BY <1>1, <1>2 DEF Base, Inv, Packets, Gone, Locked, Carried
<1>4. Waiting'
  BY <1>1, <1>2 DEF Base, Inv, Waiting, Locked, Carried
<1>5. CircuitsKnown'
  BY <1>1, <1>2 DEF Base, Inv, CircuitsKnown, Locked, Packets, Gone
<1>6. CircuitsOpen'
  BY <1>1, <1>2 DEF Base, Inv, CircuitsOpen
<1>7. Commitment' /\ KeystonesOnDisk'
  <2>1. ~ Carried(h)
    BY <1>1, <1>2 DEF Inv, Packets, Gone
  <2> QED
    BY <1>1, <1>2, <2>1 DEF Inv, Commitment, KeystonesOnDisk, Locked, Carried
<1>8. /\ LocalLog' /\ Answers' /\ Uncommitted' /\ TrimmedOnly' /\ Responses'
      /\ Removals' /\ Balance'
  BY <1>1, <1>2, Frames
<1> QED
  BY <1>3, <1>4, <1>5, <1>6, <1>8, <1>7 DEF Base, Inv

\* The packet goes to the mailbox, or fails.
LEMMA RouteInv ==
    ASSUME Base, Base', Inv, NEW h \in HTLC, Route(h)
    PROVE  Inv'
<1>1. /\ TypeOK /\ forwarding = h /\ step = "route" /\ forwarding' = None
      /\ quit' = FALSE
      /\ UNCHANGED <<incoming, closedKeys, outHtlc, committed, openedKeys,
                   answer, acked, db, cm, taken, toRoute, step, linkI, offer, replay,
                   removing, deleting, removed, linkO, stepO, local, nextO, batch,
                   trimmed>>
  BY DEF Base, Inv, Route, Done, mailO, disk, varsI, varsO
<1>2. /\ h # None /\ Locked(h) /\ cm.pending[h] = "new" /\ reply[h] = None
      /\ h \notin ToSet(mail) /\ ~ Carried(h) /\ h \in db.adds
  BY <1>1, NotNone DEF Base, Inv, Packets, Gone
<1>3. CASE AddMail(h) /\ UNCHANGED reply
  <2>1. mail' \in Seq(HTLC) /\ ToSet(mail') = ToSet(mail) \cup {h}
    BY <1>1, <1>3, Types, AddMailEffect
  <2>2. Packets'
    BY <1>1, <1>2, <1>3, <2>1 DEF Base, Inv, Packets, Gone, Locked, Carried
  <2>3. Waiting'
    BY <1>1, <1>2, <1>3, <2>1 DEF Base, Inv, Waiting, Locked, Carried
  <2>4. Answers'
    BY <1>1, <1>2, <1>3, <2>1 DEF Base, Inv, Answers, Carried
  <2>5. CircuitsKnown'
    BY <1>1, <1>2, <1>3, <2>1 DEF Base, Inv, CircuitsKnown, Locked
  <2>6. KeystonesOnDisk'
    BY <1>1, <1>2, <1>3, <2>1 DEF Base, Inv, KeystonesOnDisk
  <2>7. /\ LocalLog' /\ Commitment' /\ CircuitsOpen'
        /\ Uncommitted' /\ TrimmedOnly' /\ Responses' /\ Removals'
        /\ Balance'
    BY <1>1, <1>2, <1>3, <2>1, Frames
  <2> QED
    BY <2>2, <2>3, <2>4, <2>5, <2>6, <2>7 DEF Base, Inv
<1>4. CASE AddReply(h, LocalFail) /\ UNCHANGED mail
  <2>1. Packets'
    BY <1>1, <1>2, <1>4, Types DEF Base, Inv, Packets, Gone, Locked, Carried, AddReply,
      LocalFail
  <2>2. Waiting'
    BY <1>1, <1>2, <1>4, Types DEF Base, Inv, Waiting, Locked, Carried, AddReply,
      LocalFail
  <2>3. CircuitsKnown'
    BY <1>1, <1>2, <1>4, Types DEF Base, Inv, CircuitsKnown, Locked, AddReply,
      LocalFail
  <2>4. Responses'
    BY <1>1, <1>2, <1>4, Types DEF Base, Inv, Responses, Locked, Carried, AddReply,
      LocalFail
  <2>5. Removals'
    BY <1>1, <1>2, <1>4, Types DEF Base, Inv, Removals
  <2>6. /\ LocalLog' /\ Commitment' /\ Answers'
        /\ CircuitsOpen' /\ KeystonesOnDisk' /\ Uncommitted'
        /\ TrimmedOnly' /\ Balance'
    BY <1>1, <1>2, <1>4, Types, Frames
  <2> QED
    BY <2>1, <2>2, <2>3, <2>4, <2>5, <2>6 DEF Base, Inv
<1>5. CASE UNCHANGED <<mail, reply>>
  <2>1. Packets'
    BY <1>1, <1>2, <1>5 DEF Base, Inv, Packets, Gone, Locked, Carried
  <2>2. CircuitsKnown'
    BY <1>1, <1>2, <1>5 DEF Base, Inv, CircuitsKnown, Locked
  <2>3. /\ Waiting' /\ LocalLog' /\ Commitment' /\ Answers'
        /\ CircuitsOpen' /\ KeystonesOnDisk' /\ Uncommitted'
        /\ TrimmedOnly' /\ Responses' /\ Removals' /\ Balance'
    BY <1>1, <1>2, <1>5, Frames
  <2> QED
    BY <2>1, <2>2, <2>3 DEF Base, Inv
<1> QED
  BY <1>3, <1>4, <1>5 DEF Route, mailO

\* An Add fails that is not taken: O has no HTLC for it.
LEMMA FailAddInv ==
    ASSUME Base, Base', Inv, NEW h \in HTLC, FailAdd(h), h \in ToSet(mail) \ taken,
           UNCHANGED <<incoming, closedKeys, outHtlc, committed, openedKeys,
                        answer, acked, db, toRoute, forwarding, step, quit, linkI, offer,
                        replay, removing, deleting, removed, linkO, stepO, local, nextO,
                        batch, trimmed>>
    PROVE  Inv'
<1>1. TypeOK /\ mail' \in Seq(HTLC) /\ ToSet(mail') = ToSet(mail) \ {h} /\ taken' = taken \ {h}
  BY Types, WithoutEffect DEF Base, Inv, FailAdd, AckMail
<1>2. Locked(h) /\ cm.pending[h] = "new" /\ reply[h] = None /\ ~ Carried(h)
  BY DEF Base, Inv, Waiting
<1>3. /\ UNCHANGED <<cm.pending, cm.outgoing, cm.opened>> /\ cm' \in CircuitMaps
      /\ reply' \in [HTLC -> Replies \cup {None}] /\ reply'[h] \in {None, LocalFail}
      /\ \A g \in HTLC \ {h} : reply'[g] = reply[g]
  <2>1. CASE CanFail(cm, h)
    <3>1. cm' = [cm EXCEPT !.closed = @ \cup {h}]
      BY <2>1 DEF FailAdd, MarkClosed
    <3>2. reply' = [reply EXCEPT ![h] = LocalFail]
      BY <1>2, <2>1 DEF FailAdd, AddReply
    <3>3. LocalFail \in Replies
      BY DEF LocalFail, Replies
    <3> QED
      BY <1>1, <3>1, <3>2, <3>3, Types DEF CircuitMaps
  <2>2. CASE ~ CanFail(cm, h)
    BY <1>1, <1>2, <2>2, Types DEF FailAdd, CircuitMaps
  <2> QED
    BY <2>1, <2>2
<1>4. Packets'
  BY <1>1, <1>2, <1>3, Types, NotNone DEF Base, Inv, Packets, Gone, Locked, Carried
<1>5. Waiting'
  BY <1>1, <1>2, <1>3, Types DEF Base, Inv, Waiting, Locked, Carried
<1>6. LocalLog'
  BY <1>1, <1>2, <1>3, Types DEF Base, Inv, InLog, LocalLog, Carried
<1>7. Answers'
  BY <1>1, <1>2, <1>3, Types DEF Base, Inv, Answers
<1>8. CircuitsKnown'
  BY <1>1, <1>2, <1>3, Types DEF Base, Inv, CircuitsKnown, Locked
<1>9. KeystonesOnDisk'
  <2>1. ASSUME NEW i \in Index, i >= committed, db.keystones[i] = h
        PROVE  linkO \in {"down", "trimmed"} /\ h \in db.adds /\ cm.pending[h] # "none"
    <3>1. linkO # "sync" /\ h \in db.adds /\ cm.pending[h] # "none"
      BY <1>2, <2>1, NotNone DEF Inv, Uncommitted, Waiting
    <3>2. ASSUME linkO = "up" PROVE FALSE
      <4>1. i < OpenedBy /\ local[i] = h
        BY <2>1, <3>2, NotNone DEF Inv, Uncommitted
      <4>2. i \in committed .. nextO - 1
        BY <1>1, <2>1, <4>1, NotNone, Types DEF OpenedBy, Base, Indices
      <4> QED
        BY <4>1, <4>2 DEF Base, InLog
    <3> QED
      BY <1>1, <3>1, <3>2 DEF TypeOK
  <2> QED
    BY <1>1, <1>3, <2>1, Types DEF Base, Inv, KeystonesOnDisk
<1>10. Responses'
  BY <1>1, <1>2, <1>3, Types DEF Base, Inv, Responses, Locked, Carried, LocalFail
<1>11. Removals'
  BY <1>1, <1>2, <1>3, Types DEF Base, Inv, Removals
<1>12. /\ Commitment' /\ CircuitsOpen' /\ Uncommitted'
      /\ TrimmedOnly' /\ Balance'
  BY <1>1, <1>2, <1>3, Types, Frames
<1> QED
  BY <1>4, <1>5, <1>6, <1>7, <1>8, <1>9, <1>10, <1>11, <1>12 DEF Base, Inv

\* An Add that O took is in its log once.
LEMMA DownstreamAddInv ==
    ASSUME Base, Base', Inv, NEW h \in HTLC, DownstreamAdd(h)
    PROVE  Inv'
<1>1. /\ TypeOK /\ linkO = "up" /\ stepO = "idle" /\ h \in ToSet(mail) \ taken
      /\ UNCHANGED <<incoming, closedKeys, outHtlc, committed, openedKeys,
                   answer, acked, db, toRoute, forwarding, step, quit, linkI, offer,
                   replay, removing, deleting, removed, linkO, stepO, batch,
                   trimmed>>
  BY DEF Base, Inv, DownstreamAdd, IdleO, IsHead, disk, varsF, varsI
<1>2. CASE /\ nextO < MaxIndex /\ local' = [local EXCEPT ![nextO] = h]
          /\ nextO' = nextO + 1 /\ taken' = taken \cup {h}
          /\ UNCHANGED <<mail, cm, reply>>
  <2>1. nextO \in Index /\ ~ Carried(h)
    BY <1>1, <1>2, Types DEF Index, Inv, Waiting
  <2>2. local'[nextO] = h /\ \A i \in Index : i # nextO => local'[i] = local[i]
    BY <1>2, <2>1, Types, <1>1
  <2>3. Waiting'
    BY <1>1, <1>2, Types DEF Base, Inv, Waiting, Locked, Carried
  <2>4. LocalLog'
    <3>1. \A i \in committed .. nextO : i = nextO \/ (i \in Index /\ i # nextO /\ i \in committed .. nextO - 1)
      BY <1>1, <1>2, Types DEF Index
    <3>2. nextO' - 1 = nextO
      BY <1>1, <1>2, Types
    <3> QED
      BY <1>1, <1>2, <2>1, <2>2, <3>1, <3>2 DEF Inv, LocalLog, Carried
  <2>5. Uncommitted'
    BY <1>1, <1>2, Types, <2>1, <2>2 DEF Base, Inv, Uncommitted, OpenedBy, Indices
  <2>6. /\ Packets' /\ Commitment' /\ Answers' /\ CircuitsKnown'
        /\ CircuitsOpen' /\ KeystonesOnDisk' /\ TrimmedOnly'
        /\ Responses' /\ Removals' /\ Balance'
    BY <1>1, <1>2, Types, Frames
  <2> QED
    BY <2>3, <2>4, <2>5, <2>6 DEF Base, Inv
<1>3. CASE FailAdd(h) /\ UNCHANGED <<local, nextO>>
  BY <1>1, <1>3, FailAddInv
<1> QED
  BY <1>2, <1>3 DEF DownstreamAdd

\* An Add expires, even one whose keystone link O left on disk.
LEMMA ExpireInv ==
    ASSUME Base, Base', Inv, NEW h \in HTLC, Expire(h)
    PROVE  Inv'
<1>1. /\ FailAdd(h) /\ h \in ToSet(mail) \ taken
      /\ UNCHANGED <<incoming, closedKeys, outHtlc, committed, openedKeys,
                   answer, acked, db, toRoute, forwarding, step, quit, linkI, offer,
                   replay, removing, deleting, removed, linkO, stepO, local, nextO,
                   batch, trimmed>>
  BY DEF Expire, IsHead, disk, varsF, varsI, varsO
<1> QED
  BY <1>1, FailAddInv

\* What link O forgets is in the mailbox and in the circuit map.
LEMMA EndOInv ==
    ASSUME Base, Base', Inv, EndO, stepO = "idle", linkO \in {"sync", "up"},
           UNCHANGED <<incoming, closedKeys, outHtlc, committed, openedKeys,
                        answer, acked, db, cm, mail, reply, forwarding, step, quit, linkI,
                        offer, replay, removing, deleting, removed, trimmed>>
    PROVE  Inv'
<1>1. /\ TypeOK /\ linkO' = "down" /\ stepO' = "idle" /\ taken' = {}
      /\ local' = [i \in Index |-> None] /\ nextO' = committed /\ batch' = committed
      /\ toRoute' \subseteq toRoute
  BY DEF Base, Inv, EndO
<1>2. Waiting'
  BY <1>1, Types DEF Base, Inv, Waiting, Locked, Carried
<1>3. LocalLog'
  BY <1>1, Types DEF Base, Inv, InLog, LocalLog, Carried
<1>4. Answers'
  BY <1>1, Types DEF Base, Inv, Answers
<1>5. Uncommitted'
  BY <1>1, Types, NotNone DEF Base, Inv, Uncommitted, OpenedBy, CircuitsOpen
<1>6. TrimmedOnly'
  BY <1>1, Types DEF Base, Inv, TrimmedOnly
<1>7. /\ Packets' /\ Commitment' /\ CircuitsKnown' /\ CircuitsOpen'
      /\ Responses' /\ Removals' /\ Balance'
  BY <1>1, Types, Frames
<1>8. KeystonesOnDisk'
  BY <1>1 DEF Inv, KeystonesOnDisk
<1> QED
  BY <1>2, <1>3, <1>4, <1>5, <1>6, <1>7, <1>8 DEF Inv

\* The keystones of a batch are new, and adjoin those that are on disk.
LEMMA OpenCircuitsInv ==
    ASSUME Base, Base', Inv, OpenCircuits
    PROVE  Inv'
<1>1. /\ TypeOK /\ linkO = "up" /\ stepO = "idle" /\ batch < nextO
      /\ UNCHANGED <<incoming, closedKeys, outHtlc, committed, openedKeys,
                   answer, acked, cm, mail, reply, forwarding, step, quit, linkI,
                   offer, replay, removing, deleting, removed, trimmed>>
  BY DEF Base, Inv, OpenCircuits, IdleO, disk, varsF, varsI
<1>2. CASE db' = PutKeystones(db, Keystones) /\ stepO' = "opening"
          /\ UNCHANGED <<linkO, taken, local, nextO, batch, toRoute>>
  <2>1. /\ db' \in Buckets /\ db'.adds = db.adds /\ db'.keystones \in [Index -> HTLC \cup {None}]
        /\ \A i \in Index : db'.keystones[i] =
               IF i \in batch .. nextO - 1 THEN local[i] ELSE db.keystones[i]
    BY <1>1, <1>2, Types DEF PutKeystones, Keystones, Buckets
  <2>2. committed <= batch
    BY DEF Base, Inv, Indices
  <2>3. ASSUME NEW i \in Index, committed <= i, i < nextO
        PROVE  /\ local[i] \in taken /\ local[i] \in ToSet(mail) /\ local[i] \in HTLC
               /\ ~ Carried(local[i]) /\ db'.keystones[i] = local[i]
               /\ \A j \in Index : committed <= j /\ j < nextO /\ local[i] = local[j] => i = j
    <3>1. i \in committed .. nextO - 1
      BY <2>3, Types, <1>1, NotNone
    <3>2. \A j \in Index : committed <= j /\ j < nextO => j \in committed .. nextO - 1
      BY Types, <1>1, NotNone
    <3>3. i < batch => db.keystones[i] = local[i]
      BY <1>1, <2>3 DEF Base, Inv, Uncommitted, OpenedBy
    <3>4. i \in batch .. nextO - 1 \/ i < batch
      BY <2>3, Types, <1>1, NotNone
    <3> QED
      BY <1>1, <2>1, <3>1, <3>2, <3>3, <3>4, Types DEF Base, Inv, InLog, LocalLog
  <2>4. ASSUME NEW i \in Index, i < committed \/ nextO <= i
        PROVE  /\ db'.keystones[i] = db.keystones[i]
               /\ nextO <= i => db.keystones[i] = None
    <3>1. i \notin batch .. nextO - 1
      BY <2>2, <2>4, Types, <1>1, NotNone
    <3>2. nextO <= i => committed <= i /\ ~ (i < batch)
      BY <1>1, <2>2, Types, NotNone
    <3> QED
      BY <1>1, <2>1, <3>1, <3>2 DEF Base, Inv, Uncommitted, OpenedBy
  <2>5. \A i \in Index : db.keystones[i] # None => db'.keystones[i] = db.keystones[i]
    <3> SUFFICES ASSUME NEW i \in Index, db.keystones[i] # None
                 PROVE  db'.keystones[i] = db.keystones[i]
      OBVIOUS
    <3>1. CASE i < committed \/ nextO <= i
      BY <2>4, <3>1
    <3>2. CASE committed <= i /\ i < nextO
      BY <1>1, <2>3, <3>2 DEF Base, Inv, Uncommitted, OpenedBy
    <3> QED
      BY <3>1, <3>2, Types, <1>1, NotNone
  <2>6. KeystonesOnDisk'
    <3> SUFFICES ASSUME NEW i \in Index, db'.keystones[i] # None
                 PROVE  /\ i < committed => outHtlc[i] = db'.keystones[i]
                        /\ i >= committed => db'.keystones[i] \in ToSet(mail)
                        /\ \A j \in Index : db'.keystones[j] = db'.keystones[i] => i = j
                        /\ \A j \in committed .. i : db'.keystones[j] # None
      BY <1>1 DEF KeystonesOnDisk
    <3>1. i \in Nat /\ i < MaxIndex
      BY Types, <1>1 DEF Index
    <3>2. i < nextO
      BY <2>4, <3>1, Types, <1>1
    <3>3. \A j \in Index : j \in Nat /\ (db'.keystones[j] # None => j < nextO)
      <4> SUFFICES ASSUME NEW j \in Index PROVE j \in Nat /\ (nextO <= j => db'.keystones[j] = None)
        BY Types, <1>1, NotNone
      <4>1. nextO <= j => db'.keystones[j] = None
        BY <2>4
      <4> QED
        BY <4>1, NotNone
    <3>4. \A j \in Index : j < committed /\ db'.keystones[j] # None =>
              outHtlc[j] = db'.keystones[j]
      BY <2>4 DEF Base, Inv, KeystonesOnDisk
    <3>5. \A j \in committed .. i : j \in Index /\ committed <= j /\ j < nextO
      BY <3>1, <3>2, Types, <1>1 DEF Index
    <3>6. CASE i < committed
      <4>1. ASSUME NEW j \in Index, db'.keystones[j] = db'.keystones[i] PROVE i = j
        <5>1. CASE j < committed
          BY <2>4, <3>6, <4>1, <5>1 DEF Base, Inv, KeystonesOnDisk
        <5>2. CASE committed <= j
          BY <2>3, <3>3, <3>4, <3>6, <4>1, <5>2 DEF Carried
        <5> QED
          BY <5>1, <5>2, <3>3, Types, <1>1
      <4> QED
        BY <3>1, <3>4, <3>5, <3>6, <4>1, Types, <1>1
    <3>7. CASE committed <= i
      <4>1. ASSUME NEW j \in Index, db'.keystones[j] = db'.keystones[i] PROVE i = j
        <5>1. CASE j < committed
          BY <2>3, <3>2, <3>4, <3>7, <4>1, <5>1 DEF Carried
        <5>2. CASE committed <= j
          BY <2>3, <3>2, <3>3, <3>7, <4>1, <5>2
        <5> QED
          BY <5>1, <5>2, <3>3, Types, <1>1
      <4> QED
        BY <2>3, <3>1, <3>2, <3>5, <3>7, <4>1, Types, <1>1, NotNone
    <3> QED
      BY <3>1, <3>6, <3>7, Types, <1>1
  <2>7. Waiting'
    BY <1>1, <1>2, <2>1, <2>2, <2>5, Types DEF Base, Inv, Waiting, Locked, Carried
  <2>8. CircuitsOpen'
    <3> SUFFICES ASSUME NEW h \in HTLC, NEW i \in Index
                 PROVE  /\ cm.opened[i] = h =>
                            /\ cm.outgoing[h] = i /\ cm.pending[h] # "none"
                            /\ db'.keystones[i] = h /\ h \in db.adds
                        /\ cm.outgoing[h] = i =>
                            cm.opened[i] = h \/ (cm.pending[h] = "none" /\ outHtlc[i] = h)
      BY <1>1, <2>1 DEF CircuitsOpen
    <3> QED
      BY <2>5, NotNone DEF Base, Inv, CircuitsOpen
  <2>9. Uncommitted'
    BY <1>1, <1>2, <2>1, <2>2, <2>3, <2>4, Types, NotNone DEF Base, Inv,
      Uncommitted, OpenedBy
  <2>10. Commitment'
    BY <1>1, <1>2, <2>1, <2>2, Types DEF Inv, Commitment, Locked
  <2>11. /\ Packets' /\ LocalLog' /\ Answers'
        /\ CircuitsKnown' /\ TrimmedOnly' /\ Responses' /\ Removals'
        /\ Balance'
    BY <1>1, <1>2, <2>1, <2>2, <2>5, Types, Frames
  <2> QED
    BY <2>6, <2>7, <2>8, <2>9, <2>11, <2>10 DEF Base, Inv
<1>3. CASE EndO /\ UNCHANGED db
  BY <1>1, <1>3, EndOInv
<1> QED
  BY <1>2, <1>3 DEF OpenCircuits

\* The keystones get to memory.
LEMMA CircuitsOpenedInv ==
    ASSUME Base, Base', Inv, CircuitsOpened
    PROVE  Inv'
<1>1. /\ TypeOK /\ stepO = "opening" /\ linkO = "up" /\ committed <= batch /\ batch <= nextO
      /\ batch' = nextO /\ stepO' = "idle" /\ cm' = SetKeystones(cm, Keystones)
      /\ UNCHANGED <<incoming, closedKeys, outHtlc, committed, openedKeys,
                   answer, acked, db, mail, taken, reply, toRoute, forwarding, step,
                   quit, linkI, offer, replay, removing, deleting, removed, linkO,
                   local, nextO, trimmed>>
  BY DEF Base, Inv, CircuitsOpened, Indices, disk, mailO, varsF, varsI
<1>2. /\ \A i \in batch .. nextO - 1 :
           /\ i \in Index /\ committed <= i /\ local[i] \in HTLC /\ local[i] \in ToSet(mail)
           /\ db.keystones[i] = local[i] /\ cm.opened[i] = None
      /\ \A i, j \in batch .. nextO - 1 : local[i] = local[j] => i = j
  <2>1. \A i \in batch .. nextO - 1 : i \in Index /\ i \in committed .. nextO - 1 /\ committed <= i
                                       /\ i < nextO /\ ~ (i < batch)
    BY <1>1, Types DEF Index
  <2> QED
    BY <1>1, <2>1, Types DEF Base, Inv, InLog, LocalLog, Uncommitted, OpenedBy
<1>3. /\ UNCHANGED <<cm.pending, cm.closed>> /\ cm' \in CircuitMaps
      /\ \A i \in Index : cm'.opened[i] =
             IF i \in batch .. nextO - 1 THEN local[i] ELSE cm.opened[i]
      /\ \A h \in HTLC : \A i \in batch .. nextO - 1 : local[i] = h => cm'.outgoing[h] = i
      /\ \A h \in HTLC : (\A i \in batch .. nextO - 1 : local[i] # h) =>
             cm'.outgoing[h] = cm.outgoing[h]
  <2> DEFINE K == batch .. nextO - 1
             ks == Keystones
             opens(h) == IF \E i \in DOMAIN ks : ks[i] = h
                       THEN CHOOSE i \in DOMAIN ks :
                                ks[i] = h /\ \A j \in DOMAIN ks : ks[j] = h => j <= i
                       ELSE cm.outgoing[h]
             open(i) == IF i \in DOMAIN ks THEN ks[i] ELSE cm.opened[i]
  <2>1. DOMAIN ks = K /\ \A i \in K : ks[i] = local[i]
    BY DEF Keystones
  <2>2. cm' = [pending |-> cm.pending, outgoing |-> [h \in HTLC |-> opens(h)],
               opened |-> [i \in Index |-> open(i)], closed |-> cm.closed]
    <3> HIDE DEF ks
    <3> QED
      BY <1>1, Types DEF SetKeystones, ks
  <2>3. ASSUME NEW h \in HTLC, NEW i \in K, local[i] = h PROVE opens(h) = i
    <3>1. i \in DOMAIN ks /\ ks[i] = h /\ \A j \in DOMAIN ks : ks[j] = h => j = i /\ j <= i
      BY <1>2, <2>1, <2>3, Types, <1>1
    <3> HIDE DEF ks
    <3> QED
      BY <3>1
  <2>4. ASSUME NEW h \in HTLC, \A i \in K : local[i] # h PROVE opens(h) = cm.outgoing[h]
    BY <2>1, <2>4
  <2>5. ASSUME NEW h \in HTLC PROVE opens(h) \in Index \cup {None}
    <3> HIDE DEF opens
    <3>1. CASE \E i \in K : local[i] = h
      BY <1>2, <2>3, <3>1
    <3>2. CASE \A i \in K : local[i] # h
      BY <1>1, <2>4, <3>2, Types
    <3> QED
      BY <3>1, <3>2
  <2>6. \A i \in Index : open(i) = (IF i \in K THEN local[i] ELSE cm.opened[i])
                          /\ open(i) \in HTLC \cup {None}
    BY <1>1, <1>2, <2>1, Types
  <2> HIDE DEF K, ks, opens, open
  <2>7. cm' \in CircuitMaps
    BY <1>1, <2>2, <2>5, <2>6, Types DEF CircuitMaps
  <2>8. /\ UNCHANGED <<cm.pending, cm.closed>>
        /\ \A i \in Index : cm'.opened[i] = open(i)
        /\ \A h \in HTLC : cm'.outgoing[h] = opens(h)
    BY <2>2
  <2> QED
    BY <2>3, <2>4, <2>6, <2>7, <2>8 DEF K
<1>4. Waiting'
  BY <1>1, <1>2, <1>3, Types DEF Base, Inv, Waiting, Locked, Carried
<1>5. Commitment'
  BY <1>1, <1>2, <1>3, Types, NotNone DEF Base, Inv, Commitment, Locked
<1>6. CircuitsOpen'
  <2> SUFFICES ASSUME NEW h \in HTLC, NEW i \in Index
               PROVE  /\ cm'.opened[i] = h =>
                          /\ cm'.outgoing[h] = i /\ cm.pending[h] # "none"
                          /\ db.keystones[i] = h /\ h \in db.adds
                      /\ cm'.outgoing[h] = i =>
                          cm'.opened[i] = h \/ (cm.pending[h] = "none" /\ outHtlc[i] = h)
    BY <1>1, <1>3 DEF CircuitsOpen
  <2>1. \A j \in batch .. nextO - 1 : local[j] = h =>
            cm.pending[h] # "none" /\ h \in db.adds /\ db.keystones[j] = h /\ j \in Index
    BY <1>2 DEF Base, Inv, Waiting
  <2>2. \A j \in Index : db.keystones[j] = h /\ db.keystones[i] = h => i = j
    BY NotNone DEF Base, Inv, KeystonesOnDisk
  <2>3. /\ cm.opened[i] = h => /\ cm.outgoing[h] = i /\ cm.pending[h] # "none"
                               /\ db.keystones[i] = h /\ h \in db.adds
        /\ cm.outgoing[h] = i =>
                cm.opened[i] = h \/ (cm.pending[h] = "none" /\ outHtlc[i] = h)
    BY DEF Base, Inv, CircuitsOpen
  <2>4. CASE i \in batch .. nextO - 1
    <3>1. cm'.opened[i] = local[i] /\ cm.opened[i] = None
      BY <1>2, <1>3, <2>4
    <3>2. ASSUME cm'.outgoing[h] = i, local[i] # h
          PROVE  cm.pending[h] = "none" /\ outHtlc[i] = h
      <4>1. \A j \in batch .. nextO - 1 : local[j] # h
        BY <1>3, <2>4, <3>2
      <4> QED
        BY <1>3, <2>3, <3>1, <3>2, <4>1, NotNone
    <3> QED
      BY <1>3, <2>1, <2>4, <3>1, <3>2
  <2>5. CASE i \notin batch .. nextO - 1
    <3>1. cm'.opened[i] = cm.opened[i]
      BY <1>3, <2>5
    <3>2. CASE \A j \in batch .. nextO - 1 : local[j] # h
      BY <1>3, <2>3, <3>1, <3>2
    <3>3. CASE \E j \in batch .. nextO - 1 : local[j] = h
      BY <1>3, <2>1, <2>2, <2>3, <2>5, <3>1, <3>3
    <3> QED
      BY <3>2, <3>3
  <2> QED
    BY <2>4, <2>5
<1>7. Uncommitted'
  <2> SUFFICES ASSUME NEW i \in Index, i >= committed
               PROVE  /\ cm'.opened[i] = IF i < nextO THEN local[i] ELSE None
                      /\ db.keystones[i] = IF i < nextO THEN local[i] ELSE None
    BY <1>1 DEF Uncommitted, OpenedBy
  <2>1. /\ cm.opened[i] = IF i < batch THEN local[i] ELSE None
        /\ db.keystones[i] = IF i < nextO THEN local[i] ELSE None
    BY <1>1 DEF Base, Inv, Uncommitted, OpenedBy
  <2>2. i \in batch .. nextO - 1 <=> batch <= i /\ i < nextO
    BY <1>1, Types, NotNone
  <2> QED
    BY <1>1, <1>3, <2>1, <2>2, Types, NotNone
<1>8. /\ Packets' /\ LocalLog' /\ Answers' /\ CircuitsKnown'
      /\ KeystonesOnDisk' /\ TrimmedOnly' /\ Responses' /\ Removals'
      /\ Balance'
  BY <1>1, <1>2, <1>3, Types, Frames
<1> QED
  BY <1>4, <1>5, <1>6, <1>7, <1>8 DEF Base, Inv

\* A batch is committed: these HTLCs were neither committed nor answered.
LEMMA SignNextCommitmentInv ==
    ASSUME Base, Base', Inv, SignNextCommitment
    PROVE  Inv'
<1>1. /\ TypeOK /\ linkO = "up" /\ stepO = "idle" /\ batch = nextO /\ committed < nextO
      /\ committed' = nextO /\ stepO' = "signed"
      /\ outHtlc' = [i \in Index |-> IF i \in committed .. nextO - 1 THEN local[i] ELSE outHtlc[i]]
      /\ openedKeys' = {local[i] : i \in committed .. nextO - 1}
      /\ UNCHANGED <<incoming, closedKeys, answer, acked, db, cm, mail,
                   taken, reply, toRoute, forwarding, step, quit, linkI, offer,
                   replay, removing, deleting, removed, linkO, local, nextO, batch,
                   trimmed>>
  BY DEF Base, Inv, SignNextCommitment, IdleO, mailO, varsF, varsI
<1>2. \A i \in Index : i \in Nat /\ i < MaxIndex
  BY Types, <1>1 DEF Index
<1>3. \A i \in committed .. nextO - 1 :
         /\ i \in Index /\ local[i] \in HTLC /\ local[i] \in ToSet(mail) /\ local[i] \in taken
         /\ ~ Carried(local[i]) /\ cm.opened[i] = local[i] /\ db.keystones[i] = local[i]
         /\ outHtlc[i] = None
  <2>1. \A i \in committed .. nextO - 1 : i \in Index /\ committed <= i /\ i < nextO
    BY <1>1, Types DEF Index
  <2> QED
    BY <1>1, <2>1, Types DEF Base, Inv, InLog, LocalLog, Uncommitted, OpenedBy, Commitment
<1>4. \A i \in Index : /\ i < committed => outHtlc'[i] = outHtlc[i] /\ i \notin committed .. nextO - 1
                       /\ committed <= i /\ i < nextO => outHtlc'[i] = local[i] /\ i \in committed .. nextO - 1
                       /\ nextO <= i => outHtlc'[i] = None /\ outHtlc[i] = None
  BY <1>1, <1>2, Types DEF Base, Inv, Commitment
<1>5. \A h \in HTLC : Carried(h)' => Carried(h) \/ (h \in openedKeys' /\ h \in ToSet(mail))
  BY <1>1, <1>3, <1>4, Types, NotNone DEF Carried
<1>6. \A h \in HTLC : ~ Carried(h) \/ h \notin ToSet(mail)
  BY <1>1 DEF Base, Inv, Waiting
<1>7. \A h \in HTLC : Carried(h) => Carried(h)'
  BY <1>1, <1>2, <1>3, <1>4, Types, NotNone DEF Carried, Inv, Commitment
<1>8. Packets'
  BY <1>1, <1>5, Types DEF Base, Inv, Packets, Gone, Locked, Carried
<1>9. Waiting'
  BY <1>1, <1>3, <1>5, <1>6, Types DEF Base, Inv, Waiting, Locked, Carried
<1>10. LocalLog'
  BY <1>1, Types DEF Base, Inv, InLog, LocalLog, Carried
<1>11. Commitment'
  BY <1>1, <1>2, <1>3, <1>4, Types, NotNone DEF Base, Inv, Commitment, Locked,
    Waiting, InLog, LocalLog, Carried
<1>12. Answers'
  BY <1>1, <1>2, <1>3, <1>4, Types DEF Base, Inv, Answers
<1>13. CircuitsOpen'
  BY <1>1, <1>2, <1>3, <1>4, Types, NotNone DEF Base, Inv, CircuitsOpen, Commitment
<1>14. KeystonesOnDisk'
  BY <1>1, <1>2, <1>3, <1>4, Types, NotNone DEF Base, Inv, KeystonesOnDisk,
    Uncommitted, OpenedBy
<1>15. Uncommitted'
  BY <1>1, <1>2, <1>3, <1>4, Types DEF Base, Inv, Uncommitted, OpenedBy
<1>16. TrimmedOnly'
  BY <1>1 DEF Base, Inv, TrimmedOnly
<1>17. Responses'
  BY <1>1, <1>2, <1>3, <1>4, Types, <1>5, NotNone DEF Base, Inv, Responses, Locked,
    Carried, Waiting, Commitment, Replies
<1>18. Balance'
  BY <1>1, <1>2, <1>3, <1>4, Types, NotNone DEF Base, Inv, Balance, Balanced, Outgoing,
    Waiting, Locked
<1>19. CircuitsKnown' /\ Removals'
  BY <1>1, <1>2, <1>3, <1>4, Types, Frames
<1> QED
  BY <1>8, <1>9, <1>10, <1>11, <1>12, <1>13, <1>14, <1>15,
    <1>16, <1>17, <1>18, <1>19 DEF Base, Inv

\* They leave the mailbox.
LEMMA AckAddsInv ==
    ASSUME Base, Base', Inv, AckAdds
    PROVE  Inv'
<1>1. /\ TypeOK /\ stepO = "signed" /\ stepO' = "idle" /\ linkO = "up"
      /\ nextO = committed /\ batch = committed
      /\ mail' \in Seq(HTLC) /\ ToSet(mail') = ToSet(mail) \ openedKeys
      /\ taken' = taken \ openedKeys
      /\ UNCHANGED <<incoming, closedKeys, outHtlc, committed, openedKeys,
                   answer, acked, db, cm, reply, toRoute, forwarding, step, quit,
                   linkI, offer, replay, removing, deleting, removed, linkO, local,
                   nextO, batch, trimmed>>
  <2>1. stepO = "signed" /\ linkO = "up" /\ nextO = committed /\ committed <= batch /\ batch <= nextO
    BY DEF Base, Inv, AckAdds, Indices
  <2> QED
    BY <2>1, WithoutEffect, Types DEF Base, Inv, AckAdds, AckMail, disk, varsF, varsI
<1>2. Packets'
  BY <1>1, Types DEF Base, Inv, Packets, Gone, Locked, Carried
<1>3. Waiting'
  BY <1>1, Types DEF Base, Inv, Waiting, Locked, Carried
<1>4. LocalLog'
  BY <1>1, Types DEF Base, Inv, InLog, LocalLog, Carried
<1>5. Answers'
  BY <1>1, Types DEF Base, Inv, Answers
<1>6. KeystonesOnDisk'
  BY <1>1, Types, NotNone DEF Base, Inv, KeystonesOnDisk, Uncommitted, OpenedBy
<1>7. Uncommitted'
  BY <1>1, Types DEF Base, Inv, Uncommitted, OpenedBy
<1>8. /\ Commitment' /\ CircuitsKnown' /\ CircuitsOpen' /\ TrimmedOnly'
      /\ Responses' /\ Removals' /\ Balance'
  BY <1>1, Types, Frames
<1> QED
  BY <1>2, <1>3, <1>4, <1>5, <1>6, <1>7, <1>8 DEF Base, Inv

\* An HTLC is answered once, after it left the mailbox.
LEMMA AnswerInv ==
    ASSUME Base, Base', Inv, NEW i \in Index, NEW kind \in {"settle", "fail"}, Answer(i, kind)
    PROVE  Inv'
<1>1. /\ TypeOK /\ stepO = "idle" /\ i < committed /\ answer[i] = "none"
      /\ answer' = [answer EXCEPT ![i] = kind] /\ openedKeys' \subseteq openedKeys
      /\ toRoute' = toRoute \cup {i}
      /\ UNCHANGED <<incoming, closedKeys, outHtlc, committed, acked, db,
                   cm, mail, taken, reply, forwarding, step, quit, linkI, offer,
                   replay, removing, deleting, removed, linkO, stepO, local, nextO,
                   batch, trimmed>>
  BY DEF Base, Inv, Answer, IdleO, mailO, varsF, varsI, varsO
<1>2. Waiting'
  BY <1>1, Types DEF Base, Inv, Waiting, Locked, Carried
<1>3. Answers'
  BY <1>1, Types, NotNone DEF Base, Inv, Answers, Waiting, Commitment, Carried
<1>4. Responses'
  BY <1>1, Types DEF Base, Inv, Responses, Locked, Carried, Replies
<1>5. Balance'
  BY <1>1, Types DEF Base, Inv, Balance, Balanced, Outgoing
<1>6. /\ Packets' /\ LocalLog' /\ Commitment'
      /\ CircuitsKnown' /\ CircuitsOpen' /\ KeystonesOnDisk'
      /\ Uncommitted' /\ TrimmedOnly' /\ Removals'
  BY <1>1, Types, Frames
<1> QED
  BY <1>2, <1>3, <1>4, <1>5, <1>6 DEF Base, Inv

\* The answer finds the HTLC that waits for it.
LEMMA RouteAnswerInv ==
    ASSUME Base, Base', Inv, NEW i \in Index, RouteAnswer(i)
    PROVE  Inv'
<1>1. /\ TypeOK /\ i \in toRoute /\ forwarding = None /\ toRoute' = toRoute \ {i}
      /\ UNCHANGED <<incoming, closedKeys, outHtlc, committed, openedKeys,
                   answer, db, mail, taken, forwarding, step, quit, linkI, offer,
                   replay, removing, deleting, removed, linkO, stepO, local, nextO,
                   batch, trimmed>>
  BY DEF Base, Inv, RouteAnswer, mailO, varsF, varsI, varsO
<1>2. CASE /\ CanClose(cm, i) /\ cm' = MarkClosed(cm, cm.opened[i])
          /\ AddReply(cm.opened[i], [kind |-> answer[i], dest |-> i])
          /\ UNCHANGED acked
  <2> DEFINE h == cm.opened[i]
             r == [kind |-> answer[i], dest |-> i]
  <2>1. /\ h \in HTLC /\ answer[i] # "none" /\ i < committed /\ outHtlc[i] = h
        /\ incoming[h] # "none" /\ cm.pending[h] # "none" /\ h \notin ToSet(mail)
    <3>1. h \in HTLC /\ i < committed /\ answer[i] # "none"
      BY <1>1, <1>2, Types DEF CanClose, Inv, Answers
    <3>2. db.keystones[i] = h /\ cm.pending[h] # "none" /\ h # None
      BY <3>1, NotNone DEF Base, Inv, CircuitsOpen
    <3>3. outHtlc[i] = h
      BY <3>1, <3>2 DEF Base, Inv, KeystonesOnDisk
    <3> QED
      BY <3>1, <3>2, <3>3 DEF Base, Inv, Answers, Commitment
  <2>2. /\ UNCHANGED <<cm.pending, cm.outgoing, cm.opened, acked>> /\ cm' \in CircuitMaps
    <3>1. cm' = [cm EXCEPT !.closed = cm.closed \cup {h}]
      BY <1>2 DEF MarkClosed
    <3> HIDE DEF h
    <3> QED
      BY <1>1, <1>2, <2>1, <3>1, Types DEF CircuitMaps
  <2>3. /\ r \in Replies /\ r.kind = answer[i] /\ r.dest = i /\ i # None
        /\ reply' = [reply EXCEPT ![h] = IF reply[h] = None THEN r ELSE reply[h]]
    BY <1>1, <1>2, <2>1, Types, NotNone DEF Replies, AddReply
  <2> HIDE DEF h, r
  <2>4. Packets'
    BY <1>1, <2>1, <2>2, <2>3, Types DEF Base, Inv, Packets, Gone, Locked, Carried
  <2>5. Waiting'
    BY <1>1, <2>1, <2>2, <2>3, Types DEF Base, Inv, Waiting, Locked, Carried
  <2>6. Answers'
    BY <1>1, <2>1, <2>2, <2>3, Types DEF Base, Inv, Answers
  <2>7. CircuitsKnown'
    BY <1>1, <2>1, <2>2, <2>3, Types DEF Base, Inv, CircuitsKnown, Locked
  <2>8. Responses'
    BY <1>1, <2>1, <2>2, <2>3, Types DEF Base, Inv, Responses, Locked, Carried
  <2>9. Removals'
    BY <1>1, <2>1, <2>2, <2>3, Types DEF Base, Inv, Removals
  <2>10. /\ LocalLog' /\ Commitment' /\ CircuitsOpen'
        /\ KeystonesOnDisk' /\ Uncommitted' /\ TrimmedOnly' /\ Balance'
    BY <1>1, <2>1, <2>2, <2>3, Types, Frames
  <2> QED
    BY <2>4, <2>5, <2>6, <2>7, <2>8, <2>9, <2>10 DEF Base, Inv
<1>3. CASE acked' \subseteq acked \cup {i} /\ UNCHANGED <<cm, reply>>
  <2>1. Answers'
    BY <1>1, <1>3, Types DEF Base, Inv, Answers
  <2>2. /\ Packets' /\ Waiting' /\ LocalLog' /\ Commitment'
        /\ CircuitsKnown' /\ CircuitsOpen' /\ KeystonesOnDisk'
        /\ Uncommitted' /\ TrimmedOnly' /\ Responses' /\ Removals'
        /\ Balance'
    BY <1>1, <1>3, Types, Frames
  <2> QED
    BY <2>1, <2>2 DEF Base, Inv
<1> QED
  BY <1>2, <1>3 DEF RouteAnswer

\* A response is for an HTLC of I.
LEMMA DownstreamResponseInv ==
    ASSUME Base, Base', Inv, NEW h \in HTLC, DownstreamResponse(h)
    PROVE  Inv'
<1>1. /\ TypeOK /\ linkI = "up" /\ reply[h] # None /\ h \notin removing
      /\ UNCHANGED <<incoming, closedKeys, outHtlc, committed, openedKeys,
                   answer, db, cm, mail, taken, toRoute, forwarding, step, quit,
                   offer, replay, removed, linkO, stepO, local, nextO, batch,
                   trimmed>>
  BY DEF Base, Inv, DownstreamResponse, Free, mailO, varsF, varsO
<1>2. removed = {} /\ (incoming[h] # "locked" => Gone(h)) /\ reply[h] \in Replies
  BY <1>1, Types DEF Base, Inv, Removing, GoneKeys, Removals, CircuitsKnown, Gone
<1>3. CASE /\ incoming[h] = "locked" /\ removing' = removing \cup {h}
          /\ UNCHANGED <<acked, reply, linkI, deleting>>
  <2>1. Removals'
    BY <1>1, <1>2, <1>3, Types DEF Base, Inv, Removals
  <2>2. /\ Packets' /\ Waiting' /\ LocalLog' /\ Commitment'
        /\ Answers' /\ CircuitsKnown' /\ CircuitsOpen'
        /\ KeystonesOnDisk' /\ Uncommitted' /\ TrimmedOnly'
        /\ Responses' /\ Balance'
    BY <1>1, <1>2, <1>3, Types, Frames
  <2> QED
    BY <2>1, <2>2 DEF Base, Inv
<1>4. CASE /\ incoming[h] # "locked" /\ acked' = acked \cup ({reply[h].dest} \ {None})
          /\ linkI' = "delete" /\ deleting' = {h} /\ UNCHANGED <<reply, removing>>
  <2>1. Removals'
    BY <1>1, <1>2, <1>4, Types DEF Base, Inv, Removals
  <2>2. /\ Packets' /\ Waiting' /\ LocalLog' /\ Commitment'
        /\ Answers' /\ CircuitsKnown' /\ CircuitsOpen'
        /\ KeystonesOnDisk' /\ Uncommitted' /\ TrimmedOnly'
        /\ Responses' /\ Balance'
    BY <1>1, <1>2, <1>4, Types, Frames
  <2> QED
    BY <2>1, <2>2 DEF Base, Inv
<1>5. CASE /\ incoming[h] # "locked" /\ reply' = [reply EXCEPT ![h] = None]
          /\ UNCHANGED <<acked, removing, linkI, deleting>>
  <2>1. Packets'
    BY <1>1, <1>2, <1>5, Types DEF Base, Inv, Packets, Gone, Locked, Carried
  <2>2. Waiting'
    BY <1>1, <1>2, <1>5, Types DEF Base, Inv, Waiting, Locked, Carried
  <2>3. CircuitsKnown'
    BY <1>1, <1>2, <1>5, Types DEF Base, Inv, CircuitsKnown, Locked
  <2>4. Responses'
    BY <1>1, <1>2, <1>5, Types DEF Base, Inv, Responses, Locked, Carried
  <2>5. Removals'
    BY <1>1, <1>2, <1>5, Types DEF Base, Inv, Removals
  <2>6. /\ LocalLog' /\ Commitment' /\ Answers'
        /\ CircuitsOpen' /\ KeystonesOnDisk' /\ Uncommitted'
        /\ TrimmedOnly' /\ Balance'
    BY <1>1, <1>2, <1>5, Types, Frames
  <2> QED
    BY <2>1, <2>2, <2>3, <2>4, <2>5, <2>6 DEF Base, Inv
<1> QED
  BY <1>3, <1>4, <1>5 DEF DownstreamResponse, StartDelete

\* No HTLC is removed that is on its way into the switch.
LEMMA SignRemovalInv ==
    ASSUME Base, Base', Inv, SignRemoval
    PROVE  Inv'
<1>1. /\ TypeOK /\ linkI = "up" /\ offer = None /\ replay = {}
      /\ incoming' = [h \in HTLC |-> IF h \notin removing THEN incoming[h]
                                     ELSE IF reply[h].kind = "settle" THEN "settled" ELSE "failed"]
      /\ acked' = acked \cup ({reply[h].dest : h \in removing} \ {None})
      /\ closedKeys' = removing /\ removing' = {} /\ linkI' = "delete" /\ deleting' = removing
      /\ UNCHANGED <<outHtlc, committed, openedKeys, answer, db, cm, mail,
                   taken, reply, toRoute, forwarding, step, quit, offer, replay,
                   removed, linkO, stepO, local, nextO, batch, trimmed>>
  BY DEF Base, Inv, SignRemoval, Free, StartDelete, mailO, varsF, varsO
<1>2. /\ removed = {} /\ removing \subseteq HTLC
      /\ \A h \in removing : Locked(h) /\ reply[h] # None /\ reply[h] \in Replies
  BY <1>1, Types DEF Base, Inv, Removing, Removals
<1>3. /\ \A h \in HTLC \ removing : incoming'[h] = incoming[h]
      /\ \A h \in removing : incoming'[h] = IF reply[h].kind = "settle" THEN "settled" ELSE "failed"
  BY <1>1, <1>2
<1>4. Packets'
  <2>1. forwarding \in removing => step = "commit" /\ Gone(forwarding)'
    BY <1>1, <1>2, <1>3, NotNone DEF Inv, Packets, Gone
  <2> QED
    BY <1>1, <1>2, <1>3, <2>1, Types, NotNone DEF Inv, Packets, Locked, Gone, Carried
<1>5. Waiting'
  BY <1>1, <1>2, <1>3, Types DEF Base, Inv, Waiting, Locked, Carried
<1>6. Commitment'
  BY <1>1, <1>2, <1>3, Types, NotNone DEF Base, Inv, Commitment, Locked
<1>7. CircuitsKnown'
  BY <1>1, <1>2, <1>3, Types DEF Base, Inv, CircuitsKnown, Locked
<1>8. Responses'
  BY <1>1, <1>2, <1>3, Types DEF Base, Inv, Responses, Locked, Carried
<1>9. Removals'
  BY <1>1, <1>2, <1>3, Types DEF Base, Inv, Removals
<1>10. Balance'
  <2> SUFFICES ASSUME NEW h \in HTLC
               PROVE  /\ incoming'[h] = "failed" => \A i \in Outgoing(h) : answer[i] = "fail"
                      /\ incoming'[h] = "settled" => \E i \in Outgoing(h) : answer[i] = "settle"
    BY <1>1 DEF Balance, Balanced, Outgoing
  <2>1. CASE h \notin removing
    BY <1>3, <2>1 DEF Inv, Balance, Balanced
  <2>2. CASE h \in removing /\ reply[h].dest = None
    BY <1>2, <1>3, <2>2 DEF Base, Inv, Responses, Carried, Outgoing, Replies
  <2>3. CASE h \in removing /\ reply[h].dest # None
    <3> DEFINE d == reply[h].dest
    <3>1. d \in Index /\ outHtlc[d] = h /\ answer[d] = reply[h].kind /\ reply[h].kind \in {"settle", "fail"}
      BY <1>2, <2>3 DEF Base, Inv, Responses, Replies
    <3> HIDE DEF d
    <3>2. \A i \in Outgoing(h) : i = d
      <4>1. h # None
        BY NotNone
      <4>2. \A j \in Index : outHtlc[d] = outHtlc[j] => d = j
        BY <3>1, <4>1 DEF Inv, Commitment
      <4> QED
        BY <3>1, <4>2 DEF Outgoing
    <3>3. d \in Outgoing(h)
      BY <3>1 DEF Outgoing
    <3> QED
      BY <1>3, <2>3, <3>1, <3>2, <3>3
  <2> QED
    BY <2>1, <2>2, <2>3
<1>11. /\ LocalLog' /\ Answers' /\ CircuitsOpen'
      /\ KeystonesOnDisk' /\ Uncommitted' /\ TrimmedOnly'
  BY <1>1, <1>2, <1>3, Types, Frames
<1> QED
  BY <1>4, <1>5, <1>6, <1>7, <1>8, <1>9, <1>10, <1>11 DEF Base, Inv

\* Circuits are deleted in memory with the keystones they have on disk.
LEMMA DeleteCircuitsInv ==
    ASSUME Base, Base', Inv, DeleteCircuits, ~ torn'
    PROVE  Inv'
<1> DEFINE S == Found(cm, deleting)
<1>1. /\ TypeOK /\ linkI = "delete" /\ linkI' = "deleted" /\ removed' = S
      /\ cm' = DeletePending(cm, S)
      /\ \A i \in Index : i >= committed => db.keystones[i] \notin S
      /\ UNCHANGED <<incoming, closedKeys, outHtlc, committed, openedKeys,
                   answer, acked, db, mail, taken, reply, toRoute, forwarding, step,
                   quit, offer, replay, removing, deleting, linkO, stepO, local,
                   nextO, batch, trimmed>>
  BY DEF Base, Inv, DeleteCircuits, disk, mailO, varsF, varsO
<1>2. /\ S \subseteq HTLC /\ S \subseteq deleting
      /\ \A h \in S : Gone(h) /\ cm.pending[h] # "none"
  BY <1>1, Types DEF Found, Base, GoneKeys
<1>3. \A i \in KeystonesOf(cm, S) : i \in Index /\ \E h \in S : cm.outgoing[h] = i
  BY <1>1, <1>2, Types DEF KeystonesOf, HasKeystone
<1>4. \A h \in S : \A i \in Index : cm.outgoing[h] = i =>
         i \in KeystonesOf(cm, S) /\ cm.opened[i] = h /\ outHtlc[i] = h /\ i < committed
  <2> SUFFICES ASSUME NEW h \in S, NEW i \in Index, cm.outgoing[h] = i
               PROVE  i \in KeystonesOf(cm, S) /\ cm.opened[i] = h /\ outHtlc[i] = h /\ i < committed
    OBVIOUS
  <2>1. i \in KeystonesOf(cm, S)
    BY NotNone DEF KeystonesOf, HasKeystone
  <2>2. cm.opened[i] = h /\ db.keystones[i] = h
    BY <1>2 DEF Base, Inv, CircuitsOpen
  <2>3. i < committed /\ h # None
    BY <1>1, <1>2, <2>2, NotNone, Types
  <2> QED
    BY <1>1, <2>1, <2>2, <2>3 DEF Inv, KeystonesOnDisk
<1>5. /\ cm'.outgoing = cm.outgoing /\ cm' \in CircuitMaps
      /\ \A h \in HTLC : cm'.pending[h] = IF h \in S THEN "none" ELSE cm.pending[h]
      /\ \A i \in Index : cm'.opened[i] = IF i \in KeystonesOf(cm, S) THEN None ELSE cm.opened[i]
  <2> HIDE DEF S
  <2> QED
    BY <1>1, Types DEF DeletePending, CircuitMaps
<1> HIDE DEF S
<1>6. Packets'
  BY <1>1, <1>2, <1>3, <1>4, <1>5, Types DEF Base, Inv, Packets, Locked, Carried,
    Gone
<1>7. Waiting'
  BY <1>1, <1>2, <1>3, <1>4, <1>5, Types DEF Base, Inv, Waiting, Locked, Carried,
    Gone
<1>8. Commitment'
  <2> SUFFICES ASSUME NEW i \in Index, outHtlc[i] # None,
                      Locked(outHtlc[i]) \/ cm'.pending[outHtlc[i]] # "none"
               PROVE  cm'.opened[i] = outHtlc[i]
    BY <1>1 DEF Inv, Commitment, Locked
  <2>1. outHtlc[i] \in HTLC /\ outHtlc[i] \notin S
    BY <1>1, <1>2, <1>5, Types DEF Locked, Gone
  <2>2. cm.opened[i] = outHtlc[i]
    BY <1>5, <2>1 DEF Inv, Commitment
  <2>3. i \notin KeystonesOf(cm, S)
    BY <1>3, <1>4, <2>1
  <2> QED
    BY <1>5, <2>2, <2>3
<1>9. KeystonesOnDisk'
  <2>1. ASSUME NEW i \in Index, i >= committed, db.keystones[i] # None
        PROVE  cm'.pending[db.keystones[i]] = cm.pending[db.keystones[i]]
    BY <1>1, <1>5, <2>1, Types
  <2> QED
    BY <1>1, <2>1 DEF Inv, KeystonesOnDisk
<1>10. CircuitsKnown'
  BY <1>1, <1>2, <1>3, <1>4, <1>5, Types DEF Base, Inv, CircuitsKnown, Locked, Gone
<1>11. CircuitsOpen'
  <2> SUFFICES ASSUME NEW h \in HTLC, NEW i \in Index
               PROVE  /\ cm'.opened[i] = h =>
                          /\ cm'.outgoing[h] = i /\ cm'.pending[h] # "none"
                          /\ db.keystones[i] = h /\ h \in db.adds
                      /\ cm'.outgoing[h] = i =>
                          cm'.opened[i] = h \/ (cm'.pending[h] = "none" /\ outHtlc[i] = h)
    BY <1>1, <1>5 DEF CircuitsOpen
  <2>1. /\ cm.opened[i] = h => /\ cm.outgoing[h] = i /\ cm.pending[h] # "none"
                               /\ db.keystones[i] = h /\ h \in db.adds
        /\ cm.outgoing[h] = i =>
                cm.opened[i] = h \/ (cm.pending[h] = "none" /\ outHtlc[i] = h)
    BY DEF Base, Inv, CircuitsOpen
  <2>2. CASE i \in KeystonesOf(cm, S)
    <3>1. PICK g \in S : cm.outgoing[g] = i
      BY <1>3, <2>2
    <3>2. cm.opened[i] = g /\ outHtlc[i] = g
      BY <1>4, <3>1
    <3> QED
      BY <1>5, <2>1, <2>2, <3>2, NotNone
  <2>3. CASE i \notin KeystonesOf(cm, S)
    <3>1. cm.outgoing[h] = i => h \notin S
      BY <1>4, <2>3
    <3> QED
      BY <1>5, <2>1, <2>3, <3>1
  <2> QED
    BY <2>2, <2>3
<1>12. Uncommitted'
  <2>1. \A i \in Index : i >= committed => cm'.opened[i] = cm.opened[i]
    <3> SUFFICES ASSUME NEW i \in Index, i \in KeystonesOf(cm, S)
                 PROVE  i < committed
      BY <1>1, <1>5, Types, NotNone
    <3> QED
      BY <1>3, <1>4
  <2> QED
    BY <1>1, <2>1 DEF Base, Inv, Uncommitted, OpenedBy
<1>13. Responses'
  BY <1>1, <1>2, <1>3, <1>4, <1>5, Types DEF Base, Inv, Responses, Locked, Carried,
    Gone
<1>14. Removals'
  BY <1>1, <1>2, <1>3, <1>4, <1>5, Types DEF Base, Inv, Removals
<1>15. /\ LocalLog' /\ Answers'
      /\ TrimmedOnly' /\ Balance'
  BY <1>1, <1>2, <1>3, <1>4, <1>5, Types, Frames
<1> QED
  BY <1>6, <1>7, <1>8, <1>10, <1>11, <1>12, <1>13, <1>14, <1>15, <1>9 DEF Base, Inv

\* They are deleted on disk.
LEMMA CircuitsDeletedInv ==
    ASSUME Base, Base', Inv, CircuitsDeleted
    PROVE  Inv'
<1> DEFINE K == KeystonesOf(cm, removed)
<1>1. /\ TypeOK /\ linkI = "deleted" /\ linkI' = "up" /\ deleting' = {} /\ removed' = {}
      /\ db' = DeleteBuckets(cm, db, removed) /\ cm' = ForgetDeleted(cm, removed)
      /\ reply' = [h \in HTLC |-> IF h \in deleting THEN None ELSE reply[h]]
      /\ closedKeys' \subseteq closedKeys
      /\ UNCHANGED <<incoming, outHtlc, committed, openedKeys, answer,
                   acked, mail, taken, toRoute, forwarding, step, quit, offer,
                   replay, removing, linkO, stepO, local, nextO, batch, trimmed>>
  BY DEF Base, Inv, CircuitsDeleted, mailO, varsF, varsO
<1>2. /\ removed \subseteq deleting /\ deleting \subseteq HTLC
      /\ \A h \in deleting : Gone(h)
      /\ \A h \in removed : cm.pending[h] = "none"
  BY <1>1, Types DEF Base, Inv, Removing, GoneKeys, Removals
<1>3. \A i \in K : /\ i \in Index /\ i < committed
                   /\ \E h \in removed : outHtlc[i] = h
  <2> SUFFICES ASSUME NEW i \in K
               PROVE  i \in Index /\ i < committed /\ \E h \in removed : outHtlc[i] = h
    OBVIOUS
  <2>1. PICK h \in removed : i = cm.outgoing[h] /\ i # None
    BY DEF KeystonesOf, HasKeystone
  <2>2. i \in Index /\ h # None
    BY <1>1, <1>2, <2>1, Types, NotNone
  <2>3. outHtlc[i] = h
    BY <1>2, <2>1, <2>2 DEF Base, Inv, CircuitsOpen
  <2> QED
    BY <2>2, <2>3 DEF Base, Inv, Commitment
<1>4. /\ UNCHANGED <<cm.pending, cm.opened>> /\ cm' \in CircuitMaps
      /\ \A h \in HTLC : cm'.outgoing[h] = IF h \in removed THEN None ELSE cm.outgoing[h]
  BY <1>1, Types DEF ForgetDeleted, CircuitMaps
<1>5. /\ db'.adds = db.adds \ removed /\ db' \in Buckets
      /\ \A i \in Index : db'.keystones[i] = IF i \in K THEN None ELSE db.keystones[i]
  <2> HIDE DEF K
  <2> QED
    BY <1>1, Types DEF DeleteBuckets, Buckets, K
<1> HIDE DEF K
<1>6. Packets'
  BY <1>1, <1>2, <1>3, <1>4, <1>5, Types DEF Base, Inv, Packets, Locked, Carried,
    Gone
<1>7. Waiting'
  BY <1>1, <1>2, <1>3, <1>4, <1>5, Types DEF Base, Inv, Waiting, Locked, Carried,
    Gone
<1>8. CircuitsKnown'
  BY <1>1, <1>2, <1>3, <1>4, <1>5, Types DEF Base, Inv, CircuitsKnown, Locked, Gone
<1>9. CircuitsOpen'
  <2> SUFFICES ASSUME NEW h \in HTLC, NEW i \in Index
               PROVE  /\ cm.opened[i] = h =>
                          /\ cm'.outgoing[h] = i /\ cm.pending[h] # "none"
                          /\ db'.keystones[i] = h /\ h \in db'.adds
                      /\ cm'.outgoing[h] = i =>
                          cm.opened[i] = h \/ (cm.pending[h] = "none" /\ outHtlc[i] = h)
    BY <1>1, <1>4 DEF CircuitsOpen
  <2>1. /\ cm.opened[i] = h => /\ cm.outgoing[h] = i /\ cm.pending[h] # "none"
                               /\ db.keystones[i] = h /\ h \in db.adds
        /\ cm.outgoing[h] = i =>
                cm.opened[i] = h \/ (cm.pending[h] = "none" /\ outHtlc[i] = h)
    BY DEF Inv, CircuitsOpen
  <2>2. ASSUME cm.opened[i] = h PROVE h \notin removed /\ i \notin K
    <3>1. h \notin removed /\ h # None /\ db.keystones[i] = h
      BY <1>2, <2>1, <2>2, NotNone
    <3>2. i < committed => outHtlc[i] = h
      BY <3>1 DEF Inv, KeystonesOnDisk
    <3> QED
      BY <1>3, <3>1, <3>2
  <2>3. cm'.outgoing[h] = i => cm.outgoing[h] = i
    BY <1>4, NotNone
  <2> QED
    BY <1>4, <1>5, <2>1, <2>2, <2>3
<1>10. KeystonesOnDisk'
  <2>1. \A i \in Index : i >= committed => i \notin K
    BY <1>1, <1>3, Types, NotNone
  <2> SUFFICES ASSUME NEW i \in Index, db'.keystones[i] # None
               PROVE  /\ i < committed => outHtlc[i] = db'.keystones[i]
                      /\ i >= committed =>
                           \/ db'.keystones[i] \in ToSet(mail)
                           \/ /\ linkO \in {"down", "trimmed"}
                              /\ db'.keystones[i] \in db'.adds
                              /\ cm.pending[db'.keystones[i]] # "none"
                      /\ \A j \in Index : db'.keystones[j] = db'.keystones[i] => i = j
                      /\ \A j \in committed .. i : db'.keystones[j] # None
    BY <1>1, <1>4 DEF KeystonesOnDisk
  <2>2. db'.keystones[i] = db.keystones[i] /\ db.keystones[i] # None
    BY <1>5
  <2>3. \A j \in Index : db'.keystones[j] = db'.keystones[i] => db.keystones[j] = db.keystones[i]
    BY <1>5, <2>2
  <2>4. \A j \in committed .. i : j \in Index /\ db'.keystones[j] = db.keystones[j]
    <3>1. \A j \in committed .. i : j \in Index /\ j >= committed
      BY <1>1, Types, NotNone DEF Index
    <3> QED
      BY <1>5, <2>1, <3>1
  <2> QED
    BY <1>2, <1>5, <2>2, <2>3, <2>4 DEF Inv, KeystonesOnDisk
<1>11. Commitment'
  <2> SUFFICES ASSUME NEW i \in Index, outHtlc[i] # None, outHtlc[i] \in db.adds \ removed
               PROVE  i \notin K
    BY <1>1, <1>4, <1>5 DEF Inv, Commitment, Locked
  <2> QED
    BY <1>3
<1>12. Uncommitted'
  BY <1>1, <1>2, <1>3, <1>4, <1>5, Types, NotNone DEF Base, Inv, Uncommitted,
    OpenedBy
<1>13. Responses'
  BY <1>1, <1>2, <1>3, <1>4, <1>5, Types DEF Base, Inv, Responses, Locked, Carried
<1>14. Removals'
  BY <1>1, <1>2, <1>3, <1>4, <1>5, Types DEF Base, Inv, Removals
<1>15. /\ LocalLog' /\ Answers' /\ TrimmedOnly' /\ Balance'
  BY <1>1, <1>2, <1>3, <1>4, <1>5, Types, Frames
<1> QED
  BY <1>6, <1>7, <1>8, <1>9, <1>10, <1>12, <1>13, <1>14, <1>15, <1>11 DEF Base, Inv

\* Link I forgets what it offers.
LEMMA StopIInv ==
    ASSUME Base, Base', Inv, StopI
    PROVE  Inv'
<1>1. /\ TypeOK /\ linkI = "up" /\ linkI' = "down" /\ offer' = None
      /\ replay' = {} /\ removing' = {} /\ quit' = (forwarding # None)
      /\ UNCHANGED <<incoming, closedKeys, outHtlc, committed, openedKeys,
                   answer, acked, db, cm, mail, taken, reply, toRoute, forwarding,
                   step, deleting, removed, linkO, stepO, local, nextO, batch,
                   trimmed>>
  BY DEF Base, Inv, StopI, disk, mailO, varsO
<1>2. Packets'
  BY <1>1, Types DEF Base, Inv, Packets, Gone, Locked, Carried
<1>3. Removals'
  BY <1>1, Types DEF Base, Inv, Removals
<1>4. /\ Waiting' /\ LocalLog' /\ Commitment' /\ Answers'
      /\ CircuitsKnown' /\ CircuitsOpen' /\ KeystonesOnDisk'
      /\ Uncommitted' /\ TrimmedOnly' /\ Responses' /\ Balance'
  BY <1>1, Types, Frames
<1> QED
  BY <1>2, <1>3, <1>4 DEF Base, Inv

\* Link I replays what is not removed.
LEMMA StartIInv ==
    ASSUME Base, Base', Inv, StartI
    PROVE  Inv'
<1>1. /\ TypeOK /\ linkI = "down" /\ linkI' = "delete" /\ deleting' = closedKeys
      /\ replay' = {h \in HTLC : incoming[h] = "locked"}
      /\ UNCHANGED <<incoming, closedKeys, outHtlc, committed, openedKeys,
                   answer, acked, db, cm, mail, taken, reply, toRoute, forwarding,
                   step, quit, offer, removing, removed, linkO, stepO, local, nextO,
                   batch, trimmed>>
  BY DEF Base, Inv, StartI, StartDelete, disk, mailO, varsF, varsO
<1>2. removed = {}
  BY <1>1 DEF Base, Inv, Removing, GoneKeys, Removals
<1>3. Packets'
  BY <1>1, <1>2, Types DEF Base, Inv, Packets, Gone, Locked, Carried
<1>4. Removals'
  BY <1>1, <1>2, Types DEF Base, Inv, Removals
<1>5. /\ Waiting' /\ LocalLog' /\ Commitment' /\ Answers'
      /\ CircuitsKnown' /\ CircuitsOpen' /\ KeystonesOnDisk'
      /\ Uncommitted' /\ TrimmedOnly' /\ Responses' /\ Balance'
  BY <1>1, <1>2, Types, Frames
<1> QED
  BY <1>3, <1>4, <1>5 DEF Base, Inv

\* Link O stops.
LEMMA StopOInv ==
    ASSUME Base, Base', Inv, StopO
    PROVE  Inv'
<1>1. /\ EndO /\ stepO = "idle" /\ linkO \in {"sync", "up"}
      /\ UNCHANGED <<incoming, closedKeys, outHtlc, committed, openedKeys,
                   answer, acked, db, cm, mail, reply, forwarding, step, quit, linkI,
                   offer, replay, removing, deleting, removed, trimmed>>
  BY DEF StopO, disk, varsF, varsI
<1> QED
  BY <1>1, EndOInv

\* All keystones that are not committed are trimmed.
LEMMA StartOInv ==
    ASSUME Base, Base', Inv, StartO
    PROVE  Inv'
<1> DEFINE T == Trimmed(cm, committed)
<1>1. /\ TypeOK /\ linkO = "down" /\ linkO' = "trimmed" /\ trimmed' = T
      /\ cm' = TrimMap(cm, T)
      /\ UNCHANGED <<incoming, closedKeys, outHtlc, committed, openedKeys,
                   answer, acked, db, mail, taken, reply, toRoute, forwarding, step,
                   quit, linkI, offer, replay, removing, deleting, removed, stepO,
                   local, nextO, batch>>
  BY DEF Base, Inv, StartO, disk, mailO, varsF, varsI
<1>2. T \subseteq Index /\ \A i \in Index : i \in T <=> i >= committed /\ db.keystones[i] # None
  <2> SUFFICES ASSUME NEW i \in Index, i >= committed
               PROVE  (\A j \in committed .. i : cm.opened[j] # None) <=> db.keystones[i] # None
    BY DEF Trimmed
  <2>1. i \in committed .. i /\ \A j \in committed .. i : j \in Index /\ j >= committed
    BY <1>1, Types, NotNone DEF Index
  <2>2. \A j \in committed .. i : cm.opened[j] = db.keystones[j]
    BY <1>1, <2>1 DEF Base, Inv, Uncommitted
  <2> QED
    BY <2>1, <2>2 DEF Base, Inv, KeystonesOnDisk
<1>3. /\ UNCHANGED cm.pending /\ cm' \in CircuitMaps
      /\ \A i \in Index : cm'.opened[i] = IF i \in T THEN None ELSE cm.opened[i]
      /\ \A h \in HTLC : cm'.outgoing[h] =
             IF \E i \in T : cm.opened[i] = h THEN None ELSE cm.outgoing[h]
  <2> HIDE DEF T
  <2> QED
    BY <1>1, Types DEF TrimMap, CircuitMaps
<1> HIDE DEF T
<1>4. Commitment'
  <2>1. \A i \in Index : i < committed => i \notin T
    BY <1>1, <1>2, Types, NotNone
  <2> QED
    BY <1>1, <1>3, <2>1 DEF Inv, Commitment, Locked
<1>5. CircuitsOpen'
  <2> SUFFICES ASSUME NEW h \in HTLC, NEW i \in Index
               PROVE  /\ cm'.opened[i] = h =>
                          /\ cm'.outgoing[h] = i /\ cm'.pending[h] # "none"
                          /\ db.keystones[i] = h /\ h \in db.adds
                      /\ cm'.outgoing[h] = i =>
                          cm'.opened[i] = h \/ (cm'.pending[h] = "none" /\ outHtlc[i] = h)
    BY <1>1, <1>3 DEF CircuitsOpen
  <2>1. /\ cm.opened[i] = h => /\ cm.outgoing[h] = i /\ cm.pending[h] # "none"
                               /\ db.keystones[i] = h /\ h \in db.adds
        /\ cm.outgoing[h] = i =>
                cm.opened[i] = h \/ (cm.pending[h] = "none" /\ outHtlc[i] = h)
    BY DEF Base, Inv, CircuitsOpen
  <2>2. \A j \in T : cm.opened[j] = h => cm.outgoing[h] = j
    BY <1>2 DEF Base, Inv, CircuitsOpen
  <2>3. CASE i \in T
    BY <1>3, <2>1, <2>3, NotNone
  <2>4. CASE i \notin T
    BY <1>3, <2>1, <2>2, <2>4, NotNone
  <2> QED
    BY <2>3, <2>4
<1>6. Uncommitted'
  BY <1>1, <1>2, <1>3, Types, NotNone DEF Base, Inv, Uncommitted, OpenedBy
<1>7. TrimmedOnly'
  BY <1>1, <1>2, <1>3, Types DEF Base, Inv, TrimmedOnly
<1>8. /\ Packets' /\ Waiting' /\ LocalLog' /\ Answers'
      /\ CircuitsKnown' /\ Responses' /\ Removals'
      /\ Balance'
  BY <1>1, <1>2, <1>3, Types, Frames
<1>9. KeystonesOnDisk'
  BY <1>1, <1>3 DEF Inv, KeystonesOnDisk
<1> QED
  BY <1>4, <1>5, <1>6, <1>7, <1>8, <1>9 DEF Inv

\* They are trimmed on disk.
LEMMA TrimKeystonesInv ==
    ASSUME Base, Base', Inv, TrimKeystones
    PROVE  Inv'
<1>1. /\ TypeOK /\ linkO = "trimmed" /\ linkO' = "sync" /\ trimmed' = {}
      /\ db' = DeleteKeystones(db, trimmed)
      /\ UNCHANGED <<incoming, closedKeys, outHtlc, committed, openedKeys,
                   answer, acked, cm, mail, taken, reply, toRoute, forwarding, step,
                   quit, linkI, offer, replay, removing, deleting, removed, stepO,
                   local, nextO, batch>>
  BY DEF Base, Inv, TrimKeystones, disk, mailO, varsF, varsI
<1>2. /\ db'.adds = db.adds /\ db' \in Buckets
      /\ \A i \in Index : db'.keystones[i] = IF i \in trimmed THEN None ELSE db.keystones[i]
  BY <1>1, Types DEF DeleteKeystones, Buckets
<1>3. \A i \in Index : /\ i \in trimmed => i >= committed
                       /\ i >= committed => cm.opened[i] = None /\ db'.keystones[i] = None
  BY <1>1, <1>2 DEF Base, Inv, Uncommitted, TrimmedOnly
<1>4. CircuitsOpen'
  <2> SUFFICES ASSUME NEW h \in HTLC, NEW i \in Index
               PROVE  /\ cm.opened[i] = h =>
                          /\ cm.outgoing[h] = i /\ cm.pending[h] # "none"
                          /\ db'.keystones[i] = h /\ h \in db.adds
                      /\ cm.outgoing[h] = i =>
                          cm.opened[i] = h \/ (cm.pending[h] = "none" /\ outHtlc[i] = h)
    BY <1>1, <1>2 DEF CircuitsOpen
  <2>1. /\ cm.opened[i] = h => /\ cm.outgoing[h] = i /\ cm.pending[h] # "none"
                               /\ db.keystones[i] = h /\ h \in db.adds
        /\ cm.outgoing[h] = i =>
                cm.opened[i] = h \/ (cm.pending[h] = "none" /\ outHtlc[i] = h)
    BY DEF Base, Inv, CircuitsOpen
  <2>2. cm.opened[i] = h => i \notin trimmed
    BY <1>3, NotNone
  <2> QED
    BY <1>2, <2>1, <2>2
<1>5. KeystonesOnDisk'
  BY <1>1, <1>2, <1>3, Types, NotNone DEF Base, Inv, KeystonesOnDisk
<1>6. Uncommitted'
  BY <1>1, <1>2, <1>3, Types DEF Base, Inv, Uncommitted, OpenedBy
<1>7. TrimmedOnly'
  BY <1>1, <1>2, <1>3, Types DEF Base, Inv, TrimmedOnly
<1>8. /\ Packets' /\ Waiting' /\ LocalLog' /\ Answers'
      /\ CircuitsKnown' /\ Responses' /\ Removals' /\ Balance'
  BY <1>1, <1>2, <1>3, Types, Frames
<1>9. Commitment'
  <2>1. \A i \in Index : i < committed => i \notin trimmed
    BY <1>1, <1>3, NotNone, Types
  <2> QED
    BY <1>1, <1>2, <2>1 DEF Inv, Commitment, Locked
<1> QED
  BY <1>4, <1>5, <1>6, <1>7, <1>8, <1>9 DEF Inv

\* Link O starts with no keystone that is not committed.
LEMMA SyncOInv ==
    ASSUME Base, Base', Inv, SyncO
    PROVE  Inv'
<1>1. /\ TypeOK /\ linkO = "sync" /\ linkO' = "up" /\ stepO = "idle"
      /\ nextO = committed /\ batch = committed
      /\ openedKeys' \in {openedKeys, {}} /\ taken' = {} /\ toRoute' = toRoute \cup Unacked
      /\ UNCHANGED <<incoming, closedKeys, outHtlc, committed, answer,
                   acked, db, cm, reply, forwarding, step, quit, linkI, offer,
                   replay, removing, deleting, removed, stepO, local, nextO, batch,
                   trimmed>>
  <2>1. linkO = "sync" /\ nextO = committed /\ committed <= batch /\ batch <= nextO /\ stepO = "idle"
    BY DEF Base, Inv, SyncO, Indices
  <2> QED
    BY <2>1, Types DEF Base, Inv, SyncO, varsF, varsI
<1>2. mail' \in Seq(HTLC) /\ ToSet(mail') = ToSet(mail) \ openedKeys'
  BY <1>1, WithoutEffect, Types DEF SyncO
<1>3. Unacked \subseteq Index /\ \A i \in Unacked : answer[i] # "none"
  BY DEF Unacked
<1>4. Packets'
  BY <1>1, <1>2, <1>3, Types DEF Base, Inv, Packets, Gone, Locked, Carried
<1>5. Waiting'
  BY <1>1, <1>2, <1>3, Types DEF Base, Inv, Waiting, Locked, Carried
<1>6. LocalLog'
  BY <1>1, <1>2, <1>3, Types DEF Base, Inv, InLog, LocalLog, Carried
<1>7. Answers'
  BY <1>1, <1>2, <1>3, Types DEF Base, Inv, Answers
<1>8. KeystonesOnDisk'
  BY <1>1, <1>2, <1>3, Types, NotNone DEF Base, Inv, KeystonesOnDisk, Uncommitted
<1>9. Uncommitted'
  BY <1>1, <1>2, <1>3, Types, NotNone DEF Base, Inv, Uncommitted, OpenedBy,
    CircuitsOpen, OpenedBy
<1>10. TrimmedOnly'
  BY <1>1, <1>2, <1>3, Types DEF Base, Inv, TrimmedOnly
<1>11. /\ Commitment' /\ CircuitsKnown' /\ CircuitsOpen' /\ Responses'
      /\ Removals' /\ Balance'
  BY <1>1, <1>2, <1>3, Types, Frames
<1> QED
  BY <1>4, <1>5, <1>6, <1>7, <1>8, <1>9, <1>10, <1>11 DEF Base, Inv

\* What is on disk makes a circuit map, with no keystone that is not
\* committed.
LEMMA RestartInv ==
    ASSUME Base, Base', Inv, Restart
    PROVE  Inv'
<1> DEFINE r == RestoreMemState(db)
           T == Trimmed(r, committed)
           keys(h) == {i \in Index : db.keystones[i] = h}
<1>1. /\ TypeOK /\ cm' = TrimMap(r, T) /\ db' = DeleteKeystones(db, T)
      /\ mail' = <<>> /\ taken' = {} /\ reply' = [h \in HTLC |-> None]
      /\ toRoute' = Unacked /\ forwarding' = None /\ step' = "commit" /\ quit' = FALSE
      /\ linkI' = "down" /\ offer' = None /\ replay' = {} /\ removing' = {} /\ deleting' = {}
      /\ removed' = {} /\ linkO' = "down" /\ stepO' = "idle" /\ trimmed' = {}
      /\ local' = [i \in Index |-> None] /\ nextO' = committed /\ batch' = committed
      /\ UNCHANGED <<incoming, closedKeys, outHtlc, committed, openedKeys, answer, acked>>
  BY DEF Base, Inv, Restart, disk
<1>2. /\ mail' \in Seq(HTLC) /\ ToSet(mail') = {}
      /\ Unacked \subseteq Index /\ \A i \in Unacked : answer[i] # "none"
  BY <1>1 DEF ToSet, Unacked
<1>3. /\ \A h \in HTLC : r.pending[h] = IF h \in db.adds THEN "loaded" ELSE "none"
      /\ \A i \in Index : r.opened[i] =
             IF db.keystones[i] \in db.adds THEN db.keystones[i] ELSE None
      /\ \A h \in HTLC : r.outgoing[h] =
             IF h \in db.adds /\ keys(h) # {} THEN Max(keys(h)) ELSE None
      /\ r.pending \in [HTLC -> {"none", "new", "loaded"}]
      /\ r = [pending |-> r.pending, outgoing |-> r.outgoing, opened |-> r.opened, closed |-> r.closed]
      /\ r.closed = {}
  BY DEF RestoreMemState
<1>4. \A h \in HTLC : \A i \in Index : db.keystones[i] = h => keys(h) = {i} /\ Max(keys(h)) = i
  <2> SUFFICES ASSUME NEW h \in HTLC, NEW i \in Index, db.keystones[i] = h
               PROVE  keys(h) = {i} /\ Max(keys(h)) = i
    OBVIOUS
  <2>1. keys(h) = {i}
    BY NotNone DEF Base, Inv, KeystonesOnDisk
  <2>2. Max({i}) = i
    BY NotNone DEF Max
  <2> HIDE DEF keys
  <2> QED
    BY <2>1, <2>2
<1>5. \A h \in HTLC : \A i \in Index : r.outgoing[h] = i <=> h \in db.adds /\ db.keystones[i] = h
  <2> SUFFICES ASSUME NEW h \in HTLC, NEW i \in Index
               PROVE  r.outgoing[h] = i <=> h \in db.adds /\ db.keystones[i] = h
    OBVIOUS
  <2>1. CASE keys(h) = {}
    <3>1. db.keystones[i] # h
      BY <2>1
    <3>2. r.outgoing[h] = None
      <4> HIDE DEF keys, r
      <4> QED
        BY <1>3, <2>1
    <3> HIDE DEF r
    <3> QED
      BY <3>1, <3>2, NotNone
  <2>2. CASE keys(h) # {}
    <3>1. PICK j \in Index : db.keystones[j] = h
      BY <2>2
    <3>2. Max(keys(h)) = j /\ (db.keystones[i] = h => i = j)
      BY <1>4, <3>1
    <3> HIDE DEF keys
    <3> QED
      BY <1>3, <2>2, <3>1, <3>2, NotNone
  <2> QED
    BY <2>1, <2>2
<1>6. \A i \in Index : i >= committed /\ db.keystones[i] # None => db.keystones[i] \in db.adds
  BY DEF Inv, KeystonesOnDisk, Waiting
<1>7. T \subseteq Index /\ \A i \in Index : i \in T <=> i >= committed /\ db.keystones[i] # None
  <2> SUFFICES ASSUME NEW i \in Index, i >= committed
               PROVE  (\A j \in committed .. i : r.opened[j] # None) <=> db.keystones[i] # None
    BY DEF Trimmed
  <2>1. i \in committed .. i /\ \A j \in committed .. i : j \in Index /\ j >= committed
    BY <1>1, Types, NotNone DEF Index
  <2>2. None \notin db.adds
    BY <1>1, Types, NotNone
  <2>3. \A j \in committed .. i : r.opened[j] = db.keystones[j]
    BY <1>3, <1>6, <2>1, <2>2
  <2> HIDE DEF r
  <2> QED
    BY <2>1, <2>3 DEF Base, Inv, KeystonesOnDisk
<1> HIDE DEF r, keys
<1>8. /\ cm'.pending = r.pending /\ cm'.closed = {}
      /\ cm'.opened = [i \in Index |-> IF i \in T THEN None ELSE r.opened[i]]
      /\ cm'.outgoing = [h \in HTLC |->
             IF \E i \in T : r.opened[i] = h THEN None ELSE r.outgoing[h]]
      /\ cm' = [pending |-> cm'.pending, outgoing |-> cm'.outgoing, opened |-> cm'.opened, closed |-> {}]
  <2> HIDE DEF T
  <2>1. cm' = [r EXCEPT !.opened = [i \in Index |-> IF i \in T THEN None ELSE r.opened[i]],
                        !.outgoing = [h \in HTLC |->
                            IF \E i \in T : r.opened[i] = h THEN None ELSE r.outgoing[h]]]
    BY <1>1 DEF TrimMap
  <2>2. /\ r = [pending |-> r.pending, outgoing |-> r.outgoing, opened |-> r.opened, closed |-> r.closed]
        /\ r.closed = {}
    BY <1>3
  <2> QED
    BY <2>1, <2>2
<1>9. /\ db'.adds = db.adds /\ db' \in Buckets
      /\ \A i \in Index : db'.keystones[i] = IF i \in T THEN None ELSE db.keystones[i]
  <2> HIDE DEF T
  <2> QED
    BY <1>1, Types DEF DeleteKeystones, Buckets
<1> HIDE DEF T
<1>10. \A i \in Index : db'.keystones[i] = IF i < committed THEN db.keystones[i] ELSE None
  BY <1>1, <1>7, <1>9, Types, NotNone
<1>11. \A i \in Index : cm'.opened[i] =
           IF i < committed /\ db.keystones[i] \in db.adds THEN db.keystones[i] ELSE None
  <2> SUFFICES ASSUME NEW i \in Index
               PROVE  cm'.opened[i] =
                          IF i < committed /\ db.keystones[i] \in db.adds THEN db.keystones[i] ELSE None
    OBVIOUS
  <2>1. None \notin db.adds /\ (i < committed <=> ~ (i >= committed))
    BY <1>1, Types, NotNone
  <2> QED
    BY <1>3, <1>6, <1>7, <1>8, <2>1
<1>12. \A h \in HTLC : \A i \in Index : cm'.outgoing[h] = i =>
          i < committed /\ db.keystones[i] = h /\ h \in db.adds
  <2> SUFFICES ASSUME NEW h \in HTLC, NEW i \in Index, cm'.outgoing[h] = i
               PROVE  i < committed /\ db.keystones[i] = h /\ h \in db.adds
    OBVIOUS
  <2>1. r.outgoing[h] = i /\ ~ \E j \in T : r.opened[j] = h
    BY <1>8, NotNone
  <2>2. db.keystones[i] = h /\ h \in db.adds /\ r.opened[i] = h
    BY <1>3, <1>5, <2>1
  <2>3. ~ (i >= committed)
    BY <1>7, <2>1, <2>2, NotNone
  <2>4. i \in Nat /\ committed \in Nat
    BY <1>1, Types, NotNone
  <2> QED
    BY <2>2, <2>3, <2>4
<1>13. \A h \in HTLC : \A i \in Index : i < committed /\ db.keystones[i] = h /\ h \in db.adds =>
          cm'.outgoing[h] = i
  <2> SUFFICES ASSUME NEW h \in HTLC, NEW i \in Index,
                      i < committed, db.keystones[i] = h, h \in db.adds
               PROVE  cm'.outgoing[h] = i
    OBVIOUS
  <2>1. ASSUME NEW j \in T, r.opened[j] = h PROVE FALSE
    <3>1. j \in Index /\ j >= committed /\ db.keystones[j] = h
      BY <1>3, <1>7, <2>1, NotNone
    <3>2. i = j
      BY <3>1, NotNone DEF Base, Inv, KeystonesOnDisk
    <3> QED
      BY <1>1, <3>1, <3>2, Types, NotNone
  <2> QED
    BY <1>5, <1>8, <2>1
<1>14. cm' \in CircuitMaps
  <2>1. cm'.pending \in [HTLC -> {"none", "new", "loaded"}]
    BY <1>3, <1>8
  <2>2. \A i \in Index : cm'.opened[i] \in HTLC \cup {None}
    BY <1>1, <1>11, Types
  <2>3. \A h \in HTLC : cm'.outgoing[h] \in Index \cup {None}
    <3> SUFFICES ASSUME NEW h \in HTLC PROVE r.outgoing[h] \in Index \cup {None}
      BY <1>8
    <3>1. CASE keys(h) = {}
      BY <1>3, <3>1
    <3>2. CASE keys(h) # {}
      <4>1. PICK j \in Index : db.keystones[j] = h
        BY <3>2 DEF keys
      <4>2. Max(keys(h)) = j
        BY <1>4, <4>1
      <4> QED
        BY <1>3, <4>2
    <3> QED
      BY <3>1, <3>2
  <2>4. /\ cm'.pending \in [HTLC -> {"none", "new", "loaded"}]
        /\ cm'.outgoing \in [HTLC -> Index \cup {None}]
        /\ cm'.opened \in [Index -> HTLC \cup {None}]
    BY <1>8, <2>1, <2>2, <2>3
  <2> QED
    BY <1>8, <2>4 DEF CircuitMaps
<1>15. \A h \in HTLC : cm'.pending[h] = IF h \in db.adds THEN "loaded" ELSE "none"
  BY <1>3, <1>8
<1>16. Packets'
  BY <1>1, <1>2, Types DEF Base, Inv, Packets, Gone, Locked, Carried
<1>17. Waiting'
  BY <1>1, <1>2, Types DEF Base, Inv, Waiting, Locked, Carried
<1>18. LocalLog'
  BY <1>1, <1>2, Types DEF Base, Inv, InLog, LocalLog, Carried
<1>19. Commitment'
  <2> SUFFICES ASSUME NEW i \in Index, outHtlc[i] # None
               PROVE  /\ (Locked(outHtlc[i]) \/ cm'.pending[outHtlc[i]] # "none") =>
                             cm'.opened[i] = outHtlc[i]
                      /\ outHtlc[i] \in db.adds => db'.keystones[i] = outHtlc[i]
    BY <1>1, <1>9 DEF Inv, Commitment, Locked
  <2>1. /\ i < committed /\ outHtlc[i] \in HTLC
        /\ outHtlc[i] \in db.adds => db.keystones[i] = outHtlc[i]
    BY <1>1, Types DEF Inv, Commitment
  <2>2. Locked(outHtlc[i]) => outHtlc[i] \in db.adds
    BY <2>1 DEF Base, AddsKept, Carried
  <2> QED
    BY <1>10, <1>11, <1>15, <2>1, <2>2
<1>20. Answers'
  BY <1>1, <1>2, Types DEF Base, Inv, Answers
<1>21. CircuitsKnown'
  BY <1>1, <1>2, Types, <1>9, <1>15 DEF Base, Inv, CircuitsKnown, Locked
<1>22. CircuitsOpen'
  <2> SUFFICES ASSUME NEW h \in HTLC, NEW i \in Index
               PROVE  /\ cm'.opened[i] = h =>
                          /\ cm'.outgoing[h] = i /\ cm'.pending[h] # "none"
                          /\ db'.keystones[i] = h /\ h \in db.adds
                      /\ cm'.outgoing[h] = i =>
                          cm'.opened[i] = h \/ (cm'.pending[h] = "none" /\ outHtlc[i] = h)
    BY <1>1, <1>9 DEF CircuitsOpen
  <2>1. /\ cm.opened[i] = h => /\ cm.outgoing[h] = i /\ cm.pending[h] # "none"
                               /\ db.keystones[i] = h /\ h \in db.adds
        /\ cm.outgoing[h] = i =>
                cm.opened[i] = h \/ (cm.pending[h] = "none" /\ outHtlc[i] = h)
    BY DEF Base, Inv, CircuitsOpen
  <2>2. cm'.opened[i] = h => i < committed /\ db.keystones[i] = h /\ h \in db.adds
    BY <1>11, NotNone
  <2>3. db'.keystones[i] = IF i < committed THEN db.keystones[i] ELSE None
    BY <1>10
  <2>4. cm'.outgoing[h] = i => cm'.opened[i] = h
    BY <1>11, <1>12
  <2> QED
    BY <1>13, <1>15, <2>2, <2>3, <2>4
<1>23. KeystonesOnDisk'
  BY <1>1, <1>2, Types, <1>10, NotNone DEF Base, Inv, KeystonesOnDisk
<1>24. Uncommitted'
  BY <1>1, <1>2, Types, <1>10, <1>11, NotNone DEF Base, Inv, Uncommitted, OpenedBy
<1>25. TrimmedOnly'
  BY <1>1, <1>2, Types DEF Base, Inv, TrimmedOnly
<1>26. Responses'
  BY <1>1, <1>2, Types DEF Base, Inv, Responses, Locked, Carried
<1>27. Removals'
  BY <1>1, <1>2, Types DEF Base, Inv, Removals
<1>28. Balance'
  BY <1>1, <1>2, Types, Frames
<1> QED
  BY <1>16, <1>17, <1>18, <1>19, <1>20, <1>21, <1>22, <1>23,
    <1>24, <1>25, <1>26, <1>27, <1>28 DEF Base, Inv

-----------------------------------------------------------------------------
(* Theorems.                                                               *)

\* Initially it holds.
LEMMA InitInv ==
    ASSUME Init
    PROVE  Inv
<1>1. ToSet(mail) = {} /\ \A i \in Index : i >= committed /\ ~ (i < committed)
  BY NotNone DEF Init, ToSet
<1>2. /\ \A h \in HTLC : cm.pending[h] = "none" /\ cm.outgoing[h] = None /\ h \notin db.adds
      /\ \A i \in Index : cm.opened[i] = None /\ db.keystones[i] = None
  BY DEF Init, EmptyMap, EmptyBuckets
<1>3. Packets /\ Waiting /\ LocalLog
  BY <1>1 DEF Init, Packets, Waiting, LocalLog
<1>4. Commitment /\ Answers /\ CircuitsKnown /\ TrimmedOnly
  BY <1>1, <1>2 DEF Init, Commitment, Answers, CircuitsKnown, TrimmedOnly, Locked
<1>5. CircuitsOpen /\ KeystonesOnDisk /\ Uncommitted
  BY <1>1, <1>2, NotNone DEF Init, CircuitsOpen, KeystonesOnDisk, Uncommitted, OpenedBy
<1>6. Responses /\ Removals /\ Balance
  BY DEF Init, Responses, Removals, Balance, Balanced
<1> QED
  BY <1>3, <1>4, <1>5, <1>6 DEF Inv

\* Every step that disturbs nothing keeps it: one case for each group of
\* actions of Next.
LEMMA StepInv ==
    ASSUME Base, Base', Inv, [Next]_vars, again' = {}, ~ torn'
    PROVE  Inv'
<1>1. CASE UNCHANGED vars
  <2>1. UNCHANGED <<disk, db, cm, mailO, reply, toRoute, varsF, varsI, varsO>>
    BY <1>1 DEF vars
  <2> QED
    BY <2>1, Frames DEF Inv, disk, mailO, varsF, varsI, varsO
<1>2. CASE \E h \in HTLC : LockIn(h) \/ DownstreamAdd(h) \/ Expire(h)
  BY <1>2, LockInInv, DownstreamAddInv, ExpireInv
<1>3. CASE ForwardAdd
  BY <1>3, ReplayInv, AcceptInv, CommitInv, WriteCircuitInv, RouteInv DEF ForwardAdd
<1>4. CASE CommitO
  BY <1>4, OpenCircuitsInv, CircuitsOpenedInv, SignNextCommitmentInv, AckAddsInv
     DEF CommitO
<1>5. CASE \E i \in Index :
              RouteAnswer(i) \/ \E kind \in {"settle", "fail"} : Answer(i, kind)
  BY <1>5, RouteAnswerInv, AnswerInv
<1>6. CASE Respond \/ SignRemoval \/ Delete
  BY <1>6, DownstreamResponseInv, SignRemovalInv, DeleteCircuitsInv, CircuitsDeletedInv
     DEF Respond, Delete
<1>7. CASE StopI \/ StartI \/ StopO \/ ConnectO
  BY <1>7, StopIInv, StartIInv, StopOInv, StartOInv, TrimKeystonesInv, SyncOInv
     DEF ConnectO
<1>8. CASE Restart
  BY <1>8, RestartInv
<1> QED
  BY <1>1, <1>2, <1>3, <1>4, <1>5, <1>6, <1>7, <1>8 DEF Next

\* What is disturbed stays so.
LEMMA HistoryKept ==
    ASSUME [Next]_vars, Undisturbed'
    PROVE  Undisturbed
<1>1. CASE UNCHANGED history
  BY <1>1 DEF history, Undisturbed
<1>2. ASSUME NEW h \in HTLC, Commit(h) PROVE Undisturbed
  <2>1. again \subseteq again' /\ UNCHANGED torn
    BY <1>2 DEF Commit
  <2> QED
    BY <2>1 DEF Undisturbed
<1>3. CASE DeleteCircuits
  BY <1>3 DEF DeleteCircuits, Undisturbed
<1>4. CASE UNCHANGED vars
  BY <1>1, <1>4 DEF vars
<1>5. CASE \/ \E h \in HTLC : LockIn(h) \/ DownstreamAdd(h) \/ Expire(h)
           \/ Replay \/ Accept \/ \E h \in HTLC : WriteCircuit(h) \/ Route(h)
           \/ CommitO
  BY <1>1, <1>5 DEF LockIn, DownstreamAdd, Expire, Replay, Accept, WriteCircuit, Route,
     CommitO, OpenCircuits, CircuitsOpened, SignNextCommitment, AckAdds
<1>6. CASE \/ \E i \in Index :
                  RouteAnswer(i) \/ \E kind \in {"settle", "fail"} : Answer(i, kind)
           \/ Respond \/ SignRemoval \/ CircuitsDeleted
           \/ StopI \/ StartI \/ StopO \/ ConnectO \/ Restart
  BY <1>1, <1>6 DEF RouteAnswer, Answer, Respond, DownstreamResponse, SignRemoval,
     CircuitsDeleted, StopI, StartI, StopO, ConnectO, StartO, TrimKeystones, SyncO, Restart
<1> QED
  BY <1>2, <1>3, <1>4, <1>5, <1>6 DEF Next, ForwardAdd, Delete

\* The invariant of the forwarding: what always holds, and what holds until a
\* removed HTLC gets a circuit again or a keystone loses its circuit.
THEOREM InductiveInvariant == Spec => [](Base /\ (Undisturbed => Inv))
<1>1. Init => Base /\ (Undisturbed => Inv)
  BY InitBase, InitInv
<1>2. Base /\ (Undisturbed => Inv) /\ [Next]_vars => Base' /\ (Undisturbed => Inv)'
  <2> SUFFICES ASSUME Base, Undisturbed => Inv, [Next]_vars
               PROVE  Base' /\ (Undisturbed' => Inv')
    OBVIOUS
  <2>1. Base'
    BY StepBase
  <2>2. ASSUME Undisturbed' PROVE Inv'
    <3>1. again' = {} /\ ~ torn'
      BY <2>2 DEF Undisturbed
    <3>2. Inv
      BY <2>2, HistoryKept
    <3> QED
      BY <2>1, <3>1, <3>2, StepInv
  <2> QED
    BY <2>1, <2>2
<1> QED
  BY <1>1, <1>2, PTL DEF Spec

\* The state of the links, of the switch and of the disk is well typed, through
\* replays, crashes, flaps and expiries.
THEOREM Typing == Spec => []TypeOK
<1>1. Base => TypeOK
  BY DEF Base
<1> QED
  BY <1>1, BaseInvariant, PTL

\* No money is lost: an HTLC is failed back (SignNextCommitment of link I) only
\* when every HTLC of O that carries it was failed, settled only when one was
\* settled; until CommitCircuits takes a packet of a removed HTLC, or
\* DeleteCircuits a circuit whose keystone is not committed.
THEOREM LossSafety == Spec => []NoLoss
<1>1. Base /\ (Undisturbed => Inv) => NoLoss
  BY DEF Inv, Balance, NoLoss
<1> QED
  BY <1>1, InductiveInvariant, PTL

\* An HTLC is committed once on O, whatever link I replays (resolveFwdPkgs),
\* the mailbox delivers again (ResetPackets), a crash forgets or a deadline
\* takes; unless CommitCircuits took its packet after it was removed.
THEOREM OnceSafety == Spec => []ForwardedOnce
<1>1. Base => ForwardedOnce
  <2> SUFFICES ASSUME Base, NEW h \in HTLC \ again
               PROVE  Cardinality(Outgoing(h)) <= 1
    BY DEF ForwardedOnce
  <2>1. CASE Outgoing(h) = {}
    <3>1. Cardinality(Outgoing(h)) = 0
      BY <2>1, FS_EmptySet
    <3> QED
      BY <3>1
  <2>2. CASE Outgoing(h) # {}
    <3>1. PICK i \in Index : outHtlc[i] = h
      BY <2>2 DEF Outgoing
    <3>2. \A j \in Index : outHtlc[j] = h => i = j
      BY <3>1 DEF Base, CarriedOnce
    <3>3. Outgoing(h) = {i}
      BY <3>1, <3>2 DEF Outgoing
    <3>4. Cardinality({i}) = 1
      BY FS_Singleton
    <3> QED
      BY <3>3, <3>4
  <2> QED
    BY <2>1, <2>2
<1> QED
  BY <1>1, BaseInvariant, PTL

\* The circuit and the keystone of an HTLC of O are on disk until it is removed
\* from I (DeleteCircuits, TrimOpenCircuits), with the same exceptions.
THEOREM KeptSafety == Spec => []CircuitKept
<1>1. Base /\ (Undisturbed => Inv) => CircuitKept
  BY NotNone DEF Inv, Commitment, CircuitsOpen, CircuitKept, Outgoing, Locked
<1> QED
  BY <1>1, InductiveInvariant, PTL

-----------------------------------------------------------------------------
(* The interceptor: types.                                                 *)

Reply == {"none", "settle", "fail"}
LinkState == [up : {"up", "down", "closed"}, todo : SUBSET Htlc,
              handing : Htlc \cup {NoHtlc}, replay : BOOLEAN]

\* The mailbox of the link keeps the first response and stays well typed.
LEMMA DeliverType ==
    ASSUME NEW S, NEW r \in {"settle", "fail"}, response \in [Htlc -> Reply]
    PROVE  /\ Deliver(S, r) \in [Htlc -> Reply]
           /\ \A h \in Htlc : response[h] # "none" => Deliver(S, r)[h] = response[h]
           /\ \A h \in Htlc \cap S : Deliver(S, r)[h] # "none"
           /\ \A h \in Htlc : response[h] = "none" /\ Deliver(S, r)[h] # "none"
                                => h \in S /\ Deliver(S, r)[h] = r
  BY DEF Deliver, Reply

\* A new link has a well-typed state.
LEMMA NewLinkType ==
    ASSUME NEW up \in {"up", "down", "closed"}
    PROVE  /\ NewLink(up) \in LinkState
           /\ NewLink(up).up = up /\ NewLink(up).todo = {}
           /\ NewLink(up).handing = NoHtlc /\ NewLink(up).replay = FALSE
  BY DEF NewLink, LinkState

\* Forwarding commits new circuits and answers the ones from before a restart.
LEMMA ForwardPacketsEffect ==
    ASSUME InterceptTypeOK, NEW S, ForwardPackets(S)
    PROVE  /\ circuit' \in [Htlc -> Circuit] /\ response' \in [Htlc -> Reply]
           /\ \A h \in Htlc :
                /\ circuit[h] \in {"half", "late", "open", "closed"} => circuit'[h] = circuit[h]
                /\ circuit'[h] = "half" =>
                        circuit[h] = "half" \/ (h \in S /\ ~ TooLateToForward(h))
                /\ circuit'[h] = "closed" => circuit[h] = "closed" \/ response'[h] # "none"
                /\ response[h] # "none" => response'[h] = response[h]
                /\ response[h] = "none" /\ response'[h] # "none" => circuit[h] = "stale"
                /\ h \in S => circuit'[h] \in {"half", "late", "open", "closed"}
  <1> DEFINE stale == {h \in S : circuit[h] = "stale"}
  <1>1. response \in [Htlc -> Reply] /\ circuit \in [Htlc -> Circuit]
    BY DEF InterceptTypeOK, Reply
  <1>2. response' = Deliver(stale, "fail")
    BY DEF ForwardPackets
  <1>3. circuit' \in [Htlc -> Circuit]
    BY <1>1 DEF ForwardPackets, Circuit
  <1>4. ASSUME NEW h \in Htlc
        PROVE  circuit'[h] =
                 IF h \in S /\ circuit[h] = "none"
                   THEN IF TooLateToForward(h) THEN "late" ELSE "half"
                 ELSE IF h \in S /\ circuit[h] = "stale" THEN "closed" ELSE circuit[h]
    BY DEF ForwardPackets
  <1> HIDE DEF stale
  <1>5. /\ response' \in [Htlc -> Reply]
        /\ \A h \in Htlc : response[h] # "none" => response'[h] = response[h]
        /\ \A h \in Htlc \cap stale : response'[h] # "none"
        /\ \A h \in Htlc : response[h] = "none" /\ response'[h] # "none" => h \in stale
    BY <1>1, <1>2, DeliverType
  <1> QED
    BY <1>1, <1>3, <1>4, <1>5 DEF stale, Circuit

-----------------------------------------------------------------------------
(* What links, holding and answers look like between any two steps.        *)

\* A closed circuit has its answer; only resolvers of a closed channel offer
\* from the chain; what was held or shown was handed over before; and what a
\* link hands over for the first time nobody has seen.
InterceptInv ==
    /\ InterceptTypeOK
    /\ link.up # "up" => link.handing = NoHtlc
    /\ link.handing # NoHtlc => link.handing \in offerable
    /\ \A h \in Htlc :
        /\ circuit[h] = "closed" => response[h] # "none"
        /\ held[h] = "chain" => link.up = "closed"
        /\ held[h] = "link" => h \in offerable
        /\ link.up # "closed" /\ h \in seen => h \in offerable
        /\ link.handing = h /\ ~ link.replay => held[h] = "no" /\ h \notin seen

\* Nothing is held or on its way at the start.
LEMMA InterceptInitInv == InterceptInit => InterceptInv
  <1> SUFFICES ASSUME InterceptInit PROVE InterceptInv
    OBVIOUS
  <1>1. link \in LinkState /\ link.up = "up" /\ link.handing = NoHtlc
    BY NewLinkType DEF InterceptInit
  <1>2. InterceptTypeOK
    BY <1>1 DEF InterceptInit, InterceptTypeOK, LinkState, Circuit, Action
  <1> QED
    BY <1>1, <1>2 DEF InterceptInit, InterceptInv

\* The links of the next state, whichever of the steps changes them.
LEMMA LinkType ==
    ASSUME InterceptInv,
           \/ interceptForward
           \/ \E h \in Htlc : LockInHtlc(h) \/ forwardBatch(h) \/ CommitResponse(h)
           \/ StopLink \/ StartLink \/ CloseChannel \/ RestartSwitch
    PROVE  link' \in LinkState
  <1>1. link \in LinkState
    BY DEF InterceptInv, InterceptTypeOK, LinkState
  <1>2. CASE interceptForward
    BY <1>1, <1>2 DEF interceptForward, LinkState
  <1>3. CASE \E h \in Htlc : LockInHtlc(h) \/ forwardBatch(h) \/ CommitResponse(h)
    <2> PICK h \in Htlc : LockInHtlc(h) \/ forwardBatch(h) \/ CommitResponse(h)
      BY <1>3
    <2>1. CASE LockInHtlc(h)
      BY <1>1, <2>1 DEF LockInHtlc, LinkState
    <2>2. CASE forwardBatch(h)
      <3> DEFINE todo == link.todo \ {h}
                 handing == IF response[h] = "none" THEN h ELSE NoHtlc
                 isReplay == h \in offerable
      <3>1. link' = [link EXCEPT !.todo = todo, !.handing = handing,
                                 !.replay = isReplay]
        BY <2>2 DEF forwardBatch
      <3>2. todo \in SUBSET Htlc /\ handing \in Htlc \cup {NoHtlc} /\ isReplay \in BOOLEAN
        BY <1>1 DEF LinkState
      <3> HIDE DEF todo, handing, isReplay
      <3> QED
        BY <1>1, <3>1, <3>2 DEF LinkState
    <2>3. CASE CommitResponse(h)
      BY <1>1, <2>3 DEF CommitResponse, LinkState
    <2> QED
      BY <2>1, <2>2, <2>3
  <1>4. CASE StopLink
    BY <1>4, NewLinkType DEF StopLink
  <1>5. CASE StartLink
    <2>1. NewLink("up") \in LinkState
      BY NewLinkType
    <2> DEFINE todo == {h \in Htlc : incomingHtlc[h] = "locked"}
    <2>2. link' = [NewLink("up") EXCEPT !.todo = todo]
      BY <1>5 DEF StartLink
    <2>3. todo \in SUBSET Htlc
      OBVIOUS
    <2> HIDE DEF todo
    <2> QED
      BY <2>1, <2>2, <2>3 DEF LinkState
  <1>6. CASE CloseChannel
    BY <1>6, NewLinkType DEF CloseChannel
  <1>7. CASE RestartSwitch
    <2> DEFINE up == IF link.up = "closed" THEN "closed" ELSE "down"
    <2>1. link' = NewLink(up) /\ up \in {"up", "down", "closed"}
      BY <1>7 DEF RestartSwitch
    <2> QED
      BY <2>1, NewLinkType
  <1> QED
    BY <1>2, <1>3, <1>4, <1>5, <1>6, <1>7

\* Holding an HTLC or passing it on, for a link or a resolver.
LEMMA ForwardInv ==
    ASSUME InterceptInv, NEW h \in Htlc, NEW who \in {"link", "chain"}, NEW isReplay \in BOOLEAN,
           forward(h, who, isReplay)
    PROVE  /\ circuit' \in [Htlc -> Circuit] /\ response' \in [Htlc -> Reply]
           /\ held' \in [Htlc -> {"no", "link", "chain"}]
           /\ asked' \subseteq Htlc /\ seen' \subseteq Htlc
           /\ \A g \in Htlc :
                /\ circuit'[g] = "closed" => response'[g] # "none"
                /\ response[g] # "none" => response'[g] # "none"
                /\ circuit[g] \in {"half", "late", "open", "closed"} => circuit'[g] = circuit[g]
                /\ held'[g] = held[g] \/ (g = h /\ held[g] = "no" /\ held'[g] = who)
                /\ g \in seen' => g \in seen \/ (g = h /\ held'[g] = who)
                /\ interceptor => (held'[g] # "no" /\ held[g] = "no" => g \in asked')
                /\ asked \subseteq asked'
                /\ required /\ circuit'[g] = "half" => circuit[g] = "half"
                /\ required /\ circuit[g] = "none" /\ response[g] = "none" /\ response'[g] # "none"
                        => g = h /\ ~ isReplay
                /\ who = "link" /\ g = h =>
                        \/ held'[g] # "no" \/ response'[g] # "none"
                        \/ circuit'[g] \in {"half", "late", "open", "closed"}
  <1>1. /\ circuit \in [Htlc -> Circuit] /\ response \in [Htlc -> Reply]
        /\ held \in [Htlc -> {"no", "link", "chain"}]
        /\ asked \subseteq Htlc /\ seen \subseteq Htlc
        /\ interceptor \in BOOLEAN /\ required \in BOOLEAN
        /\ \A g \in Htlc : circuit[g] = "closed" => response[g] # "none"
    BY DEF InterceptInv, InterceptTypeOK, Reply
  <1>2. CASE held[h] # "no"
    BY <1>1, <1>2 DEF forward
  <1>3. CASE held[h] = "no" /\ (interceptor \/ (required /\ isReplay))
    BY <1>1, <1>3 DEF forward, Push, Offer
  <1>4. CASE held[h] = "no" /\ ~ (interceptor \/ (required /\ isReplay))
    <2>1. UNCHANGED <<held, asked, seen>>
      BY <1>4 DEF forward
    <2>2. CASE required
      <3>1. FailWithCode({h})
        BY <1>4, <2>2 DEF forward
      <3>2. circuit' = circuit /\ response' = Deliver({h}, "fail")
        BY <3>1 DEF FailWithCode
      <3>3. /\ response' \in [Htlc -> Reply]
            /\ \A g \in Htlc : response[g] # "none" => response'[g] = response[g]
            /\ \A g \in Htlc \cap {h} : response'[g] # "none"
            /\ \A g \in Htlc : response[g] = "none" /\ response'[g] # "none" => g \in {h}
        BY <1>1, <3>2, DeliverType
      <3> QED
        BY <1>1, <1>4, <2>1, <2>2, <3>2, <3>3
    <2>3. CASE ~ required /\ who = "link"
      <3>1. InterceptTypeOK /\ ForwardPackets({h})
        BY <1>4, <2>3 DEF forward, InterceptInv
      <3>2. /\ circuit' \in [Htlc -> Circuit] /\ response' \in [Htlc -> Reply]
            /\ \A g \in Htlc :
                /\ circuit[g] \in {"half", "late", "open", "closed"} => circuit'[g] = circuit[g]
                /\ circuit'[g] = "closed" => circuit[g] = "closed" \/ response'[g] # "none"
                /\ response[g] # "none" => response'[g] = response[g]
                /\ g \in {h} => circuit'[g] \in {"half", "late", "open", "closed"}
        BY <3>1, ForwardPacketsEffect
      <3> QED
        BY <1>1, <1>4, <2>1, <2>3, <3>2
    <2>4. CASE ~ required /\ who # "link"
      BY <1>1, <1>4, <2>1, <2>4 DEF forward
    <2> QED
      BY <2>2, <2>3, <2>4
  <1> QED
    BY <1>2, <1>3, <1>4

\* An HTLC that comes too late: it gets a failure, or has an answer already and
\* goes to the switch, where it is too late as well.
LEMMA ExpiredEffect ==
    ASSUME InterceptInv, NEW h \in Htlc, TooLateToIntercept(h), handleExpired(h)
    PROVE  /\ circuit' \in [Htlc -> Circuit] /\ response' \in [Htlc -> Reply]
           /\ UNCHANGED <<held, asked, seen>>
           /\ response'[h] # "none"
           /\ \A g \in Htlc :
                /\ circuit'[g] = "closed" => response'[g] # "none"
                /\ response[g] # "none" => response'[g] = response[g]
                /\ circuit[g] \in {"half", "late", "open", "closed"} => circuit'[g] = circuit[g]
                /\ circuit'[g] = "half" => circuit[g] = "half"
                /\ response[g] = "none" /\ response'[g] # "none" => g = h \/ circuit[g] = "stale"
  <1>1. /\ InterceptTypeOK /\ circuit \in [Htlc -> Circuit] /\ response \in [Htlc -> Reply]
        /\ \A g \in Htlc : circuit[g] = "closed" => response[g] # "none"
        /\ height \in Nat
    BY DEF InterceptInv, InterceptTypeOK, Reply
  <1>2. UNCHANGED <<held, asked, seen>>
    BY DEF handleExpired
  <1>3. CASE response[h] = "none"
    <2>1. circuit' = circuit /\ response' = Deliver({h}, "fail")
      BY <1>3 DEF handleExpired, FailWithCode
    <2>2. /\ response' \in [Htlc -> Reply]
          /\ \A g \in Htlc : response[g] # "none" => response'[g] = response[g]
          /\ \A g \in Htlc \cap {h} : response'[g] # "none"
          /\ \A g \in Htlc : response[g] = "none" /\ response'[g] # "none" => g \in {h}
      BY <1>1, <2>1, DeliverType
    <2> QED
      BY <1>1, <1>2, <2>1, <2>2
  <1>4. CASE response[h] # "none"
    <2>1. ForwardPackets({h})
      BY <1>4 DEF handleExpired
    <2>2. TooLateToForward(h)
      <3>1. Expiry[h] \in Nat /\ CltvInterceptDelta \in Nat
        BY InterceptableSwitchAssumption
      <3> QED
        BY <1>1, <3>1, DeltasAssumption DEF TooLateToIntercept, TooLateToForward
    <2>3. /\ circuit' \in [Htlc -> Circuit] /\ response' \in [Htlc -> Reply]
          /\ \A g \in Htlc :
                /\ circuit[g] \in {"half", "late", "open", "closed"} => circuit'[g] = circuit[g]
                /\ circuit'[g] = "half" =>
                        circuit[g] = "half" \/ (g \in {h} /\ ~ TooLateToForward(g))
                /\ circuit'[g] = "closed" => circuit[g] = "closed" \/ response'[g] # "none"
                /\ response[g] # "none" => response'[g] = response[g]
                /\ response[g] = "none" /\ response'[g] # "none" => circuit[g] = "stale"
      BY <1>1, <2>1, ForwardPacketsEffect
    <2> QED
      BY <1>1, <1>2, <1>4, <2>2, <2>3
  <1> QED
    BY <1>3, <1>4

\* Of the held set alone.
LEMMA ForwardHolds ==
    ASSUME InterceptInv, NEW h \in Htlc, NEW who \in {"link", "chain"}, NEW isReplay \in BOOLEAN,
           forward(h, who, isReplay), NEW g \in Htlc
    PROVE  held'[g] = held[g] \/ (g = h /\ held[g] = "no" /\ held'[g] = who)
  BY ForwardInv

\* One step keeps the invariant.
LEMMA InterceptNextInv == InterceptInv /\ [InterceptNext]_interceptVars => InterceptInv'
  <1> SUFFICES ASSUME InterceptInv, [InterceptNext]_interceptVars PROVE InterceptInv'
    OBVIOUS
  <1> USE InterceptableSwitchAssumption
  <1>0. /\ link \in LinkState
        /\ incomingHtlc \in [Htlc -> {"none", "locked", "settle", "fail"}]
        /\ response \in [Htlc -> Reply] /\ circuit \in [Htlc -> Circuit]
        /\ held \in [Htlc -> {"no", "link", "chain"}]
        /\ asked \subseteq Htlc /\ seen \subseteq Htlc
    BY DEF InterceptInv, InterceptTypeOK, LinkState, Reply
  <1>1. CASE interceptForward
    <2> DEFINE h == link.handing
    <2>1. h \in Htlc /\ link.replay \in BOOLEAN
      BY <1>0, <1>1 DEF interceptForward, LinkState
    <2>2. link' \in LinkState /\ link'.handing = NoHtlc /\ link'.up = link.up
      BY <1>0, <1>1, LinkType DEF interceptForward, LinkState
    <2>3. CASE TooLateToIntercept(h)
      <3>1. handleExpired(h)
        BY <1>1, <2>3 DEF interceptForward
      <3> HIDE DEF h
      <3>2. /\ circuit' \in [Htlc -> Circuit] /\ response' \in [Htlc -> Reply]
            /\ UNCHANGED <<held, asked, seen>>
            /\ \A g \in Htlc : circuit'[g] = "closed" => response'[g] # "none"
        BY <2>1, <2>3, <3>1, ExpiredEffect
      <3>3. UNCHANGED <<required, height, incomingHtlc, offerable, outVars,
                        interceptor, sessions, decision, chainVars, flapBounds>>
        BY <1>1 DEF interceptForward
      <3>4. InterceptTypeOK'
        BY <2>2, <3>2, <3>3
           DEF InterceptInv, InterceptTypeOK, LinkState, Reply, outVars, chainVars, flapBounds
      <3> QED
        BY <1>0, <2>2, <3>2, <3>3, <3>4 DEF InterceptInv
    <2>4. CASE ~ TooLateToIntercept(h)
      <3>1. forward(h, "link", link.replay)
        BY <1>1, <2>4 DEF interceptForward
      <3> HIDE DEF h
      <3>2. /\ circuit' \in [Htlc -> Circuit] /\ response' \in [Htlc -> Reply]
            /\ held' \in [Htlc -> {"no", "link", "chain"}]
            /\ asked' \subseteq Htlc /\ seen' \subseteq Htlc
            /\ \A g \in Htlc :
                /\ circuit'[g] = "closed" => response'[g] # "none"
                /\ held'[g] = held[g] \/ (g = h /\ held[g] = "no" /\ held'[g] = "link")
                /\ g \in seen' => g \in seen \/ (g = h /\ held'[g] = "link")
        BY <2>1, <3>1, ForwardInv
      <3>3. h \in offerable
        BY <2>1 DEF InterceptInv, h
      <3> QED
        BY <1>1, <2>1, <2>2, <3>2, <3>3
           DEF interceptForward, InterceptInv, InterceptTypeOK, LinkState, Reply, outVars, chainVars, flapBounds
    <2> QED
      BY <2>3, <2>4
  <1>2. CASE Connect
    BY <1>0, <1>2 DEF Connect, Offer, InterceptInv, InterceptTypeOK, outVars, chainVars, flapBounds
  <1>3. CASE Disconnect
    <2>1. /\ circuit' \in [Htlc -> Circuit] /\ response' \in [Htlc -> Reply]
          /\ held' \in [Htlc -> {"no", "link", "chain"}]
          /\ \A g \in Htlc :
               /\ circuit'[g] = "closed" => response'[g] # "none"
               /\ held'[g] \in {held[g], "no"}
      <3>1. CASE required
        BY <1>0, <1>3, <3>1 DEF Disconnect, InterceptInv
      <3>2. CASE ~ required
        <4>1. InterceptTypeOK /\ ForwardPackets(HeldBy("link")) /\ held' = [h \in Htlc |-> "no"]
          BY <1>3, <3>2 DEF Disconnect, InterceptInv
        <4>2. /\ circuit' \in [Htlc -> Circuit] /\ response' \in [Htlc -> Reply]
              /\ \A h \in Htlc :
                /\ circuit'[h] = "closed" => circuit[h] = "closed" \/ response'[h] # "none"
                /\ response[h] # "none" => response'[h] = response[h]
          BY <4>1, ForwardPacketsEffect
        <4> QED
          BY <4>1, <4>2 DEF InterceptInv
      <3> QED
        BY <3>1, <3>2
    <2> QED
      BY <1>0, <1>3, <2>1 DEF Disconnect, InterceptInv, InterceptTypeOK, Reply, outVars, chainVars, flapBounds
  <1>4. CASE failExpiredHtlcs
    <2>1. height' \in Nat
      BY <1>4 DEF failExpiredHtlcs, InterceptInv, InterceptTypeOK
    <2> DEFINE S == AutoFails(height') \cap HeldBy("link")
    <2>2. circuit' = circuit /\ response' = Deliver(S, "fail")
      BY <1>4 DEF failExpiredHtlcs, FailWithCode
    <2> HIDE DEF S
    <2>3. /\ response' \in [Htlc -> Reply]
          /\ \A g \in Htlc : response[g] # "none" => response'[g] = response[g]
      BY <1>0, <2>2, DeliverType
    <2>4. /\ held' \in [Htlc -> {"no", "link", "chain"}]
          /\ \A g \in Htlc : held'[g] \in {held[g], "no"}
      BY <1>0, <1>4 DEF failExpiredHtlcs
    <2> QED
      BY <1>0, <1>4, <2>1, <2>2, <2>3, <2>4
         DEF failExpiredHtlcs, InterceptInv, InterceptTypeOK, Reply, outVars, clientVars, chainVars, flapBounds
  <1>5. CASE \E h \in Htlc, action \in Action, wrong \in BOOLEAN : Resolve(h, action, wrong)
    <2> PICK h \in Htlc, action \in Action, wrong \in BOOLEAN : Resolve(h, action, wrong)
      BY <1>5
    <2>1. /\ circuit' \in [Htlc -> Circuit] /\ response' \in [Htlc -> Reply]
          /\ held' \in [Htlc -> {"no", "link", "chain"}]
          /\ beacon' \subseteq Htlc
          /\ \A g \in Htlc :
               /\ circuit'[g] = "closed" => response'[g] # "none"
               /\ held'[g] \in {held[g], "no"}
      <3>0. beacon \subseteq Htlc
        BY DEF InterceptInv, InterceptTypeOK
      <3>1. CASE held[h] = "no"
        BY <1>0, <3>0, <3>1 DEF Resolve, InterceptInv
      <3>2. CASE held[h] = "link" /\ action = "resume"
        <4>1. InterceptTypeOK /\ ForwardPackets({h}) /\ held' = [held EXCEPT ![h] = "no"]
              /\ beacon' = beacon
          BY <3>2 DEF Resolve, Perform, InterceptInv
        <4>2. /\ circuit' \in [Htlc -> Circuit] /\ response' \in [Htlc -> Reply]
              /\ \A g \in Htlc :
                /\ circuit'[g] = "closed" => circuit[g] = "closed" \/ response'[g] # "none"
                /\ response[g] # "none" => response'[g] = response[g]
          BY <4>1, ForwardPacketsEffect
        <4> QED
          BY <1>0, <3>0, <4>1, <4>2 DEF InterceptInv
      <3>3. CASE held[h] = "link" /\ action # "resume" /\ ~ wrong
        <4>1. /\ response' = Deliver({h}, action) /\ circuit' = circuit
              /\ held' = [held EXCEPT ![h] = "no"] /\ beacon' = beacon
              /\ action \in {"settle", "fail"}
          BY <3>3 DEF Resolve, Perform, Action
        <4>2. /\ response' \in [Htlc -> Reply]
              /\ \A g \in Htlc : response[g] # "none" => response'[g] = response[g]
          BY <1>0, <4>1, DeliverType
        <4> QED
          BY <1>0, <3>0, <4>1, <4>2 DEF InterceptInv
      <3>4. CASE /\ held[h] # "no" /\ ~ (held[h] = "link" /\ action = "resume")
                 /\ ~ (held[h] = "link" /\ ~ wrong)
        <4>1. /\ circuit' = circuit /\ response' = response
              /\ held' = [held EXCEPT ![h] = "no"] /\ beacon' \subseteq Htlc
          BY <3>0, <3>4 DEF Resolve, Perform
        <4> QED
          BY <1>0, <4>1 DEF InterceptInv
      <3> QED
        BY <3>1, <3>2, <3>3, <3>4
    <2>2. decision' \in [Htlc -> Action \cup {"none"}]
      BY DEF Resolve, InterceptInv, InterceptTypeOK
    <2> QED
      BY <1>0, <2>1, <2>2 DEF Resolve, InterceptInv, InterceptTypeOK, Reply, outVars, flapBounds
  <1>6. CASE \E h \in Htlc : LockInHtlc(h) \/ forwardBatch(h) \/ CommitResponse(h)
    <2>1. link' \in LinkState
      BY <1>6, LinkType
    <2> PICK h \in Htlc : LockInHtlc(h) \/ forwardBatch(h) \/ CommitResponse(h)
      BY <1>6
    <2>2. CASE LockInHtlc(h)
      BY <1>0, <2>1, <2>2
         DEF LockInHtlc, InterceptInv, InterceptTypeOK, LinkState, Reply, outVars, clientVars, chainVars, flapBounds
    <2>3. CASE forwardBatch(h)
      <3>1. /\ link'.up = "up" /\ link.up = "up" /\ link.handing = NoHtlc
            /\ link'.handing = (IF response[h] = "none" THEN h ELSE NoHtlc)
            /\ link'.replay = (h \in offerable)
            /\ offerable' = offerable \cup {h}
        BY <1>0, <2>3 DEF forwardBatch, LinkState
      <3>2. h \notin offerable => held[h] = "no" /\ h \notin seen
        BY <1>0, <3>1 DEF InterceptInv
      <3>3. UNCHANGED <<required, height, incomingHtlc, response, circuit, outVars, held,
                        clientVars, decision, chainVars, flapBounds>>
        BY <2>3 DEF forwardBatch
      <3>4. InterceptTypeOK'
        BY <2>1, <3>1, <3>3
           DEF InterceptInv, InterceptTypeOK, LinkState, outVars, clientVars, chainVars, flapBounds
      <3>5. UNCHANGED <<response, circuit, held, seen>>
        BY <3>3 DEF clientVars
      <3>6. link'.handing # NoHtlc =>
              link'.handing = h /\ (~ link'.replay => held'[h] = "no" /\ h \notin seen')
        BY <3>1, <3>2, <3>5
      <3>7. \A g \in Htlc : held[g] = "chain" => FALSE
        BY <3>1 DEF InterceptInv
      <3>8. ASSUME NEW g \in Htlc
            PROVE  /\ circuit'[g] = "closed" => response'[g] # "none"
                   /\ held'[g] = "chain" => link'.up = "closed"
                   /\ held'[g] = "link" => g \in offerable'
                   /\ link'.up # "closed" /\ g \in seen' => g \in offerable'
          BY <3>1, <3>5, <3>7 DEF InterceptInv
      <3> QED
        BY <3>1, <3>4, <3>6, <3>8 DEF InterceptInv
    <2>4. CASE CommitResponse(h)
      <3>1. link'.up = link.up /\ link'.handing = link.handing /\ link'.replay = link.replay
        BY <1>0, <2>4 DEF CommitResponse, LinkState
      <3>2. /\ circuit' \in [Htlc -> Circuit] /\ response' \in [Htlc -> Reply]
            /\ incomingHtlc' \in [Htlc -> {"none", "locked", "settle", "fail"}]
            /\ \A g \in Htlc : circuit'[g] = "closed" => response'[g] # "none"
        BY <1>0, <2>4 DEF CommitResponse, InterceptInv, Reply, Circuit
      <3> QED
        BY <1>0, <2>1, <2>4, <3>1, <3>2
           DEF CommitResponse, InterceptInv, InterceptTypeOK, LinkState, Reply, outVars, clientVars, chainVars, flapBounds
    <2> QED
      BY <2>2, <2>3, <2>4
  <1>7. CASE StopLink \/ StartLink \/ CloseChannel
    <2>1. link' \in LinkState
      BY <1>7, LinkType
    <2>2. /\ link'.handing = NoHtlc /\ link.up # "closed"
          /\ UNCHANGED <<required, height, incomingHtlc, offerable, response, circuit, outVars,
                         held, clientVars, decision, chainVars, restarts>>
      BY <1>7 DEF StopLink, StartLink, CloseChannel, NewLink, flapBounds
    <2>3. flaps' \in Nat
      BY <1>7 DEF StopLink, StartLink, CloseChannel, flapBounds, InterceptInv, InterceptTypeOK
    <2> QED
      BY <1>0, <2>1, <2>2, <2>3
         DEF InterceptInv, InterceptTypeOK, LinkState, Reply, outVars, clientVars, chainVars
  <1>8. CASE \E h \in Htlc : SendOut(h) \/ PassBack(h) \/ failAddPacket(h)
    <2> PICK h \in Htlc : SendOut(h) \/ PassBack(h) \/ failAddPacket(h)
      BY <1>8
    <2>1. /\ circuit' \in [Htlc -> Circuit] /\ response' \in [Htlc -> Reply]
          /\ out' \in [Htlc -> {"none", "out", "settle", "fail"}] /\ sent' \in [Htlc -> Nat]
          /\ \A g \in Htlc : circuit'[g] = "closed" => response'[g] # "none"
      <3>1. CASE SendOut(h)
        BY <1>0, <3>1 DEF SendOut, InterceptInv, InterceptTypeOK, Circuit, Reply
      <3>2. CASE failAddPacket(h)
        <4>1. response' = Deliver({h}, "fail") /\ circuit' = [circuit EXCEPT ![h] = "closed"]
          BY <3>2 DEF failAddPacket
        <4>2. /\ response' \in [Htlc -> Reply]
              /\ \A g \in Htlc : response[g] # "none" => response'[g] = response[g]
              /\ \A g \in Htlc \cap {h} : response'[g] # "none"
          BY <1>0, <4>1, DeliverType
        <4>3. out' = out /\ sent' = sent
          BY <3>2 DEF failAddPacket, outVars
        <4>4. circuit' \in [Htlc -> Circuit]
          BY <1>0, <4>1 DEF Circuit
        <4>5. ASSUME NEW g \in Htlc, circuit'[g] = "closed" PROVE response'[g] # "none"
          BY <1>0, <4>1, <4>2, <4>5 DEF InterceptInv
        <4> QED
          BY <4>2, <4>3, <4>4, <4>5 DEF InterceptInv, InterceptTypeOK
      <3>3. CASE PassBack(h)
        <4>1. /\ response' = Deliver({h}, out[h]) /\ circuit' = [circuit EXCEPT ![h] = "closed"]
              /\ out[h] \in {"settle", "fail"}
          BY <3>3 DEF PassBack
        <4>2. /\ response' \in [Htlc -> Reply]
              /\ \A g \in Htlc : response[g] # "none" => response'[g] = response[g]
              /\ \A g \in Htlc \cap {h} : response'[g] # "none"
          BY <1>0, <4>1, DeliverType
        <4>3. out' = out /\ sent' = sent
          BY <3>3 DEF PassBack, outVars
        <4>4. circuit' \in [Htlc -> Circuit]
          BY <1>0, <4>1 DEF Circuit
        <4>5. ASSUME NEW g \in Htlc, circuit'[g] = "closed" PROVE response'[g] # "none"
          BY <1>0, <4>1, <4>2, <4>5 DEF InterceptInv
        <4> QED
          BY <4>2, <4>3, <4>4, <4>5 DEF InterceptInv, InterceptTypeOK
      <3> QED
        BY <3>1, <3>2, <3>3
    <2>2. UNCHANGED <<required, height, incomingHtlc, offerable, link, held, clientVars,
                      decision, chainVars, flapBounds>>
      BY DEF SendOut, PassBack, failAddPacket
    <2> QED
      BY <1>0, <2>1, <2>2 DEF InterceptInv, InterceptTypeOK, Reply, clientVars, chainVars, flapBounds
  <1>9. CASE \E h \in Htlc, r \in {"settle", "fail"} : PeerAnswers(h, r)
    BY <1>0, <1>9 DEF PeerAnswers, InterceptInv, InterceptTypeOK, clientVars, flapBounds
  <1>10. CASE \E h \in Htlc : SubscribeUpdates(h)
    <2> PICK h \in Htlc : SubscribeUpdates(h)
      BY <1>10
    <2>1. link.up = "closed" /\ forward(h, "chain", TRUE) /\ resolving' \subseteq Htlc
      <3>1. resolving \subseteq Htlc
        BY DEF InterceptInv, InterceptTypeOK
      <3> QED
        BY <3>1 DEF SubscribeUpdates
    <2>2. /\ circuit' \in [Htlc -> Circuit] /\ response' \in [Htlc -> Reply]
          /\ held' \in [Htlc -> {"no", "link", "chain"}]
          /\ asked' \subseteq Htlc /\ seen' \subseteq Htlc
          /\ \A g \in Htlc :
              /\ circuit'[g] = "closed" => response'[g] # "none"
              /\ held'[g] = held[g] \/ (g = h /\ held[g] = "no" /\ held'[g] = "chain")
      <3>1. /\ circuit' \in [Htlc -> Circuit] /\ response' \in [Htlc -> Reply]
            /\ held' \in [Htlc -> {"no", "link", "chain"}]
            /\ asked' \subseteq Htlc /\ seen' \subseteq Htlc
        BY <2>1, ForwardInv
      <3>2. \A g \in Htlc : circuit'[g] = "closed" => response'[g] # "none"
        BY <2>1, ForwardInv
      <3>3. ASSUME NEW g \in Htlc
            PROVE  held'[g] = held[g] \/ (g = h /\ held[g] = "no" /\ held'[g] = "chain")
        BY <2>1, ForwardHolds
      <3> QED
        BY <3>1, <3>2, <3>3
    <2> QED
      BY <1>0, <2>1, <2>2
         DEF SubscribeUpdates, InterceptInv, InterceptTypeOK, LinkState, Reply, outVars, flapBounds
  <1>11. CASE \E h \in Htlc : ResolveOnChain(h)
    BY <1>0, <1>11 DEF ResolveOnChain, InterceptInv, InterceptTypeOK, outVars, clientVars, chainVars, flapBounds
  <1>12. CASE RestartSwitch
    <2>1. link' \in LinkState
      BY <1>12, LinkType
    <2>2. /\ link'.handing = NoHtlc /\ link'.up # "up"
          /\ link'.up = "closed" <=> link.up = "closed"
      BY <1>12 DEF RestartSwitch, NewLink
    <2>3. /\ circuit' \in [Htlc -> Circuit] /\ response' \in [Htlc -> Reply]
          /\ held' = [h \in Htlc |-> "no"]
          /\ \A h \in Htlc : circuit'[h] # "closed"
      BY <1>0, <1>12 DEF RestartSwitch, Circuit, Reply
    <2>4. InterceptTypeOK'
      <3>1. /\ UNCHANGED <<required, height, incomingHtlc, offerable, out, sent, seen, sessions,
                           decision, beacon, flaps>>
            /\ interceptor' = FALSE /\ asked' = {} /\ resolving' = {}
        BY <1>12 DEF RestartSwitch, outVars
      <3>2. restarts' \in Nat
        BY <1>12 DEF RestartSwitch, InterceptInv, InterceptTypeOK
      <3> QED
        BY <2>1, <2>3, <3>1, <3>2 DEF InterceptInv, InterceptTypeOK, LinkState, Reply
    <2>5. offerable' = offerable /\ seen' = seen
      BY <1>12 DEF RestartSwitch
    <2> QED
      BY <1>0, <2>1, <2>2, <2>3, <2>4, <2>5 DEF InterceptInv
  <1>13. CASE UNCHANGED interceptVars
    BY <1>13 DEF interceptVars, InterceptInv, InterceptTypeOK, outVars, clientVars, chainVars, flapBounds
  <1> QED
    BY <1>1, <1>2, <1>3, <1>4, <1>5, <1>6, <1>7, <1>8, <1>9, <1>10, <1>11, <1>12, <1>13
       DEF InterceptNext, Loop, Rest

\* Every reachable state satisfies the invariant.
THEOREM InterceptInductive == InterceptSpec => []InterceptInv
  <1>1. InterceptInit => InterceptInv
    BY InterceptInitInv
  <1>2. InterceptInv /\ [InterceptNext]_interceptVars => InterceptInv'
    BY InterceptNextInv
  <1> QED
    BY <1>1, <1>2, PTL DEF InterceptSpec

\* The state of the loop stays well typed.
THEOREM InterceptTyping == InterceptSpec => []InterceptTypeOK
  <1>1. InterceptInv => InterceptTypeOK
    BY DEF InterceptInv
  <1> QED
    BY <1>1, InterceptInductive, PTL

-----------------------------------------------------------------------------
(* Holding in time, and telling the client.                                *)

\* What the steps other than a forward and a block do to what is held.
LEMMA HeldOtherwise ==
    ASSUME InterceptInv, [InterceptNext]_interceptVars, ~ interceptForward, ~ failExpiredHtlcs,
           \A h \in Htlc : ~ SubscribeUpdates(h)
    PROVE  /\ height' = height
           /\ \A h \in Htlc : held'[h] \in {held[h], "no"}
           /\ interceptor' => \A h \in Htlc :
                held'[h] # "no" /\ (interceptor => h \in asked) => h \in asked'
  <1>0. held \in [Htlc -> {"no", "link", "chain"}]
    BY DEF InterceptInv, InterceptTypeOK
  <1>1. CASE Connect
    BY <1>0, <1>1 DEF Connect, Offer
  <1>2. CASE Disconnect
    BY <1>0, <1>2 DEF Disconnect
  <1>3. CASE \E h \in Htlc, action \in Action, wrong \in BOOLEAN : Resolve(h, action, wrong)
    <2> PICK h \in Htlc, action \in Action, wrong \in BOOLEAN : Resolve(h, action, wrong)
      BY <1>3
    <2>1. /\ height' = height /\ interceptor' = interceptor /\ interceptor
          /\ asked' = asked \ {h}
          /\ \/ held' = held /\ held[h] = "no"
             \/ held' = [held EXCEPT ![h] = "no"]
      BY DEF Resolve
    <2> QED
      BY <1>0, <2>1
  <1>4. CASE \/ \E h \in Htlc : \/ LockInHtlc(h) \/ forwardBatch(h) \/ CommitResponse(h) \/ SendOut(h)
                               \/ failAddPacket(h) \/ PassBack(h) \/ ResolveOnChain(h)
             \/ \E h \in Htlc, r \in {"settle", "fail"} : PeerAnswers(h, r)
             \/ StopLink \/ StartLink \/ CloseChannel \/ UNCHANGED interceptVars
    <2>1. UNCHANGED <<height, held, interceptor, asked>>
      BY <1>4 DEF LockInHtlc, forwardBatch, CommitResponse, SendOut, failAddPacket, PassBack,
                  ResolveOnChain, PeerAnswers, StopLink, StartLink, CloseChannel, interceptVars, clientVars
    <2> QED
      BY <2>1
  <1>5. CASE RestartSwitch
    BY <1>0, <1>5 DEF RestartSwitch
  <1> QED
    BY <1>1, <1>2, <1>3, <1>4, <1>5 DEF InterceptNext, Loop, Rest

\* A step holds nothing too late and nothing the client is not told of.
LEMMA HoldingStep ==
    ASSUME InterceptInv, HeldInTime, ClientKnows, [InterceptNext]_interceptVars
    PROVE  HeldInTime' /\ ClientKnows'
  <1> USE InterceptableSwitchAssumption
  <1>0. /\ height \in Nat /\ held \in [Htlc -> {"no", "link", "chain"}]
        /\ \A h \in Htlc : Expiry[h] \in Nat
    BY DEF InterceptInv, InterceptTypeOK
  <1>1. CASE interceptForward
    <2> DEFINE h == link.handing
    <2>1. /\ h \in Htlc /\ link.replay \in BOOLEAN
          /\ height' = height /\ interceptor' = interceptor
      BY <1>1 DEF interceptForward, InterceptInv, InterceptTypeOK
    <2>2. CASE TooLateToIntercept(h)
      <3>1. UNCHANGED <<held, asked>>
        BY <1>1, <2>2 DEF interceptForward, handleExpired
      <3> QED
        BY <2>1, <3>1 DEF HeldInTime, ClientKnows, HeldBy
    <2>3. CASE ~ TooLateToIntercept(h)
      <3>1. forward(h, "link", link.replay)
        BY <1>1, <2>3 DEF interceptForward
      <3>2. Expiry[h] > height + CltvRejectDelta
        BY <1>0, <2>1, <2>3 DEF TooLateToIntercept
      <3> HIDE DEF h
      <3>3. \A g \in Htlc :
              /\ held'[g] = held[g] \/ (g = h /\ held[g] = "no" /\ held'[g] = "link")
              /\ interceptor => (held'[g] # "no" /\ held[g] = "no" => g \in asked')
              /\ asked \subseteq asked'
        BY <2>1, <3>1, ForwardInv
      <3> QED
        BY <1>0, <2>1, <3>2, <3>3 DEF HeldInTime, ClientKnows, HeldBy
    <2> QED
      BY <2>2, <2>3
  <1>2. CASE failExpiredHtlcs
    <2>1. /\ height' \in Nat /\ UNCHANGED <<interceptor, asked>>
          /\ \A h \in Htlc : held'[h] = IF h \in AutoFails(height') THEN "no" ELSE held[h]
      BY <1>0, <1>2 DEF failExpiredHtlcs, clientVars
    <2>2. ASSUME NEW h \in Htlc, held'[h] = "link"
          PROVE  height' + CltvRejectDelta < Expiry[h]
      BY <1>0, <2>1, <2>2 DEF AutoFails, AutoFailHeight
    <2> QED
      BY <1>0, <2>1, <2>2 DEF HeldInTime, ClientKnows, HeldBy
  <1>3. CASE \E h \in Htlc : SubscribeUpdates(h)
    <2> PICK h \in Htlc : SubscribeUpdates(h)
      BY <1>3
    <2>1. forward(h, "chain", TRUE) /\ height' = height /\ interceptor' = interceptor
      BY DEF SubscribeUpdates
    <2>2. \A g \in Htlc :
            /\ held'[g] = held[g] \/ (g = h /\ held[g] = "no" /\ held'[g] = "chain")
            /\ interceptor => (held'[g] # "no" /\ held[g] = "no" => g \in asked')
            /\ asked \subseteq asked'
      <3>1. ASSUME NEW g \in Htlc
            PROVE  held'[g] = held[g] \/ (g = h /\ held[g] = "no" /\ held'[g] = "chain")
        BY <2>1, ForwardHolds
      <3>2. interceptor =>
              \A g \in Htlc : held'[g] # "no" /\ held[g] = "no" => g \in asked'
        BY <2>1, ForwardInv
      <3>3. asked \subseteq asked'
        BY <2>1, ForwardInv
      <3> QED
        BY <3>1, <3>2, <3>3
    <2> QED
      BY <1>0, <2>1, <2>2 DEF HeldInTime, ClientKnows, HeldBy
  <1>4. CASE ~ interceptForward /\ ~ failExpiredHtlcs /\ \A h \in Htlc : ~ SubscribeUpdates(h)
    <2>1. /\ height' = height
          /\ \A h \in Htlc : held'[h] \in {held[h], "no"}
          /\ interceptor' => \A h \in Htlc :
               held'[h] # "no" /\ (interceptor => h \in asked) => h \in asked'
      BY <1>4, HeldOtherwise
    <2> QED
      BY <1>0, <2>1 DEF HeldInTime, ClientKnows, HeldBy
  <1> QED
    BY <1>1, <1>2, <1>3, <1>4

\* Both about what is held, in every reachable state.
LEMMA HoldingSafety == InterceptSpec => [](HeldInTime /\ ClientKnows)
  <1>1. InterceptInit => HeldInTime /\ ClientKnows
    BY DEF InterceptInit, HeldInTime, ClientKnows, HeldBy
  <1>2. InterceptInv /\ HeldInTime /\ ClientKnows /\ [InterceptNext]_interceptVars => HeldInTime' /\ ClientKnows'
    BY HoldingStep
  <1> QED
    BY <1>1, <1>2, InterceptInductive, PTL DEF InterceptSpec

\* Nothing is held within the reject delta of its expiry, which would leave the
\* peer to close the channel.
THEOREM InTimeSafety == InterceptSpec => []HeldInTime
  BY HoldingSafety, PTL

\* A client that is connected was offered everything that is held.
THEOREM ClientSafety == InterceptSpec => []ClientKnows
  BY HoldingSafety, PTL

-----------------------------------------------------------------------------
(* A required interceptor is asked about everything.                       *)

\* Also a circuit without keystone stands for a resume by the client.
Intercepted ==
    required /\ Consistent =>
        \A h \in Htlc : circuit[h] = "half" \/ sent[h] > 0 => decision[h] = "resume"

\* Only a resume of the client, now or before, lets a step send on.
LEMMA InterceptedStep ==
    ASSUME InterceptInv, Intercepted, [InterceptNext]_interceptVars
    PROVE  Intercepted'
  <1> SUFFICES ASSUME required, Consistent
               PROVE  \A h \in Htlc :
                        circuit'[h] = "half" \/ sent'[h] > 0 => decision'[h] = "resume"
    <2>1. required' = required
      BY DEF InterceptNext, Loop, Rest, interceptVars, interceptForward, Connect, Disconnect, failExpiredHtlcs,
             Resolve, LockInHtlc, forwardBatch, CommitResponse, SendOut, failAddPacket, PassBack,
             PeerAnswers, SubscribeUpdates, ResolveOnChain, StopLink, StartLink, CloseChannel,
             RestartSwitch
    <2> QED
      BY <2>1 DEF Intercepted
  <1>0. /\ circuit \in [Htlc -> Circuit] /\ response \in [Htlc -> Reply]
        /\ decision \in [Htlc -> Action \cup {"none"}]
        /\ sent \in [Htlc -> Nat] /\ out \in [Htlc -> {"none", "out", "settle", "fail"}]
        /\ \A h \in Htlc : circuit[h] = "half" \/ sent[h] > 0 => decision[h] = "resume"
    BY DEF InterceptInv, InterceptTypeOK, Reply, Intercepted
  <1>1. CASE interceptForward
    <2> DEFINE h == link.handing
    <2>1. h \in Htlc /\ link.replay \in BOOLEAN /\ sent' = sent /\ decision' = decision
      BY <1>1 DEF interceptForward, InterceptInv, InterceptTypeOK, outVars
    <2>2. CASE TooLateToIntercept(h)
      <3>1. handleExpired(h)
        BY <1>1, <2>2 DEF interceptForward
      <3> HIDE DEF h
      <3>2. \A g \in Htlc : circuit'[g] = "half" => circuit[g] = "half"
        BY <2>1, <2>2, <3>1, ExpiredEffect
      <3> QED
        BY <1>0, <2>1, <3>2
    <2>3. CASE ~ TooLateToIntercept(h)
      <3>1. forward(h, "link", link.replay)
        BY <1>1, <2>3 DEF interceptForward
      <3> HIDE DEF h
      <3>2. \A g \in Htlc : circuit'[g] = "half" => circuit[g] = "half"
        BY <2>1, <3>1, ForwardInv
      <3> QED
        BY <1>0, <2>1, <3>2
    <2> QED
      BY <2>2, <2>3
  <1>2. CASE \E h \in Htlc, action \in Action, wrong \in BOOLEAN : Resolve(h, action, wrong)
    <2> PICK h \in Htlc, action \in Action, wrong \in BOOLEAN : Resolve(h, action, wrong)
      BY <1>2
    <2>1. /\ sent' = sent /\ decision' = [decision EXCEPT ![h] = action]
          /\ decision[h] \in {"none", action}
      BY DEF Resolve, outVars
    <2>2. \A g \in Htlc : circuit'[g] = "half" =>
                            circuit[g] = "half" \/ (g = h /\ action = "resume")
      <3>1. CASE held[h] = "no"
        BY <3>1 DEF Resolve
      <3>2. CASE held[h] = "link" /\ action = "resume"
        <4>1. InterceptTypeOK /\ ForwardPackets({h})
          BY <3>2 DEF Resolve, Perform, InterceptInv
        <4>2. \A g \in Htlc : circuit'[g] = "half" => circuit[g] = "half" \/ g \in {h}
          BY <4>1, ForwardPacketsEffect
        <4> QED
          BY <3>2, <4>2
      <3>3. CASE held[h] # "no" /\ ~ (held[h] = "link" /\ action = "resume")
        BY <3>3 DEF Resolve, Perform
      <3> QED
        BY <3>1, <3>2, <3>3
    <2> QED
      BY <1>0, <2>1, <2>2
  <1>3. CASE \E h \in Htlc : SubscribeUpdates(h)
    <2> PICK h \in Htlc : SubscribeUpdates(h)
      BY <1>3
    <2>1. forward(h, "chain", TRUE) /\ sent' = sent /\ decision' = decision
      BY DEF SubscribeUpdates, outVars
    <2>2. \A g \in Htlc : circuit'[g] = "half" => circuit[g] = "half"
      BY <2>1, ForwardInv
    <2> QED
      BY <1>0, <2>1, <2>2
  <1>4. CASE \E h \in Htlc : SendOut(h)
    <2> PICK h \in Htlc : SendOut(h)
      BY <1>4
    <2>1. /\ circuit[h] = "half" /\ circuit' = [circuit EXCEPT ![h] = "open"]
          /\ sent' = [sent EXCEPT ![h] = sent[h] + 1] /\ decision' = decision
      BY DEF SendOut
    <2> QED
      BY <1>0, <2>1
  <1>5. CASE Connect \/ Disconnect \/ failExpiredHtlcs \/ StopLink \/ StartLink \/ CloseChannel
    <2>1. UNCHANGED <<sent, decision, circuit>>
      BY <1>5 DEF Connect, Disconnect, failExpiredHtlcs, FailWithCode, StopLink, StartLink,
                  CloseChannel, outVars
    <2> QED
      BY <1>0, <2>1
  <1>6. CASE \E h \in Htlc : \/ LockInHtlc(h) \/ forwardBatch(h) \/ CommitResponse(h)
                             \/ failAddPacket(h) \/ PassBack(h) \/ ResolveOnChain(h)
    <2>1. PICK h \in Htlc : \/ LockInHtlc(h) \/ forwardBatch(h) \/ CommitResponse(h)
                            \/ failAddPacket(h) \/ PassBack(h) \/ ResolveOnChain(h)
      BY <1>6
    <2>2. /\ sent' = sent /\ decision' = decision
          /\ \/ circuit' = circuit
             \/ circuit' = [circuit EXCEPT ![h] = "none"]
             \/ circuit' = [circuit EXCEPT ![h] = "closed"]
      BY <2>1 DEF LockInHtlc, forwardBatch, CommitResponse, failAddPacket, PassBack, ResolveOnChain, outVars
    <2> QED
      BY <1>0, <2>2
  <1>7. CASE \/ \E h \in Htlc, r \in {"settle", "fail"} : PeerAnswers(h, r)
             \/ UNCHANGED interceptVars
    <2>1. UNCHANGED <<sent, decision, circuit>>
      BY <1>7 DEF PeerAnswers, interceptVars, outVars
    <2> QED
      BY <1>0, <2>1
  <1>8. CASE RestartSwitch
    BY <1>0, <1>8 DEF RestartSwitch, outVars
  <1> QED
    BY <1>1, <1>2, <1>3, <1>4, <1>5, <1>6, <1>7, <1>8 DEF InterceptNext, Loop, Rest

\* With an interceptor required nothing is sent on that a consistent client
\* did not resume, whatever sessions, flaps and restarts come between.
THEOREM RequiredSafety == InterceptSpec => []EveryForwardIntercepted
  <1>1. InterceptInit => Intercepted
    BY DEF InterceptInit, Intercepted, Circuit
  <1>2. InterceptInv /\ Intercepted /\ [InterceptNext]_interceptVars => Intercepted'
    BY InterceptedStep
  <1>3. Intercepted => EveryForwardIntercepted
    BY DEF Intercepted, EveryForwardIntercepted
  <1> QED
    BY <1>1, <1>2, <1>3, InterceptInductive, PTL DEF InterceptSpec

-----------------------------------------------------------------------------
(* No HTLC is forgotten.                                                   *)

Cared(h) == held[h] = "link" \/ response[h] # "none" \/ circuit[h] \in {"half", "late", "open"}

\* While the link is up, what it handed over is cared for.
Care ==
    link.up = "up" =>
        \A h \in Htlc \ link.todo :
            incomingHtlc[h] = "locked" /\ link.handing # h => Cared(h)

\* What was forwarded is cared for, and so is what was cared for before.
LEMMA ForwardPacketsCares ==
    ASSUME InterceptInv, NEW S, ForwardPackets(S), NEW h \in Htlc,
           h \in S \/ (Cared(h) /\ held[h] # "link")
    PROVE  response'[h] # "none" \/ circuit'[h] \in {"half", "late", "open"}
  <1>1. /\ circuit[h] \in {"half", "late", "open", "closed"} => circuit'[h] = circuit[h]
        /\ circuit'[h] = "closed" => circuit[h] = "closed" \/ response'[h] # "none"
        /\ response[h] # "none" => response'[h] = response[h]
        /\ h \in S => circuit'[h] \in {"half", "late", "open", "closed"}
    BY ForwardPacketsEffect DEF InterceptInv
  <1>2. circuit[h] = "closed" => response[h] # "none"
    BY DEF InterceptInv
  <1> QED
    BY <1>1, <1>2 DEF Cared

\* A client with the right preimages leaves no HTLC uncared for.
LEMMA ResolveCares ==
    ASSUME InterceptInv, ~ Mistakes, NEW h \in Htlc, NEW action \in Action, NEW wrong \in BOOLEAN,
           Resolve(h, action, wrong), NEW g \in Htlc, Cared(g)
    PROVE  Cared(g)'
  <1>0. /\ response \in [Htlc -> Reply] /\ held \in [Htlc -> {"no", "link", "chain"}]
        /\ ~ wrong
    BY DEF InterceptInv, InterceptTypeOK, Reply, Resolve
  <1>1. CASE held[h] = "no"
    BY <1>1 DEF Resolve, Cared
  <1>2. CASE held[h] = "link" /\ action = "resume"
    <2>1. ForwardPackets({h}) /\ held' = [held EXCEPT ![h] = "no"]
      BY <1>2 DEF Resolve, Perform
    <2>2. CASE g = h \/ held[g] # "link"
      BY <2>1, <2>2, ForwardPacketsCares DEF Cared
    <2>3. CASE g # h /\ held[g] = "link"
      BY <1>0, <2>1, <2>3 DEF Cared
    <2> QED
      BY <2>2, <2>3
  <1>3. CASE held[h] = "link" /\ action # "resume"
    <2>1. /\ response' = Deliver({h}, action) /\ circuit' = circuit
          /\ held' = [held EXCEPT ![h] = "no"] /\ action \in {"settle", "fail"}
      BY <1>0, <1>3 DEF Resolve, Perform, Action
    <2>2. /\ \A k \in Htlc : response[k] # "none" => response'[k] = response[k]
          /\ \A k \in Htlc \cap {h} : response'[k] # "none"
      BY <1>0, <2>1, DeliverType
    <2> QED
      BY <1>0, <2>1, <2>2 DEF Cared
  <1>4. CASE held[h] = "chain"
    BY <1>0, <1>4 DEF Resolve, Perform, Cared
  <1> QED
    BY <1>0, <1>1, <1>2, <1>3, <1>4

\* One step leaves nobody uncared for who was not.
LEMMA CareStep ==
    ASSUME InterceptInv, ~ Mistakes, Care, [InterceptNext]_interceptVars
    PROVE  Care'
  <1> SUFFICES ASSUME link'.up = "up", NEW h \in Htlc, h \notin link'.todo,
                      incomingHtlc'[h] = "locked", link'.handing # h
               PROVE  Cared(h)'
    BY DEF Care
  <1> USE InterceptableSwitchAssumption
  <1>0. /\ link \in LinkState
        /\ incomingHtlc \in [Htlc -> {"none", "locked", "settle", "fail"}]
        /\ response \in [Htlc -> Reply] /\ circuit \in [Htlc -> Circuit]
        /\ held \in [Htlc -> {"no", "link", "chain"}]
    BY DEF InterceptInv, InterceptTypeOK, LinkState, Reply
  <1>1. CASE interceptForward
    <2> DEFINE f == link.handing
    <2>1. /\ f \in Htlc /\ link.replay \in BOOLEAN /\ incomingHtlc' = incomingHtlc
          /\ link'.up = link.up /\ link'.todo = link.todo /\ link.up = "up"
      BY <1>0, <1>1 DEF interceptForward, LinkState, InterceptInv
    <2>2. h # f => Cared(h)
      BY <2>1 DEF Care
    <2>3. CASE TooLateToIntercept(f)
      <3>1. handleExpired(f)
        BY <1>1, <2>3 DEF interceptForward
      <3> HIDE DEF f
      <3>2. /\ held' = held /\ response'[f] # "none"
            /\ \A g \in Htlc :
                 /\ response[g] # "none" => response'[g] = response[g]
                 /\ circuit[g] \in {"half", "late", "open", "closed"} => circuit'[g] = circuit[g]
        BY <2>1, <2>3, <3>1, ExpiredEffect
      <3> QED
        BY <2>2, <3>2 DEF Cared
    <2>4. CASE ~ TooLateToIntercept(f)
      <3>1. forward(f, "link", link.replay) /\ held[f] # "chain"
        BY <1>1, <2>1, <2>4 DEF interceptForward, InterceptInv
      <3> HIDE DEF f
      <3>2. \A g \in Htlc :
              /\ circuit'[g] = "closed" => response'[g] # "none"
              /\ response[g] # "none" => response'[g] # "none"
              /\ circuit[g] \in {"half", "late", "open", "closed"} => circuit'[g] = circuit[g]
              /\ held'[g] = held[g] \/ (g = f /\ held[g] = "no" /\ held'[g] = "link")
              /\ g = f => \/ held'[g] # "no" \/ response'[g] # "none"
                          \/ circuit'[g] \in {"half", "late", "open", "closed"}
        BY <2>1, <3>1, ForwardInv
      <3>3. CASE h = f
        BY <1>0, <3>1, <3>2, <3>3 DEF Cared
      <3>4. CASE h # f
        BY <2>2, <3>2, <3>4 DEF Cared
      <3> QED
        BY <3>3, <3>4
    <2> QED
      BY <2>3, <2>4
  <1>2. CASE Disconnect
    <2>1. Cared(h)
      BY <1>2 DEF Disconnect, Care
    <2>2. CASE required
      BY <1>2, <2>1, <2>2 DEF Disconnect, Cared
    <2>3. CASE ~ required
      <3>1. ForwardPackets(HeldBy("link"))
        BY <1>2, <2>3 DEF Disconnect
      <3>2. h \in HeldBy("link") \/ (Cared(h) /\ held[h] # "link")
        BY <2>1 DEF HeldBy
      <3> QED
        BY <3>1, <3>2, ForwardPacketsCares DEF Cared
    <2> QED
      BY <2>2, <2>3
  <1>3. CASE failExpiredHtlcs
    <2> DEFINE S == AutoFails(height') \cap HeldBy("link")
    <2>1. /\ circuit' = circuit /\ response' = Deliver(S, "fail")
          /\ held'[h] = IF h \in AutoFails(height') THEN "no" ELSE held[h]
          /\ Cared(h)
      BY <1>3 DEF failExpiredHtlcs, FailWithCode, Care
    <2>2. held[h] = "link" /\ held'[h] # "link" => h \in S
      BY <2>1 DEF HeldBy
    <2> HIDE DEF S
    <2>3. /\ \A g \in Htlc : response[g] # "none" => response'[g] = response[g]
          /\ \A g \in Htlc \cap S : response'[g] # "none"
      BY <1>0, <2>1, DeliverType
    <2> QED
      BY <2>1, <2>2, <2>3 DEF Cared
  <1>4. CASE \E g \in Htlc, action \in Action, wrong \in BOOLEAN : Resolve(g, action, wrong)
    <2> PICK g \in Htlc, action \in Action, wrong \in BOOLEAN : Resolve(g, action, wrong)
      BY <1>4
    <2>1. Cared(h)
      BY DEF Resolve, Care
    <2> QED
      BY <2>1, ResolveCares
  <1>5. CASE \E g \in Htlc : LockInHtlc(g) \/ forwardBatch(g)
    <2>1. PICK g \in Htlc : LockInHtlc(g) \/ forwardBatch(g)
      BY <1>5
    <2>2. UNCHANGED <<response, circuit, held>> /\ link.up = "up" /\ link.handing = NoHtlc
      BY <2>1 DEF LockInHtlc, forwardBatch
    <2>3. CASE LockInHtlc(g)
      <3>1. /\ link'.todo = link.todo \cup {g}
            /\ incomingHtlc' = [incomingHtlc EXCEPT ![g] = "locked"]
        BY <1>0, <2>3 DEF LockInHtlc, LinkState
      <3>2. h \notin link.todo /\ incomingHtlc[h] = "locked"
        BY <1>0, <3>1
      <3> QED
        BY <2>2, <3>2 DEF Care, Cared
    <2>4. CASE forwardBatch(g)
      <3>1. /\ link'.todo = link.todo \ {g} /\ incomingHtlc' = incomingHtlc
            /\ link'.handing = IF response[g] = "none" THEN g ELSE NoHtlc
        BY <1>0, <2>4 DEF forwardBatch, LinkState
      <3>2. CASE h = g
        BY <2>2, <3>1, <3>2 DEF Cared
      <3>3. CASE h # g
        BY <2>2, <3>1, <3>3 DEF Care, Cared
      <3> QED
        BY <3>2, <3>3
    <2> QED
      BY <2>1, <2>3, <2>4
  <1>6. CASE \E g \in Htlc : CommitResponse(g)
    <2>1. PICK g \in Htlc : CommitResponse(g)
      BY <1>6
    <2>2. /\ link.up = "up" /\ link.handing = NoHtlc /\ held' = held
          /\ response' = [response EXCEPT ![g] = "none"]
          /\ circuit' = [circuit EXCEPT ![g] = "none"]
          /\ link'.todo = link.todo \ {g}
      BY <1>0, <2>1 DEF CommitResponse, LinkState
    <2>3. h # g /\ incomingHtlc[h] = "locked"
      BY <1>0, <2>1 DEF CommitResponse, Reply
    <2>4. Cared(h)
      BY <2>2, <2>3 DEF Care
    <2> QED
      BY <1>0, <2>2, <2>3, <2>4 DEF Cared
  <1>7. CASE \E g \in Htlc : SendOut(g) \/ failAddPacket(g) \/ PassBack(g)
    <2>1. PICK g \in Htlc : SendOut(g) \/ failAddPacket(g) \/ PassBack(g)
      BY <1>7
    <2>2. Cared(h) /\ held' = held
      BY <2>1 DEF SendOut, failAddPacket, PassBack, Care
    <2>3. CASE SendOut(g)
      BY <1>0, <2>2, <2>3 DEF SendOut, Cared
    <2>4. CASE failAddPacket(g) \/ PassBack(g)
      <3>1. PICK r \in {"settle", "fail"} :
              response' = Deliver({g}, r) /\ circuit' = [circuit EXCEPT ![g] = "closed"]
        BY <2>4 DEF failAddPacket, PassBack
      <3>2. /\ \A k \in Htlc : response[k] # "none" => response'[k] = response[k]
            /\ \A k \in Htlc \cap {g} : response'[k] # "none"
        BY <1>0, <3>1, DeliverType
      <3> QED
        BY <1>0, <2>2, <3>1, <3>2 DEF Cared
    <2> QED
      BY <2>1, <2>3, <2>4
  <1>8. CASE StartLink
    <2>1. link'.todo = {g \in Htlc : incomingHtlc[g] = "locked"} /\ incomingHtlc' = incomingHtlc
      BY <1>8, NewLinkType DEF StartLink, LinkState
    <2> QED
      BY <2>1
  <1>9. CASE StopLink \/ CloseChannel \/ RestartSwitch
    <2>1. link'.up # "up"
      BY <1>9 DEF StopLink, CloseChannel, RestartSwitch, NewLink
    <2> QED
      BY <2>1
  <1>10. CASE \E g \in Htlc : SubscribeUpdates(g)
    <2>1. link' = link /\ link.up = "closed"
      BY <1>10 DEF SubscribeUpdates
    <2> QED
      BY <2>1
  <1>11. CASE \/ Connect \/ UNCHANGED interceptVars
              \/ \E g \in Htlc, r \in {"settle", "fail"} : PeerAnswers(g, r)
    <2>1. UNCHANGED <<link, incomingHtlc, response, circuit, held>>
      BY <1>11 DEF Connect, PeerAnswers, interceptVars
    <2> QED
      BY <2>1 DEF Care, Cared
  <1>12. CASE \E g \in Htlc : ResolveOnChain(g)
    <2>1. PICK g \in Htlc : ResolveOnChain(g)
      BY <1>12
    <2>2. UNCHANGED <<link, response, circuit, held>> /\ incomingHtlc[h] = "locked"
      BY <1>0, <2>1 DEF ResolveOnChain
    <2> QED
      BY <2>2 DEF Care, Cared
  <1> QED
    BY <1>1, <1>2, <1>3, <1>4, <1>5, <1>6, <1>7, <1>8, <1>9, <1>10, <1>11, <1>12
       DEF InterceptNext, Loop, Rest

\* Unless the client gives wrong preimages, every HTLC that the link handed
\* over is held, on its way or answered.
THEOREM CareSafety == ~ Mistakes /\ InterceptSpec => []NothingForgotten
  <1>1. InterceptInit => Care
    BY NewLinkType DEF InterceptInit, Care
  <1>2. ~ Mistakes /\ InterceptInv /\ Care /\ [InterceptNext]_interceptVars => Care'
    BY CareStep
  <1>3. InterceptInv /\ Care => NothingForgotten
    BY InterceptableSwitchAssumption DEF Care, NothingForgotten, Cared
  <1>4. CASE Mistakes
    BY <1>4
  <1>5. CASE ~ Mistakes
    <2>1. InterceptInv /\ Care /\ [InterceptNext]_interceptVars => Care'
      BY <1>2, <1>5
    <2> QED
      BY <1>1, <1>3, <2>1, InterceptInductive, PTL DEF InterceptSpec
  <1> QED
    BY <1>4, <1>5

-----------------------------------------------------------------------------
(* Replays.                                                                *)

\* Which answers a step may give to an HTLC the client saw.
LEMMA ReplayStep ==
    ASSUME InterceptInv, [InterceptNext]_interceptVars, NEW h \in seen, required, circuit[h] = "none",
           response[h] = "none", response'[h] = "fail"
    PROVE  decision'[h] = "fail" \/ Expiry[h] < height' + CltvInterceptDelta
  <1> USE InterceptableSwitchAssumption
  <1>0. /\ h \in Htlc /\ height \in Nat /\ Expiry[h] \in Nat
        /\ response \in [Htlc -> Reply] /\ held \in [Htlc -> {"no", "link", "chain"}]
        /\ decision \in [Htlc -> Action \cup {"none"}]
    BY DEF InterceptInv, InterceptTypeOK, Reply
  <1>1. CASE interceptForward
    <2> DEFINE f == link.handing
    <2>1. f \in Htlc /\ link.replay \in BOOLEAN /\ height' = height
      BY <1>1 DEF interceptForward, InterceptInv, InterceptTypeOK
    <2>2. CASE TooLateToIntercept(f)
      <3>1. handleExpired(f)
        BY <1>1, <2>2 DEF interceptForward
      <3> HIDE DEF f
      <3>2. h = f
        BY <1>0, <2>1, <2>2, <3>1, ExpiredEffect
      <3> USE DEF f
      <3> QED
        BY <2>1, <2>2, <3>2 DEF TooLateToIntercept
    <2>3. CASE ~ TooLateToIntercept(f)
      <3>1. forward(f, "link", link.replay)
        BY <1>1, <2>3 DEF interceptForward
      <3>2. h = f => link.replay
        BY <1>0, <2>1 DEF InterceptInv
      <3> HIDE DEF f
      <3>3. h = f /\ ~ link.replay
        BY <1>0, <2>1, <3>1, ForwardInv
      <3> QED
        BY <3>2, <3>3
    <2> QED
      BY <2>2, <2>3
  <1>2. CASE Disconnect
    BY <1>2 DEF Disconnect
  <1>3. CASE failExpiredHtlcs
    <2> DEFINE S == AutoFails(height') \cap HeldBy("link")
    <2>1. height' = height + 1 /\ response' = Deliver(S, "fail")
      BY <1>3 DEF failExpiredHtlcs, FailWithCode
    <2>2. h \in S
      BY <1>0, <2>1 DEF Deliver
    <2>3. Expiry[h] - CltvRejectDelta <= height'
      BY <2>2 DEF AutoFails, AutoFailHeight, HeldBy
    <2> QED
      BY <1>0, <2>1, <2>3
  <1>4. CASE \E g \in Htlc, action \in Action, wrong \in BOOLEAN : Resolve(g, action, wrong)
    <2> PICK g \in Htlc, action \in Action, wrong \in BOOLEAN : Resolve(g, action, wrong)
      BY <1>4
    <2>1. decision' = [decision EXCEPT ![g] = action]
      BY DEF Resolve
    <2>2. CASE held[g] = "link" /\ action = "resume"
      <3>1. InterceptTypeOK /\ ForwardPackets({g})
        BY <2>2 DEF Resolve, Perform, InterceptInv
      <3>2. circuit[h] = "stale"
        BY <1>0, <3>1, ForwardPacketsEffect
      <3> QED
        BY <3>2
    <2>3. CASE held[g] = "link" /\ action # "resume" /\ ~ wrong
      <3>1. response' = Deliver({g}, action)
        BY <2>3 DEF Resolve, Perform
      <3>2. h = g /\ action = "fail"
        BY <1>0, <3>1 DEF Deliver
      <3> QED
        BY <1>0, <2>1, <3>2
    <2>4. CASE ~ (held[g] = "link" /\ action = "resume") /\ ~ (held[g] = "link" /\ ~ wrong)
      <3>1. response' = response
        BY <2>4 DEF Resolve, Perform
      <3> QED
        BY <3>1
    <2> QED
      BY <2>2, <2>3, <2>4
  <1>5. CASE \E g \in Htlc : failAddPacket(g) \/ PassBack(g)
    <2> PICK g \in Htlc : failAddPacket(g) \/ PassBack(g)
      BY <1>5
    <2>1. circuit[g] # "none" /\ \E r : response' = Deliver({g}, r)
      BY DEF failAddPacket, PassBack
    <2> QED
      BY <1>0, <2>1 DEF Deliver
  <1>6. CASE \E g \in Htlc : SubscribeUpdates(g)
    <2> PICK g \in Htlc : SubscribeUpdates(g)
      BY <1>6
    <2>1. forward(g, "chain", TRUE)
      BY DEF SubscribeUpdates
    <2> QED
      BY <1>0, <2>1, ForwardInv
  <1>7. CASE RestartSwitch
    BY <1>0, <1>7 DEF RestartSwitch
  <1>8. CASE \E g \in Htlc : CommitResponse(g)
    BY <1>0, <1>8 DEF CommitResponse
  <1>9. CASE \/ Connect \/ StopLink \/ StartLink \/ CloseChannel \/ UNCHANGED interceptVars
             \/ \E g \in Htlc : LockInHtlc(g) \/ forwardBatch(g) \/ SendOut(g) \/ ResolveOnChain(g)
             \/ \E g \in Htlc, r \in {"settle", "fail"} : PeerAnswers(g, r)
    <2>1. response' = response
      BY <1>9 DEF Connect, StopLink, StartLink, CloseChannel, interceptVars, LockInHtlc, forwardBatch,
                  SendOut, ResolveOnChain, PeerAnswers
    <2> QED
      BY <2>1
  <1> QED
    BY <1>1, <1>2, <1>3, <1>4, <1>5, <1>6, <1>7, <1>8, <1>9 DEF InterceptNext, Loop, Rest

\* An HTLC the client was asked about before is failed back only by the client
\* or for its expiry, not because a replay finds no interceptor connected.
THEOREM ReplaySafety == InterceptSpec => SeenNotFailedBack
  <1>1. InterceptInv /\ [InterceptNext]_interceptVars =>
          [\A h \in seen :
             /\ required /\ circuit[h] = "none"
             /\ response[h] = "none" /\ response'[h] = "fail"
             => \/ decision'[h] = "fail"
                \/ Expiry[h] < height' + CltvInterceptDelta]_interceptVars
    BY ReplayStep
  <1> QED
    BY <1>1, InterceptInductive, PTL DEF InterceptSpec, SeenNotFailedBack
=============================================================================
