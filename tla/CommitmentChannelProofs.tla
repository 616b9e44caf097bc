----------------------- MODULE CommitmentChannelProofs -----------------------
(***************************************************************************)
(* Theorems of the channel, for any number of HTLCs, of fee changes and of *)
(* disconnects, of a channel that was updated before or of a fresh one     *)
(* without fee changes (FeeRatesKnown).                                    *)
(*                                                                         *)
(*   ChannelInductive    types, and each side's logs fit its bucket        *)
(*   LockedInSafety      HTLCs and removals are handed over once           *)
(*   RevokedSafety       no side holds a commitment it revoked             *)
(*   WaitSafety          nobody waits for a message that was lost          *)
(*                                                                         *)
(* LogInv relates the logs of a side to its bucket, whatever the peer      *)
(* sends: which entries each commitment includes (messageIndex), what is   *)
(* still in the logs (Complete), at which heights (Stamped), which HTLCs a *)
(* commitment holds (Contents), and that the two lists of updates and the  *)
(* CommitDiff have what the commitments alone do not tell (Stored).  Every *)
(* handler keeps it, and so do the logs that restoreCommitState makes of   *)
(* the bucket (RebuiltLogs).  WaitInv relates the heights of both sides to *)
(* the messages under way.                                                 *)
(***************************************************************************)
EXTENDS CommitmentChannel, SumTheorems, SequenceTheorems, TLAPS

-----------------------------------------------------------------------------
(* Types.                                                                  *)

\* Entries, logs and buckets.
EntryType ==
    [type : UpdateKind, logIndex : Nat, id : Nat, added : Heights,
     removed : Heights, isForwarded : BOOLEAN]
LogType ==
    [logIndex : Nat, htlcCounter : Nat, entries : SUBSET EntryType,
     modified : SUBSET Nat]
KeyType == [written : BOOLEAN, updates : SUBSET LogUpdateType]
BucketType ==
    [commit : [Chain -> CommitmentType], diff : CommitDiffType \cup {NoDiff},
     unsignedAckedUpdates : KeyType, remoteUnsignedLocalUpdates : KeyType,
     lastWasRevoke : BOOLEAN,
     fwdPkgs : SUBSET [height : Nat, updates : SUBSET LogUpdateType]]

\* Logs and buckets are finite.
FiniteLogs(l) == \A c \in Chain : IsFiniteSet(l[c].entries)
FiniteCommit(k) == \A c \in Chain : IsFiniteSet(k.htlcs[c])
FiniteBucket(d) ==
    /\ \A c \in Chain : FiniteCommit(d.commit[c])
    /\ d.diff # NoDiff => FiniteCommit(d.diff.commit) /\ IsFiniteSet(d.diff.updates)
    /\ IsFiniteSet(d.unsignedAckedUpdates.updates)
    /\ IsFiniteSet(d.remoteUnsignedLocalUpdates.updates)

LogsType == {l \in [Chain -> LogType] : FiniteLogs(l)}
DiskType == {d \in BucketType : FiniteBucket(d)}

\* The messages of a sequence.
Msgs(w) == {w[i] : i \in 1 .. Len(w)}
IsSeq(w) == w \in Seq(Msgs(w))

\* The type invariant of the channel.
ChannelTypeOK ==
    /\ bucket \in [Side -> DiskType]
    /\ log \in [Side -> LogsType]
    /\ pc \in [Side -> Pc]
    /\ wire = [s \in Side |-> wire[s]] /\ \A s \in Side : IsSeq(wire[s])
    /\ disconnects \in Nat

-----------------------------------------------------------------------------
(* Finite sets of entries.                                                 *)

\* The images of a finite set are finitely many.
LEMMA FiniteImage ==
    ASSUME NEW S, IsFiniteSet(S), NEW f, NEW T, \A y \in T : \E x \in S : y = f[x]
    PROVE  IsFiniteSet(T)
<1> DEFINE U == {x \in S : f[x] \in T}
           g == [x \in U |-> f[x]]
<1>1. U \in SUBSET S /\ g \in Surjection(U, T)
  BY DEF Surjection
<1>2. IsFiniteSet(U)
  BY <1>1, FS_Subset
<1> QED
  BY <1>1, <1>2, FS_Surjection

\* What is stored for finitely many entries.
LEMMA FiniteUpdates ==
    ASSUME NEW E \in SUBSET EntryType, IsFiniteSet(E)
    PROVE  IsFiniteSet(LogUpdates(E)) /\ LogUpdates(E) \in SUBSET LogUpdateType
<1> DEFINE f == [e \in E |-> LogUpdate(e)]
<1>1. \A y \in LogUpdates(E) : \E x \in E : y = f[x]
  BY DEF LogUpdates
<1>2. IsFiniteSet(LogUpdates(E))
  <2> HIDE DEF f
  <2> QED
    BY <1>1, FiniteImage
<1>3. \A e \in E : LogUpdate(e) \in LogUpdateType
  BY DEF LogUpdate, LogUpdateType, EntryType
<1> QED
  BY <1>2, <1>3 DEF LogUpdates

\* Among finitely many entries one comes last.
LEMMA LastEntry ==
    ASSUME NEW E \in SUBSET EntryType, IsFiniteSet(E), E # {}
    PROVE  \E f \in E : \A g \in E : g.logIndex <= f.logIndex
<1> DEFINE After(e) == {g \in E : g.logIndex > e.logIndex}
           C == {After(e) : e \in E}
<1>1. C \in SUBSET SUBSET E /\ C # {}
  OBVIOUS
<1>2. PICK S \in C : \A t \in SUBSET S : t # S => t \notin C
  <2> HIDE DEF C
  <2> QED
    BY <1>1, MinimalSet
<1>3. PICK f \in E : S = After(f)
  BY <1>2
<1>4. \A g \in E : g.logIndex \in Nat
  BY DEF EntryType
<1>5. ASSUME NEW g \in E, ~ (g.logIndex <= f.logIndex)
      PROVE  FALSE
  <2>1. g.logIndex > f.logIndex /\ ~ (g.logIndex > g.logIndex)
    BY <1>4, <1>5
  <2>2. g \in After(f) /\ g \notin After(g)
    BY <2>1
  <2>3. After(g) \subseteq After(f)
    BY <1>4, <2>1
  <2>4. After(g) \in C
    OBVIOUS
  <2> HIDE DEF C, After
  <2> QED
    BY <1>2, <1>3, <2>2, <2>3, <2>4
<1> QED
  BY <1>5

-----------------------------------------------------------------------------
(* Commitments and logs: their types.                                      *)

\* The parts of a log.
LEMMA EntriesOf ==
    ASSUME NEW l \in LogsType, NEW c \in Chain
    PROVE  /\ l[c] \in LogType
           /\ l[c].entries \in SUBSET EntryType /\ IsFiniteSet(l[c].entries)
           /\ l[c].logIndex \in Nat /\ l[c].htlcCounter \in Nat
           /\ l[c].modified \in SUBSET Nat
<1>1. l[c] \in LogType
  BY DEF LogsType
<1>2. IsFiniteSet(l[c].entries)
  BY DEF LogsType, FiniteLogs
<1> QED
  BY <1>1, <1>2 DEF LogType

\* Logs with entries that are finitely many are logs.
LEMMA LogsAre ==
    ASSUME NEW l, l = [c \in Chain |-> l[c]],
           \A c \in Chain : l[c] \in LogType /\ IsFiniteSet(l[c].entries)
    PROVE  l \in LogsType
BY DEF LogsType, FiniteLogs

\* The parts of a view.
LEMMA ViewParts ==
    ASSUME NEW l \in LogsType, NEW upto, NEW c \in Chain, NEW chain \in Chain
    PROVE  LET view == fetchHTLCView(l, upto)
           IN  /\ view[c] \in SUBSET l[c].entries
               /\ Kept(view, c) \in SUBSET view[c]
               /\ Fresh(view, c, chain) \in SUBSET view[c]
               /\ view[c] \in SUBSET EntryType /\ IsFiniteSet(view[c])
               /\ IsFiniteSet(Kept(view, c)) /\ IsFiniteSet(Fresh(view, c, chain))
<1> DEFINE view == fetchHTLCView(l, upto)
<1>1. view[c] \in SUBSET l[c].entries
  BY DEF fetchHTLCView
<1>2. view[c] \in SUBSET EntryType /\ IsFiniteSet(view[c])
  BY <1>1, EntriesOf, FS_Subset
<1>3. Kept(view, c) \in SUBSET view[c]
  BY DEF Kept
<1>4. Fresh(view, c, chain) \in SUBSET view[c]
  BY <1>3 DEF Fresh
<1> HIDE DEF view
<1>5. IsFiniteSet(Kept(view, c)) /\ IsFiniteSet(Fresh(view, c, chain))
  BY <1>2, <1>3, <1>4, FS_Subset
<1> QED
  BY <1>1, <1>2, <1>3, <1>4, <1>5 DEF view

\* Numbers of entries are numbers.
LEMMA CountType ==
    ASSUME NEW E, IsFiniteSet(E), NEW t
    PROVE  Count(E, t) \in Nat
<1>1. {e \in E : e.type = t} \in SUBSET E
  OBVIOUS
<1>2. IsFiniteSet({e \in E : e.type = t})
  BY <1>1, FS_Subset
<1> QED
  BY <1>2, FS_CardinalityType DEF Count

\* The rate of the next commitment.
LEMMA FeeType ==
    ASSUME NEW tip \in CommitmentType, NEW fresh \in [Chain -> SUBSET EntryType],
           \A c \in Chain : IsFiniteSet(fresh[c])
    PROVE  NextFee(tip, fresh) \in Nat
<1> DEFINE all == fresh["local"] \cup fresh["remote"]
           fees == {e \in all : e.type = "FeeUpdate"}
<1>1. fees \in SUBSET all /\ all \in SUBSET EntryType /\ fees \in SUBSET EntryType
  BY DEF Chain
<1>2. IsFiniteSet(all)
  BY FS_Union DEF Chain
<1>3. IsFiniteSet(fees)
  <2> HIDE DEF fees, all
  <2> QED
    BY <1>1, <1>2, FS_Subset
<1>4. NextFee(tip, fresh) = IF fees = {} THEN tip.feePerKw
          ELSE (CHOOSE f \in fees : \A g \in fees : g.logIndex <= f.logIndex).id
  BY DEF NextFee
<1>5. CASE fees = {}
  BY <1>4, <1>5 DEF CommitmentType
<1>6. CASE fees # {}
  <2> HIDE DEF fees
  <2>1. \E f \in fees : \A g \in fees : g.logIndex <= f.logIndex
    BY <1>1, <1>3, <1>6, LastEntry
  <2>2. (CHOOSE f \in fees : \A g \in fees : g.logIndex <= f.logIndex) \in fees
    BY <2>1
  <2> QED
    BY <1>1, <1>4, <1>6, <2>2 DEF EntryType
<1> QED
  BY <1>5, <1>6

\* A new commitment.
LEMMA ViewType ==
    ASSUME NEW l \in LogsType, NEW tip \in CommitmentType, NEW chain \in Chain,
           NEW upto \in Heights, NEW counters \in Heights
    PROVE  LET new == fetchCommitmentView(l, tip, chain, upto, counters)
           IN  /\ new \in CommitmentType /\ FiniteCommit(new)
               /\ new.height = tip.height + 1
               /\ new.messageIndex = upto /\ new.htlcIndex = counters
<1> DEFINE view == fetchHTLCView(l, upto)
           fresh == [c \in Chain |-> Fresh(view, c, chain)]
           new == fetchCommitmentView(l, tip, chain, upto, counters)
           htlcs == [c \in Chain |-> {Htlc(e) : e \in Kept(view, c)}]
<1>1. new = [height |-> tip.height + 1, messageIndex |-> upto,
             htlcIndex |-> counters, htlcs |-> htlcs,
             balance |-> [c \in Chain |-> NextBalance(tip, fresh, c)],
             feePerKw |-> NextFee(tip, fresh)]
  BY DEF fetchCommitmentView
<1>2. /\ \A c \in Chain : Kept(view, c) \in SUBSET EntryType /\ IsFiniteSet(Kept(view, c))
      /\ fresh \in [Chain -> SUBSET EntryType]
      /\ \A c \in Chain : IsFiniteSet(fresh[c])
  <2> SUFFICES ASSUME NEW c \in Chain
               PROVE  /\ Kept(view, c) \in SUBSET EntryType /\ IsFiniteSet(Kept(view, c))
                      /\ Fresh(view, c, chain) \in SUBSET EntryType
                      /\ IsFiniteSet(Fresh(view, c, chain))
    OBVIOUS
  <2> HIDE DEF view
  <2> QED
    BY ViewParts DEF view
<1> HIDE DEF view
<1>3. \A c \in Chain : IsFiniteSet(htlcs[c]) /\ htlcs[c] \in SUBSET [id : Nat, logIndex : Nat]
  <2> SUFFICES ASSUME NEW c \in Chain
               PROVE  /\ IsFiniteSet({Htlc(e) : e \in Kept(view, c)})
                      /\ {Htlc(e) : e \in Kept(view, c)} \in SUBSET [id : Nat, logIndex : Nat]
    OBVIOUS
  <2> DEFINE f == [e \in Kept(view, c) |-> Htlc(e)]
             T == {Htlc(e) : e \in Kept(view, c)}
  <2>1. \A y \in T : \E x \in Kept(view, c) : y = f[x]
    OBVIOUS
  <2>2. IsFiniteSet(T)
    <3> HIDE DEF f, T
    <3> QED
      BY <1>2, <2>1, FiniteImage
  <2>3. \A e \in Kept(view, c) : Htlc(e) \in [id : Nat, logIndex : Nat]
    BY <1>2 DEF Htlc, EntryType
  <2> QED
    BY <2>2, <2>3
<1> HIDE DEF fresh
<1>4. \A c \in Chain : NextBalance(tip, fresh, c) \in Int
  <2>1. \A c \in Chain : Opposite(c) \in Chain /\ tip.balance[c] \in Int
    BY DEF Opposite, Chain, CommitmentType
  <2>2. \A c \in Chain, t \in UpdateKind : Count(fresh[c], t) \in Nat
    BY <1>2, CountType
  <2> QED
    BY <2>1, <2>2 DEF NextBalance, UpdateKind
<1>5. NextFee(tip, fresh) \in Nat
  BY <1>2, FeeType
<1>6. tip.height + 1 \in Nat
  BY DEF CommitmentType
<1>7. new \in CommitmentType
  <2>1. htlcs \in [Chain -> SUBSET [id : Nat, logIndex : Nat]]
    BY <1>3
  <2> HIDE DEF htlcs, new
  <2> QED
    BY <1>1, <1>4, <1>5, <1>6, <2>1 DEF CommitmentType
<1> HIDE DEF htlcs
<1> QED
  BY <1>1, <1>3, <1>7 DEF FiniteCommit

\* The heights of an entry that is stamped.
LEMMA StampType ==
    ASSUME NEW e \in EntryType, NEW chain \in Chain, NEW h \in Nat
    PROVE  Stamp(e, chain, h) \in EntryType
<1>1. /\ e = [type |-> e.type, logIndex |-> e.logIndex, id |-> e.id,
              added |-> e.added, removed |-> e.removed, isForwarded |-> e.isForwarded]
      /\ e.added \in Heights /\ e.removed \in Heights
  BY DEF EntryType
<1>2. [e.added EXCEPT ![chain] = h] \in Heights /\ [e.removed EXCEPT ![chain] = h] \in Heights
  BY <1>1 DEF Heights
<1>3. /\ [e EXCEPT !.added[chain] = h] = [e EXCEPT !.added = [e.added EXCEPT ![chain] = h]]
      /\ [e EXCEPT !.removed[chain] = h] = [e EXCEPT !.removed = [e.removed EXCEPT ![chain] = h]]
      /\ [e EXCEPT !.added[chain] = h, !.removed[chain] = h] =
             [e EXCEPT !.added = [e.added EXCEPT ![chain] = h],
                       !.removed = [e.removed EXCEPT ![chain] = h]]
  BY <1>1
<1> QED
  BY <1>1, <1>2, <1>3 DEF Stamp, EntryType

\* Changing the entries of a log.
LEMMA WithEntries ==
    ASSUME NEW g \in LogType, NEW E \in SUBSET EntryType,
           NEW n, n = [g EXCEPT !.entries = E]
    PROVE  /\ n \in LogType /\ n.entries = E
           /\ n.logIndex = g.logIndex /\ n.htlcCounter = g.htlcCounter
           /\ n.modified = g.modified
BY DEF LogType

\* The logs with a new commitment.
LEMMA EvaluatedType ==
    ASSUME NEW l \in LogsType, NEW tip \in CommitmentType, NEW chain \in Chain, NEW upto
    PROVE  evaluateHTLCView(l, tip, chain, upto) \in LogsType
<1> DEFINE view == fetchHTLCView(l, upto)
           stamped(e, c) == IF e \in Fresh(view, c, chain)
                              THEN Stamp(e, chain, tip.height + 1) ELSE e
           new == evaluateHTLCView(l, tip, chain, upto)
<1>1. new = [c \in Chain |-> [l[c] EXCEPT !.entries = {stamped(e, c) : e \in @}]]
  BY DEF evaluateHTLCView
<1>2. \A c \in Chain : \A e \in l[c].entries : stamped(e, c) \in EntryType
  <2>1. tip.height + 1 \in Nat
    BY DEF CommitmentType
  <2> QED
    BY <2>1, EntriesOf, StampType
<1>3. ASSUME NEW c \in Chain
      PROVE  new[c] \in LogType /\ IsFiniteSet(new[c].entries)
  <2> DEFINE E == {stamped(e, c) : e \in l[c].entries}
  <2>1. E \in SUBSET EntryType
    BY <1>2
  <2>2. IsFiniteSet(E)
    <3> DEFINE f == [e \in l[c].entries |-> stamped(e, c)]
    <3>1. \A y \in E : \E x \in l[c].entries : y = f[x]
      OBVIOUS
    <3> HIDE DEF f, E
    <3> QED
      BY <3>1, EntriesOf, FiniteImage
  <2>3. new[c] = [l[c] EXCEPT !.entries = E]
    BY <1>1
  <2> HIDE DEF E, new
  <2>4. l[c] \in LogType
    BY EntriesOf
  <2>5. new[c] \in LogType /\ new[c].entries = E
    BY <2>1, <2>3, <2>4, WithEntries
  <2> QED
    BY <2>2, <2>5
<1> HIDE DEF stamped
<1>4. new = [c \in Chain |-> new[c]]
  BY <1>1
<1> HIDE DEF new
<1> QED
  BY <1>3, <1>4, LogsAre DEF new

\* A log with one more update.
LEMMA AppendedType ==
    ASSUME NEW g \in LogType, IsFiniteSet(g.entries), NEW type \in UpdateKind, NEW id \in Nat
    PROVE  /\ Entry(type, g.logIndex, id) \in EntryType
           /\ appendUpdate(g, type, id) =
                [logIndex |-> g.logIndex + 1, htlcCounter |-> g.htlcCounter,
                 entries |-> g.entries \cup {Entry(type, g.logIndex, id)},
                 modified |-> g.modified]
           /\ appendUpdate(g, type, id) \in LogType
           /\ IsFiniteSet(g.entries \cup {Entry(type, g.logIndex, id)})
<1>1. Entry(type, g.logIndex, id) \in EntryType
  BY DEF Entry, EntryType, LogType, Heights
<1>2. g = [logIndex |-> g.logIndex, htlcCounter |-> g.htlcCounter,
           entries |-> g.entries, modified |-> g.modified]
  BY DEF LogType
<1>3. appendUpdate(g, type, id) =
        [logIndex |-> g.logIndex + 1, htlcCounter |-> g.htlcCounter,
         entries |-> g.entries \cup {Entry(type, g.logIndex, id)},
         modified |-> g.modified]
  <2> DEFINE E == g.entries \cup {Entry(type, g.logIndex, id)}
             n == g.logIndex + 1
  <2>1. appendUpdate(g, type, id) = [g EXCEPT !.entries = E, !.logIndex = n]
    BY DEF appendUpdate
  <2> HIDE DEF E, n
  <2>2. appendUpdate(g, type, id) =
            [logIndex |-> n, htlcCounter |-> g.htlcCounter, entries |-> E,
             modified |-> g.modified]
    BY <1>2, <2>1
  <2> QED
    BY <2>2 DEF E, n
<1>4. IsFiniteSet(g.entries \cup {Entry(type, g.logIndex, id)})
  BY FS_AddElement
<1> DEFINE E == g.entries \cup {Entry(type, g.logIndex, id)}
<1>5. E \in SUBSET EntryType /\ g.logIndex + 1 \in Nat
  BY <1>1 DEF LogType
<1> HIDE DEF E
<1>6. appendUpdate(g, type, id) \in LogType
  BY <1>3, <1>5 DEF LogType, E
<1> QED
  BY <1>1, <1>3, <1>4, <1>6

\* A log with one more HTLC.
LEMMA AppendedHtlcType ==
    ASSUME NEW g \in LogType, IsFiniteSet(g.entries)
    PROVE  /\ appendHtlc(g) =
                [logIndex |-> g.logIndex + 1, htlcCounter |-> g.htlcCounter + 1,
                 entries |-> g.entries \cup {Entry("Add", g.logIndex, g.htlcCounter)},
                 modified |-> g.modified]
           /\ appendHtlc(g) \in LogType
<1>1. "Add" \in UpdateKind /\ g.htlcCounter \in Nat
  BY DEF UpdateKind, LogType
<1>2. appendUpdate(g, "Add", g.htlcCounter) =
        [logIndex |-> g.logIndex + 1, htlcCounter |-> g.htlcCounter,
         entries |-> g.entries \cup {Entry("Add", g.logIndex, g.htlcCounter)},
         modified |-> g.modified]
  BY <1>1, AppendedType
<1>3. appendHtlc(g) =
        [logIndex |-> g.logIndex + 1, htlcCounter |-> g.htlcCounter + 1,
         entries |-> g.entries \cup {Entry("Add", g.logIndex, g.htlcCounter)},
         modified |-> g.modified]
  BY <1>2 DEF appendHtlc
<1>4. Entry("Add", g.logIndex, g.htlcCounter) \in EntryType
  BY <1>1, AppendedType
<1> QED
  BY <1>3, <1>4 DEF LogType

\* A log in which the HTLC is marked.
LEMMA MarkedType ==
    ASSUME NEW g \in LogType, NEW id \in Nat
    PROVE  /\ markHtlcModified(g, id) =
                [logIndex |-> g.logIndex, htlcCounter |-> g.htlcCounter,
                 entries |-> g.entries, modified |-> g.modified \cup {id}]
           /\ markHtlcModified(g, id) \in LogType
<1>1. g = [logIndex |-> g.logIndex, htlcCounter |-> g.htlcCounter,
           entries |-> g.entries, modified |-> g.modified]
  BY DEF LogType
<1>2. markHtlcModified(g, id) =
        [logIndex |-> g.logIndex, htlcCounter |-> g.htlcCounter,
         entries |-> g.entries, modified |-> g.modified \cup {id}]
  BY <1>1 DEF markHtlcModified
<1> QED
  BY <1>2 DEF LogType

\* Logs without what left them.
LEMMA CompactedType ==
    ASSUME NEW l \in LogsType, NEW tail
    PROVE  LET gone == [c \in Chain |-> Evicted(l[c], tail)]
               parents(c) == {r.id : r \in {e \in gone[Opposite(c)] : IsRemoval(e)}}
               new == compactLogs(l, tail)
           IN  /\ new \in LogsType
               /\ \A c \in Chain :
                     /\ new[c].logIndex = l[c].logIndex
                     /\ new[c].htlcCounter = l[c].htlcCounter
                     /\ new[c].modified = l[c].modified \ parents(c)
                     /\ new[c].entries = {e \in l[c].entries \ gone[c] :
                                            ~ (e.type = "Add" /\ e.id \in parents(c))}
<1> DEFINE gone == [c \in Chain |-> Evicted(l[c], tail)]
           parents(c) == {r.id : r \in {e \in gone[Opposite(c)] : IsRemoval(e)}}
           kept(c) == {e \in l[c].entries \ gone[c] : ~ (e.type = "Add" /\ e.id \in parents(c))}
           new == compactLogs(l, tail)
<1>1. new = [c \in Chain |-> [l[c] EXCEPT
                !.entries = {e \in @ \ gone[c] : ~ (e.type = "Add" /\ e.id \in parents(c))},
                !.modified = @ \ parents(c)]]
  BY DEF compactLogs
<1> HIDE DEF gone
<1>2. ASSUME NEW c \in Chain
      PROVE  /\ new[c].logIndex = l[c].logIndex
             /\ new[c].htlcCounter = l[c].htlcCounter
             /\ new[c].modified = l[c].modified \ parents(c)
             /\ new[c].entries = kept(c)
             /\ new[c] \in LogType /\ IsFiniteSet(new[c].entries)
  <2>1. /\ l[c] = [logIndex |-> l[c].logIndex, htlcCounter |-> l[c].htlcCounter,
                   entries |-> l[c].entries, modified |-> l[c].modified]
        /\ l[c] \in LogType
    BY EntriesOf DEF LogType
  <2>2. new[c] = [l[c] EXCEPT !.entries = kept(c), !.modified = l[c].modified \ parents(c)]
    BY <1>1
  <2>3. kept(c) \in SUBSET l[c].entries
    OBVIOUS
  <2> HIDE DEF kept, parents
  <2>4. new[c] = [logIndex |-> l[c].logIndex, htlcCounter |-> l[c].htlcCounter,
                  entries |-> kept(c), modified |-> l[c].modified \ parents(c)]
    BY <2>1, <2>2
  <2>5. IsFiniteSet(kept(c)) /\ kept(c) \in SUBSET EntryType
    BY <2>3, EntriesOf, FS_Subset
  <2> QED
    BY <2>4, <2>5, EntriesOf DEF LogType
<1>3. new = [c \in Chain |-> new[c]]
  BY <1>1
<1>4. new \in LogsType
  <2> HIDE DEF new
  <2> QED
    BY <1>2, <1>3, LogsAre
<1> HIDE DEF new
<1> QED
  BY <1>2, <1>4 DEF new, gone

-----------------------------------------------------------------------------
(* What is on disk.                                                        *)

\* The parts of a bucket.
LEMMA DiskParts ==
    ASSUME NEW d \in DiskType
    PROVE  /\ \A c \in Chain : d.commit[c] \in CommitmentType /\ FiniteCommit(d.commit[c])
           /\ d.diff # NoDiff =>
                /\ d.diff \in CommitDiffType /\ d.diff.commit \in CommitmentType
                /\ FiniteCommit(d.diff.commit)
                /\ d.diff.updates \in SUBSET LogUpdateType /\ IsFiniteSet(d.diff.updates)
           /\ d.unsignedAckedUpdates \in KeyType
           /\ d.unsignedAckedUpdates.updates \in SUBSET LogUpdateType
           /\ IsFiniteSet(d.unsignedAckedUpdates.updates)
           /\ d.remoteUnsignedLocalUpdates \in KeyType
           /\ d.remoteUnsignedLocalUpdates.updates \in SUBSET LogUpdateType
           /\ IsFiniteSet(d.remoteUnsignedLocalUpdates.updates)
           /\ d.lastWasRevoke \in BOOLEAN
           /\ RemoteTip(d) \in CommitmentType
<1>1. d \in BucketType /\ FiniteBucket(d)
  BY DEF DiskType
<1>2. /\ \A c \in Chain : d.commit[c] \in CommitmentType /\ FiniteCommit(d.commit[c])
      /\ d.unsignedAckedUpdates \in KeyType
      /\ IsFiniteSet(d.unsignedAckedUpdates.updates)
      /\ d.remoteUnsignedLocalUpdates \in KeyType
      /\ IsFiniteSet(d.remoteUnsignedLocalUpdates.updates)
      /\ d.lastWasRevoke \in BOOLEAN
      /\ d.diff \in CommitDiffType \cup {NoDiff}
  BY <1>1 DEF BucketType, FiniteBucket
<1>3. d.diff # NoDiff =>
        /\ d.diff \in CommitDiffType /\ d.diff.commit \in CommitmentType
        /\ FiniteCommit(d.diff.commit)
        /\ d.diff.updates \in SUBSET LogUpdateType /\ IsFiniteSet(d.diff.updates)
  BY <1>1, <1>2 DEF FiniteBucket, CommitDiffType
<1>4. /\ d.unsignedAckedUpdates.updates \in SUBSET LogUpdateType
      /\ d.remoteUnsignedLocalUpdates.updates \in SUBSET LogUpdateType
  BY <1>2 DEF KeyType
<1>5. RemoteTip(d) \in CommitmentType
  BY <1>2, <1>3 DEF RemoteTip, HasUnacked, Chain
<1> QED
  BY <1>2, <1>3, <1>4, <1>5

\* The parts of a commitment.
LEMMA CommitParts ==
    ASSUME NEW k \in CommitmentType, NEW c \in Chain
    PROVE  /\ k.height \in Nat /\ k.messageIndex[c] \in Nat /\ k.htlcIndex[c] \in Nat
           /\ k.htlcs[c] \in SUBSET [id : Nat, logIndex : Nat]
           /\ k.balance[c] \in Int /\ k.feePerKw \in Nat
BY DEF CommitmentType, Heights

\* What a signature writes.
LEMMA DiffType ==
    ASSUME NEW d \in DiskType, NEW l \in LogsType
    PROVE  LET diff == createCommitDiff(d, l)
           IN  /\ diff \in CommitDiffType /\ FiniteCommit(diff.commit)
               /\ IsFiniteSet(diff.updates)
               /\ SignIndexes(d, l) \in Heights
               /\ diff.commit.height = d.commit["remote"].height + 1
               /\ diff.commit.messageIndex = SignIndexes(d, l)
               /\ diff.commit.htlcIndex = [local |-> l["local"].htlcCounter,
                                           remote |-> d.commit["local"].htlcIndex["remote"]]
               /\ diff.commit = fetchCommitmentView(l, d.commit["remote"], "remote",
                                    SignIndexes(d, l), diff.commit.htlcIndex)
               /\ diff.updates = LogUpdates({e \in SignedLogs(d, l)["local"].entries :
                        d.commit["remote"].height + 1 \in {e.added["remote"], e.removed["remote"]}})
               /\ SignedLogs(d, l) \in LogsType
<1> DEFINE counters == [local |-> l["local"].htlcCounter,
                        remote |-> d.commit["local"].htlcIndex["remote"]]
           commit == fetchCommitmentView(l, d.commit["remote"], "remote",
                        SignIndexes(d, l), counters)
           new == {e \in SignedLogs(d, l)["local"].entries :
                      commit.height \in {e.added["remote"], e.removed["remote"]}}
<1>1. createCommitDiff(d, l) = [commit |-> commit, updates |-> LogUpdates(new)]
  BY DEF createCommitDiff
<1>2. "local" \in Chain /\ "remote" \in Chain
  BY DEF Chain
<1>3. /\ d.commit["local"] \in CommitmentType /\ d.commit["remote"] \in CommitmentType
      /\ l["local"].logIndex \in Nat /\ l["local"].htlcCounter \in Nat
  BY <1>2, DiskParts, EntriesOf
<1>4. SignIndexes(d, l) \in Heights /\ counters \in Heights
  BY <1>2, <1>3, CommitParts DEF SignIndexes, Heights, Chain
<1>5. SignedLogs(d, l) \in LogsType
  BY <1>2, <1>3, EvaluatedType DEF SignedLogs
<1>6. new \in SUBSET SignedLogs(d, l)["local"].entries
  OBVIOUS
<1> HIDE DEF counters, new
<1>7. /\ commit \in CommitmentType /\ FiniteCommit(commit)
      /\ commit.height = d.commit["remote"].height + 1
      /\ commit.messageIndex = SignIndexes(d, l) /\ commit.htlcIndex = counters
  BY <1>2, <1>3, <1>4, ViewType
<1> HIDE DEF commit
<1>8. IsFiniteSet(LogUpdates(new)) /\ LogUpdates(new) \in SUBSET LogUpdateType
  <2>1. IsFiniteSet(new) /\ new \in SUBSET EntryType
    BY <1>2, <1>5, <1>6, EntriesOf, FS_Subset
  <2> QED
    BY <2>1, FiniteUpdates
<1>9. createCommitDiff(d, l) \in CommitDiffType
  BY <1>1, <1>7, <1>8 DEF CommitDiffType
<1>10. new = {e \in SignedLogs(d, l)["local"].entries :
                d.commit["remote"].height + 1 \in {e.added["remote"], e.removed["remote"]}}
  BY <1>7 DEF new
<1>11. commit = fetchCommitmentView(l, d.commit["remote"], "remote", SignIndexes(d, l),
                    commit.htlcIndex)
  BY <1>7 DEF commit
<1>12. /\ createCommitDiff(d, l).commit = commit
       /\ createCommitDiff(d, l).updates = LogUpdates(new)
  BY <1>1
<1>13. commit.htlcIndex = [local |-> l["local"].htlcCounter,
                          remote |-> d.commit["local"].htlcIndex["remote"]]
  BY <1>7 DEF counters
<1> QED
  BY <1>4, <1>5, <1>7, <1>8, <1>9, <1>10, <1>11, <1>12, <1>13

\* Keys of a bucket.
LEMMA DiskAre ==
    ASSUME NEW d, d = [commit |-> d.commit, diff |-> d.diff,
                       unsignedAckedUpdates |-> d.unsignedAckedUpdates,
                       remoteUnsignedLocalUpdates |-> d.remoteUnsignedLocalUpdates,
                       lastWasRevoke |-> d.lastWasRevoke, fwdPkgs |-> d.fwdPkgs],
           d.commit = [c \in Chain |-> d.commit[c]],
           \A c \in Chain : d.commit[c] \in CommitmentType /\ FiniteCommit(d.commit[c]),
           \/ d.diff = NoDiff
           \/ /\ d.diff \in CommitDiffType
              /\ FiniteCommit(d.diff.commit) /\ IsFiniteSet(d.diff.updates),
           d.unsignedAckedUpdates \in KeyType, IsFiniteSet(d.unsignedAckedUpdates.updates),
           d.remoteUnsignedLocalUpdates \in KeyType,
           IsFiniteSet(d.remoteUnsignedLocalUpdates.updates),
           d.lastWasRevoke \in BOOLEAN,
           d.fwdPkgs \in SUBSET [height : Nat, updates : SUBSET LogUpdateType]
    PROVE  d \in DiskType
<1>1. d.commit \in [Chain -> CommitmentType] /\ d.diff \in CommitDiffType \cup {NoDiff}
  OBVIOUS
<1>2. d \in BucketType
  BY <1>1 DEF BucketType
<1>3. FiniteBucket(d)
  BY DEF FiniteBucket
<1> QED
  BY <1>2, <1>3 DEF DiskType

\* A bucket is the record of its keys.
LEMMA DiskFields ==
    ASSUME NEW d \in DiskType
    PROVE  /\ d = [commit |-> d.commit, diff |-> d.diff,
                   unsignedAckedUpdates |-> d.unsignedAckedUpdates,
                   remoteUnsignedLocalUpdates |-> d.remoteUnsignedLocalUpdates,
                   lastWasRevoke |-> d.lastWasRevoke, fwdPkgs |-> d.fwdPkgs]
           /\ d.commit = [c \in Chain |-> d.commit[c]]
           /\ d.fwdPkgs \in SUBSET [height : Nat, updates : SUBSET LogUpdateType]
BY DEF DiskType, BucketType

\* The bucket with a signature.
LEMMA SignedType ==
    ASSUME NEW d \in DiskType, NEW l \in LogsType
    PROVE  /\ SignedDisk(d, l) =
                [commit |-> d.commit, diff |-> createCommitDiff(d, l),
                 unsignedAckedUpdates |-> d.unsignedAckedUpdates,
                 remoteUnsignedLocalUpdates |-> d.remoteUnsignedLocalUpdates,
                 lastWasRevoke |-> FALSE, fwdPkgs |-> d.fwdPkgs]
           /\ SignedDisk(d, l) \in DiskType
<1> DEFINE n == SignedDisk(d, l)
<1>1. n = [d EXCEPT !.diff = createCommitDiff(d, l), !.lastWasRevoke = FALSE]
  BY DEF SignedDisk
<1>2. createCommitDiff(d, l) \in CommitDiffType
      /\ FiniteCommit(createCommitDiff(d, l).commit)
      /\ IsFiniteSet(createCommitDiff(d, l).updates)
  BY DiffType
<1> HIDE DEF n
<1>5. d = [commit |-> d.commit, diff |-> d.diff,
           unsignedAckedUpdates |-> d.unsignedAckedUpdates,
           remoteUnsignedLocalUpdates |-> d.remoteUnsignedLocalUpdates,
           lastWasRevoke |-> d.lastWasRevoke, fwdPkgs |-> d.fwdPkgs]
  BY DiskFields
<1>3. n = [commit |-> d.commit, diff |-> createCommitDiff(d, l),
           unsignedAckedUpdates |-> d.unsignedAckedUpdates,
           remoteUnsignedLocalUpdates |-> d.remoteUnsignedLocalUpdates,
           lastWasRevoke |-> FALSE, fwdPkgs |-> d.fwdPkgs]
  BY <1>1, <1>5
<1>4. n \in DiskType
  BY <1>2, <1>3, DiskParts, DiskFields, DiskAre
<1> QED
  BY <1>3, <1>4 DEF n

\* Both chains.
LEMMA TwoChains ==
    ASSUME NEW f, f = [c \in Chain |-> f[c]]
    PROVE  f = [local |-> f["local"], remote |-> f["remote"]]
BY DEF Chain

\* A key with fewer updates.
LEMMA KeyWith ==
    ASSUME NEW key \in KeyType, NEW S, NEW n, n = [key EXCEPT !.updates = S]
    PROVE  n = [written |-> key.written, updates |-> S]
BY DEF KeyType

\* The bucket with a commitment of our own.
LEMMA UpdatedType ==
    ASSUME NEW d \in DiskType, NEW new \in CommitmentType, FiniteCommit(new),
           NEW acked \in SUBSET LogUpdateType, IsFiniteSet(acked)
    PROVE  LET nd == UpdateCommitment(d, new, acked)
           IN  /\ nd \in DiskType
               /\ nd.commit = [local |-> new, remote |-> d.commit["remote"]]
               /\ nd.diff = d.diff /\ nd.fwdPkgs = d.fwdPkgs
               /\ nd.unsignedAckedUpdates = Written(acked)
               /\ nd.remoteUnsignedLocalUpdates.updates =
                    UpdatesFrom(d.remoteUnsignedLocalUpdates.updates, new.messageIndex["local"])
               /\ nd.lastWasRevoke = TRUE
<1> DEFINE nd == UpdateCommitment(d, new, acked)
           kept == UpdatesFrom(d.remoteUnsignedLocalUpdates.updates, new.messageIndex["local"])
           key == [d.remoteUnsignedLocalUpdates EXCEPT !.updates = kept]
           commit == [d.commit EXCEPT !["local"] = new]
<1>1. nd = [d EXCEPT !.commit = commit, !.unsignedAckedUpdates = Written(acked),
                     !.lastWasRevoke = TRUE, !.remoteUnsignedLocalUpdates = key]
  BY DEF UpdateCommitment
<1>2. d = [commit |-> d.commit, diff |-> d.diff,
           unsignedAckedUpdates |-> d.unsignedAckedUpdates,
           remoteUnsignedLocalUpdates |-> d.remoteUnsignedLocalUpdates,
           lastWasRevoke |-> d.lastWasRevoke, fwdPkgs |-> d.fwdPkgs]
  BY DiskFields
<1>3. commit = [local |-> new, remote |-> d.commit["remote"]]
  <2>1. d.commit = [c \in Chain |-> d.commit[c]]
    BY DiskFields
  <2>2. commit = [c \in Chain |-> commit[c]] /\ commit["local"] = new
        /\ commit["remote"] = d.commit["remote"]
    BY <2>1 DEF Chain
  <2> HIDE DEF commit
  <2> QED
    BY <2>2, TwoChains
<1>4. key \in KeyType /\ IsFiniteSet(key.updates) /\ key.updates = kept
  <2>1. /\ d.remoteUnsignedLocalUpdates \in KeyType
        /\ d.remoteUnsignedLocalUpdates.updates \in SUBSET LogUpdateType
        /\ IsFiniteSet(d.remoteUnsignedLocalUpdates.updates)
    BY DiskParts
  <2>10. kept \in SUBSET d.remoteUnsignedLocalUpdates.updates
    BY DEF UpdatesFrom
  <2>2. IsFiniteSet(kept)
    BY <2>1, <2>10, FS_Subset
  <2>3. kept \in SUBSET LogUpdateType
    BY <2>1, <2>10
  <2> HIDE DEF kept
  <2> QED
    BY <2>1, <2>2, <2>3 DEF KeyType
<1>5. Written(acked) \in KeyType /\ Written(acked).updates = acked
  BY DEF Written, KeyType
<1> HIDE DEF nd, key, commit, kept
<1>6. nd = [commit |-> commit, diff |-> d.diff, unsignedAckedUpdates |-> Written(acked),
            remoteUnsignedLocalUpdates |-> key, lastWasRevoke |-> TRUE,
            fwdPkgs |-> d.fwdPkgs]
  BY <1>1, <1>2
<1>7. nd.commit = [c \in Chain |-> nd.commit[c]]
  BY <1>3, <1>6 DEF Chain
<1>8. \A c \in Chain : nd.commit[c] \in CommitmentType /\ FiniteCommit(nd.commit[c])
  BY <1>3, <1>6, DiskParts DEF Chain
<1>9. \/ nd.diff = NoDiff
      \/ /\ nd.diff \in CommitDiffType
         /\ FiniteCommit(nd.diff.commit) /\ IsFiniteSet(nd.diff.updates)
  BY <1>6, DiskParts
<1>10. nd \in DiskType
  BY <1>4, <1>5, <1>6, <1>7, <1>8, <1>9, DiskFields, DiskAre
<1> QED
  BY <1>3, <1>4, <1>6, <1>10 DEF nd, kept

\* The bucket with a commitment of the peer that is revoked.
LEMMA AdvancedType ==
    ASSUME NEW d \in DiskType, HasUnacked(d), NEW updates \in SUBSET LogUpdateType,
           NEW fwdPkg \in [height : Nat, updates : SUBSET LogUpdateType],
           IsFiniteSet(updates)
    PROVE  LET nd == AdvanceCommitChainTail(d, fwdPkg, updates)
           IN  /\ nd \in DiskType
               /\ nd.commit = [local |-> d.commit["local"], remote |-> d.diff.commit]
               /\ nd.diff = NoDiff /\ nd.fwdPkgs = d.fwdPkgs \cup {fwdPkg}
               /\ nd.lastWasRevoke = d.lastWasRevoke
               /\ ~ d.unsignedAckedUpdates.written =>
                    /\ nd.unsignedAckedUpdates = d.unsignedAckedUpdates
                    /\ nd.remoteUnsignedLocalUpdates = d.remoteUnsignedLocalUpdates
               /\ d.unsignedAckedUpdates.written =>
                    /\ nd.unsignedAckedUpdates =
                         Written(UpdatesFrom(d.unsignedAckedUpdates.updates, d.diff.commit.messageIndex["remote"]))
                    /\ nd.remoteUnsignedLocalUpdates = Written(updates)
<1> DEFINE nd == AdvanceCommitChainTail(d, fwdPkg, updates)
           next == [d EXCEPT !.commit["remote"] = d.diff.commit, !.diff = NoDiff,
                             !.fwdPkgs = @ \cup {fwdPkg}]
           commit == [d.commit EXCEPT !["remote"] = d.diff.commit]
           pkgs == d.fwdPkgs \cup {fwdPkg}
           kept == UpdatesFrom(d.unsignedAckedUpdates.updates, d.diff.commit.messageIndex["remote"])
           key == [d.unsignedAckedUpdates EXCEPT !.updates = kept]
<1>1. next = [d EXCEPT !.commit = commit, !.diff = NoDiff, !.fwdPkgs = pkgs]
  OBVIOUS
<1>2. d = [commit |-> d.commit, diff |-> d.diff,
           unsignedAckedUpdates |-> d.unsignedAckedUpdates,
           remoteUnsignedLocalUpdates |-> d.remoteUnsignedLocalUpdates,
           lastWasRevoke |-> d.lastWasRevoke, fwdPkgs |-> d.fwdPkgs]
  BY DiskFields
<1>3. /\ commit = [local |-> d.commit["local"], remote |-> d.diff.commit]
      /\ commit = [c \in Chain |-> commit[c]]
  <2>1. d.commit = [c \in Chain |-> d.commit[c]]
    BY DiskFields
  <2>2. /\ commit = [c \in Chain |-> commit[c]] /\ commit["local"] = d.commit["local"]
        /\ commit["remote"] = d.diff.commit
    BY <2>1 DEF Chain
  <2> HIDE DEF commit
  <2> QED
    BY <2>2, TwoChains
<1>4. \A c \in Chain : commit[c] \in CommitmentType /\ FiniteCommit(commit[c])
  <2> HIDE DEF commit
  <2> QED
    BY <1>3, DiskParts DEF Chain, HasUnacked
<1>5. pkgs \in SUBSET [height : Nat, updates : SUBSET LogUpdateType]
  BY DiskFields
<1>6. nd = IF ~ d.unsignedAckedUpdates.written THEN next
           ELSE [next EXCEPT !.unsignedAckedUpdates.updates =
                                UpdatesFrom(@, d.diff.commit.messageIndex["remote"]),
                             !.remoteUnsignedLocalUpdates = Written(updates)]
  BY DEF AdvanceCommitChainTail
<1> HIDE DEF next, commit, pkgs, nd
<1>7. next = [commit |-> commit, diff |-> NoDiff,
              unsignedAckedUpdates |-> d.unsignedAckedUpdates,
              remoteUnsignedLocalUpdates |-> d.remoteUnsignedLocalUpdates,
              lastWasRevoke |-> d.lastWasRevoke, fwdPkgs |-> pkgs]
  BY <1>1, <1>2
<1>8. next \in DiskType
  BY <1>3, <1>4, <1>5, <1>7, DiskParts, DiskAre
<1>9. CASE ~ d.unsignedAckedUpdates.written
  BY <1>3, <1>6, <1>7, <1>8, <1>9 DEF nd, pkgs
<1>10. CASE d.unsignedAckedUpdates.written
  <2>1. /\ d.unsignedAckedUpdates \in KeyType
        /\ d.unsignedAckedUpdates.updates \in SUBSET LogUpdateType
        /\ IsFiniteSet(d.unsignedAckedUpdates.updates)
    BY DiskParts
  <2>10. kept \in SUBSET d.unsignedAckedUpdates.updates
    BY DEF UpdatesFrom
  <2>2. IsFiniteSet(kept)
    BY <2>1, <2>10, FS_Subset
  <2>3. kept \in SUBSET LogUpdateType
    BY <2>1, <2>10
  <2>4. nd = [next EXCEPT !.unsignedAckedUpdates = key,
                          !.remoteUnsignedLocalUpdates = Written(updates)]
    BY <1>6, <1>7, <1>10
  <2>9. key = [d.unsignedAckedUpdates EXCEPT !.updates = kept]
    OBVIOUS
  <2> HIDE DEF kept, key
  <2>5. key = Written(kept)
    BY <1>10, <2>1, <2>9, KeyWith DEF KeyType, Written
  <2>6. nd = [commit |-> commit, diff |-> NoDiff, unsignedAckedUpdates |-> Written(kept),
              remoteUnsignedLocalUpdates |-> Written(updates),
              lastWasRevoke |-> d.lastWasRevoke, fwdPkgs |-> pkgs]
    BY <1>7, <2>4, <2>5
  <2>7. /\ Written(kept) \in KeyType /\ Written(kept).updates = kept
        /\ Written(updates) \in KeyType /\ Written(updates).updates = updates
    BY <2>3 DEF Written, KeyType
  <2>8. nd \in DiskType
    BY <1>3, <1>4, <1>5, <2>2, <2>6, <2>7, DiskParts, DiskAre
  <2> QED
    BY <1>3, <1>10, <2>6, <2>8 DEF nd, pkgs, kept
<1> QED
  BY <1>9, <1>10

-----------------------------------------------------------------------------
(* Logs made of what is on disk.                                           *)

\* Restored entries.
LEMMA RestoredType ==
    ASSUME NEW a \in Nat, NEW b \in Nat
    PROVE  /\ At(a, b) \in Heights
           /\ \A u \in LogUpdateType : RestoredUpdate(u, At(a, b)) \in EntryType
           /\ \A h : h.id \in Nat /\ h.logIndex \in Nat => RestoredAdd(h, At(a, b)) \in EntryType
<1>1. At(a, b) \in Heights /\ At(0, 0) \in Heights
  BY DEF At, Heights, Chain
<1>2. \A u \in LogUpdateType : RestoredUpdate(u, At(a, b)) \in EntryType
  BY <1>1 DEF RestoredUpdate, Restored, EntryType, LogUpdateType
<1>3. \A h : h.id \in Nat /\ h.logIndex \in Nat => RestoredAdd(h, At(a, b)) \in EntryType
  BY <1>1 DEF RestoredAdd, Restored, EntryType, UpdateKind
<1> QED
  BY <1>1, <1>2, <1>3

\* Ids of finitely many updates.
LEMMA ResolvedType ==
    ASSUME NEW U \in SUBSET LogUpdateType
    PROVE  ResolvedIds(U) \in SUBSET Nat
BY DEF ResolvedIds, LogUpdateType

\* Our own log as it is restored is a log.
LEMMA RestoredLocalType ==
    ASSUME NEW d \in DiskType
    PROVE  RestoredLocalLog(d) \in LogType /\ IsFiniteSet(RestoredLocalLog(d).entries)
<1> DEFINE lh == d.commit["local"].height
           rh == d.commit["remote"].height
           onLocal == ResolvedIds(d.unsignedAckedUpdates.updates)
                            \cup Ids(d.commit["local"].htlcs["local"])
           add(h) == RestoredAdd(h, At(IF h.id \in onLocal THEN lh ELSE 0, rh))
           adds == {add(h) : h \in d.commit["remote"].htlcs["local"]}
           pend(u) == IF u.type = "Add" THEN RestoredAdd(u, At(0, rh + 1))
                      ELSE RestoredUpdate(u, At(0, rh + 1))
           pending == IF ~ HasUnacked(d) THEN {} ELSE {pend(u) : u \in d.diff.updates}
           unsigned == {RestoredUpdate(u, At(0, rh)) :
                            u \in d.remoteUnsignedLocalUpdates.updates}
           new == {e \in pending : e.type = "Add"}
<1>1. lh \in Nat /\ rh \in Nat /\ rh + 1 \in Nat
  BY DiskParts, CommitParts DEF Chain
<1>2. adds \in SUBSET EntryType /\ IsFiniteSet(adds)
  <2> DEFINE S == d.commit["remote"].htlcs["local"]
             f == [h \in S |-> add(h)]
  <2>1. IsFiniteSet(S) /\ S \in SUBSET [id : Nat, logIndex : Nat]
    BY DiskParts, CommitParts DEF Chain, FiniteCommit
  <2>2. \A y \in adds : \E x \in S : y = f[x]
    OBVIOUS
  <2>3. \A h \in S : add(h) \in EntryType
    BY <1>1, <2>1, RestoredType
  <2>4. adds \in SUBSET EntryType
    BY <2>3
  <2> HIDE DEF f, adds, S
  <2> QED
    BY <2>1, <2>2, <2>4, FiniteImage
<1>3. pending \in SUBSET EntryType /\ IsFiniteSet(pending)
  <2>1. CASE ~ HasUnacked(d)
    BY <2>1, FS_EmptySet
  <2>2. CASE HasUnacked(d)
    <3> DEFINE S == d.diff.updates
               f == [u \in S |-> pend(u)]
    <3>1. IsFiniteSet(S) /\ S \in SUBSET LogUpdateType
      BY <2>2, DiskParts DEF HasUnacked
    <3>2. \A y \in pending : \E x \in S : y = f[x]
      BY <2>2
    <3>3. \A u \in S : u \in LogUpdateType /\ u.id \in Nat /\ u.logIndex \in Nat
      BY <3>1 DEF LogUpdateType
    <3>4. \A u \in S : pend(u) \in EntryType
      BY <1>1, <3>3, RestoredType
    <3>5. pending \in SUBSET EntryType
      BY <2>2, <3>4
    <3> HIDE DEF f, pending, S
    <3> QED
      BY <3>1, <3>2, <3>5, FiniteImage
  <2> QED
    BY <2>1, <2>2
<1>4. unsigned \in SUBSET EntryType /\ IsFiniteSet(unsigned)
  <2> DEFINE S == d.remoteUnsignedLocalUpdates.updates
             f == [u \in S |-> RestoredUpdate(u, At(0, rh))]
  <2>1. IsFiniteSet(S) /\ S \in SUBSET LogUpdateType
    BY DiskParts
  <2>2. \A y \in unsigned : \E x \in S : y = f[x]
    OBVIOUS
  <2>3. unsigned \in SUBSET EntryType
    BY <1>1, <2>1, RestoredType
  <2> HIDE DEF f, unsigned, S
  <2> QED
    BY <2>1, <2>2, <2>3, FiniteImage
<1>5. new \in SUBSET pending
  OBVIOUS
<1> DEFINE g == RestoredLocalLog(d)
<1>6. /\ g = [logIndex |-> d.commit["remote"].messageIndex["local"] + Cardinality(pending),
              htlcCounter |-> d.commit["remote"].htlcIndex["local"] + Cardinality(new),
              entries |-> adds \cup pending \cup unsigned,
              modified |-> ResolvedIds(d.unsignedAckedUpdates.updates)]
  BY DEF RestoredLocalLog
<1> HIDE DEF adds, pending, unsigned, new, g
<1>7. Cardinality(pending) \in Nat /\ Cardinality(new) \in Nat
  BY <1>3, <1>5, FS_Subset, FS_CardinalityType
<1>8. adds \cup pending \cup unsigned \in SUBSET EntryType
      /\ IsFiniteSet(adds \cup pending \cup unsigned)
  BY <1>2, <1>3, <1>4, FS_Union
<1>9. ResolvedIds(d.unsignedAckedUpdates.updates) \in SUBSET Nat
  BY DiskParts, ResolvedType
<1>10. /\ d.commit["remote"].messageIndex["local"] \in Nat
       /\ d.commit["remote"].htlcIndex["local"] \in Nat
  BY DiskParts, CommitParts DEF Chain
<1>11. g \in LogType /\ IsFiniteSet(g.entries)
  BY <1>6, <1>7, <1>8, <1>9, <1>10 DEF LogType
<1> QED
  BY <1>11 DEF g

\* The peer's log as it is restored is a log.
LEMMA RestoredRemoteType ==
    ASSUME NEW d \in DiskType
    PROVE  RestoredRemoteLog(d) \in LogType /\ IsFiniteSet(RestoredRemoteLog(d).entries)
<1> DEFINE lh == d.commit["local"].height
           rh == d.commit["remote"].height
           pendingIds == IF HasUnacked(d) THEN Ids(d.diff.commit.htlcs["remote"]) ELSE {}
           addedAt(id) ==
              IF id \in ResolvedIds(d.remoteUnsignedLocalUpdates.updates)
                            \cup Ids(d.commit["remote"].htlcs["remote"]) THEN rh
              ELSE IF id \in pendingIds THEN rh + 1 ELSE 0
           add(h) == RestoredAdd(h, At(lh, addedAt(h.id)))
           adds == {add(h) : h \in d.commit["local"].htlcs["remote"]}
           height(u) == IF HasUnacked(d) /\ u.logIndex < RemoteTip(d).messageIndex["remote"]
                          THEN rh + 1 ELSE 0
           ack(u) == RestoredUpdate(u, At(lh, height(u)))
           acked == {ack(u) : u \in {v \in d.unsignedAckedUpdates.updates : v.type # "Add"}}
           sent == IF HasUnacked(d) THEN d.diff.updates ELSE {}
<1>1. lh \in Nat /\ rh \in Nat /\ rh + 1 \in Nat
  BY DiskParts, CommitParts DEF Chain
<1>2. adds \in SUBSET EntryType /\ IsFiniteSet(adds)
  <2> DEFINE S == d.commit["local"].htlcs["remote"]
             f == [h \in S |-> add(h)]
  <2>1. IsFiniteSet(S) /\ S \in SUBSET [id : Nat, logIndex : Nat]
    BY DiskParts, CommitParts DEF Chain, FiniteCommit
  <2>2. \A y \in adds : \E x \in S : y = f[x]
    OBVIOUS
  <2>5. \A h \in S : addedAt(h.id) \in Nat
    BY <1>1
  <2>3. \A h \in S : add(h) \in EntryType
    <3> HIDE DEF addedAt
    <3> QED
      BY <1>1, <2>1, <2>5, RestoredType
  <2>4. adds \in SUBSET EntryType
    BY <2>3
  <2> HIDE DEF f, adds, S
  <2> QED
    BY <2>1, <2>2, <2>4, FiniteImage
<1>3. acked \in SUBSET EntryType /\ IsFiniteSet(acked)
  <2> DEFINE S == {v \in d.unsignedAckedUpdates.updates : v.type # "Add"}
             f == [u \in S |-> ack(u)]
  <2>1. IsFiniteSet(S) /\ S \in SUBSET LogUpdateType
    BY DiskParts, FS_Subset
  <2>2. \A y \in acked : \E x \in S : y = f[x]
    OBVIOUS
  <2>5. \A u \in S : height(u) \in Nat
    BY <1>1
  <2>3. \A u \in S : ack(u) \in EntryType
    <3> HIDE DEF height, S
    <3> QED
      BY <1>1, <2>1, <2>5, RestoredType
  <2>4. acked \in SUBSET EntryType
    BY <2>3
  <2> HIDE DEF f, acked, S
  <2> QED
    BY <2>1, <2>2, <2>4, FiniteImage
<1> DEFINE g == RestoredRemoteLog(d)
<1>4. g = [logIndex |-> d.commit["local"].messageIndex["remote"],
           htlcCounter |-> d.commit["local"].htlcIndex["remote"],
           entries |-> adds \cup acked,
           modified |-> ResolvedIds(sent \cup d.remoteUnsignedLocalUpdates.updates)]
  BY DEF RestoredRemoteLog
<1>5. sent \cup d.remoteUnsignedLocalUpdates.updates \in SUBSET LogUpdateType
  <2>1. d.remoteUnsignedLocalUpdates.updates \in SUBSET LogUpdateType
        /\ (HasUnacked(d) => d.diff.updates \in SUBSET LogUpdateType)
    BY DiskParts DEF HasUnacked
  <2> QED
    BY <2>1
<1> HIDE DEF adds, acked, sent, g
<1>6. adds \cup acked \in SUBSET EntryType /\ IsFiniteSet(adds \cup acked)
  BY <1>2, <1>3, FS_Union
<1>7. ResolvedIds(sent \cup d.remoteUnsignedLocalUpdates.updates) \in SUBSET Nat
  BY <1>5, ResolvedType
<1>8. /\ d.commit["local"].messageIndex["remote"] \in Nat
      /\ d.commit["local"].htlcIndex["remote"] \in Nat
  BY DiskParts, CommitParts DEF Chain
<1>9. g \in LogType /\ IsFiniteSet(g.entries)
  BY <1>4, <1>6, <1>7, <1>8 DEF LogType
<1> QED
  BY <1>9 DEF g

\* restoreCommitState makes logs of a bucket.
LEMMA RestoredLogs ==
    ASSUME NEW d \in DiskType
    PROVE  restoreCommitState(d) \in LogsType
<1> DEFINE l == restoreCommitState(d)
<1>1. l = [c \in Chain |-> l[c]] /\ l["local"] = RestoredLocalLog(d)
      /\ l["remote"] = RestoredRemoteLog(d)
  BY DEF restoreCommitState, Chain
<1> HIDE DEF l
<1>2. \A c \in Chain : l[c] \in LogType /\ IsFiniteSet(l[c].entries)
  BY <1>1, RestoredLocalType, RestoredRemoteType DEF Chain
<1> QED
  BY <1>1, <1>2, LogsAre DEF l

-----------------------------------------------------------------------------
(* Messages.                                                               *)

\* A sequence is one of its own messages.
LEMMA SeqOf ==
    ASSUME NEW T, NEW w \in Seq(T)
    PROVE  IsSeq(w)
<1>1. Len(w) \in Nat /\ w \in [1 .. Len(w) -> T]
  BY LenProperties
<1>2. w \in [1 .. Len(w) -> Msgs(w)]
  BY <1>1 DEF Msgs
<1> QED
  BY <1>1, <1>2, SeqDef DEF IsSeq

\* The head of a queue and what is left.
LEMMA SeqTail ==
    ASSUME NEW w, IsSeq(w), w # << >>
    PROVE  /\ IsSeq(Tail(w)) /\ Head(w) \in Msgs(w)
           /\ Msgs(w) = {Head(w)} \cup Msgs(Tail(w))
<1> DEFINE T == Msgs(w)
<1>1. w \in Seq(T) /\ T = {w[i] : i \in 1 .. Len(w)}
  BY DEF IsSeq, Msgs
<1> HIDE DEF T
<1>2. /\ Len(w) \in Nat /\ Len(w) > 0 /\ Tail(w) \in Seq(T) /\ Len(Tail(w)) = Len(w) - 1
      /\ Head(w) = w[1] /\ \A i \in 1 .. Len(Tail(w)) : Tail(w)[i] = w[i + 1]
  BY <1>1
<1>3. Head(w) \in T
  BY <1>1, <1>2
<1>4. Msgs(Tail(w)) \subseteq T
  BY <1>2 DEF Msgs
<1>5. \A m \in T : m = Head(w) \/ m \in Msgs(Tail(w))
  <2> SUFFICES ASSUME NEW i \in 1 .. Len(w), i # 1
               PROVE  w[i] \in Msgs(Tail(w))
    BY <1>1, <1>2
  <2>1. i - 1 \in 1 .. Len(Tail(w)) /\ Tail(w)[i - 1] = w[i]
    BY <1>2
  <2> QED
    BY <2>1 DEF Msgs
<1>6. IsSeq(Tail(w))
  BY <1>2, SeqOf
<1> QED
  BY <1>3, <1>4, <1>5, <1>6 DEF T

\* The messages of one queue after another.
LEMMA SeqConcat ==
    ASSUME NEW v, NEW w, IsSeq(v), IsSeq(w)
    PROVE  /\ IsSeq(v \o w) /\ Msgs(v \o w) = Msgs(v) \cup Msgs(w)
           /\ v # << >> => v \o w # << >> /\ Head(v \o w) = Head(v)
<1> DEFINE T == Msgs(v) \cup Msgs(w)
           x == v \o w
<1>1. v \in Seq(T) /\ w \in Seq(T)
  BY DEF IsSeq
<1> HIDE DEF T
<1>2. /\ x \in Seq(T) /\ Len(x) = Len(v) + Len(w) /\ Len(v) \in Nat /\ Len(w) \in Nat
      /\ \A i \in 1 .. Len(v) : x[i] = v[i]
      /\ \A i \in 1 .. Len(w) : x[Len(v) + i] = w[i]
  <2>1. /\ x \in Seq(T) /\ Len(x) = Len(v) + Len(w)
        /\ \A i \in 1 .. Len(v) + Len(w) :
              x[i] = IF i <= Len(v) THEN v[i] ELSE w[i - Len(v)]
    BY <1>1, ConcatProperties
  <2>2. Len(v) \in Nat /\ Len(w) \in Nat
    BY <1>1, LenProperties
  <2> HIDE DEF x
  <2>3. ASSUME NEW i \in 1 .. Len(w) PROVE x[Len(v) + i] = w[i]
    <3>1. /\ Len(v) + i \in 1 .. Len(v) + Len(w) /\ ~ (Len(v) + i <= Len(v))
          /\ (Len(v) + i) - Len(v) = i
      BY <2>2
    <3> QED
      BY <2>1, <3>1
  <2>4. \A i \in 1 .. Len(v) : i \in 1 .. Len(v) + Len(w) /\ i <= Len(v)
    BY <2>2
  <2> QED
    BY <2>1, <2>2, <2>3, <2>4
<1> HIDE DEF x
<1>3. Msgs(v) \subseteq Msgs(x)
  <2> SUFFICES ASSUME NEW i \in 1 .. Len(v) PROVE v[i] \in Msgs(x)
    BY DEF Msgs
  <2>1. i \in 1 .. Len(x) /\ x[i] = v[i]
    BY <1>2
  <2> QED
    BY <2>1 DEF Msgs
<1>4. Msgs(w) \subseteq Msgs(x)
  <2> SUFFICES ASSUME NEW i \in 1 .. Len(w) PROVE w[i] \in Msgs(x)
    BY DEF Msgs
  <2>1. Len(v) + i \in 1 .. Len(x) /\ x[Len(v) + i] = w[i]
    BY <1>2
  <2> QED
    BY <2>1 DEF Msgs
<1>5. Msgs(x) \subseteq T
  BY <1>2 DEF Msgs
<1>6. IsSeq(x)
  BY <1>2, SeqOf
<1>7. v # << >> => x # << >> /\ Head(x) = Head(v)
  <2> SUFFICES ASSUME v # << >> PROVE x # << >> /\ Head(x) = Head(v)
    OBVIOUS
  <2>1. Len(v) > 0 /\ Head(v) = v[1]
    BY <1>1, <1>2
  <2>2. Len(x) > 0 /\ x[1] = v[1]
    BY <1>2, <2>1
  <2> QED
    BY <1>2, <2>1, <2>2
<1> QED
  BY <1>3, <1>4, <1>5, <1>6, <1>7 DEF T, x

\* Queues of no message and of one.
LEMMA SeqShort ==
    /\ IsSeq(<< >>) /\ Msgs(<< >>) = {}
    /\ \A m : IsSeq(<<m>>) /\ Msgs(<<m>>) = {m} /\ <<m>> # << >> /\ Head(<<m>>) = m
<1>1. Len(<< >>) = 0 /\ << >> \in Seq({})
  OBVIOUS
<1>2. \A m : <<m>> \in Seq({m}) /\ Len(<<m>>) = 1 /\ <<m>>[1] = m
  OBVIOUS
<1>3. Msgs(<< >>) = {} /\ \A m : Msgs(<<m>>) = {m}
  BY <1>1, <1>2 DEF Msgs
<1> QED
  BY <1>1, <1>2, <1>3 DEF IsSeq

\* The two sides.
LEMMA Sides ==
    ASSUME NEW s \in Side
    PROVE  /\ Peer(s) \in Side /\ Peer(s) # s /\ Peer(Peer(s)) = s
           /\ \A x \in Side : x = s \/ x = Peer(s)
BY CommitmentChannelAssumption DEF Side, Peer

\* A message is taken and answered.
LEMMA Replied ==
    ASSUME wire = [x \in Side |-> wire[x]], \A x \in Side : IsSeq(wire[x]),
           NEW s \in Side, wire[s] # << >>, NEW msgs, IsSeq(msgs), Reply(s, msgs)
    PROVE  /\ wire' = [x \in Side |-> wire'[x]] /\ \A x \in Side : IsSeq(wire'[x])
           /\ wire'[s] = Tail(wire[s]) /\ wire'[Peer(s)] = wire[Peer(s)] \o msgs
           /\ Msgs(wire[s]) = {Head(wire[s])} \cup Msgs(wire'[s])
           /\ Msgs(wire'[Peer(s)]) = Msgs(wire[Peer(s)]) \cup Msgs(msgs)
           /\ wire[Peer(s)] # << >> =>
                wire'[Peer(s)] # << >> /\ Head(wire'[Peer(s)]) = Head(wire[Peer(s)])
<1>1. wire' = [wire EXCEPT ![s] = Tail(@), ![Peer(s)] = @ \o msgs]
  BY DEF Reply
<1>2. /\ wire'[s] = Tail(wire[s]) /\ wire'[Peer(s)] = wire[Peer(s)] \o msgs
      /\ wire' = [x \in Side |-> wire'[x]]
  BY <1>1, Sides
<1>3. IsSeq(wire'[s]) /\ Msgs(wire[s]) = {Head(wire[s])} \cup Msgs(wire'[s])
  BY <1>2, SeqTail
<1>4. /\ IsSeq(wire'[Peer(s)]) /\ Msgs(wire'[Peer(s)]) = Msgs(wire[Peer(s)]) \cup Msgs(msgs)
      /\ wire[Peer(s)] # << >> =>
            wire'[Peer(s)] # << >> /\ Head(wire'[Peer(s)]) = Head(wire[Peer(s)])
  BY <1>2, Sides, SeqConcat
<1> QED
  BY <1>2, <1>3, <1>4, Sides

\* Messages are sent.
LEMMA Sent ==
    ASSUME wire = [x \in Side |-> wire[x]], \A x \in Side : IsSeq(wire[x]),
           NEW s \in Side, NEW msgs, IsSeq(msgs), Send(s, msgs)
    PROVE  /\ wire' = [x \in Side |-> wire'[x]] /\ \A x \in Side : IsSeq(wire'[x])
           /\ wire'[s] = wire[s] /\ wire'[Peer(s)] = wire[Peer(s)] \o msgs
           /\ Msgs(wire'[Peer(s)]) = Msgs(wire[Peer(s)]) \cup Msgs(msgs)
           /\ wire[Peer(s)] # << >> =>
                wire'[Peer(s)] # << >> /\ Head(wire'[Peer(s)]) = Head(wire[Peer(s)])
<1>1. wire' = [wire EXCEPT ![Peer(s)] = @ \o msgs]
  BY DEF Send
<1>2. /\ wire'[s] = wire[s] /\ wire'[Peer(s)] = wire[Peer(s)] \o msgs
      /\ wire' = [x \in Side |-> wire'[x]]
  BY <1>1, Sides
<1>3. /\ IsSeq(wire'[Peer(s)]) /\ Msgs(wire'[Peer(s)]) = Msgs(wire[Peer(s)]) \cup Msgs(msgs)
      /\ wire[Peer(s)] # << >> =>
            wire'[Peer(s)] # << >> /\ Head(wire'[Peer(s)]) = Head(wire[Peer(s)])
  BY <1>2, Sides, SeqConcat
<1> QED
  BY <1>2, <1>3, Sides

\* The answer to a ChannelReestablish.
LEMMA ResentUpdates ==
    ASSUME NEW U, IsFiniteSet(U)
    PROVE  IsSeq(UpdateMsgs(U)) /\ \A m \in Msgs(UpdateMsgs(U)) : m.kind = "update"
<1> DEFINE n == Cardinality(U)
           ordered == CHOOSE f \in [1 .. n -> U] :
                          \A i, j \in 1 .. n : i < j => f[i].logIndex < f[j].logIndex
           w == [i \in 1 .. n |-> Update(ordered[i].type, ordered[i].id)]
           T == {w[i] : i \in 1 .. n}
<1>1. UpdateMsgs(U) = w
  BY DEF UpdateMsgs
<1>2. n \in Nat
  BY FS_CardinalityType
<1>3. \A i \in 1 .. n : w[i].kind = "update"
  BY DEF Update
<1>4. w \in [1 .. n -> T]
  OBVIOUS
<1> HIDE DEF ordered, w, n
<1>5. w \in Seq(T)
  <2> HIDE DEF T
  <2> QED
    BY <1>2, <1>4, SeqDef
<1>6. \A m \in Msgs(w) : m.kind = "update"
  <2>1. Len(w) = n
    BY <1>2, <1>4
  <2> QED
    BY <1>3, <2>1 DEF Msgs
<1> QED
  BY <1>1, <1>5, <1>6, SeqOf

\* What is sent in answer to ChannelReestablish.
LEMMA SyncAnswered ==
    ASSUME NEW s \in Side, NEW d \in DiskType, NEW l \in LogsType, NEW m,
           OweCommit(d, m) => HasUnacked(d)
    PROVE  /\ IsSeq(SyncAnswer(s, d, l, m))
           /\ \A x \in Msgs(SyncAnswer(s, d, l, m)) :
                \/ x.kind = "update"
                \/ OweRevocation(d, m) /\ x = RevokeAndAck(m.tail)
                \/ SignsOnSync(d, l, m) /\ x = SignedMsg(s, d, l)
                \/ OweCommit(d, m) /\ x = CommitSig(Tx(s, d.diff.commit))
           /\ OweRevocation(d, m) => RevokeAndAck(m.tail) \in Msgs(SyncAnswer(s, d, l, m))
           /\ SignsOnSync(d, l, m) => SignedMsg(s, d, l) \in Msgs(SyncAnswer(s, d, l, m))
           /\ OweCommit(d, m) =>
                CommitSig(Tx(s, d.diff.commit)) \in Msgs(SyncAnswer(s, d, l, m))
<1> DEFINE revocation == IF OweRevocation(d, m) THEN <<RevokeAndAck(m.tail)>> ELSE << >>
           signature == IF SignsOnSync(d, l, m) THEN <<SignedMsg(s, d, l)>> ELSE << >>
           sig == CommitSig(Tx(s, d.diff.commit))
           again == IF OweCommit(d, m) THEN UpdateMsgs(d.diff.updates) \o <<sig>> ELSE << >>
<1>1. SyncAnswer(s, d, l, m) =
        IF d.lastWasRevoke THEN again \o (revocation \o signature)
                           ELSE (revocation \o signature) \o again
  BY DEF SyncAnswer, InOrder
<1>2. /\ IsSeq(revocation)
      /\ Msgs(revocation) = IF OweRevocation(d, m) THEN {RevokeAndAck(m.tail)} ELSE {}
  BY SeqShort
<1>3. /\ IsSeq(signature)
      /\ Msgs(signature) = IF SignsOnSync(d, l, m) THEN {SignedMsg(s, d, l)} ELSE {}
  BY SeqShort
<1>4. /\ IsSeq(again)
      /\ OweCommit(d, m) => Msgs(again) = Msgs(UpdateMsgs(d.diff.updates)) \cup {sig}
      /\ ~ OweCommit(d, m) => Msgs(again) = {}
      /\ OweCommit(d, m) => \A x \in Msgs(UpdateMsgs(d.diff.updates)) : x.kind = "update"
  <2>1. CASE OweCommit(d, m)
    <3>1. IsFiniteSet(d.diff.updates)
      BY <2>1, DiskParts DEF HasUnacked
    <3>2. /\ IsSeq(UpdateMsgs(d.diff.updates))
          /\ \A x \in Msgs(UpdateMsgs(d.diff.updates)) : x.kind = "update"
      BY <3>1, ResentUpdates
    <3> HIDE DEF sig
    <3>3. IsSeq(<<sig>>) /\ Msgs(<<sig>>) = {sig}
      BY SeqShort
    <3>4. /\ IsSeq(UpdateMsgs(d.diff.updates) \o <<sig>>)
          /\ Msgs(UpdateMsgs(d.diff.updates) \o <<sig>>) =
                Msgs(UpdateMsgs(d.diff.updates)) \cup Msgs(<<sig>>)
      BY <3>2, <3>3, SeqConcat
    <3> QED
      BY <2>1, <3>2, <3>3, <3>4
  <2>2. CASE ~ OweCommit(d, m)
    BY <2>2, SeqShort
  <2> QED
    BY <2>1, <2>2
<1> HIDE DEF revocation, signature, again, sig
<1>5. /\ IsSeq(revocation \o signature)
      /\ Msgs(revocation \o signature) = Msgs(revocation) \cup Msgs(signature)
  BY <1>2, <1>3, SeqConcat
<1>6. /\ IsSeq(SyncAnswer(s, d, l, m))
      /\ Msgs(SyncAnswer(s, d, l, m)) =
            Msgs(revocation) \cup Msgs(signature) \cup Msgs(again)
  <2> DEFINE owed == revocation \o signature
  <2> HIDE DEF owed
  <2>1. /\ IsSeq(again \o owed) /\ Msgs(again \o owed) = Msgs(again) \cup Msgs(owed)
        /\ IsSeq(owed \o again) /\ Msgs(owed \o again) = Msgs(again) \cup Msgs(owed)
    BY <1>4, <1>5, SeqConcat DEF owed
  <2> QED
    BY <1>1, <1>5, <2>1 DEF owed
<1> QED
  BY <1>2, <1>3, <1>4, <1>6 DEF sig

-----------------------------------------------------------------------------
(* The logs of a side and its bucket.                                      *)

\* The last commitment of a chain, and all commitments of the bucket.
Tip(d, ch) == IF ch = "remote" THEN RemoteTip(d) ELSE d.commit["local"]
Commitments(d) == {d.commit["local"], d.commit["remote"], RemoteTip(d)}

\* The commitment includes the entry of log c.
On(e, k, c) == e.logIndex < k.messageIndex[c]

\* The height at which a chain included an entry; 0 if it did not.
StampOf(e, ch) == IF e.type = "Add" THEN e.added[ch] ELSE e.removed[ch]

\* The commitment includes a removal of HTLC id of log c.
ResolvedAt(l, k, c, id) ==
    \E r \in l[Opposite(c)].entries :
        IsRemoval(r) /\ r.id = id /\ On(r, k, Opposite(c))

\* Our updates come to the remote chain first, those of the peer to ours.
Ordered(d) ==
    /\ d.commit["local"].messageIndex["local"] <= d.commit["remote"].messageIndex["local"]
    /\ d.commit["remote"].messageIndex["local"] <= RemoteTip(d).messageIndex["local"]
    /\ d.commit["remote"].messageIndex["remote"] <= RemoteTip(d).messageIndex["remote"]
    /\ RemoteTip(d).messageIndex["remote"] <= d.commit["local"].messageIndex["remote"]
    /\ d.commit["local"].htlcIndex["local"] <= d.commit["remote"].htlcIndex["local"]
    /\ d.commit["remote"].htlcIndex["local"] <= RemoteTip(d).htlcIndex["local"]
    /\ d.commit["remote"].htlcIndex["remote"] <= RemoteTip(d).htlcIndex["remote"]
    /\ RemoteTip(d).htlcIndex["remote"] <= d.commit["local"].htlcIndex["remote"]
    /\ HasUnacked(d) => RemoteTip(d).height = d.commit["remote"].height + 1
    /\ \A k \in Commitments(d), c \in Chain : k.messageIndex[c] > 0 => k.height > 0

\* The indexes of the commitments do not exceed those of the logs.
Bounded(d, l) ==
    /\ RemoteTip(d).messageIndex["local"] <= l["local"].logIndex
    /\ d.commit["local"].messageIndex["remote"] <= l["remote"].logIndex
    /\ RemoteTip(d).htlcIndex["local"] <= l["local"].htlcCounter
    /\ d.commit["local"].htlcIndex["remote"] <= l["remote"].htlcCounter
    /\ \A c \in Chain : \A e \in l[c].entries :
          /\ e.logIndex < l[c].logIndex
          /\ e.type = "Add" => e.id < l[c].htlcCounter

\* No two entries share an index, no two HTLCs and no two removals an id.
Distinct(l) ==
    \A c \in Chain : \A e, f \in l[c].entries :
        /\ e.logIndex = f.logIndex => e = f
        /\ (e.type = "Add" /\ f.type = "Add" /\ e.id = f.id) => e = f
        /\ (IsRemoval(e) /\ IsRemoval(f) /\ e.id = f.id) => e = f

\* Each entry knows the commitments that include it.
StampedOn(d, e, c, ch) ==
    /\ StampOf(e, ch) # 0 <=> On(e, Tip(d, ch), c)
    /\ StampOf(e, ch) # 0 =>
          /\ StampOf(e, ch) <= Tip(d, ch).height
          /\ StampOf(e, ch) <= d.commit[ch].height <=> On(e, d.commit[ch], c)
    /\ e.type = "FeeUpdate" => e.added[ch] = e.removed[ch]
    /\ IsRemoval(e) => e.added[ch] = 0
    /\ e.type = "Add" => e.removed[ch] = 0
Stamped(d, l) ==
    \A c \in Chain, ch \in Chain : \A e \in l[c].entries : StampedOn(d, e, c, ch)

\* What is not on both chains is in the log.
Complete(d, l) ==
    \A c \in Chain :
        /\ \A i \in Nat : (d.commit[c].messageIndex[c] <= i /\ i < l[c].logIndex) =>
              \E e \in l[c].entries : e.logIndex = i
        /\ \A i \in Nat : (d.commit[c].htlcIndex[c] <= i /\ i < l[c].htlcCounter) =>
              \E e \in AddsOf(l[c]) : e.id = i

\* HTLCs are counted as they come.
Counters(d, l) ==
    \A k \in Commitments(d), c \in Chain : \A e \in AddsOf(l[c]) :
        e.id < k.htlcIndex[c] <=> On(e, k, c)

\* A commitment holds the HTLCs it includes, without those that it resolves.
OpenAt(l, k, c) == {a \in AddsOf(l[c]) : On(a, k, c) /\ ~ ResolvedAt(l, k, c, a.id)}
OpenHtlcs(l, k, c) == {Htlc(a) : a \in OpenAt(l, k, c)}
Contents(d, l) ==
    \A k \in Commitments(d), c \in Chain : k.htlcs[c] = OpenHtlcs(l, k, c)

\* A removal has its HTLC in the log, on every commitment that includes the
\* removal; an HTLC that we resolve is on all commitments.
ParentOf(d, l, c, r, a) ==
    /\ a.id = r.id
    /\ \A k \in Commitments(d) : c = "local" \/ On(r, k, c) => On(a, k, Opposite(c))
Parents(d, l) ==
    /\ \A c \in Chain : \A r \in l[c].entries :
          IsRemoval(r) => \E a \in AddsOf(l[Opposite(c)]) : ParentOf(d, l, c, r, a)
    /\ \A c \in Chain : \A id :
          id \in l[c].modified <=>
              \E r \in l[Opposite(c)].entries : IsRemoval(r) /\ r.id = id

\* What is on disk besides the commitments: updates of the peer that only our
\* commitment has; removals and fee updates of ours that only the peer's has;
\* what the signature not revoked yet added.
Stored(d, l) ==
    /\ d.unsignedAckedUpdates.updates =
          LogUpdates({e \in l["remote"].entries :
              ~ On(e, d.commit["remote"], "remote") /\ On(e, d.commit["local"], "remote")})
    /\ d.remoteUnsignedLocalUpdates.updates =
          LogUpdates({e \in l["local"].entries :
              e.type # "Add" /\ ~ On(e, d.commit["local"], "local")
                             /\ On(e, d.commit["remote"], "local")})
    /\ HasUnacked(d) =>
          d.diff.updates =
              LogUpdates({e \in l["local"].entries :
                  ~ On(e, d.commit["remote"], "local") /\ On(e, RemoteTip(d), "local")})
    /\ \A e \in l["remote"].entries :
          e.isForwarded => On(e, d.commit["remote"], "remote")

\* A key that was never written stands for no update.
Keys(d, l) ==
    ~ d.unsignedAckedUpdates.written =>
        /\ d.commit["local"].messageIndex["remote"] = 0
        /\ \A e \in l["local"].entries : e.type = "Add"

\* What was handed over.
Gone(k, id) == id < k.htlcIndex["local"] /\ \A h \in k.htlcs["local"] : h.id # id
HandedOver(d, type, id) ==
    \E p \in d.fwdPkgs : \E u \in p.updates : u.type \in type /\ u.id = id
Packages(d) ==
    /\ \A p \in d.fwdPkgs :
          /\ p.height <= d.commit["remote"].height
          /\ \A u \in p.updates : u.type # "FeeUpdate"
    /\ \A id \in Nat :
        /\ HandedOver(d, {"Add"}, id) <=> id < d.commit["remote"].htlcIndex["remote"]
        /\ HandedOver(d, {"Settle", "Fail"}, id) <=> Gone(d.commit["remote"], id)
    /\ \A p, q \in d.fwdPkgs : \A u \in p.updates, v \in q.updates :
          (u.id = v.id /\ (u.type = "Add" <=> v.type = "Add")) => p = q

\* The logs l fit the bucket d.
LogInv(d, l) ==
    /\ Ordered(d) /\ Bounded(d, l) /\ Distinct(l) /\ Stamped(d, l)
    /\ Complete(d, l) /\ Counters(d, l) /\ Contents(d, l) /\ Parents(d, l)
    /\ Stored(d, l) /\ Keys(d, l) /\ Packages(d)

\* The parts of an entry.
LEMMA EntryParts ==
    ASSUME NEW e \in EntryType
    PROVE  /\ e.type \in UpdateKind /\ e.logIndex \in Nat /\ e.id \in Nat
           /\ e.isForwarded \in BOOLEAN
           /\ \A ch \in Chain : e.added[ch] \in Nat /\ e.removed[ch] \in Nat
           /\ \A ch \in Chain : StampOf(e, ch) \in Nat
           /\ IsRemoval(e) <=> e.type # "Add" /\ e.type # "FeeUpdate"
           /\ e = [type |-> e.type, logIndex |-> e.logIndex, id |-> e.id,
                   added |-> e.added, removed |-> e.removed, isForwarded |-> e.isForwarded]
<1>1. /\ e.type \in UpdateKind /\ e.logIndex \in Nat /\ e.id \in Nat
      /\ e.isForwarded \in BOOLEAN /\ e.added \in Heights /\ e.removed \in Heights
      /\ e = [type |-> e.type, logIndex |-> e.logIndex, id |-> e.id,
              added |-> e.added, removed |-> e.removed, isForwarded |-> e.isForwarded]
  BY DEF EntryType
<1>2. \A ch \in Chain : e.added[ch] \in Nat /\ e.removed[ch] \in Nat
  BY <1>1 DEF Heights
<1> QED
  BY <1>1, <1>2 DEF StampOf, IsRemoval, UpdateKind

\* The commitments of a bucket.
LEMMA CommitmentsAre ==
    ASSUME NEW d \in DiskType, NEW k \in Commitments(d)
    PROVE  /\ k \in CommitmentType
           /\ k = d.commit["local"] \/ k = d.commit["remote"] \/ k = RemoteTip(d)
           /\ \A c \in Chain : k.messageIndex[c] \in Nat /\ k.htlcIndex[c] \in Nat
BY DiskParts, CommitParts DEF Commitments, Chain

\* No commitment reaches beyond the logs.
LEMMA Reach ==
    ASSUME NEW d \in DiskType, NEW l \in LogsType, Ordered(d), Bounded(d, l),
           NEW k \in Commitments(d), NEW c \in Chain
    PROVE  k.messageIndex[c] <= l[c].logIndex /\ k.htlcIndex[c] <= l[c].htlcCounter
<1>1. /\ \A x \in Chain : /\ d.commit["local"].messageIndex[x] \in Nat
                          /\ d.commit["local"].htlcIndex[x] \in Nat
                          /\ d.commit["remote"].messageIndex[x] \in Nat
                          /\ d.commit["remote"].htlcIndex[x] \in Nat
                          /\ RemoteTip(d).messageIndex[x] \in Nat
                          /\ RemoteTip(d).htlcIndex[x] \in Nat
                          /\ l[x].logIndex \in Nat /\ l[x].htlcCounter \in Nat
  BY DiskParts, CommitParts, EntriesOf DEF Chain
<1>2. k = d.commit["local"] \/ k = d.commit["remote"] \/ k = RemoteTip(d)
  BY DEF Commitments
<1>3. CASE c = "local"
  BY <1>1, <1>2, <1>3 DEF Ordered, Bounded, Chain
<1>4. CASE c = "remote"
  BY <1>1, <1>2, <1>4 DEF Ordered, Bounded, Chain
<1> QED
  BY <1>3, <1>4 DEF Chain

\* The log of chain c grows from l to m by the update e.
Appends(d, l, m, c, type, id, e) ==
    /\ e = Entry(type, l[c].logIndex, id)
    /\ m[c].entries = l[c].entries \cup {e}
    /\ m[c].logIndex = l[c].logIndex + 1
    /\ m[c].htlcCounter = IF type = "Add" THEN l[c].htlcCounter + 1 ELSE l[c].htlcCounter
    /\ m[c].modified = l[c].modified
    /\ m[Opposite(c)].entries = l[Opposite(c)].entries
    /\ m[Opposite(c)].logIndex = l[Opposite(c)].logIndex
    /\ m[Opposite(c)].htlcCounter = l[Opposite(c)].htlcCounter
    /\ m[Opposite(c)].modified =
            IF IsRemoval(e) THEN l[Opposite(c)].modified \cup {id}
                            ELSE l[Opposite(c)].modified
    /\ type = "Add" => id = l[c].htlcCounter
    /\ IsRemoval(e) =>
            /\ id \notin l[Opposite(c)].modified
            /\ \E a \in AddsOf(l[Opposite(c)]) :
                  /\ a.id = id
                  /\ c = "local" => \A k \in Commitments(d) : On(a, k, Opposite(c))
    /\ d.unsignedAckedUpdates.written \/ c = "remote" \/ type = "Add"

\* An update is added to a log.
LEMMA Appended ==
    ASSUME NEW d \in DiskType, NEW l \in LogsType, NEW m \in LogsType, LogInv(d, l),
           NEW c \in Chain, NEW type \in UpdateKind, NEW id \in Nat,
           NEW e, Appends(d, l, m, c, type, id, e)
    PROVE  LogInv(d, m)
<1>0. /\ e = Entry(type, l[c].logIndex, id)
      /\ m[c].entries = l[c].entries \cup {e}
      /\ m[c].logIndex = l[c].logIndex + 1
      /\ m[c].htlcCounter = IF type = "Add" THEN l[c].htlcCounter + 1 ELSE l[c].htlcCounter
      /\ m[c].modified = l[c].modified
      /\ m[Opposite(c)].entries = l[Opposite(c)].entries
      /\ m[Opposite(c)].logIndex = l[Opposite(c)].logIndex
      /\ m[Opposite(c)].htlcCounter = l[Opposite(c)].htlcCounter
      /\ m[Opposite(c)].modified =
              IF IsRemoval(e) THEN l[Opposite(c)].modified \cup {id}
                              ELSE l[Opposite(c)].modified
      /\ type = "Add" => id = l[c].htlcCounter
      /\ IsRemoval(e) =>
            /\ id \notin l[Opposite(c)].modified
            /\ \E a \in AddsOf(l[Opposite(c)]) :
                  /\ a.id = id
                  /\ c = "local" => \A k \in Commitments(d) : On(a, k, Opposite(c))
      /\ d.unsignedAckedUpdates.written \/ c = "remote" \/ type = "Add"
  BY DEF Appends
<1> USE <1>0
<1>1. /\ Ordered(d) /\ Bounded(d, l) /\ Distinct(l) /\ Stamped(d, l)
      /\ Complete(d, l) /\ Counters(d, l) /\ Contents(d, l) /\ Parents(d, l)
      /\ Stored(d, l) /\ Keys(d, l) /\ Packages(d)
  BY DEF LogInv
<1>2. /\ Opposite(c) \in Chain /\ Opposite(c) # c /\ Opposite(Opposite(c)) = c
      /\ \A x \in Chain : x = c \/ x = Opposite(c)
  BY DEF Opposite, Chain
<1>3. /\ e.type = type /\ e.logIndex = l[c].logIndex /\ e.id = id
      /\ e.isForwarded = FALSE
      /\ \A ch \in Chain : e.added[ch] = 0 /\ e.removed[ch] = 0 /\ StampOf(e, ch) = 0
  BY DEF Entry, StampOf
<1>4. /\ \A x \in Chain : /\ \A f \in l[x].entries : f \in EntryType
                          /\ l[x].logIndex \in Nat /\ l[x].htlcCounter \in Nat
                          /\ m[x].logIndex \in Nat /\ m[x].htlcCounter \in Nat
      /\ \A x \in Chain : \A f \in m[x].entries : f \in EntryType
  BY EntriesOf
<1>5. \A k \in Commitments(d) : ~ On(e, k, c)
  BY <1>1, <1>3, <1>4, Reach, CommitmentsAre DEF On
<1>6. \A x \in Chain : \A f \in m[x].entries : f \in l[x].entries \/ (x = c /\ f = e)
  BY <1>2
<1>7. \A x \in Chain : \A f \in l[x].entries : f \in m[x].entries
  BY <1>2
<1>8. d.commit["local"] \in Commitments(d) /\ d.commit["remote"] \in Commitments(d)
      /\ RemoteTip(d) \in Commitments(d)
  BY DEF Commitments
<1>9. Bounded(d, m)
  <2>1. \A x \in Chain : \A f \in m[x].entries :
           /\ f.logIndex < m[x].logIndex
           /\ f.type = "Add" => f.id < m[x].htlcCounter
    <3> SUFFICES ASSUME NEW x \in Chain, NEW f \in m[x].entries
                 PROVE  /\ f.logIndex < m[x].logIndex
                        /\ f.type = "Add" => f.id < m[x].htlcCounter
      OBVIOUS
    <3>1. CASE f \in l[x].entries
      <4>1. /\ f.logIndex < l[x].logIndex
            /\ f.type = "Add" => f.id < l[x].htlcCounter
            /\ f.logIndex \in Nat /\ f.id \in Nat
        BY <1>1, <1>4, <3>1, EntryParts DEF Bounded
      <4>2. m[x].logIndex >= l[x].logIndex /\ m[x].htlcCounter >= l[x].htlcCounter
        BY <1>2, <1>4
      <4> QED
        BY <1>4, <4>1, <4>2
    <3>2. CASE x = c /\ f = e
      BY <1>3, <1>4, <3>2
    <3> QED
      BY <1>6, <3>1, <3>2
  <2>2. \A x \in Chain : m[x].logIndex >= l[x].logIndex /\ m[x].htlcCounter >= l[x].htlcCounter
    BY <1>2, <1>4
  <2>3. /\ RemoteTip(d).messageIndex["local"] \in Nat /\ RemoteTip(d).htlcIndex["local"] \in Nat
        /\ d.commit["local"].messageIndex["remote"] \in Nat
        /\ d.commit["local"].htlcIndex["remote"] \in Nat
    BY DiskParts, CommitParts DEF Chain
  <2>4. /\ RemoteTip(d).messageIndex["local"] <= m["local"].logIndex
        /\ RemoteTip(d).htlcIndex["local"] <= m["local"].htlcCounter
    BY <1>1, <1>4, <2>2, <2>3 DEF Bounded, Chain
  <2>5. /\ d.commit["local"].messageIndex["remote"] <= m["remote"].logIndex
        /\ d.commit["local"].htlcIndex["remote"] <= m["remote"].htlcCounter
    BY <1>1, <1>4, <2>2, <2>3 DEF Bounded, Chain
  <2> QED
    BY <2>1, <2>4, <2>5 DEF Bounded
<1>10. Distinct(m)
  <2>1. ASSUME NEW f \in l[c].entries
        PROVE  /\ f.logIndex # e.logIndex
               /\ ~ (e.type = "Add" /\ f.type = "Add" /\ e.id = f.id)
               /\ ~ (IsRemoval(e) /\ IsRemoval(f) /\ e.id = f.id)
    <3>1. /\ f.logIndex < l[c].logIndex
          /\ f.type = "Add" => f.id < l[c].htlcCounter
          /\ f.logIndex \in Nat /\ f.id \in Nat
      BY <1>1, <1>4, EntryParts DEF Bounded
    <3>2. (IsRemoval(e) /\ IsRemoval(f)) => e.id # f.id
      BY <1>1, <1>2, <1>3 DEF Parents
    <3> QED
      BY <1>3, <1>4, <3>1, <3>2
  <2> SUFFICES ASSUME NEW x \in Chain, NEW f \in m[x].entries, NEW g \in m[x].entries
               PROVE  /\ f.logIndex = g.logIndex => f = g
                      /\ (f.type = "Add" /\ g.type = "Add" /\ f.id = g.id) => f = g
                      /\ (IsRemoval(f) /\ IsRemoval(g) /\ f.id = g.id) => f = g
    BY DEF Distinct
  <2>2. CASE f \in l[x].entries /\ g \in l[x].entries
    BY <1>1, <2>2 DEF Distinct
  <2>3. CASE x = c /\ (f = e \/ g = e)
    BY <1>6, <2>1, <2>3
  <2> QED
    BY <1>6, <2>2, <2>3
<1>11. Stamped(d, m)
  <2> SUFFICES ASSUME NEW x \in Chain, NEW ch \in Chain, NEW f \in m[x].entries
               PROVE  StampedOn(d, f, x, ch)
    BY DEF Stamped
  <2>1. CASE f \in l[x].entries
    BY <1>1, <2>1 DEF Stamped
  <2>2. CASE x = c /\ f = e
    <3>1. Tip(d, ch) \in Commitments(d)
      BY <1>8 DEF Tip
    <3> QED
      BY <1>3, <1>5, <2>2, <3>1 DEF StampedOn
  <2> QED
    BY <1>6, <2>1, <2>2
<1>12. Complete(d, m)
  <2> SUFFICES ASSUME NEW x \in Chain, NEW i \in Nat
               PROVE  /\ (d.commit[x].messageIndex[x] <= i /\ i < m[x].logIndex) =>
                            \E f \in m[x].entries : f.logIndex = i
                      /\ (d.commit[x].htlcIndex[x] <= i /\ i < m[x].htlcCounter) =>
                            \E f \in AddsOf(m[x]) : f.id = i
    BY DEF Complete
  <2>1. /\ (d.commit[x].messageIndex[x] <= i /\ i < l[x].logIndex) =>
               \E f \in l[x].entries : f.logIndex = i
        /\ (d.commit[x].htlcIndex[x] <= i /\ i < l[x].htlcCounter) =>
               \E f \in AddsOf(l[x]) : f.id = i
    BY <1>1 DEF Complete
  <2>2. i < m[x].logIndex => i < l[x].logIndex \/ (x = c /\ i = l[c].logIndex)
    BY <1>2, <1>4
  <2>3. i < m[x].htlcCounter =>
            i < l[x].htlcCounter \/ (x = c /\ type = "Add" /\ i = l[c].htlcCounter)
    BY <1>2, <1>4
  <2>4. e \in m[c].entries /\ (type = "Add" => e \in AddsOf(m[c]))
    BY <1>3 DEF AddsOf
  <2>5. \A f \in AddsOf(l[x]) : f \in AddsOf(m[x])
    BY <1>7 DEF AddsOf
  <2> QED
    BY <1>3, <1>7, <2>1, <2>2, <2>3, <2>4, <2>5
<1>13. Counters(d, m)
  <2> SUFFICES ASSUME NEW k \in Commitments(d), NEW x \in Chain, NEW f \in AddsOf(m[x])
               PROVE  f.id < k.htlcIndex[x] <=> On(f, k, x)
    BY DEF Counters
  <2>1. CASE f \in l[x].entries
    BY <1>1, <2>1 DEF Counters, AddsOf
  <2>2. CASE x = c /\ f = e
    <3>1. k.htlcIndex[c] <= l[c].htlcCounter /\ k.htlcIndex[c] \in Nat
      BY <1>1, Reach, CommitmentsAre
    <3>2. f.id = l[c].htlcCounter
      BY <1>3, <2>2 DEF AddsOf
    <3> QED
      BY <1>4, <1>5, <2>2, <3>1, <3>2
  <2> QED
    BY <1>6, <2>1, <2>2 DEF AddsOf
<1>14. Contents(d, m)
  <2> SUFFICES ASSUME NEW k \in Commitments(d), NEW x \in Chain
               PROVE  OpenAt(m, k, x) = OpenAt(l, k, x)
    BY <1>1 DEF Contents, OpenHtlcs
  <2>1. \A i : ResolvedAt(m, k, x, i) <=> ResolvedAt(l, k, x, i)
    <3>1. \A r \in m[Opposite(x)].entries :
              On(r, k, Opposite(x)) => r \in l[Opposite(x)].entries
      BY <1>2, <1>5, <1>6
    <3> QED
      BY <1>2, <1>7, <3>1 DEF ResolvedAt
  <2>2. \A a : a \in AddsOf(m[x]) /\ On(a, k, x) <=> a \in AddsOf(l[x]) /\ On(a, k, x)
    BY <1>5, <1>6, <1>7 DEF AddsOf
  <2> QED
    BY <2>1, <2>2 DEF OpenAt
<1>15. Parents(d, m)
  <2>1. ASSUME NEW x \in Chain, NEW r \in m[x].entries, IsRemoval(r)
        PROVE  \E a \in AddsOf(m[Opposite(x)]) : ParentOf(d, m, x, r, a)
    <3>1. \A a \in AddsOf(l[Opposite(x)]) : a \in AddsOf(m[Opposite(x)])
      BY <1>2, <1>7 DEF AddsOf
    <3>2. CASE r \in l[x].entries
      <4>1. PICK a \in AddsOf(l[Opposite(x)]) : ParentOf(d, l, x, r, a)
        BY <1>1, <2>1, <3>2 DEF Parents
      <4>2. ParentOf(d, m, x, r, a)
        BY <4>1 DEF ParentOf
      <4> QED
        BY <3>1, <4>1, <4>2
    <3>3. CASE x = c /\ r = e
      <4>1. PICK a \in AddsOf(l[Opposite(c)]) :
                /\ a.id = id
                /\ c = "local" => \A k \in Commitments(d) : On(a, k, Opposite(c))
        BY <2>1, <3>3
      <4>2. ParentOf(d, m, x, r, a)
        BY <1>3, <1>5, <3>3, <4>1 DEF ParentOf
      <4> QED
        BY <3>1, <3>3, <4>1, <4>2
    <3> QED
      BY <1>6, <3>2, <3>3
  <2>2. ASSUME NEW x \in Chain, NEW i
        PROVE  i \in m[x].modified <=>
                  \E r \in m[Opposite(x)].entries : IsRemoval(r) /\ r.id = i
    <3>1. i \in l[x].modified <=>
                  \E r \in l[Opposite(x)].entries : IsRemoval(r) /\ r.id = i
      BY <1>1 DEF Parents
    <3>2. CASE x = c
      BY <1>2, <3>1, <3>2
    <3>3. CASE x = Opposite(c)
      BY <1>2, <1>3, <3>1, <3>3
    <3> QED
      BY <1>2, <3>2, <3>3
  <2> QED
    BY <2>1, <2>2 DEF Parents
<1>16. Stored(d, m)
  <2>1. \A x \in Chain : \A f :
           (\E k \in Commitments(d) : On(f, k, x)) =>
               (f \in m[x].entries <=> f \in l[x].entries)
    BY <1>5, <1>6, <1>7
  <2>2. {f \in m["remote"].entries :
            ~ On(f, d.commit["remote"], "remote") /\ On(f, d.commit["local"], "remote")}
        = {f \in l["remote"].entries :
            ~ On(f, d.commit["remote"], "remote") /\ On(f, d.commit["local"], "remote")}
    BY <1>8, <2>1 DEF Chain
  <2>3. {f \in m["local"].entries :
            f.type # "Add" /\ ~ On(f, d.commit["local"], "local")
                           /\ On(f, d.commit["remote"], "local")}
        = {f \in l["local"].entries :
            f.type # "Add" /\ ~ On(f, d.commit["local"], "local")
                           /\ On(f, d.commit["remote"], "local")}
    BY <1>8, <2>1 DEF Chain
  <2>4. {f \in m["local"].entries :
            ~ On(f, d.commit["remote"], "local") /\ On(f, RemoteTip(d), "local")}
        = {f \in l["local"].entries :
            ~ On(f, d.commit["remote"], "local") /\ On(f, RemoteTip(d), "local")}
    BY <1>8, <2>1 DEF Chain
  <2>5. \A f \in m["remote"].entries :
          f.isForwarded => On(f, d.commit["remote"], "remote")
    BY <1>1, <1>3, <1>6 DEF Stored, Chain
  <2> QED
    BY <1>1, <2>2, <2>3, <2>4, <2>5 DEF Stored
<1>17. Keys(d, m)
  <2> SUFFICES ASSUME ~ d.unsignedAckedUpdates.written, NEW f \in m["local"].entries
               PROVE  f.type = "Add"
    BY <1>1 DEF Keys
  <2>1. CASE f \in l["local"].entries
    BY <1>1, <2>1 DEF Keys
  <2>2. CASE c = "local" /\ f = e
    BY <1>3, <2>2
  <2> QED
    BY <1>6, <2>1, <2>2 DEF Chain
<1> QED
  BY <1>1, <1>9, <1>10, <1>11, <1>12, <1>13, <1>14, <1>15, <1>16, <1>17 DEF LogInv

\* HTLCs that stay are those that no removal in the view resolves.
LEMMA KeptIs ==
    ASSUME NEW l, NEW k, NEW c \in Chain
    PROVE  Kept(fetchHTLCView(l, k.messageIndex), c) = OpenAt(l, k, c)
<1>1. Opposite(c) \in Chain
  BY DEF Opposite, Chain
<1>2. \A x \in Chain : fetchHTLCView(l, k.messageIndex)[x] = {e \in l[x].entries : On(e, k, x)}
  BY DEF fetchHTLCView, On
<1> QED
  BY <1>1, <1>2 DEF Kept, OpenAt, ResolvedAt, AddsOf

\* Entries that are the same update.
Like(e, f) ==
    /\ f.type = e.type /\ f.logIndex = e.logIndex /\ f.id = e.id
    /\ f.isForwarded = e.isForwarded

\* An entry in a view is stamped when no commitment of the chain included it.
Advanced(e, ch, upto, height) ==
    IF e.logIndex < upto /\ StampOf(e, ch) = 0 THEN Stamp(e, ch, height) ELSE e

\* Stamping changes one height of an entry.
LEMMA StampEffect ==
    ASSUME NEW e \in EntryType, NEW ch \in Chain, NEW h \in Nat
    PROVE  LET f == Stamp(e, ch, h)
           IN  /\ Like(e, f) /\ StampOf(f, ch) = h
               /\ \A x \in Chain : x # ch =>
                     f.added[x] = e.added[x] /\ f.removed[x] = e.removed[x]
               /\ e.type = "Add" => f.added[ch] = h /\ f.removed[ch] = e.removed[ch]
               /\ IsRemoval(e) => f.removed[ch] = h /\ f.added[ch] = e.added[ch]
               /\ e.type = "FeeUpdate" => f.added[ch] = h /\ f.removed[ch] = h
<1> DEFINE f == Stamp(e, ch, h)
           A == [e.added EXCEPT ![ch] = h]
           R == [e.removed EXCEPT ![ch] = h]
<1>1. /\ e = [type |-> e.type, logIndex |-> e.logIndex, id |-> e.id,
              added |-> e.added, removed |-> e.removed, isForwarded |-> e.isForwarded]
      /\ e.added \in [Chain -> Nat] /\ e.removed \in [Chain -> Nat]
      /\ e.type \in UpdateKind
  BY DEF EntryType, Heights
<1>2. /\ A[ch] = h /\ R[ch] = h
      /\ \A x \in Chain : x # ch => A[x] = e.added[x] /\ R[x] = e.removed[x]
  BY <1>1
<1>3. CASE e.type = "Add"
  <2>1. f = [e EXCEPT !.added = A]
    BY <1>1, <1>3 DEF Stamp
  <2> HIDE DEF f, A
  <2>2. f = [type |-> e.type, logIndex |-> e.logIndex, id |-> e.id, added |-> A,
             removed |-> e.removed, isForwarded |-> e.isForwarded]
    BY <1>1, <2>1
  <2> QED
    BY <1>2, <1>3, <2>2 DEF Like, StampOf, IsRemoval, f
<1>4. CASE IsRemoval(e)
  <2>1. f = [e EXCEPT !.removed = R]
    BY <1>1, <1>4 DEF Stamp, IsRemoval
  <2> HIDE DEF f, R
  <2>2. f = [type |-> e.type, logIndex |-> e.logIndex, id |-> e.id, added |-> e.added,
             removed |-> R, isForwarded |-> e.isForwarded]
    BY <1>1, <2>1
  <2> QED
    BY <1>2, <1>4, <2>2 DEF Like, StampOf, IsRemoval, f
<1>5. CASE e.type = "FeeUpdate"
  <2>1. f = [e EXCEPT !.added = A, !.removed = R]
    BY <1>1, <1>5 DEF Stamp, IsRemoval
  <2> HIDE DEF f, A, R
  <2>2. f = [type |-> e.type, logIndex |-> e.logIndex, id |-> e.id, added |-> A,
             removed |-> R, isForwarded |-> e.isForwarded]
    BY <1>1, <2>1
  <2> QED
    BY <1>2, <1>5, <2>2 DEF Like, StampOf, IsRemoval, f
<1> QED
  BY <1>1, <1>3, <1>4, <1>5 DEF UpdateKind, IsRemoval

\* The logs with a new commitment hold the same updates.
LEMMA Evaluated ==
    ASSUME NEW d \in DiskType, NEW l \in LogsType, NEW ch \in Chain,
           Distinct(l), Stamped(d, l),
           NEW upto \in Heights, NEW tip \in CommitmentType,
           ParentsFetched(l, fetchHTLCView(l, upto), ch)
    PROVE  LET m == evaluateHTLCView(l, tip, ch, upto)
           IN  \A c \in Chain :
                 /\ m[c].logIndex = l[c].logIndex /\ m[c].htlcCounter = l[c].htlcCounter
                 /\ m[c].modified = l[c].modified
                 /\ m[c].entries = {Advanced(e, ch, upto[c], tip.height + 1) : e \in l[c].entries}
<1> DEFINE view == fetchHTLCView(l, upto)
           m == evaluateHTLCView(l, tip, ch, upto)
           step(e, c) == IF e \in Fresh(view, c, ch) THEN Stamp(e, ch, tip.height + 1) ELSE e
<1> SUFFICES ASSUME NEW c \in Chain
             PROVE  /\ m[c].logIndex = l[c].logIndex /\ m[c].htlcCounter = l[c].htlcCounter
                    /\ m[c].modified = l[c].modified
                    /\ m[c].entries =
                         {Advanced(e, ch, upto[c], tip.height + 1) : e \in l[c].entries}
  OBVIOUS
<1>1. m[c] = [l[c] EXCEPT !.entries = {step(e, c) : e \in @}]
  BY DEF evaluateHTLCView
<1>2. /\ Opposite(c) \in Chain /\ Opposite(Opposite(c)) = c
      /\ \A x \in Chain : view[x] = {e \in l[x].entries : e.logIndex < upto[x]}
      /\ \A x \in Chain : \A e \in l[x].entries : e \in EntryType
  BY EntriesOf DEF Opposite, Chain, fetchHTLCView
<1>3. ASSUME NEW e \in l[c].entries
      PROVE  e \in Fresh(view, c, ch) <=> e.logIndex < upto[c] /\ StampOf(e, ch) = 0
  <2>1. e \in EntryType /\ StampedOn(d, e, c, ch)
    BY <1>2 DEF Stamped
  <2>2. e \in view[c] <=> e.logIndex < upto[c]
    BY <1>2
  <2>3. ASSUME e.type = "Add", e \in view[c], e.added[ch] = 0
        PROVE  e \in Kept(view, c)
    <3>1. ASSUME NEW r \in view[Opposite(c)], IsRemoval(r), r.id = e.id
          PROVE  FALSE
      <4>1. PICK a \in AddsOf(l[c]) : a.id = r.id /\ a.added[ch] # 0
        BY <1>2, <3>1 DEF ParentsFetched
      <4>2. a = e
        BY <2>3, <3>1, <4>1 DEF Distinct, AddsOf
      <4> QED
        BY <2>3, <4>1, <4>2
    <3> HIDE DEF view
    <3> QED
      BY <2>3, <3>1 DEF Kept
  <2>4. Kept(view, c) \subseteq {x \in view[c] : x.type = "Add"}
    BY DEF Kept
  <2> HIDE DEF view
  <2>5. CASE e.type = "Add"
    BY <2>2, <2>3, <2>4, <2>5 DEF Fresh, StampOf, IsRemoval
  <2>6. CASE e.type = "FeeUpdate"
    BY <2>1, <2>2, <2>4, <2>6 DEF Fresh, StampOf, IsRemoval, StampedOn
  <2>7. CASE IsRemoval(e)
    BY <2>1, <2>2, <2>4, <2>7 DEF Fresh, StampOf, IsRemoval
  <2> QED
    BY <2>1, <2>5, <2>6, <2>7, EntryParts
<1>4. \A e \in l[c].entries : step(e, c) = Advanced(e, ch, upto[c], tip.height + 1)
  <2> HIDE DEF view
  <2> QED
    BY <1>3 DEF Advanced
<1> DEFINE E == {step(e, c) : e \in l[c].entries}
           F == {Advanced(e, ch, upto[c], tip.height + 1) : e \in l[c].entries}
<1>5. E = F
  <2> HIDE DEF step
  <2> QED
    BY <1>4
<1>6. m[c] = [l[c] EXCEPT !.entries = E]
  BY <1>1
<1>7. l[c] = [logIndex |-> l[c].logIndex, htlcCounter |-> l[c].htlcCounter,
              entries |-> l[c].entries, modified |-> l[c].modified]
  BY EntriesOf DEF LogType
<1> HIDE DEF E, F, m
<1>8. m[c] = [logIndex |-> l[c].logIndex, htlcCounter |-> l[c].htlcCounter,
              entries |-> E, modified |-> l[c].modified]
  BY <1>6, <1>7
<1> QED
  BY <1>5, <1>8 DEF F

\* Logs that hold the same updates.
Alike(l, m) ==
    \A c \in Chain :
        /\ m[c].logIndex = l[c].logIndex /\ m[c].htlcCounter = l[c].htlcCounter
        /\ m[c].modified = l[c].modified
        /\ \A e \in l[c].entries : \E f \in m[c].entries : Like(e, f)
        /\ \A f \in m[c].entries : \E e \in l[c].entries : Like(e, f)

\* Entries that are the same update are read alike.
LEMMA LikeParts ==
    ASSUME NEW e, NEW f, Like(e, f)
    PROVE  /\ f.type = e.type /\ f.logIndex = e.logIndex /\ f.id = e.id
           /\ f.isForwarded = e.isForwarded
           /\ IsRemoval(f) <=> IsRemoval(e)
           /\ LogUpdate(f) = LogUpdate(e) /\ Htlc(f) = Htlc(e)
           /\ \A k, c : On(f, k, c) <=> On(e, k, c)
BY DEF Like, IsRemoval, LogUpdate, Htlc, On

\* What is stored for them is the same.
LEMMA SameUpdates ==
    ASSUME NEW A, NEW B,
           \A e \in A : \E f \in B : LogUpdate(f) = LogUpdate(e),
           \A f \in B : \E e \in A : LogUpdate(f) = LogUpdate(e)
    PROVE  LogUpdates(B) = LogUpdates(A)
<1>1. \A u \in LogUpdates(A) : u \in LogUpdates(B)
  BY DEF LogUpdates
<1>2. \A u \in LogUpdates(B) : u \in LogUpdates(A)
  BY DEF LogUpdates
<1> QED
  BY <1>1, <1>2

\* A commitment finds the same open HTLCs in logs that are alike.
LEMMA OpenAlike ==
    ASSUME NEW l, NEW m, Alike(l, m), NEW k, NEW c \in Chain
    PROVE  OpenHtlcs(m, k, c) = OpenHtlcs(l, k, c)
<1>1. Opposite(c) \in Chain
  BY DEF Opposite, Chain
<1>2. \A id : ResolvedAt(m, k, c, id) <=> ResolvedAt(l, k, c, id)
  BY <1>1, LikeParts DEF ResolvedAt, Alike
<1>3. \A a \in OpenAt(l, k, c) : \E b \in OpenAt(m, k, c) : Htlc(b) = Htlc(a)
  <2> SUFFICES ASSUME NEW a \in OpenAt(l, k, c)
               PROVE  \E b \in OpenAt(m, k, c) : Htlc(b) = Htlc(a)
    OBVIOUS
  <2>1. a \in l[c].entries /\ a.type = "Add" /\ On(a, k, c) /\ ~ ResolvedAt(l, k, c, a.id)
    BY DEF OpenAt, AddsOf
  <2>2. PICK b \in m[c].entries : Like(a, b)
    BY <2>1 DEF Alike
  <2>3. b \in OpenAt(m, k, c) /\ Htlc(b) = Htlc(a)
    BY <1>2, <2>1, <2>2, LikeParts DEF OpenAt, AddsOf
  <2> QED
    BY <2>3
<1>4. \A b \in OpenAt(m, k, c) : \E a \in OpenAt(l, k, c) : Htlc(b) = Htlc(a)
  <2> SUFFICES ASSUME NEW b \in OpenAt(m, k, c)
               PROVE  \E a \in OpenAt(l, k, c) : Htlc(b) = Htlc(a)
    OBVIOUS
  <2>1. b \in m[c].entries /\ b.type = "Add" /\ On(b, k, c) /\ ~ ResolvedAt(m, k, c, b.id)
    BY DEF OpenAt, AddsOf
  <2>2. PICK a \in l[c].entries : Like(a, b)
    BY <2>1 DEF Alike
  <2>3. a \in OpenAt(l, k, c) /\ Htlc(b) = Htlc(a)
    BY <1>2, <2>1, <2>2, LikeParts DEF OpenAt, AddsOf
  <2> QED
    BY <2>3
<1> QED
  BY <1>3, <1>4 DEF OpenHtlcs

\* What does not depend on heights holds of logs that are alike.
LEMMA AlikeParts ==
    ASSUME NEW d, NEW l, NEW m, Alike(l, m)
    PROVE  /\ Bounded(d, l) => Bounded(d, m)
           /\ Complete(d, l) => Complete(d, m)
           /\ Counters(d, l) => Counters(d, m)
           /\ Contents(d, l) => Contents(d, m)
           /\ Parents(d, l) => Parents(d, m)
           /\ Keys(d, l) => Keys(d, m)
           /\ Stored(d, l) => Stored(d, m)
<1>1. "local" \in Chain /\ "remote" \in Chain /\ \A c \in Chain : Opposite(c) \in Chain
  BY DEF Opposite, Chain
<1>2. Bounded(d, l) => Bounded(d, m)
  BY <1>1, LikeParts DEF Bounded, Alike
<1>3. Complete(d, l) => Complete(d, m)
  <2> SUFFICES ASSUME Complete(d, l), NEW c \in Chain, NEW i \in Nat
               PROVE  /\ (d.commit[c].messageIndex[c] <= i /\ i < m[c].logIndex) =>
                            \E e \in m[c].entries : e.logIndex = i
                      /\ (d.commit[c].htlcIndex[c] <= i /\ i < m[c].htlcCounter) =>
                            \E e \in AddsOf(m[c]) : e.id = i
    BY DEF Complete
  <2>1. /\ (d.commit[c].messageIndex[c] <= i /\ i < l[c].logIndex) =>
              \E e \in l[c].entries : e.logIndex = i
        /\ (d.commit[c].htlcIndex[c] <= i /\ i < l[c].htlcCounter) =>
              \E e \in AddsOf(l[c]) : e.id = i
    BY DEF Complete
  <2>2. \A e \in l[c].entries : \E f \in m[c].entries :
            f.logIndex = e.logIndex /\ f.id = e.id /\ f.type = e.type
    BY DEF Alike, Like
  <2>3. m[c].logIndex = l[c].logIndex /\ m[c].htlcCounter = l[c].htlcCounter
    BY DEF Alike
  <2> QED
    BY <2>1, <2>2, <2>3 DEF AddsOf
<1>4. Counters(d, l) => Counters(d, m)
  <2> SUFFICES ASSUME Counters(d, l), NEW k \in Commitments(d), NEW c \in Chain,
                      NEW f \in m[c].entries, f.type = "Add"
               PROVE  f.id < k.htlcIndex[c] <=> On(f, k, c)
    BY DEF Counters, AddsOf
  <2>1. PICK e \in l[c].entries : Like(e, f)
    BY DEF Alike
  <2> QED
    BY <2>1, LikeParts DEF Counters, AddsOf
<1>5. Contents(d, l) => Contents(d, m)
  BY OpenAlike DEF Contents
<1>6. Parents(d, l) => Parents(d, m)
  <2> SUFFICES ASSUME Parents(d, l)
               PROVE  Parents(d, m)
    OBVIOUS
  <2>1. ASSUME NEW c \in Chain, NEW s \in m[c].entries, IsRemoval(s)
        PROVE  \E b \in AddsOf(m[Opposite(c)]) : ParentOf(d, m, c, s, b)
    <3>1. PICK r \in l[c].entries : Like(r, s)
      BY DEF Alike
    <3>2. IsRemoval(r)
      BY <2>1, <3>1, LikeParts
    <3>3. PICK a \in AddsOf(l[Opposite(c)]) : ParentOf(d, l, c, r, a)
      BY <3>2 DEF Parents
    <3>4. PICK b \in m[Opposite(c)].entries : Like(a, b)
      BY <1>1, <3>3 DEF Alike, AddsOf
    <3>5. b \in AddsOf(m[Opposite(c)])
      BY <3>3, <3>4, LikeParts DEF AddsOf
    <3>6. ParentOf(d, m, c, s, b)
      BY <3>1, <3>3, <3>4, LikeParts DEF ParentOf
    <3> QED
      BY <3>5, <3>6
  <2>2. ASSUME NEW c \in Chain, NEW id
        PROVE  id \in m[c].modified <=>
                  \E r \in m[Opposite(c)].entries : IsRemoval(r) /\ r.id = id
    <3>1. id \in l[c].modified <=>
                  \E r \in l[Opposite(c)].entries : IsRemoval(r) /\ r.id = id
      BY DEF Parents
    <3>2. m[c].modified = l[c].modified
      BY DEF Alike
    <3>3. (\E r \in m[Opposite(c)].entries : IsRemoval(r) /\ r.id = id) <=>
          (\E r \in l[Opposite(c)].entries : IsRemoval(r) /\ r.id = id)
      BY <1>1, LikeParts DEF Alike
    <3> QED
      BY <3>1, <3>2, <3>3
  <2> QED
    BY <2>1, <2>2 DEF Parents
<1>7. Keys(d, l) => Keys(d, m)
  BY <1>1 DEF Keys, Alike, Like
<1>8. Stored(d, l) => Stored(d, m)
  <2> SUFFICES ASSUME Stored(d, l)
               PROVE  Stored(d, m)
    OBVIOUS
  <2>1. LogUpdates({e \in m["remote"].entries :
              ~ On(e, d.commit["remote"], "remote") /\ On(e, d.commit["local"], "remote")})
        = LogUpdates({e \in l["remote"].entries :
              ~ On(e, d.commit["remote"], "remote") /\ On(e, d.commit["local"], "remote")})
    <3> DEFINE A == {e \in l["remote"].entries :
              ~ On(e, d.commit["remote"], "remote") /\ On(e, d.commit["local"], "remote")}
               B == {e \in m["remote"].entries :
              ~ On(e, d.commit["remote"], "remote") /\ On(e, d.commit["local"], "remote")}
    <3>1. /\ \A e \in A : \E f \in B : LogUpdate(f) = LogUpdate(e)
          /\ \A f \in B : \E e \in A : LogUpdate(f) = LogUpdate(e)
      BY <1>1, LikeParts DEF Alike
    <3> HIDE DEF A, B
    <3>2. LogUpdates(B) = LogUpdates(A)
      BY <3>1, SameUpdates
    <3> QED
      BY <3>2 DEF A, B
  <2>2. LogUpdates({e \in m["local"].entries :
              e.type # "Add" /\ ~ On(e, d.commit["local"], "local")
                             /\ On(e, d.commit["remote"], "local")})
        = LogUpdates({e \in l["local"].entries :
              e.type # "Add" /\ ~ On(e, d.commit["local"], "local")
                             /\ On(e, d.commit["remote"], "local")})
    <3> DEFINE A == {e \in l["local"].entries :
              e.type # "Add" /\ ~ On(e, d.commit["local"], "local")
                             /\ On(e, d.commit["remote"], "local")}
               B == {e \in m["local"].entries :
              e.type # "Add" /\ ~ On(e, d.commit["local"], "local")
                             /\ On(e, d.commit["remote"], "local")}
    <3>1. /\ \A e \in A : \E f \in B : LogUpdate(f) = LogUpdate(e)
          /\ \A f \in B : \E e \in A : LogUpdate(f) = LogUpdate(e)
      BY <1>1, LikeParts DEF Alike
    <3> HIDE DEF A, B
    <3>2. LogUpdates(B) = LogUpdates(A)
      BY <3>1, SameUpdates
    <3> QED
      BY <3>2 DEF A, B
  <2>3. LogUpdates({e \in m["local"].entries :
              ~ On(e, d.commit["remote"], "local") /\ On(e, RemoteTip(d), "local")})
        = LogUpdates({e \in l["local"].entries :
              ~ On(e, d.commit["remote"], "local") /\ On(e, RemoteTip(d), "local")})
    <3> DEFINE A == {e \in l["local"].entries :
              ~ On(e, d.commit["remote"], "local") /\ On(e, RemoteTip(d), "local")}
               B == {e \in m["local"].entries :
              ~ On(e, d.commit["remote"], "local") /\ On(e, RemoteTip(d), "local")}
    <3>1. /\ \A e \in A : \E f \in B : LogUpdate(f) = LogUpdate(e)
          /\ \A f \in B : \E e \in A : LogUpdate(f) = LogUpdate(e)
      BY <1>1, LikeParts DEF Alike
    <3> HIDE DEF A, B
    <3>2. LogUpdates(B) = LogUpdates(A)
      BY <3>1, SameUpdates
    <3> QED
      BY <3>2 DEF A, B
  <2>4. \A f \in m["remote"].entries :
            f.isForwarded => On(f, d.commit["remote"], "remote")
    BY <1>1, LikeParts DEF Alike, Stored
  <2> QED
    BY <2>1, <2>2, <2>3, <2>4 DEF Stored
<1> QED
  BY <1>2, <1>3, <1>4, <1>5, <1>6, <1>7, <1>8

\* The logs with a new commitment are such logs.
LEMMA EvaluatedAlike ==
    ASSUME NEW d \in DiskType, NEW l \in LogsType, NEW ch \in Chain,
           Distinct(l), Stamped(d, l),
           NEW upto \in Heights, NEW tip \in CommitmentType,
           ParentsFetched(l, fetchHTLCView(l, upto), ch)
    PROVE  LET m == evaluateHTLCView(l, tip, ch, upto)
           IN  Alike(l, m) /\ Distinct(m)
<1> DEFINE m == evaluateHTLCView(l, tip, ch, upto)
           adv(e, c) == Advanced(e, ch, upto[c], tip.height + 1)
<1>1. \A c \in Chain :
         /\ m[c].logIndex = l[c].logIndex /\ m[c].htlcCounter = l[c].htlcCounter
         /\ m[c].modified = l[c].modified
         /\ m[c].entries = {adv(e, c) : e \in l[c].entries}
  BY Evaluated
<1>2. \A c \in Chain : \A e \in l[c].entries : Like(e, adv(e, c))
  <2> SUFFICES ASSUME NEW c \in Chain, NEW e \in l[c].entries
               PROVE  Like(e, adv(e, c))
    OBVIOUS
  <2>1. e \in EntryType /\ tip.height + 1 \in Nat
    BY EntriesOf DEF CommitmentType
  <2>2. Like(e, Stamp(e, ch, tip.height + 1))
    BY <2>1, StampEffect
  <2> QED
    BY <2>2 DEF Advanced, Like
<1> HIDE DEF m, adv
<1>3. Alike(l, m)
  BY <1>1, <1>2 DEF Alike
<1>4. Distinct(m)
  <2> SUFFICES ASSUME NEW c \in Chain, NEW f \in m[c].entries, NEW g \in m[c].entries
               PROVE  /\ f.logIndex = g.logIndex => f = g
                      /\ (f.type = "Add" /\ g.type = "Add" /\ f.id = g.id) => f = g
                      /\ (IsRemoval(f) /\ IsRemoval(g) /\ f.id = g.id) => f = g
    BY DEF Distinct
  <2>1. PICK x \in l[c].entries : f = adv(x, c)
    BY <1>1
  <2>2. PICK y \in l[c].entries : g = adv(y, c)
    BY <1>1
  <2>3. Like(x, f) /\ Like(y, g)
    BY <1>2, <2>1, <2>2
  <2>4. /\ x.logIndex = y.logIndex => x = y
        /\ (x.type = "Add" /\ y.type = "Add" /\ x.id = y.id) => x = y
        /\ (IsRemoval(x) /\ IsRemoval(y) /\ x.id = y.id) => x = y
    BY DEF Distinct
  <2> QED
    BY <2>1, <2>2, <2>3, <2>4, LikeParts
<1> QED
  BY <1>3, <1>4 DEF m

\* The inequalities of Ordered, with their types.
LEMMA OrderedParts ==
    ASSUME NEW d \in DiskType, Ordered(d)
    PROVE  /\ \A c \in Chain :
                /\ d.commit["local"].messageIndex[c] \in Nat
                /\ d.commit["remote"].messageIndex[c] \in Nat
                /\ RemoteTip(d).messageIndex[c] \in Nat
                /\ d.commit["local"].htlcIndex[c] \in Nat
                /\ d.commit["remote"].htlcIndex[c] \in Nat
                /\ RemoteTip(d).htlcIndex[c] \in Nat
                /\ d.commit[c].height \in Nat
           /\ d.commit["local"].messageIndex["local"] <= d.commit["remote"].messageIndex["local"]
           /\ d.commit["remote"].messageIndex["local"] <= RemoteTip(d).messageIndex["local"]
           /\ d.commit["remote"].messageIndex["remote"] <= RemoteTip(d).messageIndex["remote"]
           /\ RemoteTip(d).messageIndex["remote"] <= d.commit["local"].messageIndex["remote"]
           /\ d.commit["local"].htlcIndex["local"] <= d.commit["remote"].htlcIndex["local"]
           /\ d.commit["remote"].htlcIndex["local"] <= RemoteTip(d).htlcIndex["local"]
           /\ d.commit["remote"].htlcIndex["remote"] <= RemoteTip(d).htlcIndex["remote"]
           /\ RemoteTip(d).htlcIndex["remote"] <= d.commit["local"].htlcIndex["remote"]
           /\ HasUnacked(d) => RemoteTip(d).height = d.commit["remote"].height + 1
           /\ RemoteTip(d).height \in Nat
<1>1. \A c \in Chain :
         /\ d.commit["local"].messageIndex[c] \in Nat
         /\ d.commit["remote"].messageIndex[c] \in Nat
         /\ RemoteTip(d).messageIndex[c] \in Nat
         /\ d.commit["local"].htlcIndex[c] \in Nat
         /\ d.commit["remote"].htlcIndex[c] \in Nat
         /\ RemoteTip(d).htlcIndex[c] \in Nat
         /\ d.commit[c].height \in Nat
         /\ RemoteTip(d).height \in Nat
  BY DiskParts, CommitParts DEF Chain
<1> QED
  BY <1>1 DEF Ordered, Chain

\* What a commitment includes on the way from one chain to the other.
LEMMA OnOrder ==
    ASSUME NEW d \in DiskType, Ordered(d), NEW e \in EntryType
    PROVE  /\ On(e, d.commit["local"], "local") => On(e, d.commit["remote"], "local")
           /\ On(e, d.commit["remote"], "local") => On(e, RemoteTip(d), "local")
           /\ On(e, d.commit["remote"], "remote") => On(e, RemoteTip(d), "remote")
           /\ On(e, RemoteTip(d), "remote") => On(e, d.commit["local"], "remote")
<1>1. e.logIndex \in Nat
  BY EntryParts
<1> QED
  BY <1>1, OrderedParts DEF On, Chain

\* A signature can always be made: an HTLC is on the chain before its removal.
LEMMA AlwaysSigns ==
    ASSUME NEW d \in DiskType, NEW l \in LogsType, LogInv(d, l)
    PROVE  CanSign(d, l)
<1>1. Ordered(d) /\ Stamped(d, l) /\ Parents(d, l)
  BY DEF LogInv
<1>2. /\ \A c \in Chain : Opposite(c) \in Chain
      /\ \A c \in Chain : \A e \in l[c].entries : e \in EntryType
      /\ "remote" \in Chain /\ "local" \in Chain
      /\ Opposite("local") = "remote" /\ Opposite("remote") = "local"
  BY EntriesOf DEF Opposite, Chain
<1> SUFFICES ASSUME NEW c \in Chain, NEW r \in l[c].entries,
                    r.logIndex < SignIndexes(d, l)[c], IsRemoval(r)
             PROVE  \E a \in AddsOf(l[Opposite(c)]) : a.id = r.id /\ a.added["remote"] # 0
  BY DEF CanSign, ParentsFetched, fetchHTLCView
<1>3. PICK a \in AddsOf(l[Opposite(c)]) : ParentOf(d, l, c, r, a)
  BY <1>1 DEF Parents
<1>4. a \in EntryType /\ a.type = "Add" /\ a \in l[Opposite(c)].entries
  BY <1>2 DEF AddsOf
<1>5. On(a, RemoteTip(d), Opposite(c))
  <2>1. CASE c = "local"
    BY <1>3, <2>1 DEF ParentOf, Commitments
  <2>2. CASE c = "remote"
    <3>1. On(r, d.commit["local"], c)
      BY <2>2 DEF On, SignIndexes
    <3>2. On(a, d.commit["local"], Opposite(c))
      BY <1>3, <3>1 DEF ParentOf, Commitments
    <3> QED
      BY <1>1, <1>2, <1>4, <2>2, <3>2, OnOrder
  <2> QED
    BY <2>1, <2>2 DEF Chain
<1>6. StampOf(a, "remote") # 0
  BY <1>1, <1>2, <1>4, <1>5 DEF Stamped, StampedOn, Tip
<1> QED
  BY <1>3, <1>4, <1>6 DEF ParentOf, StampOf

\* A commitment is signed for the peer.
LEMMA Signed ==
    ASSUME NEW d \in DiskType, NEW l \in LogsType, LogInv(d, l), ~ HasUnacked(d)
    PROVE  LogInv(SignedDisk(d, l), SignedLogs(d, l))
<1> DEFINE n == SignedDisk(d, l)
           m == SignedLogs(d, l)
           new == createCommitDiff(d, l).commit
           rem == d.commit["remote"]
           loc == d.commit["local"]
           h == d.commit["remote"].height + 1
           upto == SignIndexes(d, l)
<1>1. /\ Ordered(d) /\ Bounded(d, l) /\ Distinct(l) /\ Stamped(d, l)
      /\ Complete(d, l) /\ Counters(d, l) /\ Contents(d, l) /\ Parents(d, l)
      /\ Stored(d, l) /\ Keys(d, l) /\ Packages(d)
  BY DEF LogInv
<1>2. "local" \in Chain /\ "remote" \in Chain /\ RemoteTip(d) = rem
  BY DEF Chain, RemoteTip
<1>3. /\ n = [commit |-> d.commit, diff |-> createCommitDiff(d, l),
              unsignedAckedUpdates |-> d.unsignedAckedUpdates,
              remoteUnsignedLocalUpdates |-> d.remoteUnsignedLocalUpdates,
              lastWasRevoke |-> FALSE, fwdPkgs |-> d.fwdPkgs]
      /\ n \in DiskType
  BY SignedType
<1>4. /\ createCommitDiff(d, l) \in CommitDiffType
      /\ upto \in Heights /\ new.height = h /\ new.messageIndex = upto
      /\ new.htlcIndex = [local |-> l["local"].htlcCounter, remote |-> loc.htlcIndex["remote"]]
      /\ new = fetchCommitmentView(l, rem, "remote", upto, new.htlcIndex)
      /\ createCommitDiff(d, l).updates =
            LogUpdates({e \in m["local"].entries : h \in {e.added["remote"], e.removed["remote"]}})
      /\ m \in LogsType
  BY DiffType
<1>5. /\ n.commit = d.commit /\ n.diff = createCommitDiff(d, l)
      /\ n.unsignedAckedUpdates = d.unsignedAckedUpdates
      /\ n.remoteUnsignedLocalUpdates = d.remoteUnsignedLocalUpdates
      /\ n.fwdPkgs = d.fwdPkgs
  BY <1>3
<1>6. HasUnacked(n) /\ RemoteTip(n) = new
  BY <1>4, <1>5, CommitmentChannelAssumption DEF HasUnacked, RemoteTip
<1>7. ParentsFetched(l, fetchHTLCView(l, upto), "remote")
  BY AlwaysSigns DEF CanSign
<1>8. rem \in CommitmentType /\ h \in Nat /\ h > 0 /\ h = rem.height + 1 /\ rem.height \in Nat
  BY <1>2, DiskParts, CommitParts
<1>9. Alike(l, m) /\ Distinct(m)
  BY <1>1, <1>2, <1>4, <1>7, <1>8, EvaluatedAlike DEF SignedLogs
<1>10. \A c \in Chain : m[c].entries = {Advanced(e, "remote", upto[c], h) : e \in l[c].entries}
  BY <1>1, <1>2, <1>4, <1>7, <1>8, Evaluated DEF SignedLogs
<1>11. /\ Bounded(d, m) /\ Complete(d, m) /\ Counters(d, m) /\ Contents(d, m)
       /\ Parents(d, m) /\ Stored(d, m) /\ Keys(d, m)
  BY <1>1, <1>9, AlikeParts
<1>12. /\ upto["local"] = l["local"].logIndex /\ upto["remote"] = loc.messageIndex["remote"]
       /\ new.htlcIndex["local"] = l["local"].htlcCounter
       /\ new.htlcIndex["remote"] = loc.htlcIndex["remote"]
  BY <1>4 DEF SignIndexes
<1>13. /\ \A c \in Chain : \A e \in l[c].entries : e \in EntryType
       /\ \A c \in Chain : \A e \in m[c].entries : e \in EntryType
       /\ \A c \in Chain : /\ l[c].logIndex \in Nat /\ l[c].htlcCounter \in Nat
                           /\ m[c].logIndex = l[c].logIndex
                           /\ m[c].htlcCounter = l[c].htlcCounter
  BY <1>4, <1>9, EntriesOf DEF Alike
<1>14. Commitments(n) = Commitments(d) \cup {new}
  BY <1>2, <1>5, <1>6 DEF Commitments
<1> HIDE DEF n, m, new, rem, loc, h, upto
<1>15. Ordered(n)
  <2>1. /\ rem.messageIndex["local"] <= new.messageIndex["local"]
        /\ rem.htlcIndex["local"] <= new.htlcIndex["local"]
    BY <1>1, <1>2, <1>4, <1>12 DEF Bounded
  <2>2. /\ rem.messageIndex["remote"] <= new.messageIndex["remote"]
        /\ new.messageIndex["remote"] <= loc.messageIndex["remote"]
        /\ rem.htlcIndex["remote"] <= new.htlcIndex["remote"]
        /\ new.htlcIndex["remote"] <= loc.htlcIndex["remote"]
    BY <1>1, <1>2, <1>4, <1>12, OrderedParts, SMTT(30) DEF rem, loc
  <2>3. \A k \in Commitments(n), c \in Chain : k.messageIndex[c] > 0 => k.height > 0
    BY <1>1, <1>4, <1>8, <1>14 DEF Ordered
  <2> QED
    BY <1>1, <1>4, <1>5, <1>6, <1>8, <2>1, <2>2, <2>3 DEF Ordered, rem, loc
<1>16. Bounded(n, m)
  BY <1>2, <1>4, <1>5, <1>6, <1>11, <1>12, <1>13 DEF Bounded
<1>17. Stamped(n, m)
  <2> SUFFICES ASSUME NEW c \in Chain, NEW ch \in Chain, NEW f \in m[c].entries
               PROVE  StampedOn(n, f, c, ch)
    BY DEF Stamped
  <2>1. PICK e \in l[c].entries : f = Advanced(e, "remote", upto[c], h)
    BY <1>10
  <2>2. e \in EntryType /\ StampedOn(d, e, c, "local") /\ StampedOn(d, e, c, "remote")
    BY <1>1, <1>2, <1>13 DEF Stamped
  <2>3. /\ Tip(n, "remote") = new /\ Tip(n, "local") = n.commit["local"]
        /\ Tip(d, "remote") = rem /\ Tip(d, "local") = d.commit["local"]
        /\ n.commit["remote"] = rem /\ d.commit["remote"] = rem
    BY <1>2, <1>5, <1>6 DEF Tip, rem
  <2>4. On(e, rem, c) => On(e, new, c)
    <3>1. e.logIndex \in Nat
      BY <2>2, EntryParts
    <3>2. rem.messageIndex[c] <= new.messageIndex[c]
      BY <1>5, <1>6, <1>15, <1>3, OrderedParts DEF rem, Chain
    <3>3. rem.messageIndex[c] \in Nat /\ new.messageIndex[c] \in Nat
      BY <1>4, <1>8, CommitParts DEF Heights
    <3> QED
      BY <3>1, <3>2, <3>3 DEF On
  <2>5. CASE e.logIndex < upto[c] /\ StampOf(e, "remote") = 0
    <3>1. f = Stamp(e, "remote", h)
      BY <2>1, <2>5 DEF Advanced
    <3>2. /\ Like(e, f) /\ StampOf(f, "remote") = h
          /\ f.added["local"] = e.added["local"] /\ f.removed["local"] = e.removed["local"]
          /\ e.type = "Add" => f.added["remote"] = h /\ f.removed["remote"] = e.removed["remote"]
          /\ IsRemoval(e) => f.removed["remote"] = h /\ f.added["remote"] = e.added["remote"]
          /\ e.type = "FeeUpdate" => f.added["remote"] = h /\ f.removed["remote"] = h
      BY <1>2, <1>8, <2>2, <3>1, StampEffect
    <3>3. /\ f.type = e.type
          /\ IsRemoval(f) <=> IsRemoval(e)
          /\ \A k, x : On(f, k, x) <=> On(e, k, x)
      BY <3>2, LikeParts
    <3>4. CASE ch = "local"
      <4>1. StampOf(f, ch) = StampOf(e, ch)
        BY <3>2, <3>3, <3>4 DEF StampOf
      <4>2. Tip(n, ch) = Tip(d, ch) /\ n.commit[ch] = d.commit[ch]
        BY <1>5, <2>3, <3>4
      <4> QED
        BY <2>2, <3>2, <3>3, <3>4, <4>1, <4>2 DEF StampedOn
    <3>5. CASE ch = "remote"
      <4>1. On(f, new, c) /\ ~ On(f, rem, c)
        BY <1>4, <2>2, <2>3, <2>5, <3>3 DEF StampedOn, On
      <4>2. StampOf(f, ch) = h /\ h # 0 /\ h <= new.height /\ ~ (h <= rem.height)
        BY <1>4, <1>8, <3>2, <3>5
      <4>3. f.type = "FeeUpdate" => f.added[ch] = f.removed[ch]
        BY <3>2, <3>3, <3>5
      <4>4. IsRemoval(f) => f.added[ch] = 0
        BY <2>2, <3>2, <3>3, <3>5 DEF StampedOn
      <4>5. f.type = "Add" => f.removed[ch] = 0
        BY <2>2, <3>2, <3>3, <3>5 DEF StampedOn
      <4> QED
        BY <2>3, <3>5, <4>1, <4>2, <4>3, <4>4, <4>5 DEF StampedOn
    <3> QED
      BY <3>4, <3>5 DEF Chain
  <2>6. CASE ~ (e.logIndex < upto[c] /\ StampOf(e, "remote") = 0)
    <3>1. f = e
      BY <2>1, <2>6 DEF Advanced
    <3>2. CASE ch = "local"
      BY <1>5, <2>2, <2>3, <3>1, <3>2 DEF StampedOn
    <3>3. CASE ch = "remote"
      <4>1. StampOf(e, "remote") # 0 <=> On(e, new, c)
        BY <1>4, <2>2, <2>3, <2>4, <2>6 DEF StampedOn, On
      <4>2. StampOf(e, "remote") \in Nat
        BY <1>2, <2>2, EntryParts
      <4> QED
        BY <1>4, <1>8, <2>2, <2>3, <3>1, <3>3, <4>1, <4>2 DEF StampedOn
    <3> QED
      BY <3>2, <3>3 DEF Chain
  <2> QED
    BY <2>5, <2>6
<1>18. Complete(n, m)
  BY <1>5, <1>11 DEF Complete
<1>19. Counters(n, m)
  <2> SUFFICES ASSUME NEW k \in Commitments(n), NEW c \in Chain, NEW e \in AddsOf(m[c])
               PROVE  e.id < k.htlcIndex[c] <=> On(e, k, c)
    BY DEF Counters
  <2>1. CASE k \in Commitments(d)
    BY <1>11, <2>1 DEF Counters
  <2>2. CASE k = new /\ c = "local"
    BY <1>4, <1>11, <1>12, <1>13, <2>2 DEF Bounded, AddsOf, On
  <2>3. CASE k = new /\ c = "remote"
    <3>1. e.id < loc.htlcIndex["remote"] <=> On(e, loc, "remote")
      BY <1>11, <2>3 DEF Counters, Commitments, loc
    <3> QED
      BY <1>4, <1>12, <2>3, <3>1 DEF On
  <2> QED
    BY <1>14, <2>1, <2>2, <2>3 DEF Chain
<1>20. Contents(n, m)
  <2> SUFFICES ASSUME NEW k \in Commitments(n), NEW c \in Chain
               PROVE  k.htlcs[c] = OpenHtlcs(m, k, c)
    BY DEF Contents
  <2>1. CASE k \in Commitments(d)
    BY <1>11, <2>1 DEF Contents
  <2>2. CASE k = new
    <3>1. new.htlcs = [x \in Chain |-> {Htlc(e) : e \in Kept(fetchHTLCView(l, upto), x)}]
      BY <1>4 DEF fetchCommitmentView
    <3>2. new.htlcs[c] = OpenHtlcs(l, new, c)
      BY <1>4, <3>1, KeptIs DEF OpenHtlcs
    <3>3. OpenHtlcs(m, new, c) = OpenHtlcs(l, new, c)
      BY <1>9, OpenAlike
    <3> QED
      BY <2>2, <3>2, <3>3
  <2> QED
    BY <1>14, <2>1, <2>2
<1>21. Parents(n, m)
  <2> SUFFICES ASSUME NEW c \in Chain, NEW r \in m[c].entries, IsRemoval(r)
               PROVE  \E a \in AddsOf(m[Opposite(c)]) : ParentOf(n, m, c, r, a)
    BY <1>11 DEF Parents
  <2>1. PICK a \in AddsOf(m[Opposite(c)]) : ParentOf(d, m, c, r, a)
    BY <1>11 DEF Parents
  <2>2. Opposite(c) \in Chain /\ a \in m[Opposite(c)].entries
    BY DEF AddsOf, Opposite, Chain
  <2>3. (c = "local" \/ On(r, new, c)) => On(a, new, Opposite(c))
    <3>1. CASE c = "local"
      <4>1. On(a, loc, "remote")
        BY <2>1, <3>1 DEF ParentOf, Commitments, loc, Opposite
      <4> QED
        BY <1>4, <1>12, <3>1, <4>1 DEF On, Opposite
    <3>2. CASE c = "remote"
      <4>1. a.logIndex < l["local"].logIndex
        BY <1>11, <1>13, <1>2, <2>2, <3>2 DEF Bounded, Opposite
      <4> QED
        BY <1>4, <1>12, <3>2, <4>1 DEF On, Opposite
    <3> QED
      BY <3>1, <3>2 DEF Chain
  <2>4. ParentOf(n, m, c, r, a)
    BY <1>14, <2>1, <2>3 DEF ParentOf
  <2> QED
    BY <2>4
<1>22. Stored(n, m)
  <2> DEFINE A == {e \in m["local"].entries : h \in {e.added["remote"], e.removed["remote"]}}
             B == {e \in m["local"].entries : ~ On(e, rem, "local") /\ On(e, new, "local")}
  <2>1. A = B
    <3> SUFFICES ASSUME NEW e \in m["local"].entries
                 PROVE  h \in {e.added["remote"], e.removed["remote"]} <=>
                            ~ On(e, rem, "local") /\ On(e, new, "local")
      OBVIOUS
    <3>1. e \in EntryType /\ StampedOn(n, e, "local", "remote")
      BY <1>2, <1>13, <1>17 DEF Stamped
    <3>2. /\ StampOf(e, "remote") # 0 <=> On(e, new, "local")
          /\ StampOf(e, "remote") # 0 =>
                /\ StampOf(e, "remote") <= h
                /\ StampOf(e, "remote") <= rem.height <=> On(e, rem, "local")
          /\ StampOf(e, "remote") \in Nat
      BY <1>2, <1>4, <1>5, <1>6, <3>1, EntryParts DEF StampedOn, Tip, rem
    <3>3. h \in {e.added["remote"], e.removed["remote"]} <=> StampOf(e, "remote") = h
      BY <1>8, <3>1, EntryParts DEF StampedOn, StampOf, UpdateKind
    <3> QED
      BY <1>8, <3>2, <3>3
  <2>2. n.diff.updates = LogUpdates(B)
    BY <1>4, <1>5, <2>1
  <2> QED
    BY <1>2, <1>5, <1>6, <1>11, <2>2 DEF Stored, rem
<1>23. Keys(n, m)
  BY <1>5, <1>11 DEF Keys
<1>24. Packages(n)
  BY <1>1, <1>5 DEF Packages, HandedOver
<1> QED
  BY <1>9, <1>15, <1>16, <1>17, <1>18, <1>19, <1>20, <1>21, <1>22, <1>23, <1>24
  DEF LogInv, n, m

\* A commitment received for ourselves.
LEMMA ReceivedType ==
    ASSUME NEW d \in DiskType, NEW l \in LogsType
    PROVE  LET new == ReceivedCommit(d, l)
               m == ReceivedLogs(d, l)
               n == ReceivedDisk(d, l)
           IN  /\ m \in LogsType /\ n \in DiskType
               /\ new \in CommitmentType /\ ReceiveIndexes(d, l) \in Heights
               /\ new.height = d.commit["local"].height + 1
               /\ new.messageIndex = ReceiveIndexes(d, l)
               /\ new.htlcIndex = [local |-> d.commit["remote"].htlcIndex["local"],
                                   remote |-> l["remote"].htlcCounter]
               /\ new = fetchCommitmentView(l, d.commit["local"], "local",
                            ReceiveIndexes(d, l), new.htlcIndex)
               /\ n.commit = [local |-> new, remote |-> d.commit["remote"]]
               /\ n.diff = d.diff /\ n.fwdPkgs = d.fwdPkgs
               /\ n.unsignedAckedUpdates = Written(getUnsignedAckedUpdates(d, m, new))
               /\ n.remoteUnsignedLocalUpdates.updates =
                    UpdatesFrom(d.remoteUnsignedLocalUpdates.updates, new.messageIndex["local"])
<1> DEFINE new == ReceivedCommit(d, l)
           m == ReceivedLogs(d, l)
           n == ReceivedDisk(d, l)
           counters == [local |-> d.commit["remote"].htlcIndex["local"],
                        remote |-> l["remote"].htlcCounter]
           E == {e \in m["remote"].entries :
                    /\ e.logIndex >= d.commit["remote"].messageIndex["remote"]
                    /\ e.logIndex < new.messageIndex["remote"]}
<1>1. "local" \in Chain /\ "remote" \in Chain
  BY DEF Chain
<1>2. /\ d.commit["local"] \in CommitmentType /\ d.commit["remote"] \in CommitmentType
      /\ l["remote"].logIndex \in Nat /\ l["remote"].htlcCounter \in Nat
  BY <1>1, DiskParts, EntriesOf
<1>3. ReceiveIndexes(d, l) \in Heights /\ counters \in Heights
  BY <1>1, <1>2, CommitParts DEF ReceiveIndexes, Heights, Chain
<1>4. m \in LogsType
  BY <1>1, <1>2, EvaluatedType DEF ReceivedLogs
<1>5. new = fetchCommitmentView(l, d.commit["local"], "local", ReceiveIndexes(d, l), counters)
  BY DEF ReceivedCommit
<1>6. getUnsignedAckedUpdates(d, m, new) = LogUpdates(E)
  BY DEF getUnsignedAckedUpdates
<1>7. n = UpdateCommitment(d, new, getUnsignedAckedUpdates(d, m, new))
  BY DEF ReceivedDisk
<1>8. E \in SUBSET m["remote"].entries
  OBVIOUS
<1> HIDE DEF counters, new, m, n, E
<1>9. /\ new \in CommitmentType /\ FiniteCommit(new)
      /\ new.height = d.commit["local"].height + 1
      /\ new.messageIndex = ReceiveIndexes(d, l) /\ new.htlcIndex = counters
  BY <1>1, <1>2, <1>3, <1>5, ViewType, SMTT(30)
<1>10. IsFiniteSet(LogUpdates(E)) /\ LogUpdates(E) \in SUBSET LogUpdateType
  <2>1. IsFiniteSet(E) /\ E \in SUBSET EntryType
    BY <1>1, <1>4, <1>8, EntriesOf, FS_Subset
  <2> QED
    BY <2>1, FiniteUpdates
<1>11. /\ n \in DiskType /\ n.commit = [local |-> new, remote |-> d.commit["remote"]]
       /\ n.diff = d.diff /\ n.fwdPkgs = d.fwdPkgs
       /\ n.unsignedAckedUpdates = Written(getUnsignedAckedUpdates(d, m, new))
       /\ n.remoteUnsignedLocalUpdates.updates =
            UpdatesFrom(d.remoteUnsignedLocalUpdates.updates, new.messageIndex["local"])
  BY <1>6, <1>7, <1>9, <1>10, UpdatedType, ZenonT(30)
<1>12. new = fetchCommitmentView(l, d.commit["local"], "local", ReceiveIndexes(d, l), new.htlcIndex)
  BY <1>5, <1>9
<1> QED
  BY <1>3, <1>4, <1>9, <1>11, <1>12 DEF counters, new, m, n

\* A signature of the peer is accepted and our last commitment is revoked.
LEMMA Received ==
    ASSUME NEW d \in DiskType, NEW l \in LogsType, LogInv(d, l),
           ParentsFetched(l, fetchHTLCView(l, ReceiveIndexes(d, l)), "local")
    PROVE  LogInv(ReceivedDisk(d, l), ReceivedLogs(d, l))
<1> DEFINE n == ReceivedDisk(d, l)
           m == ReceivedLogs(d, l)
           new == ReceivedCommit(d, l)
           rem == d.commit["remote"]
           loc == d.commit["local"]
           tip == RemoteTip(d)
           h == d.commit["local"].height + 1
           upto == ReceiveIndexes(d, l)
<1>1. /\ Ordered(d) /\ Bounded(d, l) /\ Distinct(l) /\ Stamped(d, l)
      /\ Complete(d, l) /\ Counters(d, l) /\ Contents(d, l) /\ Parents(d, l)
      /\ Stored(d, l) /\ Keys(d, l) /\ Packages(d)
  BY DEF LogInv
<1>2. /\ "local" \in Chain /\ "remote" \in Chain
      /\ Opposite("local") = "remote" /\ Opposite("remote") = "local"
  BY DEF Chain, Opposite
<1>3. /\ m \in LogsType /\ n \in DiskType
      /\ new \in CommitmentType /\ upto \in Heights
      /\ new.height = h /\ new.messageIndex = upto
      /\ new.htlcIndex = [local |-> rem.htlcIndex["local"], remote |-> l["remote"].htlcCounter]
      /\ new = fetchCommitmentView(l, loc, "local", upto, new.htlcIndex)
      /\ n.commit = [local |-> new, remote |-> rem]
      /\ n.diff = d.diff /\ n.fwdPkgs = d.fwdPkgs
      /\ n.unsignedAckedUpdates = Written(getUnsignedAckedUpdates(d, m, new))
      /\ n.remoteUnsignedLocalUpdates.updates =
            UpdatesFrom(d.remoteUnsignedLocalUpdates.updates, new.messageIndex["local"])
  BY ReceivedType
<1>4. RemoteTip(n) = tip /\ (HasUnacked(n) <=> HasUnacked(d))
      /\ n.commit["local"] = new /\ n.commit["remote"] = rem
  BY <1>3 DEF RemoteTip, HasUnacked
<1>5. loc \in CommitmentType /\ rem \in CommitmentType /\ tip \in CommitmentType
      /\ h \in Nat /\ h > 0 /\ h = loc.height + 1 /\ loc.height \in Nat
  BY <1>2, DiskParts, CommitParts
<1>6. Alike(l, m) /\ Distinct(m)
  BY <1>1, <1>2, <1>3, <1>5, EvaluatedAlike DEF ReceivedLogs
<1>7. \A c \in Chain : m[c].entries = {Advanced(e, "local", upto[c], h) : e \in l[c].entries}
  BY <1>1, <1>2, <1>3, <1>5, Evaluated DEF ReceivedLogs
<1>8. /\ upto["local"] = rem.messageIndex["local"] /\ upto["remote"] = l["remote"].logIndex
      /\ new.htlcIndex["local"] = rem.htlcIndex["local"]
      /\ new.htlcIndex["remote"] = l["remote"].htlcCounter
  BY <1>3 DEF ReceiveIndexes
<1>9. /\ \A c \in Chain : \A e \in l[c].entries : e \in EntryType
      /\ \A c \in Chain : \A e \in m[c].entries : e \in EntryType
      /\ \A c \in Chain : l[c].logIndex \in Nat /\ l[c].htlcCounter \in Nat
  BY <1>3, EntriesOf
<1>10. /\ \A k \in Commitments(n) : k = new \/ k \in Commitments(d)
       /\ loc \in Commitments(d) /\ rem \in Commitments(d) /\ tip \in Commitments(d)
  BY <1>4 DEF Commitments
<1>21. \A k : Tip(n, "local") = new /\ Tip(n, "remote") = tip /\ Tip(d, "local") = loc
              /\ Tip(d, "remote") = tip
  BY <1>4 DEF Tip
<1>22. ParentsFetched(l, fetchHTLCView(l, upto), "local")
  OBVIOUS
<1>23. getUnsignedAckedUpdates(d, m, new) =
          LogUpdates({e \in m["remote"].entries :
              /\ e.logIndex >= rem.messageIndex["remote"]
              /\ e.logIndex < new.messageIndex["remote"]})
  BY DEF getUnsignedAckedUpdates
<1>24. d.commit["local"] = loc /\ d.commit["remote"] = rem /\ RemoteTip(d) = tip
  OBVIOUS
<1> HIDE DEF n, m, new, rem, loc, h, upto, tip
<1>25. \A c \in Chain : /\ loc.messageIndex[c] \in Nat /\ loc.htlcIndex[c] \in Nat
                        /\ rem.messageIndex[c] \in Nat /\ rem.htlcIndex[c] \in Nat
                        /\ tip.messageIndex[c] \in Nat /\ tip.htlcIndex[c] \in Nat
                        /\ new.messageIndex[c] \in Nat /\ new.htlcIndex[c] \in Nat
  BY <1>3, <1>5, CommitParts
<1>26. \A c \in Chain : loc.messageIndex[c] <= new.messageIndex[c]
                        /\ loc.htlcIndex[c] <= new.htlcIndex[c]
  <2>1. /\ loc.messageIndex["local"] <= rem.messageIndex["local"]
        /\ loc.htlcIndex["local"] <= rem.htlcIndex["local"]
        /\ loc.messageIndex["remote"] <= l["remote"].logIndex
        /\ loc.htlcIndex["remote"] <= l["remote"].htlcCounter
    BY <1>1, <1>24 DEF Ordered, Bounded
  <2> QED
    BY <1>3, <1>8, <2>1 DEF Chain
<1>11. Ordered(n)
  <2>1. /\ rem.messageIndex["local"] <= tip.messageIndex["local"]
        /\ rem.messageIndex["remote"] <= tip.messageIndex["remote"]
        /\ tip.messageIndex["remote"] <= new.messageIndex["remote"]
        /\ rem.htlcIndex["local"] <= tip.htlcIndex["local"]
        /\ rem.htlcIndex["remote"] <= tip.htlcIndex["remote"]
        /\ tip.htlcIndex["remote"] <= new.htlcIndex["remote"]
        /\ HasUnacked(n) => tip.height = rem.height + 1
    <3>1. /\ tip.messageIndex["remote"] <= loc.messageIndex["remote"]
          /\ tip.htlcIndex["remote"] <= loc.htlcIndex["remote"]
          /\ rem.messageIndex["local"] <= tip.messageIndex["local"]
          /\ rem.messageIndex["remote"] <= tip.messageIndex["remote"]
          /\ rem.htlcIndex["local"] <= tip.htlcIndex["local"]
          /\ rem.htlcIndex["remote"] <= tip.htlcIndex["remote"]
          /\ HasUnacked(d) => tip.height = rem.height + 1
      BY <1>1, <1>24 DEF Ordered
    <3> QED
      BY <1>2, <1>4, <1>25, <1>26, <3>1
  <2>2. \A k \in Commitments(n), c \in Chain : k.messageIndex[c] > 0 => k.height > 0
    BY <1>1, <1>3, <1>5, <1>10 DEF Ordered
  <2>3. new.messageIndex["local"] = rem.messageIndex["local"]
    BY <1>3, <1>8
  <2> QED
    BY <1>2, <1>4, <1>8, <1>25, <2>1, <2>2, <2>3 DEF Ordered
<1>12. Bounded(n, l)
  <2>1. new.messageIndex["remote"] = l["remote"].logIndex
    BY <1>3, <1>8
  <2> QED
    BY <1>1, <1>2, <1>4, <1>8, <1>9, <1>24, <2>1 DEF Bounded
<1>13. Stamped(n, m)
  <2> SUFFICES ASSUME NEW c \in Chain, NEW ch \in Chain, NEW f \in m[c].entries
               PROVE  StampedOn(n, f, c, ch)
    BY DEF Stamped
  <2>1. PICK e \in l[c].entries : f = Advanced(e, "local", upto[c], h)
    BY <1>7
  <2>2. e \in EntryType /\ StampedOn(d, e, c, "local") /\ StampedOn(d, e, c, "remote")
    BY <1>1, <1>2, <1>9 DEF Stamped
  <2>4. On(e, loc, c) => On(e, new, c)
    <3>1. e.logIndex \in Nat
      BY <2>2, EntryParts
    <3> QED
      BY <1>25, <1>26, <3>1 DEF On
  <2>5. CASE e.logIndex < upto[c] /\ StampOf(e, "local") = 0
    <3>1. f = Stamp(e, "local", h)
      BY <2>1, <2>5 DEF Advanced
    <3>2. /\ Like(e, f) /\ StampOf(f, "local") = h
          /\ f.added["remote"] = e.added["remote"] /\ f.removed["remote"] = e.removed["remote"]
          /\ e.type = "Add" => f.added["local"] = h /\ f.removed["local"] = e.removed["local"]
          /\ IsRemoval(e) => f.removed["local"] = h /\ f.added["local"] = e.added["local"]
          /\ e.type = "FeeUpdate" => f.added["local"] = h /\ f.removed["local"] = h
      BY <1>2, <1>5, <2>2, <3>1, StampEffect
    <3>3. /\ f.type = e.type
          /\ IsRemoval(f) <=> IsRemoval(e)
          /\ \A k, x : On(f, k, x) <=> On(e, k, x)
      BY <3>2, LikeParts
    <3>4. CASE ch = "remote"
      <4>1. StampOf(f, ch) = StampOf(e, ch)
        BY <3>2, <3>3, <3>4 DEF StampOf
      <4>2. Tip(n, ch) = Tip(d, ch) /\ n.commit[ch] = d.commit[ch]
        BY <1>4, <1>21, <1>24, <3>4
      <4> QED
        BY <2>2, <3>2, <3>3, <3>4, <4>1, <4>2 DEF StampedOn
    <3>5. CASE ch = "local"
      <4>1. On(f, new, c)
        BY <1>3, <2>5, <3>3 DEF On
      <4>2. StampOf(f, ch) = h /\ h # 0 /\ h <= new.height
        BY <1>3, <1>5, <3>2, <3>5
      <4>3. f.type = "FeeUpdate" => f.added[ch] = f.removed[ch]
        BY <3>2, <3>3, <3>5
      <4>4. IsRemoval(f) => f.added[ch] = 0
        BY <2>2, <3>2, <3>3, <3>5 DEF StampedOn
      <4>5. f.type = "Add" => f.removed[ch] = 0
        BY <2>2, <3>2, <3>3, <3>5 DEF StampedOn
      <4> QED
        BY <1>4, <1>21, <3>5, <4>1, <4>2, <4>3, <4>4, <4>5 DEF StampedOn
    <3> QED
      BY <3>4, <3>5 DEF Chain
  <2>6. CASE ~ (e.logIndex < upto[c] /\ StampOf(e, "local") = 0)
    <3>1. f = e
      BY <2>1, <2>6 DEF Advanced
    <3>2. CASE ch = "remote"
      BY <1>4, <1>21, <1>24, <2>2, <3>1, <3>2 DEF StampedOn
    <3>3. CASE ch = "local"
      <4>1. StampOf(e, "local") # 0 <=> On(e, new, c)
        BY <1>3, <1>21, <2>2, <2>4, <2>6 DEF StampedOn, On
      <4>2. StampOf(e, "local") \in Nat
        BY <1>2, <2>2, EntryParts
      <4>3. StampOf(e, "local") # 0 => StampOf(e, "local") <= new.height
        BY <1>3, <1>5, <1>21, <2>2, <4>2 DEF StampedOn
      <4> QED
        BY <1>4, <1>21, <2>2, <3>1, <3>3, <4>1, <4>3 DEF StampedOn
    <3> QED
      BY <3>2, <3>3 DEF Chain
  <2> QED
    BY <2>5, <2>6
<1>14. Complete(n, l)
  <2> SUFFICES ASSUME NEW c \in Chain, NEW i \in Nat
               PROVE  /\ (n.commit[c].messageIndex[c] <= i /\ i < l[c].logIndex) =>
                            \E e \in l[c].entries : e.logIndex = i
                      /\ (n.commit[c].htlcIndex[c] <= i /\ i < l[c].htlcCounter) =>
                            \E e \in AddsOf(l[c]) : e.id = i
    BY DEF Complete
  <2>1. /\ (d.commit[c].messageIndex[c] <= i /\ i < l[c].logIndex) =>
              \E e \in l[c].entries : e.logIndex = i
        /\ (d.commit[c].htlcIndex[c] <= i /\ i < l[c].htlcCounter) =>
              \E e \in AddsOf(l[c]) : e.id = i
    BY <1>1 DEF Complete
  <2>2. CASE c = "local"
    <3>1. n.commit[c] = new /\ d.commit[c] = loc
      BY <1>4, <1>24, <2>2
    <3> QED
      BY <1>25, <1>26, <2>1, <3>1
  <2>3. CASE c = "remote"
    BY <1>4, <1>24, <2>1, <2>3
  <2> QED
    BY <2>2, <2>3 DEF Chain
<1>15. Counters(n, l)
  <2> SUFFICES ASSUME NEW k \in Commitments(n), NEW c \in Chain, NEW e \in AddsOf(l[c])
               PROVE  e.id < k.htlcIndex[c] <=> On(e, k, c)
    BY DEF Counters
  <2>1. CASE k \in Commitments(d)
    BY <1>1, <2>1 DEF Counters
  <2>2. CASE k = new /\ c = "remote"
    BY <1>1, <1>3, <1>8, <1>9, <2>2 DEF Bounded, AddsOf, On
  <2>3. CASE k = new /\ c = "local"
    <3>1. e.id < rem.htlcIndex["local"] <=> On(e, rem, "local")
      BY <1>1, <1>10, <2>3 DEF Counters
    <3> QED
      BY <1>3, <1>8, <2>3, <3>1 DEF On
  <2> QED
    BY <1>10, <2>1, <2>2, <2>3 DEF Chain
<1>16. Contents(n, l)
  <2> SUFFICES ASSUME NEW k \in Commitments(n), NEW c \in Chain
               PROVE  k.htlcs[c] = OpenHtlcs(l, k, c)
    BY DEF Contents
  <2>1. CASE k \in Commitments(d)
    BY <1>1, <2>1 DEF Contents
  <2>2. CASE k = new
    <3>1. new.htlcs = [x \in Chain |-> {Htlc(e) : e \in Kept(fetchHTLCView(l, upto), x)}]
      BY <1>3 DEF fetchCommitmentView
    <3>2. new.htlcs[c] = OpenHtlcs(l, new, c)
      BY <1>3, <3>1, KeptIs DEF OpenHtlcs
    <3> QED
      BY <2>2, <3>2
  <2> QED
    BY <1>10, <2>1, <2>2
<1>17. Parents(n, l)
  <2> SUFFICES ASSUME NEW c \in Chain, NEW r \in l[c].entries, IsRemoval(r)
               PROVE  \E a \in AddsOf(l[Opposite(c)]) : ParentOf(n, l, c, r, a)
    BY <1>1 DEF Parents
  <2>1. PICK a \in AddsOf(l[Opposite(c)]) : ParentOf(d, l, c, r, a)
    BY <1>1 DEF Parents
  <2>2. Opposite(c) \in Chain /\ a \in l[Opposite(c)].entries /\ a.type = "Add" /\ a.id = r.id
    BY <2>1 DEF AddsOf, Opposite, Chain, ParentOf
  <2>3. On(a, new, Opposite(c))
    <3>1. CASE c = "local"
      <4>1. a.logIndex < l["remote"].logIndex
        BY <1>1, <1>2, <2>2, <3>1 DEF Bounded
      <4> QED
        BY <1>2, <1>3, <1>8, <3>1, <4>1 DEF On
    <3>2. CASE c = "remote"
      <4>1. r.logIndex < upto["remote"]
        BY <1>1, <1>2, <1>8, <3>2 DEF Bounded
      <4>2. PICK b \in AddsOf(l["local"]) : b.id = r.id /\ b.added["local"] # 0
        BY <1>2, <1>22, <3>2, <4>1 DEF ParentsFetched, fetchHTLCView
      <4>3. b = a
        BY <1>1, <1>2, <2>2, <3>2, <4>2 DEF Distinct, AddsOf
      <4>4. StampedOn(d, a, "local", "local") /\ a \in EntryType
        BY <1>1, <1>2, <1>9, <2>2, <3>2 DEF Stamped
      <4>5. On(a, loc, "local")
        BY <1>21, <2>2, <4>2, <4>3, <4>4 DEF StampedOn, StampOf
      <4>6. a.logIndex \in Nat
        BY <4>4, EntryParts
      <4> QED
        BY <1>2, <1>25, <1>26, <3>2, <4>5, <4>6 DEF On
    <3> QED
      BY <3>1, <3>2 DEF Chain
  <2>4. ParentOf(n, l, c, r, a)
    BY <1>10, <2>1, <2>3 DEF ParentOf
  <2> QED
    BY <2>1, <2>4
<1>18. Stored(n, m)
  <2>1. Stored(d, m)
    BY <1>1, <1>6, AlikeParts
  <2>2. n.unsignedAckedUpdates.updates =
            LogUpdates({e \in m["remote"].entries :
                ~ On(e, rem, "remote") /\ On(e, new, "remote")})
    <3> DEFINE A == {e \in m["remote"].entries : ~ On(e, rem, "remote") /\ On(e, new, "remote")}
               B == {e \in m["remote"].entries : e.logIndex >= rem.messageIndex["remote"]
                                                /\ e.logIndex < new.messageIndex["remote"]}
    <3>1. A = B
      <4>1. \A e \in m["remote"].entries : e.logIndex \in Nat
        BY <1>2, <1>9, EntryParts
      <4> QED
        BY <1>2, <1>25, <4>1 DEF On
    <3>2. getUnsignedAckedUpdates(d, m, new) = LogUpdates(B)
      BY <1>23
    <3> HIDE DEF A, B
    <3>3. n.unsignedAckedUpdates.updates = LogUpdates(A)
      BY <1>3, <3>1, <3>2 DEF Written
    <3> QED
      BY <3>3 DEF A
  <2>3. n.remoteUnsignedLocalUpdates.updates = {}
    <3>1. \A u \in d.remoteUnsignedLocalUpdates.updates :
              ~ (u.logIndex >= new.messageIndex["local"])
      <4>1. new.messageIndex["local"] = rem.messageIndex["local"]
        BY <1>3, <1>8
      <4>2. SUFFICES ASSUME NEW e \in m["local"].entries, On(e, rem, "local")
                     PROVE  ~ (LogUpdate(e).logIndex >= rem.messageIndex["local"])
        BY <1>24, <2>1, <4>1 DEF Stored, LogUpdates
      <4>3. e.logIndex \in Nat
        BY <1>2, <1>9, EntryParts
      <4> QED
        BY <1>2, <1>25, <4>2, <4>3 DEF On, LogUpdate
    <3> QED
      BY <1>3, <3>1 DEF UpdatesFrom
  <2>4. {e \in m["local"].entries :
            e.type # "Add" /\ ~ On(e, new, "local") /\ On(e, rem, "local")} = {}
    BY <1>3, <1>8 DEF On
  <2>5. LogUpdates({}) = {}
    BY DEF LogUpdates
  <2>6. HasUnacked(n) => n.diff.updates =
              LogUpdates({e \in m["local"].entries :
                  ~ On(e, rem, "local") /\ On(e, tip, "local")})
    BY <1>3, <1>4, <1>24, <2>1 DEF Stored
  <2>7. \A e \in m["remote"].entries : e.isForwarded => On(e, rem, "remote")
    BY <1>24, <2>1 DEF Stored
  <2> QED
    BY <1>4, <2>2, <2>3, <2>4, <2>5, <2>6, <2>7 DEF Stored
<1>19. Keys(n, m)
  BY <1>3 DEF Keys, Written
<1>20. Packages(n)
  BY <1>1, <1>3, <1>4, <1>24 DEF Packages, HandedOver
<1>27. /\ Bounded(n, m) /\ Complete(n, m) /\ Counters(n, m) /\ Contents(n, m)
       /\ Parents(n, m)
  BY <1>6, <1>12, <1>14, <1>15, <1>16, <1>17, AlikeParts
<1> QED
  BY <1>6, <1>11, <1>13, <1>18, <1>19, <1>20, <1>27 DEF LogInv, n, m

\* Entries of the peer's log are marked as handed over.
LEMMA MarkedLogsAre ==
    ASSUME NEW d \in DiskType, NEW l \in LogsType
    PROVE  LET m == MarkedLogs(d, l)
           IN  /\ m \in LogsType /\ m["local"] = l["local"]
               /\ m["remote"].logIndex = l["remote"].logIndex
               /\ m["remote"].htlcCounter = l["remote"].htlcCounter
               /\ m["remote"].modified = l["remote"].modified
               /\ \A e \in l["remote"].entries : \E f \in m["remote"].entries :
                     /\ f.type = e.type /\ f.logIndex = e.logIndex /\ f.id = e.id
                     /\ f.added = e.added /\ f.removed = e.removed
                     /\ f.isForwarded <=> e.isForwarded \/ e \in NewlyLocked(d, l)
               /\ \A f \in m["remote"].entries : \E e \in l["remote"].entries :
                     /\ f.type = e.type /\ f.logIndex = e.logIndex /\ f.id = e.id
                     /\ f.added = e.added /\ f.removed = e.removed
                     /\ f.isForwarded <=> e.isForwarded \/ e \in NewlyLocked(d, l)
               /\ Distinct(l) => Distinct(m)
<1> DEFINE m == MarkedLogs(d, l)
           F == NewlyLocked(d, l)
           mark(e) == IF e \in F THEN [e EXCEPT !.isForwarded = TRUE] ELSE e
           E == {mark(e) : e \in l["remote"].entries}
           g == [l["remote"] EXCEPT !.entries = E]
<1>1. "local" \in Chain /\ "remote" \in Chain /\ \A c \in Chain : c = "local" \/ c = "remote"
  BY DEF Chain
<1>2. l["remote"] \in LogType /\ l["remote"].entries \in SUBSET EntryType
      /\ IsFiniteSet(l["remote"].entries) /\ IsFiniteSet(l["local"].entries)
      /\ l["local"] \in LogType /\ l = [c \in Chain |-> l[c]]
  BY <1>1, EntriesOf DEF LogsType
<1>3. m = [l EXCEPT !["remote"] = g]
  BY DEF MarkedLogs
<1>4. ASSUME NEW e \in EntryType
      PROVE  LET f == mark(e)
             IN  /\ f \in EntryType
                 /\ f.type = e.type /\ f.logIndex = e.logIndex /\ f.id = e.id
                 /\ f.added = e.added /\ f.removed = e.removed
                 /\ f.isForwarded <=> e.isForwarded \/ e \in F
  <2> DEFINE f == mark(e)
  <2>1. CASE e \in F
    <3>1. f = [e EXCEPT !.isForwarded = TRUE]
      BY <2>1
    <3>2. e = [type |-> e.type, logIndex |-> e.logIndex, id |-> e.id,
               added |-> e.added, removed |-> e.removed, isForwarded |-> e.isForwarded]
      BY DEF EntryType
    <3> HIDE DEF f
    <3>3. f = [type |-> e.type, logIndex |-> e.logIndex, id |-> e.id,
               added |-> e.added, removed |-> e.removed, isForwarded |-> TRUE]
      BY <3>1, <3>2
    <3> QED
      BY <2>1, <3>3 DEF EntryType, f
  <2>2. CASE e \notin F
    <3>1. f = e
      BY <2>2
    <3> HIDE DEF f
    <3>2. e.isForwarded \in BOOLEAN
      BY EntryParts
    <3> QED
      BY <2>2, <3>1, <3>2 DEF f
  <2> QED
    BY <2>1, <2>2
<1>5. E \in SUBSET EntryType
  BY <1>2, <1>4
<1>6. IsFiniteSet(E)
  <2> DEFINE h == [e \in l["remote"].entries |-> mark(e)]
  <2>1. \A y \in E : \E x \in l["remote"].entries : y = h[x]
    OBVIOUS
  <2> HIDE DEF h, E
  <2> QED
    BY <1>2, <2>1, FiniteImage
<1>7. \A y \in E : \E e \in l["remote"].entries : y = mark(e)
  OBVIOUS
<1>8. \A e \in l["remote"].entries : mark(e) \in E
  OBVIOUS
<1> HIDE DEF E, mark, F
<1>14. g = [l["remote"] EXCEPT !.entries = E]
  OBVIOUS
<1> HIDE DEF g
<1>9. /\ g \in LogType /\ g.entries = E
      /\ g.logIndex = l["remote"].logIndex /\ g.htlcCounter = l["remote"].htlcCounter
      /\ g.modified = l["remote"].modified
  <2>1. l["remote"] \in LogType
    BY <1>2
  <2>2. ASSUME NEW k \in LogType, NEW S \in SUBSET EntryType, g = [k EXCEPT !.entries = S]
        PROVE  /\ g \in LogType /\ g.entries = S
               /\ g.logIndex = k.logIndex /\ g.htlcCounter = k.htlcCounter
               /\ g.modified = k.modified
    BY <2>2, WithEntries
  <2> QED
    BY <1>5, <1>14, <2>1, <2>2
<1> HIDE DEF m
<1>10. m["remote"] = g /\ m["local"] = l["local"] /\ m = [c \in Chain |-> m[c]]
  BY <1>1, <1>2, <1>3
<1>11. m \in LogsType
  BY <1>1, <1>2, <1>6, <1>9, <1>10, LogsAre
<1>12. /\ \A e \in l["remote"].entries : \E f \in m["remote"].entries :
                     /\ f.type = e.type /\ f.logIndex = e.logIndex /\ f.id = e.id
                     /\ f.added = e.added /\ f.removed = e.removed
                     /\ f.isForwarded <=> e.isForwarded \/ e \in F
       /\ \A f \in m["remote"].entries : \E e \in l["remote"].entries :
                     /\ f.type = e.type /\ f.logIndex = e.logIndex /\ f.id = e.id
                     /\ f.added = e.added /\ f.removed = e.removed
                     /\ f.isForwarded <=> e.isForwarded \/ e \in F
  <2>1. \A e \in l["remote"].entries : mark(e) \in m["remote"].entries /\ e \in EntryType
    BY <1>2, <1>8, <1>9, <1>10
  <2>2. \A f \in m["remote"].entries : \E e \in l["remote"].entries :
            f = mark(e) /\ e \in EntryType
    BY <1>2, <1>7, <1>9, <1>10
  <2> QED
    BY <1>4, <2>1, <2>2
<1>13. ASSUME Distinct(l) PROVE Distinct(m)
  <2> SUFFICES ASSUME NEW c \in Chain, NEW f \in m[c].entries, NEW h \in m[c].entries
               PROVE  /\ f.logIndex = h.logIndex => f = h
                      /\ (f.type = "Add" /\ h.type = "Add" /\ f.id = h.id) => f = h
                      /\ (IsRemoval(f) /\ IsRemoval(h) /\ f.id = h.id) => f = h
    BY DEF Distinct
  <2>1. CASE c = "local"
    BY <1>10, <1>13, <2>1 DEF Distinct
  <2>2. CASE c = "remote"
    <3>1. PICK x \in l["remote"].entries : f = mark(x) /\ x \in EntryType
      BY <1>2, <1>7, <1>9, <1>10, <2>2
    <3>2. PICK y \in l["remote"].entries : h = mark(y) /\ y \in EntryType
      BY <1>2, <1>7, <1>9, <1>10, <2>2
    <3>3. /\ f.type = x.type /\ f.logIndex = x.logIndex /\ f.id = x.id
          /\ h.type = y.type /\ h.logIndex = y.logIndex /\ h.id = y.id
      BY <1>4, <3>1, <3>2
    <3>4. /\ x.logIndex = y.logIndex => x = y
          /\ (x.type = "Add" /\ y.type = "Add" /\ x.id = y.id) => x = y
          /\ (IsRemoval(x) /\ IsRemoval(y) /\ x.id = y.id) => x = y
      BY <1>1, <1>13 DEF Distinct
    <3> QED
      BY <3>1, <3>2, <3>3, <3>4 DEF IsRemoval
  <2> QED
    BY <1>1, <2>1, <2>2
<1> QED
  BY <1>9, <1>10, <1>11, <1>12, <1>13 DEF m, F

\* What a revocation locks in: updates of the peer, no fee updates, that the
\* commitment it ends the chain at is the first to include.
LEMMA LockedInAre ==
    ASSUME NEW d \in DiskType, NEW l \in LogsType, LogInv(d, l), HasUnacked(d),
           NEW e \in l["remote"].entries
    PROVE  e \in NewlyLocked(d, l) <=>
               /\ e.type # "FeeUpdate"
               /\ On(e, RemoteTip(d), "remote") /\ ~ On(e, d.commit["remote"], "remote")
<1>1. Ordered(d) /\ Stamped(d, l) /\ Stored(d, l)
  BY DEF LogInv
<1>2. "local" \in Chain /\ "remote" \in Chain
  BY DEF Chain
<1>3. /\ e \in EntryType
      /\ StampedOn(d, e, "remote", "local") /\ StampedOn(d, e, "remote", "remote")
  BY <1>1, <1>2, EntriesOf DEF Stamped
<1>4. /\ e.added["local"] \in Nat /\ e.removed["local"] \in Nat
      /\ e.added["remote"] \in Nat /\ e.removed["remote"] \in Nat
      /\ StampOf(e, "local") \in Nat /\ StampOf(e, "remote") \in Nat
      /\ e.isForwarded \in BOOLEAN
  BY <1>2, <1>3, EntryParts
<1>5. /\ d.commit["local"].height \in Nat /\ d.commit["remote"].height \in Nat
      /\ RemoteTip(d).height = d.commit["remote"].height + 1
      /\ RevokedTail(d)["local"] = d.commit["local"].height
      /\ RevokedTail(d)["remote"] = d.commit["remote"].height + 1
  BY <1>1, <1>2, OrderedParts DEF RevokedTail
<1>6. e \in NewlyLocked(d, l) <=>
          /\ e.type # "FeeUpdate"
          /\ ~ e.isForwarded
          /\ StampOf(e, "local") \in 1 .. d.commit["local"].height
          /\ StampOf(e, "remote") = d.commit["remote"].height + 1
  BY <1>5 DEF NewlyLocked, LockedIn, StampOf
<1>7. StampOf(e, "local") \in 1 .. d.commit["local"].height <=> On(e, d.commit["local"], "remote")
  BY <1>3, <1>4, <1>5 DEF StampedOn, Tip
<1>8. StampOf(e, "remote") = d.commit["remote"].height + 1 <=>
          On(e, RemoteTip(d), "remote") /\ ~ On(e, d.commit["remote"], "remote")
  <2>1. /\ StampOf(e, "remote") # 0 <=> On(e, RemoteTip(d), "remote")
        /\ StampOf(e, "remote") # 0 =>
              /\ StampOf(e, "remote") <= RemoteTip(d).height
              /\ StampOf(e, "remote") <= d.commit["remote"].height <=>
                    On(e, d.commit["remote"], "remote")
    BY <1>3 DEF StampedOn, Tip
  <2> QED
    BY <1>4, <1>5, <2>1
<1>9. e.isForwarded => On(e, d.commit["remote"], "remote")
  BY <1>1 DEF Stored
<1>10. On(e, RemoteTip(d), "remote") => On(e, d.commit["local"], "remote")
  BY <1>1, <1>3, OnOrder
<1> QED
  BY <1>6, <1>7, <1>8, <1>9, <1>10

\* The bucket after a revocation.
LEMMA RevokedType ==
    ASSUME NEW d \in DiskType, NEW l \in LogsType, HasUnacked(d)
    PROVE  LET n == RevokedDisk(d, l)
               F == NewlyLocked(d, l)
           IN  /\ n \in DiskType
               /\ n.commit["local"] = d.commit["local"] /\ n.commit["remote"] = RemoteTip(d)
               /\ ~ HasUnacked(n) /\ RemoteTip(n) = RemoteTip(d)
               /\ n.fwdPkgs = d.fwdPkgs \cup
                    {[height |-> d.commit["remote"].height + 1, updates |-> LogUpdates(F)]}
               /\ F \in SUBSET l["remote"].entries /\ LogUpdates(F) \in SUBSET LogUpdateType
               /\ ~ d.unsignedAckedUpdates.written =>
                    /\ n.unsignedAckedUpdates = d.unsignedAckedUpdates
                    /\ n.remoteUnsignedLocalUpdates = d.remoteUnsignedLocalUpdates
               /\ d.unsignedAckedUpdates.written =>
                    /\ n.unsignedAckedUpdates.written
                    /\ n.unsignedAckedUpdates.updates =
                         UpdatesFrom(d.unsignedAckedUpdates.updates,
                                     RemoteTip(d).messageIndex["remote"])
                    /\ n.remoteUnsignedLocalUpdates.updates = unsignedLocalUpdates(d, l)
<1> DEFINE n == RevokedDisk(d, l)
           F == NewlyLocked(d, l)
           pkg == [height |-> d.commit["remote"].height + 1, updates |-> LogUpdates(F)]
           U == unsignedLocalUpdates(d, l)
           E == {e \in l["local"].entries :
                    /\ e.type # "Add"
                    /\ e.logIndex < d.diff.commit.messageIndex["local"]
                    /\ e.logIndex >= d.commit["local"].messageIndex["local"]}
<1>1. "local" \in Chain /\ "remote" \in Chain
  BY DEF Chain
<1>2. F \in SUBSET l["remote"].entries
  BY DEF NewlyLocked, LockedIn
<1>3. U = LogUpdates(E) /\ E \in SUBSET l["local"].entries
  BY DEF unsignedLocalUpdates
<1>4. n = AdvanceCommitChainTail(d, pkg, U)
  BY DEF RevokedDisk, RevokedTail
<1> HIDE DEF n, F, U, E
<1>5. LogUpdates(F) \in SUBSET LogUpdateType
  <2>1. F \in SUBSET EntryType /\ IsFiniteSet(F)
    BY <1>1, <1>2, EntriesOf, FS_Subset
  <2> QED
    BY <2>1, FiniteUpdates
<1>6. U \in SUBSET LogUpdateType /\ IsFiniteSet(U)
  <2>1. E \in SUBSET EntryType /\ IsFiniteSet(E)
    BY <1>1, <1>3, EntriesOf, FS_Subset
  <2> QED
    BY <1>3, <2>1, FiniteUpdates
<1>7. pkg \in [height : Nat, updates : SUBSET LogUpdateType]
  <2>1. d.commit["remote"].height \in Nat
    BY <1>1, DiskParts, CommitParts
  <2> QED
    BY <1>5, <2>1
<1> HIDE DEF pkg
<1>8. /\ n \in DiskType
      /\ n.commit = [local |-> d.commit["local"], remote |-> d.diff.commit]
      /\ n.diff = NoDiff /\ n.fwdPkgs = d.fwdPkgs \cup {pkg}
      /\ ~ d.unsignedAckedUpdates.written =>
           /\ n.unsignedAckedUpdates = d.unsignedAckedUpdates
           /\ n.remoteUnsignedLocalUpdates = d.remoteUnsignedLocalUpdates
      /\ d.unsignedAckedUpdates.written =>
           /\ n.unsignedAckedUpdates =
                Written(UpdatesFrom(d.unsignedAckedUpdates.updates,
                                    d.diff.commit.messageIndex["remote"]))
           /\ n.remoteUnsignedLocalUpdates = Written(U)
  BY <1>4, <1>6, <1>7, AdvancedType
<1>9. RemoteTip(d) = d.diff.commit
  BY DEF RemoteTip
<1>10. ~ HasUnacked(n) /\ RemoteTip(n) = n.commit["remote"]
  BY <1>8 DEF HasUnacked, RemoteTip
<1> QED
  BY <1>2, <1>5, <1>8, <1>9, <1>10 DEF Written, n, F, U, pkg

\* The HTLCs and removals a package holds.
LEMMA InPackage ==
    ASSUME NEW F \in SUBSET EntryType, NEW t, NEW id,
           NEW u \in LogUpdates(F), u.type \in t, u.id = id
    PROVE  \E e \in F : e.type \in t /\ e.id = id /\ u = LogUpdate(e)
BY DEF LogUpdates, LogUpdate

\* An HTLC of ours leaves the commitment of the peer with its removal.
LEMMA GoneIs ==
    ASSUME NEW d \in DiskType, NEW l \in LogsType, LogInv(d, l), NEW k \in Commitments(d),
           NEW a \in AddsOf(l["local"])
    PROVE  Gone(k, a.id) <=> On(a, k, "local") /\ ResolvedAt(l, k, "local", a.id)
<1>1. Counters(d, l) /\ Contents(d, l) /\ Distinct(l)
  BY DEF LogInv
<1>2. "local" \in Chain
  BY DEF Chain
<1>3. a.id < k.htlcIndex["local"] <=> On(a, k, "local")
  BY <1>1, <1>2 DEF Counters
<1>4. k.htlcs["local"] = OpenHtlcs(l, k, "local")
  BY <1>1, <1>2 DEF Contents
<1>5. ASSUME On(a, k, "local")
      PROVE  (\E h \in k.htlcs["local"] : h.id = a.id) <=> ~ ResolvedAt(l, k, "local", a.id)
  <2>1. ASSUME NEW h \in k.htlcs["local"], h.id = a.id
        PROVE  ~ ResolvedAt(l, k, "local", a.id)
    <3>1. PICK b \in OpenAt(l, k, "local") : h = Htlc(b)
      BY <1>4, <2>1 DEF OpenHtlcs
    <3>2. b.id = a.id /\ ~ ResolvedAt(l, k, "local", b.id)
      BY <2>1, <3>1 DEF Htlc, OpenAt
    <3> QED
      BY <3>2
  <2>2. ASSUME ~ ResolvedAt(l, k, "local", a.id)
        PROVE  \E h \in k.htlcs["local"] : h.id = a.id
    <3>1. a \in OpenAt(l, k, "local")
      BY <1>5, <2>2 DEF OpenAt
    <3>2. Htlc(a) \in k.htlcs["local"] /\ Htlc(a).id = a.id
      BY <1>4, <3>1 DEF OpenHtlcs, Htlc
    <3> QED
      BY <3>2
  <2> QED
    BY <2>1, <2>2
<1> QED
  BY <1>3, <1>5 DEF Gone

\* A removal by the peer is of an HTLC of ours that is on the commitment.
LEMMA RemovedIs ==
    ASSUME NEW d \in DiskType, NEW l \in LogsType, LogInv(d, l), NEW k \in Commitments(d),
           NEW r \in l["remote"].entries, IsRemoval(r), On(r, k, "remote")
    PROVE  Gone(k, r.id) /\ \E a \in AddsOf(l["local"]) : a.id = r.id /\ On(a, k, "local")
<1>1. /\ "local" \in Chain /\ "remote" \in Chain /\ Opposite("remote") = "local"
      /\ Opposite("local") = "remote"
  BY DEF Chain, Opposite
<1>2. PICK a \in AddsOf(l["local"]) : ParentOf(d, l, "remote", r, a)
  BY <1>1 DEF LogInv, Parents
<1>3. a.id = r.id /\ On(a, k, "local")
  BY <1>1, <1>2 DEF ParentOf
<1>4. ResolvedAt(l, k, "local", r.id)
  BY <1>1 DEF ResolvedAt
<1> QED
  BY <1>3, <1>4, GoneIs

\* An HTLC of ours that is gone and was not before is removed just now.
LEMMA GoneNow ==
    ASSUME NEW d \in DiskType, NEW l \in LogsType, LogInv(d, l), NEW id \in Nat,
           Gone(RemoteTip(d), id), ~ Gone(d.commit["remote"], id)
    PROVE  \E r \in l["remote"].entries :
              /\ IsRemoval(r) /\ r.id = id /\ On(r, RemoteTip(d), "remote")
              /\ ~ On(r, d.commit["remote"], "remote")
<1> DEFINE rem == d.commit["remote"]
           tip == RemoteTip(d)
<1>1. /\ Ordered(d) /\ Bounded(d, l) /\ Complete(d, l) /\ Contents(d, l) /\ Counters(d, l)
      /\ rem \in Commitments(d) /\ tip \in Commitments(d)
      /\ "local" \in Chain /\ "remote" \in Chain
      /\ Opposite("local") = "remote" /\ Opposite("remote") = "local"
  BY DEF LogInv, Commitments, Chain, Opposite
<1>2. id < tip.htlcIndex["local"]
  BY DEF Gone
<1>3. \E a \in AddsOf(l["local"]) : a.id = id
  <2>1. CASE id < rem.htlcIndex["local"]
    <3>1. PICK h \in rem.htlcs["local"] : h.id = id
      BY <2>1 DEF Gone
    <3>2. rem.htlcs["local"] = OpenHtlcs(l, rem, "local")
      BY <1>1 DEF Contents
    <3>3. PICK b \in OpenAt(l, rem, "local") : h = Htlc(b)
      BY <3>1, <3>2 DEF OpenHtlcs
    <3> QED
      BY <3>1, <3>3 DEF OpenAt, Htlc
  <2>2. CASE ~ (id < rem.htlcIndex["local"])
    <3>1. d.commit["local"].htlcIndex["local"] <= id
      BY <1>1, <2>2, OrderedParts
    <3>2. id < l["local"].htlcCounter
      BY <1>1, <1>2, OrderedParts, EntriesOf DEF Bounded
    <3> QED
      BY <1>1, <3>1, <3>2 DEF Complete
  <2> QED
    BY <2>1, <2>2
<1>4. PICK a \in AddsOf(l["local"]) : a.id = id
  BY <1>3
<1>5. ResolvedAt(l, tip, "local", id)
  BY <1>1, <1>4, GoneIs
<1>6. PICK r \in l["remote"].entries : IsRemoval(r) /\ r.id = id /\ On(r, tip, "remote")
  BY <1>1, <1>5 DEF ResolvedAt
<1>7. ~ On(r, rem, "remote")
  BY <1>1, <1>6, RemovedIs
<1> QED
  BY <1>6, <1>7

\* What is handed over with a revocation was not handed over before.
LEMMA HandedOverNow ==
    ASSUME NEW d \in DiskType, NEW l \in LogsType, LogInv(d, l), HasUnacked(d)
    PROVE  Packages(RevokedDisk(d, l))
<1> DEFINE n == RevokedDisk(d, l)
           rem == d.commit["remote"]
           tip == RemoteTip(d)
           F == NewlyLocked(d, l)
           pkg == [height |-> rem.height + 1, updates |-> LogUpdates(F)]
<1>1. /\ Ordered(d) /\ Bounded(d, l) /\ Complete(d, l) /\ Contents(d, l) /\ Counters(d, l)
      /\ Packages(d) /\ Distinct(l)
      /\ rem \in Commitments(d) /\ tip \in Commitments(d)
      /\ "local" \in Chain /\ "remote" \in Chain
      /\ Opposite("local") = "remote" /\ Opposite("remote") = "local"
  BY DEF LogInv, Commitments, Chain, Opposite
<1>2. /\ n.commit["remote"] = tip /\ n.fwdPkgs = d.fwdPkgs \cup {pkg}
      /\ F \in SUBSET l["remote"].entries
  BY RevokedType
<1>3. /\ l["remote"].entries \in SUBSET EntryType
      /\ l["remote"].htlcCounter \in Nat
  BY <1>1, EntriesOf
<1>4. \A e \in l["remote"].entries : e \in F <=>
          /\ e.type # "FeeUpdate" /\ On(e, tip, "remote") /\ ~ On(e, rem, "remote")
  BY LockedInAre
<1>5. pkg.height = rem.height + 1 /\ pkg.updates = LogUpdates(F)
      /\ tip.height = rem.height + 1 /\ rem.height \in Nat
      /\ d.commit["remote"] = rem
  BY <1>1, OrderedParts
<1>6. \A p \in d.fwdPkgs : p.height \in Nat /\ p.updates \in SUBSET LogUpdateType
  BY DiskFields
<1> HIDE DEF n, rem, tip, F, pkg
<1>7. F \in SUBSET EntryType
  BY <1>2, <1>3
<1>8. ASSUME NEW p \in n.fwdPkgs
      PROVE  p.height <= tip.height /\ \A u \in p.updates : u.type # "FeeUpdate"
  <2>1. CASE p \in d.fwdPkgs
    BY <1>1, <1>5, <1>6, <2>1 DEF Packages
  <2>2. CASE p = pkg
    BY <1>2, <1>4, <1>5, <2>2 DEF LogUpdates, LogUpdate
  <2> QED
    BY <1>2, <2>1, <2>2
<1>9. ASSUME NEW t, NEW id
      PROVE  HandedOver(n, t, id) <=>
                HandedOver(d, t, id) \/ \E e \in F : e.type \in t /\ e.id = id
  <2>1. ASSUME HandedOver(n, t, id), ~ HandedOver(d, t, id)
        PROVE  \E e \in F : e.type \in t /\ e.id = id
    <3>1. PICK u \in pkg.updates : u.type \in t /\ u.id = id
      BY <1>2, <2>1 DEF HandedOver
    <3> QED
      BY <1>5, <1>7, <3>1, InPackage
  <2>2. ASSUME NEW e \in F, e.type \in t, e.id = id
        PROVE  HandedOver(n, t, id)
    <3>1. /\ LogUpdate(e) \in pkg.updates /\ LogUpdate(e).type \in t
          /\ LogUpdate(e).id = id
      BY <1>5, <2>2 DEF LogUpdates, LogUpdate
    <3> QED
      BY <1>2, <3>1 DEF HandedOver
  <2>3. HandedOver(d, t, id) => HandedOver(n, t, id)
    BY <1>2 DEF HandedOver
  <2> QED
    BY <2>1, <2>2, <2>3
<1>10. ASSUME NEW id \in Nat
       PROVE  HandedOver(n, {"Add"}, id) <=> id < tip.htlcIndex["remote"]
  <2>1. HandedOver(d, {"Add"}, id) <=> id < rem.htlcIndex["remote"]
    BY <1>1, <1>5 DEF Packages
  <2>2. /\ rem.htlcIndex["remote"] \in Nat /\ tip.htlcIndex["remote"] \in Nat
        /\ rem.htlcIndex["remote"] <= tip.htlcIndex["remote"]
    BY <1>1, OrderedParts DEF rem, tip
  <2>3. \A e \in AddsOf(l["remote"]) :
            /\ e.id < rem.htlcIndex["remote"] <=> On(e, rem, "remote")
            /\ e.id < tip.htlcIndex["remote"] <=> On(e, tip, "remote")
    BY <1>1 DEF Counters
  <2>4. ASSUME NEW e \in F, e.type = "Add", e.id = id
        PROVE  id < tip.htlcIndex["remote"]
    BY <1>2, <1>4, <2>3, <2>4 DEF AddsOf
  <2>5. ASSUME id < tip.htlcIndex["remote"], ~ (id < rem.htlcIndex["remote"])
        PROVE  \E e \in F : e.type = "Add" /\ e.id = id
    <3>1. id < l["remote"].htlcCounter
      <4>1. /\ tip.htlcIndex["remote"] <= d.commit["local"].htlcIndex["remote"]
            /\ d.commit["local"].htlcIndex["remote"] <= l["remote"].htlcCounter
            /\ d.commit["local"].htlcIndex["remote"] \in Nat
        BY <1>1, OrderedParts DEF tip, Bounded
      <4> QED
        BY <1>3, <2>2, <2>5, <4>1
    <3>2. PICK e \in AddsOf(l["remote"]) : e.id = id
      BY <1>1, <1>5, <2>2, <2>5, <3>1 DEF Complete
    <3>3. e \in F
      BY <1>4, <2>3, <2>5, <3>2 DEF AddsOf
    <3> QED
      BY <3>2, <3>3 DEF AddsOf
  <2> QED
    BY <1>9, <2>1, <2>2, <2>4, <2>5
<1>11. ASSUME NEW e \in F, IsRemoval(e)
       PROVE  ~ Gone(rem, e.id) /\ Gone(tip, e.id)
  <2>1. e \in l["remote"].entries /\ On(e, tip, "remote") /\ ~ On(e, rem, "remote")
    BY <1>2, <1>4
  <2>2. Gone(tip, e.id)
    BY <1>1, <1>11, <2>1, RemovedIs
  <2>3. PICK a \in AddsOf(l["local"]) : a.id = e.id /\ On(a, tip, "local")
    BY <1>1, <1>11, <2>1, RemovedIs
  <2>4. ASSUME Gone(rem, e.id)
        PROVE  FALSE
    <3>1. ResolvedAt(l, rem, "local", e.id)
      BY <1>1, <2>3, <2>4, GoneIs
    <3>2. PICK r \in l["remote"].entries : IsRemoval(r) /\ r.id = e.id /\ On(r, rem, "remote")
      BY <1>1, <3>1 DEF ResolvedAt
    <3>3. r = e
      BY <1>1, <1>11, <2>1, <3>2 DEF Distinct
    <3> QED
      BY <2>1, <3>2, <3>3
  <2> QED
    BY <2>2, <2>4
<1>12. ASSUME NEW id \in Nat
       PROVE  HandedOver(n, {"Settle", "Fail"}, id) <=> Gone(tip, id)
  <2>1. HandedOver(d, {"Settle", "Fail"}, id) <=> Gone(rem, id)
    BY <1>1, <1>5 DEF Packages
  <2>2. ASSUME Gone(rem, id)
        PROVE  Gone(tip, id)
    <3>1. \A k : k = rem \/ k = tip => k.htlcIndex["local"] \in Nat
      BY <1>1, OrderedParts DEF rem, tip
    <3>2. id < tip.htlcIndex["local"]
      BY <1>1, <2>2, <3>1, OrderedParts DEF Gone, rem, tip
    <3>3. ASSUME NEW h \in tip.htlcs["local"], h.id = id
          PROVE  FALSE
      <4>1. tip.htlcs["local"] = OpenHtlcs(l, tip, "local")
        BY <1>1 DEF Contents
      <4>2. PICK a \in OpenAt(l, tip, "local") : h = Htlc(a)
        BY <3>3, <4>1 DEF OpenHtlcs
      <4>3. a \in AddsOf(l["local"]) /\ a.id = id /\ ~ ResolvedAt(l, tip, "local", id)
        BY <3>3, <4>2 DEF OpenAt, Htlc
      <4>4. ResolvedAt(l, rem, "local", id)
        BY <1>1, <2>2, <4>3, GoneIs
      <4>5. PICK r \in l["remote"].entries : IsRemoval(r) /\ r.id = id /\ On(r, rem, "remote")
        BY <1>1, <4>4 DEF ResolvedAt
      <4>6. On(r, tip, "remote")
        BY <1>1, <1>3, <4>5, OnOrder DEF rem, tip
      <4> QED
        BY <1>1, <4>3, <4>5, <4>6 DEF ResolvedAt
    <3> QED
      BY <3>2, <3>3 DEF Gone
  <2>3. ASSUME Gone(tip, id), ~ Gone(rem, id)
        PROVE  \E e \in F : e.type \in {"Settle", "Fail"} /\ e.id = id
    <3>1. PICK r \in l["remote"].entries :
              /\ IsRemoval(r) /\ r.id = id /\ On(r, tip, "remote") /\ ~ On(r, rem, "remote")
      BY <2>3, GoneNow DEF tip, rem
    <3>2. r \in F
      BY <1>4, <3>1 DEF IsRemoval
    <3> QED
      BY <3>1, <3>2 DEF IsRemoval
  <2>4. ASSUME NEW e \in F, e.type \in {"Settle", "Fail"}, e.id = id
        PROVE  Gone(tip, id)
    BY <1>11, <2>4 DEF IsRemoval
  <2> QED
    BY <1>9, <2>1, <2>2, <2>3, <2>4
<1>13. ASSUME NEW p \in d.fwdPkgs, NEW u \in p.updates, NEW v \in pkg.updates,
              u.id = v.id, u.type = "Add" <=> v.type = "Add"
       PROVE  FALSE
  <2>1. PICK e \in F : v = LogUpdate(e)
    BY <1>5, <1>13 DEF LogUpdates
  <2>2. e \in l["remote"].entries /\ e.id = u.id /\ (e.type = "Add" <=> u.type = "Add")
        /\ e.type # "FeeUpdate" /\ ~ On(e, rem, "remote") /\ e \in EntryType
    BY <1>2, <1>4, <1>7, <1>13, <2>1 DEF LogUpdate
  <2>3. u.type \in UpdateKind /\ u.id \in Nat /\ u.type # "FeeUpdate"
    BY <1>1, <1>6, <1>13 DEF Packages, LogUpdateType
  <2>4. CASE e.type = "Add"
    <3>1. HandedOver(d, {"Add"}, u.id)
      BY <1>13, <2>2, <2>4 DEF HandedOver
    <3>2. e.id < rem.htlcIndex["remote"]
      BY <1>1, <1>5, <2>2, <2>3, <3>1 DEF Packages
    <3> QED
      BY <1>1, <2>2, <2>4, <3>2 DEF Counters, AddsOf
  <2>5. CASE e.type # "Add"
    <3>1. u.type \in {"Settle", "Fail"} /\ IsRemoval(e)
      BY <2>2, <2>3, <2>5, EntryParts DEF UpdateKind
    <3>2. HandedOver(d, {"Settle", "Fail"}, u.id)
      BY <1>13, <3>1 DEF HandedOver
    <3>3. Gone(rem, e.id)
      BY <1>1, <1>5, <2>2, <2>3, <3>2 DEF Packages
    <3> QED
      BY <1>11, <3>1, <3>3
  <2> QED
    BY <2>4, <2>5
<1>14. ASSUME NEW p \in n.fwdPkgs, NEW q \in n.fwdPkgs, NEW u \in p.updates, NEW v \in q.updates,
              u.id = v.id, u.type = "Add" <=> v.type = "Add"
       PROVE  p = q
  <2>1. CASE p \in d.fwdPkgs /\ q \in d.fwdPkgs
    BY <1>1, <1>14, <2>1 DEF Packages
  <2>2. CASE p = pkg /\ q = pkg
    BY <2>2
  <2>3. CASE p \in d.fwdPkgs /\ q = pkg
    BY <1>13, <1>14, <2>3
  <2>4. CASE p = pkg /\ q \in d.fwdPkgs
    BY <1>13, <1>14, <2>4
  <2> QED
    BY <1>2, <2>1, <2>2, <2>3, <2>4
<1> QED
  BY <1>2, <1>8, <1>10, <1>12, <1>14 DEF Packages, n

\* The peer has revoked its last commitment; the logs are not compacted yet.
LEMMA Marked ==
    ASSUME NEW d \in DiskType, NEW l \in LogsType, LogInv(d, l), HasUnacked(d)
    PROVE  LogInv(RevokedDisk(d, l), MarkedLogs(d, l))
<1> DEFINE n == RevokedDisk(d, l)
           m == MarkedLogs(d, l)
           loc == d.commit["local"]
           rem == d.commit["remote"]
           tip == RemoteTip(d)
           F == NewlyLocked(d, l)
           Same(e, f) == /\ f.type = e.type /\ f.logIndex = e.logIndex /\ f.id = e.id
                         /\ f.added = e.added /\ f.removed = e.removed
                         /\ f.isForwarded <=> e.isForwarded \/ e \in F
<1>1. /\ Ordered(d) /\ Bounded(d, l) /\ Distinct(l) /\ Stamped(d, l)
      /\ Complete(d, l) /\ Counters(d, l) /\ Contents(d, l) /\ Parents(d, l)
      /\ Stored(d, l) /\ Keys(d, l) /\ Packages(d)
  BY DEF LogInv
<1>2. /\ "local" \in Chain /\ "remote" \in Chain
      /\ \A c \in Chain : c = "local" \/ c = "remote"
      /\ \A c \in Chain : Opposite(c) \in Chain
  BY DEF Chain, Opposite
<1>3. /\ n \in DiskType
      /\ n.commit["local"] = loc /\ n.commit["remote"] = tip
      /\ ~ HasUnacked(n) /\ RemoteTip(n) = tip
      /\ ~ d.unsignedAckedUpdates.written =>
           /\ n.unsignedAckedUpdates = d.unsignedAckedUpdates
           /\ n.remoteUnsignedLocalUpdates = d.remoteUnsignedLocalUpdates
      /\ d.unsignedAckedUpdates.written =>
           /\ n.unsignedAckedUpdates.written
           /\ n.unsignedAckedUpdates.updates =
                UpdatesFrom(d.unsignedAckedUpdates.updates, tip.messageIndex["remote"])
           /\ n.remoteUnsignedLocalUpdates.updates = unsignedLocalUpdates(d, l)
  BY RevokedType
<1>4. /\ m \in LogsType /\ m["local"] = l["local"]
      /\ m["remote"].logIndex = l["remote"].logIndex
      /\ m["remote"].htlcCounter = l["remote"].htlcCounter
      /\ m["remote"].modified = l["remote"].modified
      /\ \A e \in l["remote"].entries : \E f \in m["remote"].entries : Same(e, f)
      /\ \A f \in m["remote"].entries : \E e \in l["remote"].entries : Same(e, f)
      /\ Distinct(m)
  BY <1>1, MarkedLogsAre
<1>5. /\ d.commit["local"] = loc /\ d.commit["remote"] = rem /\ RemoteTip(d) = tip
      /\ loc \in Commitments(d) /\ rem \in Commitments(d) /\ tip \in Commitments(d)
      /\ \A k \in Commitments(n) : k \in Commitments(d)
  BY <1>3 DEF Commitments
<1>6. /\ \A c \in Chain : /\ loc.messageIndex[c] \in Nat /\ rem.messageIndex[c] \in Nat
                          /\ tip.messageIndex[c] \in Nat
                          /\ loc.htlcIndex[c] \in Nat /\ rem.htlcIndex[c] \in Nat
                          /\ tip.htlcIndex[c] \in Nat
      /\ loc.messageIndex["local"] <= rem.messageIndex["local"]
      /\ rem.messageIndex["local"] <= tip.messageIndex["local"]
      /\ rem.messageIndex["remote"] <= tip.messageIndex["remote"]
      /\ tip.messageIndex["remote"] <= loc.messageIndex["remote"]
      /\ loc.htlcIndex["local"] <= rem.htlcIndex["local"]
      /\ rem.htlcIndex["local"] <= tip.htlcIndex["local"]
      /\ rem.htlcIndex["remote"] <= tip.htlcIndex["remote"]
      /\ tip.htlcIndex["remote"] <= loc.htlcIndex["remote"]
  BY <1>1, OrderedParts
<1>7. /\ \A c \in Chain : \A e \in l[c].entries : e \in EntryType /\ e.logIndex \in Nat
      /\ \A c \in Chain : \A e \in m[c].entries : e \in EntryType /\ e.logIndex \in Nat
  BY <1>4, EntriesOf, EntryParts
<1>8. \A e \in l["remote"].entries : e \in F =>
          On(e, tip, "remote")
  BY LockedInAre
<1>10. /\ tip.height \in Nat /\ loc.height \in Nat
       /\ Tip(n, "remote") = tip /\ Tip(n, "local") = loc
       /\ Tip(d, "remote") = tip /\ Tip(d, "local") = loc
  BY <1>1, <1>3, OrderedParts DEF Tip, Chain
<1>11. {e \in l["local"].entries :
            /\ e.type # "Add"
            /\ e.logIndex < tip.messageIndex["local"]
            /\ e.logIndex >= loc.messageIndex["local"]} =
       {e \in l["local"].entries :
            e.type # "Add" /\ ~ On(e, loc, "local") /\ On(e, tip, "local")}
  BY <1>2, <1>6, <1>7 DEF On
<1>12. unsignedLocalUpdates(d, l) =
          LogUpdates({e \in l["local"].entries :
            /\ e.type # "Add"
            /\ e.logIndex < tip.messageIndex["local"]
            /\ e.logIndex >= loc.messageIndex["local"]})
  BY DEF unsignedLocalUpdates, RemoteTip
<1> DEFINE Alikely(e, f) == /\ f.type = e.type /\ f.logIndex = e.logIndex /\ f.id = e.id
                            /\ f.added = e.added /\ f.removed = e.removed
<1>13. \A c \in Chain :
         /\ m[c].logIndex = l[c].logIndex /\ m[c].htlcCounter = l[c].htlcCounter
         /\ m[c].modified = l[c].modified
         /\ \A e \in l[c].entries : \E f \in m[c].entries : Alikely(e, f)
         /\ \A f \in m[c].entries : \E e \in l[c].entries : Alikely(e, f)
  BY <1>2, <1>4
<1>14. \A e, f : Alikely(e, f) =>
         /\ IsRemoval(f) <=> IsRemoval(e)
         /\ LogUpdate(f) = LogUpdate(e) /\ Htlc(f) = Htlc(e)
         /\ \A k, c : On(f, k, c) <=> On(e, k, c)
         /\ \A c : StampOf(f, c) = StampOf(e, c)
  BY DEF IsRemoval, LogUpdate, Htlc, On, StampOf
<1> HIDE DEF n, m, loc, rem, tip, F
<1>20. Ordered(n)
  <2>1. \A k \in Commitments(n), c \in Chain : k.messageIndex[c] > 0 => k.height > 0
    BY <1>1, <1>5 DEF Ordered
  <2>2. /\ loc.messageIndex["local"] <= tip.messageIndex["local"]
        /\ loc.htlcIndex["local"] <= tip.htlcIndex["local"]
    BY <1>2, <1>6
  <2> QED
    BY <1>2, <1>3, <1>6, <2>1, <2>2 DEF Ordered
<1>21. Bounded(n, m)
  <2>1. \A c \in Chain : \A f \in m[c].entries :
          /\ f.logIndex < m[c].logIndex
          /\ f.type = "Add" => f.id < m[c].htlcCounter
    <3> SUFFICES ASSUME NEW c \in Chain, NEW f \in m[c].entries
                 PROVE  /\ f.logIndex < m[c].logIndex
                        /\ f.type = "Add" => f.id < m[c].htlcCounter
      OBVIOUS
    <3>1. PICK e \in l[c].entries : Alikely(e, f)
      BY <1>13
    <3> QED
      BY <1>1, <1>13, <3>1 DEF Bounded
  <2> QED
    BY <1>1, <1>2, <1>3, <1>5, <1>13, <2>1 DEF Bounded
<1>22. Stamped(n, m)
  <2> SUFFICES ASSUME NEW c \in Chain, NEW ch \in Chain, NEW f \in m[c].entries
               PROVE  StampedOn(n, f, c, ch)
    BY DEF Stamped
  <2>1. PICK e \in l[c].entries : Alikely(e, f)
    BY <1>13
  <2>2. StampedOn(d, e, c, ch)
    BY <1>1 DEF Stamped
  <2>3. /\ StampOf(e, ch) # 0 <=> On(e, Tip(n, ch), c)
        /\ StampOf(e, ch) # 0 =>
              /\ StampOf(e, ch) <= Tip(n, ch).height
              /\ StampOf(e, ch) <= n.commit[ch].height <=> On(e, n.commit[ch], c)
    BY <1>2, <1>3, <1>5, <1>10, <2>2 DEF StampedOn
  <2>4. /\ IsRemoval(f) <=> IsRemoval(e)
        /\ StampOf(f, ch) = StampOf(e, ch)
        /\ \A k : On(f, k, c) <=> On(e, k, c)
        /\ f.type = e.type /\ f.added = e.added /\ f.removed = e.removed
    BY <1>14, <2>1
  <2>5. /\ e.type = "FeeUpdate" => e.added[ch] = e.removed[ch]
        /\ IsRemoval(e) => e.added[ch] = 0
        /\ e.type = "Add" => e.removed[ch] = 0
    BY <2>2 DEF StampedOn
  <2> HIDE DEF Alikely
  <2> QED
    BY <2>3, <2>4, <2>5 DEF StampedOn
<1>23. Complete(n, m)
  <2> SUFFICES ASSUME NEW c \in Chain, NEW i \in Nat
               PROVE  /\ (n.commit[c].messageIndex[c] <= i /\ i < m[c].logIndex) =>
                            \E e \in m[c].entries : e.logIndex = i
                      /\ (n.commit[c].htlcIndex[c] <= i /\ i < m[c].htlcCounter) =>
                            \E e \in AddsOf(m[c]) : e.id = i
    BY DEF Complete
  <2>1. /\ (d.commit[c].messageIndex[c] <= i /\ i < l[c].logIndex) =>
              \E e \in l[c].entries : e.logIndex = i
        /\ (d.commit[c].htlcIndex[c] <= i /\ i < l[c].htlcCounter) =>
              \E e \in AddsOf(l[c]) : e.id = i
    BY <1>1 DEF Complete
  <2>2. /\ n.commit[c].messageIndex[c] <= i => d.commit[c].messageIndex[c] <= i
        /\ n.commit[c].htlcIndex[c] <= i => d.commit[c].htlcIndex[c] <= i
    <3>1. CASE c = "local"
      BY <1>3, <1>5, <3>1
    <3>2. CASE c = "remote"
      <4>1. n.commit[c] = tip /\ d.commit[c] = rem
        BY <1>3, <1>5, <3>2
      <4> QED
        BY <1>2, <1>6, <3>2, <4>1
    <3> QED
      BY <1>2, <3>1, <3>2
  <2> QED
    BY <1>13, <2>1, <2>2 DEF AddsOf
<1>24. Counters(n, m)
  <2> SUFFICES ASSUME NEW k \in Commitments(n), NEW c \in Chain,
                      NEW f \in m[c].entries, f.type = "Add"
               PROVE  f.id < k.htlcIndex[c] <=> On(f, k, c)
    BY DEF Counters, AddsOf
  <2>1. PICK e \in l[c].entries : Alikely(e, f)
    BY <1>13
  <2>2. e.id < k.htlcIndex[c] <=> On(e, k, c)
    BY <1>1, <1>5, <2>1 DEF Counters, AddsOf
  <2> QED
    BY <1>14, <2>1, <2>2
<1>25. Contents(n, m)
  <2> SUFFICES ASSUME NEW k \in Commitments(n), NEW c \in Chain
               PROVE  k.htlcs[c] = OpenHtlcs(m, k, c)
    BY DEF Contents
  <2>1. k.htlcs[c] = OpenHtlcs(l, k, c)
    BY <1>1, <1>5 DEF Contents
  <2>2. \A id : ResolvedAt(m, k, c, id) <=> ResolvedAt(l, k, c, id)
    <3> SUFFICES ASSUME NEW id
                 PROVE  ResolvedAt(m, k, c, id) <=> ResolvedAt(l, k, c, id)
      OBVIOUS
    <3>1. ASSUME NEW r \in m[Opposite(c)].entries, IsRemoval(r), r.id = id,
                 On(r, k, Opposite(c))
          PROVE  ResolvedAt(l, k, c, id)
      <4>1. PICK s \in l[Opposite(c)].entries : Alikely(s, r)
        BY <1>2, <1>13
      <4>2. IsRemoval(s) /\ s.id = id /\ On(s, k, Opposite(c))
        BY <1>14, <3>1, <4>1
      <4> QED
        BY <4>2 DEF ResolvedAt
    <3>2. ASSUME NEW r \in l[Opposite(c)].entries, IsRemoval(r), r.id = id,
                 On(r, k, Opposite(c))
          PROVE  ResolvedAt(m, k, c, id)
      <4>1. PICK s \in m[Opposite(c)].entries : Alikely(r, s)
        BY <1>2, <1>13
      <4>2. IsRemoval(s) /\ s.id = id /\ On(s, k, Opposite(c))
        BY <1>14, <3>2, <4>1
      <4> QED
        BY <4>2 DEF ResolvedAt
    <3> QED
      BY <3>1, <3>2 DEF ResolvedAt
  <2>3. ASSUME NEW f \in OpenAt(m, k, c)
        PROVE  \E e \in OpenAt(l, k, c) : Htlc(f) = Htlc(e)
    <3>1. f \in m[c].entries /\ f.type = "Add" /\ On(f, k, c) /\ ~ ResolvedAt(m, k, c, f.id)
      BY DEF OpenAt, AddsOf
    <3>2. PICK e \in l[c].entries : Alikely(e, f)
      BY <1>13, <3>1
    <3>3. e \in OpenAt(l, k, c) /\ Htlc(f) = Htlc(e)
      BY <1>14, <2>2, <3>1, <3>2 DEF OpenAt, AddsOf
    <3> QED
      BY <3>3
  <2>4. ASSUME NEW e \in OpenAt(l, k, c)
        PROVE  \E f \in OpenAt(m, k, c) : Htlc(f) = Htlc(e)
    <3>1. e \in l[c].entries /\ e.type = "Add" /\ On(e, k, c) /\ ~ ResolvedAt(l, k, c, e.id)
      BY DEF OpenAt, AddsOf
    <3>2. PICK f \in m[c].entries : Alikely(e, f)
      BY <1>13, <3>1
    <3>3. f \in OpenAt(m, k, c) /\ Htlc(f) = Htlc(e)
      BY <1>14, <2>2, <3>1, <3>2 DEF OpenAt, AddsOf
    <3> QED
      BY <3>3
  <2>5. OpenHtlcs(m, k, c) = OpenHtlcs(l, k, c)
    BY <2>3, <2>4 DEF OpenHtlcs
  <2> QED
    BY <2>1, <2>5
<1>26. Parents(n, m)
  <2>1. ASSUME NEW c \in Chain, NEW r \in m[c].entries, IsRemoval(r)
        PROVE  \E a \in AddsOf(m[Opposite(c)]) : ParentOf(n, m, c, r, a)
    <3>1. PICK s \in l[c].entries : Alikely(s, r)
      BY <1>13
    <3>2. IsRemoval(s) /\ s.id = r.id /\ \A k : On(r, k, c) <=> On(s, k, c)
      BY <1>14, <2>1, <3>1
    <3>3. PICK b \in AddsOf(l[Opposite(c)]) : ParentOf(d, l, c, s, b)
      BY <1>1, <3>2 DEF Parents
    <3>4. PICK a \in m[Opposite(c)].entries : Alikely(b, a)
      BY <1>2, <1>13, <3>3 DEF AddsOf
    <3>5. a \in AddsOf(m[Opposite(c)]) /\ a.id = b.id
          /\ \A k : On(a, k, Opposite(c)) <=> On(b, k, Opposite(c))
      BY <1>14, <3>3, <3>4 DEF AddsOf
    <3>6. ParentOf(n, m, c, r, a)
      BY <1>5, <3>2, <3>3, <3>5 DEF ParentOf
    <3> QED
      BY <3>5, <3>6
  <2>2. ASSUME NEW c \in Chain, NEW id
        PROVE  id \in m[c].modified <=>
                  \E r \in m[Opposite(c)].entries : IsRemoval(r) /\ r.id = id
    <3>1. id \in l[c].modified <=>
                  \E r \in l[Opposite(c)].entries : IsRemoval(r) /\ r.id = id
      BY <1>1 DEF Parents
    <3>2. m[c].modified = l[c].modified
      BY <1>13
    <3>3. (\E r \in m[Opposite(c)].entries : IsRemoval(r) /\ r.id = id) <=>
          (\E r \in l[Opposite(c)].entries : IsRemoval(r) /\ r.id = id)
      <4>1. \A r \in m[Opposite(c)].entries : \E s \in l[Opposite(c)].entries : Alikely(s, r)
        BY <1>2, <1>13
      <4>2. \A r \in l[Opposite(c)].entries : \E s \in m[Opposite(c)].entries : Alikely(r, s)
        BY <1>2, <1>13
      <4> QED
        BY <1>14, <4>1, <4>2
    <3> QED
      BY <3>1, <3>2, <3>3
  <2> QED
    BY <2>1, <2>2 DEF Parents
<1>27. Stored(n, m)
  <2> DEFINE A == {e \in l["remote"].entries : ~ On(e, rem, "remote") /\ On(e, loc, "remote")}
             B == {e \in m["remote"].entries : ~ On(e, tip, "remote") /\ On(e, loc, "remote")}
             C == {e \in l["local"].entries :
                      e.type # "Add" /\ ~ On(e, loc, "local") /\ On(e, rem, "local")}
             D == {e \in l["local"].entries :
                      e.type # "Add" /\ ~ On(e, loc, "local") /\ On(e, tip, "local")}
  <2>1. /\ d.unsignedAckedUpdates.updates = LogUpdates(A)
        /\ d.remoteUnsignedLocalUpdates.updates = LogUpdates(C)
        /\ \A e \in l["remote"].entries : e.isForwarded => On(e, rem, "remote")
    BY <1>1, <1>5 DEF Stored
  <2>2. unsignedLocalUpdates(d, l) = LogUpdates(D)
    BY <1>11, <1>12
  <2>3. UpdatesFrom(LogUpdates(A), tip.messageIndex["remote"]) = LogUpdates(B)
    <3>1. ASSUME NEW u \in LogUpdates(A), u.logIndex >= tip.messageIndex["remote"]
          PROVE  u \in LogUpdates(B)
      <4>1. PICK e \in A : u = LogUpdate(e)
        BY DEF LogUpdates
      <4>2. PICK f \in m["remote"].entries : Alikely(e, f)
        BY <1>2, <1>13, <4>1
      <4>3. u = LogUpdate(f) /\ (\A k : On(f, k, "remote") <=> On(e, k, "remote"))
            /\ e.logIndex \in Nat /\ u.logIndex = e.logIndex
        BY <1>2, <1>7, <1>14, <4>1, <4>2 DEF LogUpdate
      <4>4. ~ On(e, tip, "remote")
        BY <1>2, <1>6, <3>1, <4>3 DEF On
      <4>5. f \in B
        BY <4>1, <4>3, <4>4
      <4> QED
        BY <4>3, <4>5 DEF LogUpdates
    <3>2. ASSUME NEW u \in LogUpdates(B)
          PROVE  u \in LogUpdates(A) /\ u.logIndex >= tip.messageIndex["remote"]
      <4>1. PICK f \in B : u = LogUpdate(f)
        BY DEF LogUpdates
      <4>2. PICK e \in l["remote"].entries : Alikely(e, f)
        BY <1>2, <1>13, <4>1
      <4>3. u = LogUpdate(e) /\ (\A k : On(f, k, "remote") <=> On(e, k, "remote"))
            /\ e.logIndex \in Nat /\ u.logIndex = e.logIndex
        BY <1>2, <1>7, <1>14, <4>1, <4>2 DEF LogUpdate
      <4>4. u.logIndex >= tip.messageIndex["remote"] /\ ~ On(e, rem, "remote")
        BY <1>2, <1>6, <4>1, <4>3 DEF On
      <4>5. e \in A
        BY <4>1, <4>3, <4>4
      <4> QED
        BY <4>3, <4>4, <4>5 DEF LogUpdates
    <3> HIDE DEF A, B
    <3> QED
      BY <3>1, <3>2 DEF UpdatesFrom
  <2>4. \A f \in m["remote"].entries : f.isForwarded => On(f, tip, "remote")
    <3> SUFFICES ASSUME NEW f \in m["remote"].entries, f.isForwarded
                 PROVE  On(f, tip, "remote")
      OBVIOUS
    <3>1. PICK e \in l["remote"].entries : Same(e, f)
      BY <1>4
    <3>2. e.logIndex \in Nat /\ f.logIndex = e.logIndex
      BY <1>2, <1>7, <3>1
    <3>3. On(e, rem, "remote") => On(e, tip, "remote")
      BY <1>2, <1>6, <3>2 DEF On
    <3> QED
      BY <1>8, <2>1, <3>1, <3>2, <3>3 DEF On
  <2>5. CASE d.unsignedAckedUpdates.written
    <3>1. n.unsignedAckedUpdates.updates = LogUpdates(B)
      BY <1>3, <2>1, <2>3, <2>5
    <3>2. n.remoteUnsignedLocalUpdates.updates = LogUpdates(D)
      BY <1>3, <2>2, <2>5
    <3> QED
      BY <1>3, <1>4, <2>4, <3>1, <3>2 DEF Stored
  <2>6. CASE ~ d.unsignedAckedUpdates.written
    <3>1. /\ loc.messageIndex["remote"] = 0
          /\ \A e \in l["local"].entries : e.type = "Add"
      BY <1>1, <1>5, <2>6 DEF Keys
    <3>2. A = {} /\ B = {}
      BY <1>2, <1>7, <3>1 DEF On
    <3>3. C = {} /\ D = {}
      BY <3>1
    <3> HIDE DEF A, B, C, D
    <3>4. n.unsignedAckedUpdates.updates = LogUpdates(B)
          /\ n.remoteUnsignedLocalUpdates.updates = LogUpdates(D)
      BY <1>3, <2>1, <2>6, <3>2, <3>3
    <3> QED
      BY <1>3, <1>4, <2>4, <3>4 DEF Stored, B, D
  <2> QED
    BY <2>5, <2>6
<1>28. Keys(n, m)
  <2> SUFFICES ASSUME ~ n.unsignedAckedUpdates.written
               PROVE  /\ n.commit["local"].messageIndex["remote"] = 0
                      /\ \A e \in m["local"].entries : e.type = "Add"
    BY DEF Keys
  <2>1. ~ d.unsignedAckedUpdates.written
    BY <1>3
  <2> QED
    BY <1>1, <1>3, <1>4, <1>5, <2>1 DEF Keys
<1>29. Packages(n)
  BY HandedOverNow DEF n
<1> QED
  BY <1>4, <1>20, <1>21, <1>22, <1>23, <1>24, <1>25, <1>26, <1>27, <1>28, <1>29
  DEF LogInv, n, m

\* Logs are compacted: what both sides are done with leaves them.
LEMMA Compacted ==
    ASSUME NEW d \in DiskType, NEW l \in LogsType, LogInv(d, l), ~ HasUnacked(d),
           NEW tail, tail["local"] = d.commit["local"].height,
           tail["remote"] = d.commit["remote"].height
    PROVE  compactLogs(l, tail) \in LogsType /\ LogInv(d, compactLogs(l, tail))
<1> DEFINE m == compactLogs(l, tail)
           loc == d.commit["local"]
           rem == d.commit["remote"]
           gone == [c \in Chain |-> Evicted(l[c], tail)]
           parents(c) == {r.id : r \in {e \in gone[Opposite(c)] : IsRemoval(e)}}
<1>1. /\ Ordered(d) /\ Bounded(d, l) /\ Distinct(l) /\ Stamped(d, l)
      /\ Complete(d, l) /\ Counters(d, l) /\ Contents(d, l) /\ Parents(d, l)
      /\ Stored(d, l) /\ Keys(d, l) /\ Packages(d)
  BY DEF LogInv
<1>2. /\ "local" \in Chain /\ "remote" \in Chain
      /\ \A c \in Chain : c = "local" \/ c = "remote"
      /\ \A c \in Chain : Opposite(c) \in Chain /\ Opposite(Opposite(c)) = c
  BY DEF Chain, Opposite
<1>3. /\ RemoteTip(d) = rem /\ d.commit["local"] = loc /\ d.commit["remote"] = rem
      /\ \A k : k \in Commitments(d) <=> k = loc \/ k = rem
      /\ Tip(d, "local") = loc /\ Tip(d, "remote") = rem
  BY DEF RemoteTip, Commitments, Tip
<1>4. /\ m \in LogsType
      /\ \A c \in Chain :
            /\ m[c].logIndex = l[c].logIndex
            /\ m[c].htlcCounter = l[c].htlcCounter
            /\ m[c].modified = l[c].modified \ parents(c)
            /\ m[c].entries = {e \in l[c].entries \ gone[c] :
                                   ~ (e.type = "Add" /\ e.id \in parents(c))}
  BY CompactedType
<1>5. \A c \in Chain : \A e \in l[c].entries : e \in EntryType
  BY EntriesOf
<1>6. ASSUME NEW c \in Chain, NEW e \in l[c].entries
      PROVE  e \in gone[c] <=> e.type # "Add" /\ On(e, loc, c) /\ On(e, rem, c)
  <2>1. /\ StampedOn(d, e, c, "local") /\ StampedOn(d, e, c, "remote")
        /\ StampOf(e, "local") \in Nat /\ StampOf(e, "remote") \in Nat
    BY <1>1, <1>2, <1>5, EntryParts DEF Stamped
  <2>2. e \in gone[c] <=> /\ e.type # "Add"
                          /\ e.removed["local"] # 0 /\ e.removed["local"] <= loc.height
                          /\ e.removed["remote"] # 0 /\ e.removed["remote"] <= rem.height
    BY DEF Evicted, Chain
  <2>3. e.type # "Add" => StampOf(e, "local") = e.removed["local"]
                          /\ StampOf(e, "remote") = e.removed["remote"]
    BY DEF StampOf
  <2>4. d.commit["local"] = loc /\ d.commit["remote"] = rem
    BY <1>3
  <2> HIDE DEF gone, loc, rem
  <2>5. /\ StampOf(e, "local") # 0 <=> On(e, loc, c)
        /\ StampOf(e, "local") # 0 => StampOf(e, "local") <= loc.height
        /\ StampOf(e, "remote") # 0 <=> On(e, rem, c)
        /\ StampOf(e, "remote") # 0 => StampOf(e, "remote") <= rem.height
    BY <1>3, <2>1, <2>4 DEF StampedOn
  <2> QED
    BY <2>2, <2>3, <2>5
<1>7. \A c \in Chain : gone[c] \in SUBSET l[c].entries
  BY DEF Evicted
<1> DEFINE Dropped(c, e) == \E r \in gone[Opposite(c)] : IsRemoval(r) /\ r.id = e.id
<1>8. ASSUME NEW c \in Chain, NEW e \in l[c].entries
      PROVE  e \in m[c].entries <=> e \notin gone[c] /\ ~ (e.type = "Add" /\ Dropped(c, e))
  <2> HIDE DEF gone
  <2>1. e.id \in parents(c) <=> Dropped(c, e)
    OBVIOUS
  <2>2. m[c].entries = {f \in l[c].entries \ gone[c] :
                           ~ (f.type = "Add" /\ f.id \in parents(c))}
    BY <1>4
  <2> HIDE DEF m, parents, Dropped
  <2> QED
    BY <2>1, <2>2
<1>9. \A c \in Chain : \A e \in m[c].entries : e \in l[c].entries
  BY <1>4
<1>10. \A c \in Chain : \A id :
          id \in m[c].modified <=>
             id \in l[c].modified /\ ~ \E r \in gone[Opposite(c)] : IsRemoval(r) /\ r.id = id
  BY <1>4, SMTT(30)
<1>11. \A c \in Chain : m[c].logIndex = l[c].logIndex /\ m[c].htlcCounter = l[c].htlcCounter
  BY <1>4
<1>30. m \in LogsType
  BY <1>4
<1> HIDE DEF m, loc, rem, gone
\* An HTLC that is dropped is on all commitments, and so is its removal.
<1>12. ASSUME NEW c \in Chain, NEW a \in AddsOf(l[c]), Dropped(c, a), NEW k \in Commitments(d)
       PROVE  On(a, k, c) /\ ResolvedAt(l, k, c, a.id)
  <2>1. PICK r \in gone[Opposite(c)] : IsRemoval(r) /\ r.id = a.id
    BY <1>12
  <2>2. r \in l[Opposite(c)].entries /\ On(r, k, Opposite(c))
    BY <1>2, <1>3, <1>6, <1>7, <2>1
  <2>3. PICK b \in AddsOf(l[c]) : ParentOf(d, l, Opposite(c), r, b)
    BY <1>1, <1>2, <2>1, <2>2 DEF Parents
  <2>4. b.id = a.id /\ On(b, k, c)
    BY <1>2, <2>1, <2>2, <2>3 DEF ParentOf
  <2>5. b = a
    BY <1>1, <2>4 DEF Distinct, AddsOf
  <2> QED
    BY <2>1, <2>2, <2>4, <2>5 DEF ResolvedAt
\* What some commitment lacks stays.
<1>13. ASSUME NEW c \in Chain, NEW e \in l[c].entries, NEW k \in Commitments(d), ~ On(e, k, c)
       PROVE  e \in m[c].entries
  <2>1. e \notin gone[c]
    BY <1>3, <1>6, <1>13
  <2>2. ~ (e.type = "Add" /\ Dropped(c, e))
    BY <1>12, <1>13 DEF AddsOf
  <2> QED
    BY <1>8, <2>1, <2>2
<1>14. loc \in Commitments(d) /\ rem \in Commitments(d)
  BY <1>3
<1>15. Bounded(d, m)
  BY <1>1, <1>9, <1>11, <1>2 DEF Bounded
<1>16. Distinct(m)
  BY <1>1, <1>9 DEF Distinct
<1>17. Stamped(d, m)
  BY <1>1, <1>9 DEF Stamped
<1>18. Complete(d, m)
  <2> SUFFICES ASSUME NEW c \in Chain, NEW i \in Nat
               PROVE  /\ (d.commit[c].messageIndex[c] <= i /\ i < l[c].logIndex) =>
                            \E e \in m[c].entries : e.logIndex = i
                      /\ (d.commit[c].htlcIndex[c] <= i /\ i < l[c].htlcCounter) =>
                            \E e \in AddsOf(m[c]) : e.id = i
    BY <1>11 DEF Complete
  <2>1. d.commit[c] \in Commitments(d) /\ d.commit[c].messageIndex[c] \in Nat
        /\ d.commit[c].htlcIndex[c] \in Nat
    BY <1>2, <1>3, CommitmentsAre
  <2>2. ASSUME d.commit[c].messageIndex[c] <= i, i < l[c].logIndex
        PROVE  \E e \in m[c].entries : e.logIndex = i
    <3>1. PICK e \in l[c].entries : e.logIndex = i
      BY <1>1, <2>2 DEF Complete
    <3>2. ~ On(e, d.commit[c], c)
      BY <2>1, <2>2, <3>1 DEF On
    <3> QED
      BY <1>13, <2>1, <3>1, <3>2
  <2>3. ASSUME d.commit[c].htlcIndex[c] <= i, i < l[c].htlcCounter
        PROVE  \E e \in AddsOf(m[c]) : e.id = i
    <3>1. PICK e \in AddsOf(l[c]) : e.id = i
      BY <1>1, <2>3 DEF Complete
    <3>2. ~ On(e, d.commit[c], c)
      BY <1>1, <2>1, <2>3, <3>1 DEF Counters
    <3>3. e \in m[c].entries
      BY <1>13, <2>1, <3>1, <3>2 DEF AddsOf
    <3> QED
      BY <3>1, <3>3 DEF AddsOf
  <2> QED
    BY <2>2, <2>3
<1>19. Counters(d, m)
  BY <1>1, <1>9 DEF Counters, AddsOf
<1>20. Contents(d, m)
  <2> SUFFICES ASSUME NEW k \in Commitments(d), NEW c \in Chain
               PROVE  OpenAt(m, k, c) = OpenAt(l, k, c)
    BY <1>1 DEF Contents, OpenHtlcs
  <2>1. ASSUME NEW a \in AddsOf(l[c]), a \in m[c].entries
        PROVE  ResolvedAt(m, k, c, a.id) <=> ResolvedAt(l, k, c, a.id)
    <3>1. ASSUME NEW r \in l[Opposite(c)].entries, IsRemoval(r), r.id = a.id
          PROVE  r \in m[Opposite(c)].entries
      <4>1. r \notin gone[Opposite(c)]
        BY <1>8, <2>1, <3>1 DEF AddsOf
      <4>2. r.type # "Add"
        BY <3>1 DEF IsRemoval
      <4> QED
        BY <1>2, <1>8, <4>1, <4>2
    <3> QED
      BY <1>2, <1>9, <3>1 DEF ResolvedAt
  <2>2. ASSUME NEW a \in OpenAt(l, k, c)
        PROVE  a \in OpenAt(m, k, c)
    <3>1. a \in AddsOf(l[c]) /\ On(a, k, c) /\ ~ ResolvedAt(l, k, c, a.id)
          /\ a \in l[c].entries /\ a.type = "Add"
      BY DEF OpenAt, AddsOf
    <3>2. a \in m[c].entries
      <4>1. ~ Dropped(c, a)
        BY <1>12, <3>1
      <4>2. a \notin gone[c]
        BY <1>6, <3>1
      <4> QED
        BY <1>8, <3>1, <4>1, <4>2
    <3> QED
      BY <2>1, <3>1, <3>2 DEF OpenAt, AddsOf
  <2>3. ASSUME NEW a \in OpenAt(m, k, c)
        PROVE  a \in OpenAt(l, k, c)
    <3>1. a \in m[c].entries /\ a \in l[c].entries /\ a.type = "Add"
          /\ On(a, k, c) /\ ~ ResolvedAt(m, k, c, a.id)
      BY <1>9 DEF OpenAt, AddsOf
    <3> QED
      BY <2>1, <3>1 DEF OpenAt, AddsOf
  <2> QED
    BY <2>2, <2>3
<1>21. Parents(d, m)
  <2>1. ASSUME NEW c \in Chain, NEW r \in m[c].entries, IsRemoval(r)
        PROVE  \E a \in AddsOf(m[Opposite(c)]) : ParentOf(d, m, c, r, a)
    <3>1. r \in l[c].entries
      BY <1>9
    <3>2. PICK a \in AddsOf(l[Opposite(c)]) : ParentOf(d, l, c, r, a)
      BY <1>1, <2>1, <3>1 DEF Parents
    <3>3. a.id = r.id /\ a \in l[Opposite(c)].entries /\ a.type = "Add"
      BY <3>2 DEF ParentOf, AddsOf
    <3>4. ~ Dropped(Opposite(c), a)
      <4>1. ASSUME NEW s \in gone[c], IsRemoval(s), s.id = a.id
            PROVE  FALSE
        <5>1. s = r
          BY <1>1, <1>7, <2>1, <3>1, <3>3, <4>1 DEF Distinct
        <5> QED
          BY <1>8, <2>1, <3>1, <4>1, <5>1
      <4> QED
        BY <1>2, <4>1
    <3>5. a \notin gone[Opposite(c)]
      BY <1>2, <1>6, <3>3
    <3>6. a \in AddsOf(m[Opposite(c)])
      BY <1>2, <1>8, <3>3, <3>4, <3>5 DEF AddsOf
    <3>7. ParentOf(d, m, c, r, a)
      BY <3>2 DEF ParentOf
    <3> QED
      BY <3>6, <3>7
  <2>2. ASSUME NEW c \in Chain, NEW id
        PROVE  id \in m[c].modified <=>
                  \E r \in m[Opposite(c)].entries : IsRemoval(r) /\ r.id = id
    <3>1. id \in l[c].modified <=>
                  \E r \in l[Opposite(c)].entries : IsRemoval(r) /\ r.id = id
      BY <1>1 DEF Parents
    <3>2. ASSUME NEW r \in l[Opposite(c)].entries, IsRemoval(r), r.id = id
          PROVE  (\E s \in gone[Opposite(c)] : IsRemoval(s) /\ s.id = id) <=>
                     r \notin m[Opposite(c)].entries
      <4>1. r \notin m[Opposite(c)].entries <=> r \in gone[Opposite(c)]
        BY <1>2, <1>8, <3>2 DEF IsRemoval
      <4>2. ASSUME NEW s \in gone[Opposite(c)], IsRemoval(s), s.id = id
            PROVE  s = r
        BY <1>1, <1>2, <1>7, <3>2, <4>2 DEF Distinct
      <4> QED
        BY <3>2, <4>1, <4>2
    <3> QED
      BY <1>2, <1>9, <1>10, <3>1, <3>2
  <2> QED
    BY <2>1, <2>2 DEF Parents
<1>22. Stored(d, m)
  <2>1. {e \in m["remote"].entries : ~ On(e, rem, "remote") /\ On(e, loc, "remote")} =
        {e \in l["remote"].entries : ~ On(e, rem, "remote") /\ On(e, loc, "remote")}
    BY <1>2, <1>9, <1>13, <1>14
  <2>2. {e \in m["local"].entries :
            e.type # "Add" /\ ~ On(e, loc, "local") /\ On(e, rem, "local")} =
        {e \in l["local"].entries :
            e.type # "Add" /\ ~ On(e, loc, "local") /\ On(e, rem, "local")}
    BY <1>2, <1>9, <1>13, <1>14
  <2>3. \A e \in m["remote"].entries : e.isForwarded => On(e, rem, "remote")
    BY <1>1, <1>2, <1>3, <1>9 DEF Stored
  <2> QED
    BY <1>1, <1>3, <2>1, <2>2, <2>3 DEF Stored
<1>23. Keys(d, m)
  BY <1>1, <1>2, <1>9 DEF Keys
<1> QED
  BY <1>1, <1>15, <1>16, <1>17, <1>18, <1>19, <1>20, <1>21, <1>22, <1>23, <1>30 DEF LogInv, m

\* The RevokeAndAck handler keeps the logs and the bucket in line.
LEMMA Revoked ==
    ASSUME NEW d \in DiskType, NEW l \in LogsType, LogInv(d, l), HasUnacked(d)
    PROVE  /\ RevokedDisk(d, l) \in DiskType /\ RevokedLogs(d, l) \in LogsType
           /\ LogInv(RevokedDisk(d, l), RevokedLogs(d, l))
<1> DEFINE n == RevokedDisk(d, l)
           m == MarkedLogs(d, l)
           tail == RevokedTail(d)
<1>1. LogInv(n, m)
  BY Marked
<1>2. /\ n \in DiskType /\ ~ HasUnacked(n) /\ n.commit["local"] = d.commit["local"]
      /\ n.commit["remote"] = RemoteTip(d)
  BY RevokedType
<1>3. m \in LogsType
  BY MarkedLogsAre
<1>4. RemoteTip(d).height = d.commit["remote"].height + 1
  BY DEF LogInv, Ordered
<1>5. tail["local"] = n.commit["local"].height /\ tail["remote"] = n.commit["remote"].height
  BY <1>2, <1>4 DEF RevokedTail
<1>6. RevokedLogs(d, l) = compactLogs(m, tail)
  BY DEF RevokedLogs
<1> HIDE DEF n, m, tail
<1>7. compactLogs(m, tail) \in LogsType /\ LogInv(n, compactLogs(m, tail))
  BY <1>1, <1>2, <1>3, <1>5, Compacted
<1> QED
  BY <1>2, <1>6, <1>7 DEF n

-----------------------------------------------------------------------------
(* The logs made of what is on disk.                                       *)

\* The commitment that has the most updates of log c; d.commit[c] has the least.
Last(d, c) == IF c = "local" THEN RemoteTip(d) ELSE d.commit["local"]

\* Which entries are found again: those not on all commitments, and the HTLCs
\* that are open on one of them.
Survives(d, l, c, e) ==
    /\ On(e, Last(d, c), c)
    /\ IF e.type = "Add" THEN ~ ResolvedAt(l, d.commit[Opposite(c)], c, e.id)
       ELSE ~ On(e, d.commit[c], c)

\* The entry as it is restored.
HeightsOf(d, c, e) ==
    At(IF On(e, d.commit["local"], c) THEN d.commit["local"].height ELSE 0,
       IF On(e, d.commit["remote"], c) THEN d.commit["remote"].height
       ELSE IF On(e, RemoteTip(d), c) THEN d.commit["remote"].height + 1 ELSE 0)
Rebuilt(d, c, e) ==
    Restored(e, IF IsRemoval(e) THEN At(0, 0) ELSE HeightsOf(d, c, e),
             IF e.type = "Add" THEN At(0, 0) ELSE HeightsOf(d, c, e))

\* What is on the first commitment is on all, what is on one is on the last.
LEMMA FirstLast ==
    ASSUME NEW d \in DiskType, Ordered(d), NEW c \in Chain, NEW e \in EntryType,
           NEW k \in Commitments(d)
    PROVE  /\ On(e, d.commit[c], c) => On(e, k, c)
           /\ On(e, k, c) => On(e, Last(d, c), c)
           /\ Last(d, c) \in Commitments(d) /\ d.commit[c] \in Commitments(d)
           /\ d.commit[Opposite(c)] \in Commitments(d)
<1>1. k = d.commit["local"] \/ k = d.commit["remote"] \/ k = RemoteTip(d)
  BY CommitmentsAre
<1> QED
  BY <1>1, OnOrder DEF Last, Commitments, Opposite, Chain

\* The HTLC of a removal.
LEMMA ParentIs ==
    ASSUME NEW d \in DiskType, NEW l \in LogsType, LogInv(d, l), NEW c \in Chain,
           NEW r \in l[c].entries, IsRemoval(r),
           NEW a \in l[Opposite(c)].entries, a.type = "Add", a.id = r.id,
           NEW k \in Commitments(d), c = "local" \/ On(r, k, c)
    PROVE  On(a, k, Opposite(c))
<1>1. Distinct(l) /\ Parents(d, l)
  BY DEF LogInv
<1>2. Opposite(c) \in Chain
  BY DEF Opposite, Chain
<1>3. PICK b \in AddsOf(l[Opposite(c)]) : ParentOf(d, l, c, r, b)
  BY <1>1 DEF Parents
<1>4. b = a
  BY <1>1, <1>2, <1>3 DEF Distinct, ParentOf, AddsOf
<1> QED
  BY <1>3, <1>4 DEF ParentOf

\* A removal on the first commitment has its HTLC on all.
LEMMA ResolvedFirst ==
    ASSUME NEW d \in DiskType, NEW l \in LogsType, LogInv(d, l), NEW c \in Chain,
           NEW a \in l[c].entries, a.type = "Add",
           ResolvedAt(l, d.commit[Opposite(c)], c, a.id), NEW k \in Commitments(d)
    PROVE  On(a, k, c) /\ ResolvedAt(l, k, c, a.id)
<1>1. Ordered(d)
  BY DEF LogInv
<1>2. Opposite(c) \in Chain /\ Opposite(Opposite(c)) = c
  BY DEF Opposite, Chain
<1>3. PICK r \in l[Opposite(c)].entries :
         IsRemoval(r) /\ r.id = a.id /\ On(r, d.commit[Opposite(c)], Opposite(c))
  BY DEF ResolvedAt
<1>4. r \in EntryType
  BY <1>2, EntriesOf
<1>5. On(r, k, Opposite(c))
  BY <1>1, <1>2, <1>3, <1>4, FirstLast
<1>6. On(a, k, c)
  BY <1>2, <1>3, <1>5, ParentIs
<1> QED
  BY <1>3, <1>5, <1>6 DEF ResolvedAt

\* What is not on all commitments is found again.
LEMMA LateSurvives ==
    ASSUME NEW d \in DiskType, NEW l \in LogsType, LogInv(d, l), NEW c \in Chain,
           NEW e \in l[c].entries, On(e, Last(d, c), c), ~ On(e, d.commit[c], c)
    PROVE  Survives(d, l, c, e)
<1>1. Ordered(d) /\ e \in EntryType
  BY EntriesOf DEF LogInv
<1>2. d.commit[c] \in Commitments(d)
  BY DEF Commitments, Chain
<1>3. e.type = "Add" => ~ ResolvedAt(l, d.commit[Opposite(c)], c, e.id)
  BY <1>2, ResolvedFirst
<1> QED
  BY <1>3 DEF Survives

\* The removal of an HTLC that is found again is found again, if a commitment
\* includes it.
LEMMA RemovalSurvives ==
    ASSUME NEW d \in DiskType, NEW l \in LogsType, LogInv(d, l), NEW c \in Chain,
           NEW a \in l[c].entries, a.type = "Add", Survives(d, l, c, a),
           NEW r \in l[Opposite(c)].entries, IsRemoval(r), r.id = a.id,
           NEW k \in Commitments(d), On(r, k, Opposite(c))
    PROVE  Survives(d, l, Opposite(c), r)
<1>1. Ordered(d)
  BY DEF LogInv
<1>2. Opposite(c) \in Chain /\ r \in EntryType
  BY EntriesOf DEF Opposite, Chain
<1>3. On(r, Last(d, Opposite(c)), Opposite(c))
  BY <1>1, <1>2, FirstLast
<1>4. ~ On(r, d.commit[Opposite(c)], Opposite(c))
  BY DEF Survives, ResolvedAt
<1>5. r.type # "Add"
  BY DEF IsRemoval
<1> QED
  BY <1>3, <1>4, <1>5 DEF Survives

\* So is the HTLC of such a removal.
LEMMA ParentSurvives ==
    ASSUME NEW d \in DiskType, NEW l \in LogsType, LogInv(d, l), NEW c \in Chain,
           NEW r \in l[c].entries, IsRemoval(r), Survives(d, l, c, r),
           NEW a \in l[Opposite(c)].entries, a.type = "Add", a.id = r.id
    PROVE  Survives(d, l, Opposite(c), a)
<1>1. Ordered(d) /\ Distinct(l)
  BY DEF LogInv
<1>2. /\ Opposite(c) \in Chain /\ Opposite(Opposite(c)) = c
      /\ r \in EntryType /\ a \in EntryType /\ r.type # "Add"
  BY EntriesOf DEF Opposite, Chain, IsRemoval
<1>3. On(r, Last(d, c), c) /\ Last(d, c) \in Commitments(d)
  BY DEF Survives, Last, Commitments
<1>4. On(a, Last(d, c), Opposite(c))
  BY <1>3, ParentIs
<1>5. On(a, Last(d, Opposite(c)), Opposite(c))
  BY <1>1, <1>2, <1>3, <1>4, FirstLast
<1>6. ~ ResolvedAt(l, d.commit[c], Opposite(c), a.id)
  <2> SUFFICES ASSUME NEW x \in l[c].entries, IsRemoval(x), x.id = a.id, On(x, d.commit[c], c)
               PROVE  FALSE
    BY <1>2 DEF ResolvedAt
  <2>1. x = r
    BY <1>1 DEF Distinct
  <2> QED
    BY <1>2, <2>1 DEF Survives
<1> QED
  BY <1>2, <1>5, <1>6 DEF Survives

\* An HTLC that is open on a commitment is found again.
LEMMA OpenSurvives ==
    ASSUME NEW d \in DiskType, NEW l \in LogsType, LogInv(d, l), NEW c \in Chain,
           NEW k \in Commitments(d), NEW a \in OpenAt(l, k, c)
    PROVE  Survives(d, l, c, a)
<1>1. Ordered(d)
  BY DEF LogInv
<1>2. /\ a \in l[c].entries /\ a.type = "Add" /\ On(a, k, c) /\ ~ ResolvedAt(l, k, c, a.id)
      /\ a \in EntryType
  BY EntriesOf DEF OpenAt, AddsOf
<1>3. On(a, Last(d, c), c)
  BY <1>1, <1>2, FirstLast
<1>4. ~ ResolvedAt(l, d.commit[Opposite(c)], c, a.id)
  BY <1>2, ResolvedFirst
<1> QED
  BY <1>2, <1>3, <1>4 DEF Survives

\* What is restored of an entry.
LEMMA RebuiltParts ==
    ASSUME NEW d \in DiskType, NEW c \in Chain, NEW e \in EntryType,
           NEW x, x = Rebuilt(d, c, e)
    PROVE  /\ x.type = e.type /\ x.logIndex = e.logIndex /\ x.id = e.id
           /\ ~ x.isForwarded
           /\ LogUpdate(x) = LogUpdate(e) /\ Htlc(x) = Htlc(e)
           /\ IsRemoval(x) <=> IsRemoval(e)
           /\ \A k : On(x, k, c) <=> On(e, k, c)
           /\ StampOf(x, "local") =
                 IF On(e, d.commit["local"], c) THEN d.commit["local"].height ELSE 0
           /\ StampOf(x, "remote") =
                 IF On(e, d.commit["remote"], c) THEN d.commit["remote"].height
                 ELSE IF On(e, RemoteTip(d), c) THEN d.commit["remote"].height + 1 ELSE 0
           /\ \A ch \in Chain :
                 /\ e.type = "FeeUpdate" => x.added[ch] = x.removed[ch]
                 /\ IsRemoval(e) => x.added[ch] = 0
                 /\ e.type = "Add" => x.removed[ch] = 0
<1> DEFINE H == HeightsOf(d, c, e)
<1>1. x = [type |-> e.type, logIndex |-> e.logIndex, id |-> e.id,
           added |-> IF IsRemoval(e) THEN At(0, 0) ELSE H,
           removed |-> IF e.type = "Add" THEN At(0, 0) ELSE H, isForwarded |-> FALSE]
  BY DEF Rebuilt, Restored
<1>2. /\ H["local"] = IF On(e, d.commit["local"], c) THEN d.commit["local"].height ELSE 0
      /\ H["remote"] = IF On(e, d.commit["remote"], c) THEN d.commit["remote"].height
                       ELSE IF On(e, RemoteTip(d), c) THEN d.commit["remote"].height + 1 ELSE 0
  BY DEF HeightsOf, At
<1>3. \A ch \in Chain : At(0, 0)[ch] = 0
  BY DEF At, Chain
<1>4. \A ch \in Chain : StampOf(x, ch) = H[ch]
  <2> HIDE DEF H
  <2> QED
    BY <1>1 DEF StampOf, IsRemoval
<1> HIDE DEF H
<1>5. /\ x.type = e.type /\ x.logIndex = e.logIndex /\ x.id = e.id
      /\ ~ x.isForwarded
  BY <1>1
<1>6. /\ LogUpdate(x) = LogUpdate(e) /\ Htlc(x) = Htlc(e)
      /\ IsRemoval(x) <=> IsRemoval(e)
      /\ \A k : On(x, k, c) <=> On(e, k, c)
  BY <1>5 DEF LogUpdate, Htlc, IsRemoval, On
<1>7. \A ch \in Chain :
         /\ e.type = "FeeUpdate" => x.added[ch] = x.removed[ch]
         /\ IsRemoval(e) => x.added[ch] = 0
         /\ e.type = "Add" => x.removed[ch] = 0
  BY <1>1, <1>3 DEF IsRemoval
<1>8. StampOf(x, "local") = H["local"] /\ StampOf(x, "remote") = H["remote"]
  BY <1>4 DEF Chain
<1> QED
  BY <1>2, <1>5, <1>6, <1>7, <1>8

\* The log n, the logs g, hold what is found again of the logs l.
RebuiltLog(d, l, c, n) ==
    /\ n.logIndex = Last(d, c).messageIndex[c]
    /\ n.htlcCounter = Last(d, c).htlcIndex[c]
    /\ \A x \in n.entries :
          \E e \in l[c].entries : Survives(d, l, c, e) /\ x = Rebuilt(d, c, e)
    /\ \A e \in l[c].entries : Survives(d, l, c, e) => Rebuilt(d, c, e) \in n.entries
    /\ \A id : id \in n.modified <=>
          \E r \in l[Opposite(c)].entries :
              IsRemoval(r) /\ r.id = id /\ Survives(d, l, Opposite(c), r)
RebuiltLogs(d, l, g) == \A c \in Chain : RebuiltLog(d, l, c, g[c])

\* A restored entry, and one that is found again, seen from the other.
LEMMA RebuiltIs ==
    ASSUME NEW d \in DiskType, NEW l \in LogsType, NEW g \in LogsType,
           RebuiltLogs(d, l, g), NEW c \in Chain
    PROVE  /\ \A x \in g[c].entries : \E e \in l[c].entries :
                 Survives(d, l, c, e) /\ x = Rebuilt(d, c, e) /\ e \in EntryType
           /\ \A e \in l[c].entries : Survives(d, l, c, e) => Rebuilt(d, c, e) \in g[c].entries
           /\ \A a \in AddsOf(l[c]) :
                 Survives(d, l, c, a) => Rebuilt(d, c, a) \in AddsOf(g[c])
           /\ \A x \in AddsOf(g[c]) : \E a \in AddsOf(l[c]) :
                 Survives(d, l, c, a) /\ x = Rebuilt(d, c, a) /\ a \in EntryType
<1>1. \A e \in l[c].entries : e \in EntryType
  BY EntriesOf
<1>2. /\ \A x \in g[c].entries : \E e \in l[c].entries :
            Survives(d, l, c, e) /\ x = Rebuilt(d, c, e)
      /\ \A e \in l[c].entries : Survives(d, l, c, e) => Rebuilt(d, c, e) \in g[c].entries
  BY DEF RebuiltLogs, RebuiltLog
<1>3. \A e \in l[c].entries : Rebuilt(d, c, e).type = e.type
  BY <1>1, RebuiltParts
<1> QED
  BY <1>1, <1>2, <1>3 DEF AddsOf

\* The same HTLCs are open on every commitment.
LEMMA RebuiltOpen ==
    ASSUME NEW d \in DiskType, NEW l \in LogsType, NEW g \in LogsType, LogInv(d, l),
           RebuiltLogs(d, l, g), NEW k \in Commitments(d), NEW c \in Chain
    PROVE  OpenHtlcs(g, k, c) = OpenHtlcs(l, k, c)
<1>1. Opposite(c) \in Chain
  BY DEF Opposite, Chain
<1>2. \A id : ResolvedAt(g, k, c, id) => ResolvedAt(l, k, c, id)
  BY <1>1, RebuiltIs, RebuiltParts DEF ResolvedAt
<1>3. ASSUME NEW a \in l[c].entries, a.type = "Add", Survives(d, l, c, a),
             ResolvedAt(l, k, c, a.id)
      PROVE  ResolvedAt(g, k, c, a.id)
  <2>1. PICK r \in l[Opposite(c)].entries :
           IsRemoval(r) /\ r.id = a.id /\ On(r, k, Opposite(c))
    BY <1>3 DEF ResolvedAt
  <2>2. Survives(d, l, Opposite(c), r)
    BY <1>3, <2>1, RemovalSurvives
  <2>3. Rebuilt(d, Opposite(c), r) \in g[Opposite(c)].entries /\ r \in EntryType
    BY <1>1, <2>2, RebuiltIs, EntriesOf
  <2> QED
    BY <1>1, <2>1, <2>3, RebuiltParts DEF ResolvedAt
<1>4. \A a \in OpenAt(l, k, c) : \E x \in OpenAt(g, k, c) : Htlc(x) = Htlc(a)
  <2> SUFFICES ASSUME NEW a \in OpenAt(l, k, c)
               PROVE  \E x \in OpenAt(g, k, c) : Htlc(x) = Htlc(a)
    OBVIOUS
  <2>1. /\ a \in l[c].entries /\ a \in AddsOf(l[c]) /\ a.type = "Add" /\ On(a, k, c)
        /\ ~ ResolvedAt(l, k, c, a.id) /\ a \in EntryType
    BY EntriesOf DEF OpenAt, AddsOf
  <2>2. Survives(d, l, c, a)
    BY OpenSurvives
  <2> DEFINE x == Rebuilt(d, c, a)
  <2>3. x \in AddsOf(g[c])
    BY <2>1, <2>2, RebuiltIs
  <2>4. x.id = a.id /\ Htlc(x) = Htlc(a) /\ (On(x, k, c) <=> On(a, k, c))
    BY <2>1, RebuiltParts
  <2> HIDE DEF x
  <2>5. x \in OpenAt(g, k, c)
    BY <1>2, <2>1, <2>3, <2>4 DEF OpenAt
  <2> QED
    BY <2>4, <2>5
<1>5. \A x \in OpenAt(g, k, c) : \E a \in OpenAt(l, k, c) : Htlc(x) = Htlc(a)
  <2> SUFFICES ASSUME NEW x \in OpenAt(g, k, c)
               PROVE  \E a \in OpenAt(l, k, c) : Htlc(x) = Htlc(a)
    OBVIOUS
  <2>1. x \in AddsOf(g[c]) /\ On(x, k, c) /\ ~ ResolvedAt(g, k, c, x.id)
    BY DEF OpenAt
  <2>2. PICK a \in AddsOf(l[c]) :
           Survives(d, l, c, a) /\ x = Rebuilt(d, c, a) /\ a \in EntryType
    BY <2>1, RebuiltIs
  <2>3. x.id = a.id /\ Htlc(x) = Htlc(a) /\ (On(x, k, c) <=> On(a, k, c))
    BY <2>2, RebuiltParts
  <2>4. a \in OpenAt(l, k, c)
    BY <1>3, <2>1, <2>2, <2>3 DEF OpenAt, AddsOf
  <2> QED
    BY <2>3, <2>4
<1> QED
  BY <1>4, <1>5 DEF OpenHtlcs

\* The logs that are found again fit the bucket as the old ones did.
LEMMA RebuiltKeeps ==
    ASSUME NEW d \in DiskType, NEW l \in LogsType, NEW g \in LogsType, LogInv(d, l),
           RebuiltLogs(d, l, g)
    PROVE  LogInv(d, g)
<1>1. /\ Ordered(d) /\ Bounded(d, l) /\ Distinct(l) /\ Stamped(d, l) /\ Complete(d, l)
      /\ Counters(d, l) /\ Contents(d, l) /\ Parents(d, l) /\ Stored(d, l) /\ Keys(d, l)
      /\ Packages(d)
  BY DEF LogInv
<1>2. /\ "local" \in Chain /\ "remote" \in Chain
      /\ \A c \in Chain : Opposite(c) \in Chain /\ Opposite(Opposite(c)) = c
      /\ Opposite("local") = "remote" /\ Opposite("remote") = "local"
      /\ Last(d, "local") = RemoteTip(d) /\ Last(d, "remote") = d.commit["local"]
  BY DEF Opposite, Chain, Last
<1>3. \A c \in Chain : Last(d, c) \in Commitments(d) /\ d.commit[c] \in Commitments(d)
  BY DEF Last, Commitments, Chain
<1>4. \A c \in Chain :
         /\ Last(d, c).messageIndex[c] \in Nat /\ Last(d, c).htlcIndex[c] \in Nat
         /\ d.commit[c].messageIndex[c] \in Nat /\ d.commit[c].htlcIndex[c] \in Nat
         /\ g[c].logIndex = Last(d, c).messageIndex[c]
         /\ g[c].htlcCounter = Last(d, c).htlcIndex[c]
  BY <1>3, CommitmentsAre DEF RebuiltLogs, RebuiltLog
<1>5. /\ \A c \in Chain : \A x \in g[c].entries : \E e \in l[c].entries :
            Survives(d, l, c, e) /\ x = Rebuilt(d, c, e) /\ e \in EntryType
      /\ \A c \in Chain : \A e \in l[c].entries :
            Survives(d, l, c, e) => Rebuilt(d, c, e) \in g[c].entries
  BY RebuiltIs
<1>6. Bounded(d, g)
  <2>1. ASSUME NEW c \in Chain, NEW x \in g[c].entries
        PROVE  /\ x.logIndex < g[c].logIndex
               /\ x.type = "Add" => x.id < g[c].htlcCounter
    <3>1. PICK e \in l[c].entries :
             Survives(d, l, c, e) /\ x = Rebuilt(d, c, e) /\ e \in EntryType
      BY <1>5
    <3>2. x.type = e.type /\ x.logIndex = e.logIndex /\ x.id = e.id
      BY <3>1, RebuiltParts
    <3>3. On(e, Last(d, c), c)
      BY <3>1 DEF Survives
    <3>4. e.type = "Add" => e.id < Last(d, c).htlcIndex[c]
      BY <1>1, <1>3, <3>3 DEF Counters, AddsOf
    <3> QED
      BY <1>4, <3>2, <3>3, <3>4 DEF On
  <2>2. /\ RemoteTip(d).messageIndex["local"] <= g["local"].logIndex
        /\ d.commit["local"].messageIndex["remote"] <= g["remote"].logIndex
        /\ RemoteTip(d).htlcIndex["local"] <= g["local"].htlcCounter
        /\ d.commit["local"].htlcIndex["remote"] <= g["remote"].htlcCounter
    BY <1>2, <1>4
  <2> QED
    BY <2>1, <2>2 DEF Bounded
<1>7. Distinct(g)
  <2> SUFFICES ASSUME NEW c \in Chain, NEW x \in g[c].entries, NEW y \in g[c].entries
               PROVE  /\ x.logIndex = y.logIndex => x = y
                      /\ (x.type = "Add" /\ y.type = "Add" /\ x.id = y.id) => x = y
                      /\ (IsRemoval(x) /\ IsRemoval(y) /\ x.id = y.id) => x = y
    BY DEF Distinct
  <2>1. PICK e \in l[c].entries : x = Rebuilt(d, c, e) /\ e \in EntryType
    BY <1>5
  <2>2. PICK f \in l[c].entries : y = Rebuilt(d, c, f) /\ f \in EntryType
    BY <1>5
  <2>3. /\ x.type = e.type /\ x.logIndex = e.logIndex /\ x.id = e.id
        /\ IsRemoval(x) <=> IsRemoval(e)
    BY <2>1, RebuiltParts
  <2>4. /\ y.type = f.type /\ y.logIndex = f.logIndex /\ y.id = f.id
        /\ IsRemoval(y) <=> IsRemoval(f)
    BY <2>2, RebuiltParts
  <2> QED
    BY <1>1, <2>1, <2>2, <2>3, <2>4 DEF Distinct
<1>8. Stamped(d, g)
  <2> SUFFICES ASSUME NEW c \in Chain, NEW ch \in Chain, NEW x \in g[c].entries
               PROVE  StampedOn(d, x, c, ch)
    BY DEF Stamped
  <2>1. PICK e \in l[c].entries : x = Rebuilt(d, c, e) /\ e \in EntryType
    BY <1>5
  <2>2. /\ x.type = e.type
        /\ IsRemoval(x) <=> IsRemoval(e)
        /\ \A k : On(x, k, c) <=> On(e, k, c)
        /\ StampOf(x, "local") =
              IF On(e, d.commit["local"], c) THEN d.commit["local"].height ELSE 0
        /\ StampOf(x, "remote") =
              IF On(e, d.commit["remote"], c) THEN d.commit["remote"].height
              ELSE IF On(e, RemoteTip(d), c) THEN d.commit["remote"].height + 1 ELSE 0
        /\ e.type = "FeeUpdate" => x.added[ch] = x.removed[ch]
        /\ IsRemoval(e) => x.added[ch] = 0
        /\ e.type = "Add" => x.removed[ch] = 0
    BY <2>1, RebuiltParts
  <2>3. e.logIndex \in Nat
    BY <2>1, EntryParts
  <2>4. \A k \in Commitments(d) : On(e, k, c) => k.height > 0
    <3> SUFFICES ASSUME NEW k \in Commitments(d), On(e, k, c) PROVE k.height > 0
      OBVIOUS
    <3>1. k.messageIndex[c] \in Nat /\ e.logIndex < k.messageIndex[c]
      BY CommitmentsAre DEF On
    <3> QED
      BY <1>1, <2>3, <3>1 DEF Ordered
  <2>5. /\ d.commit["local"].height \in Nat /\ d.commit["remote"].height \in Nat
        /\ d.commit["local"] \in Commitments(d) /\ d.commit["remote"] \in Commitments(d)
        /\ HasUnacked(d) => RemoteTip(d).height = d.commit["remote"].height + 1
        /\ ~ HasUnacked(d) => RemoteTip(d) = d.commit["remote"]
    BY <1>1, <1>2, OrderedParts DEF Commitments, RemoteTip
  <2>6. On(e, d.commit["remote"], c) => On(e, RemoteTip(d), c)
    BY <1>1, <2>1, OnOrder DEF Chain
  <2>7. CASE ch = "local"
    <3>1. Tip(d, ch) = d.commit["local"]
      BY <2>7 DEF Tip
    <3> QED
      BY <2>2, <2>4, <2>5, <2>7, <3>1 DEF StampedOn
  <2>8. CASE ch = "remote"
    <3>1. Tip(d, ch) = RemoteTip(d)
      BY <2>8 DEF Tip
    <3>2. StampOf(x, ch) # 0 <=> On(x, Tip(d, ch), c)
      BY <2>2, <2>4, <2>5, <2>6, <2>8, <3>1
    <3>3. /\ StampOf(x, ch) # 0 => StampOf(x, ch) <= Tip(d, ch).height
          /\ StampOf(x, ch) # 0 =>
                (StampOf(x, ch) <= d.commit[ch].height <=> On(x, d.commit[ch], c))
      BY <2>2, <2>4, <2>5, <2>6, <2>8, <3>1
    <3> QED
      BY <2>2, <3>2, <3>3 DEF StampedOn
  <2> QED
    BY <2>7, <2>8 DEF Chain
<1>9. Complete(d, g)
  <2> SUFFICES ASSUME NEW c \in Chain
               PROVE  /\ \A i \in Nat : (d.commit[c].messageIndex[c] <= i /\ i < g[c].logIndex) =>
                            \E x \in g[c].entries : x.logIndex = i
                      /\ \A i \in Nat : (d.commit[c].htlcIndex[c] <= i /\ i < g[c].htlcCounter) =>
                            \E x \in AddsOf(g[c]) : x.id = i
    BY DEF Complete
  <2>0. Last(d, c).messageIndex[c] <= l[c].logIndex /\ Last(d, c).htlcIndex[c] <= l[c].htlcCounter
        /\ l[c].logIndex \in Nat /\ l[c].htlcCounter \in Nat
    BY <1>1, <1>3, Reach, EntriesOf
  <2>1. ASSUME NEW i \in Nat, d.commit[c].messageIndex[c] <= i, i < g[c].logIndex
        PROVE  \E x \in g[c].entries : x.logIndex = i
    <3>1. i < l[c].logIndex
      BY <1>4, <2>0, <2>1
    <3>2. PICK e \in l[c].entries : e.logIndex = i
      BY <1>1, <2>1, <3>1 DEF Complete
    <3>3. On(e, Last(d, c), c) /\ ~ On(e, d.commit[c], c) /\ e \in EntryType
      BY <1>4, <2>1, <3>2, EntriesOf DEF On
    <3>4. Survives(d, l, c, e)
      BY <3>3, LateSurvives
    <3> QED
      BY <1>5, <3>2, <3>3, <3>4, RebuiltParts
  <2>2. ASSUME NEW i \in Nat, d.commit[c].htlcIndex[c] <= i, i < g[c].htlcCounter
        PROVE  \E x \in AddsOf(g[c]) : x.id = i
    <3>1. i < l[c].htlcCounter
      BY <1>4, <2>0, <2>2
    <3>2. PICK e \in AddsOf(l[c]) : e.id = i
      BY <1>1, <2>2, <3>1 DEF Complete
    <3>3. e \in l[c].entries /\ e \in EntryType
      BY <3>2, EntriesOf DEF AddsOf
    <3>4. On(e, Last(d, c), c) /\ ~ On(e, d.commit[c], c)
      BY <1>1, <1>3, <1>4, <2>2, <3>2 DEF Counters
    <3>5. Survives(d, l, c, e)
      BY <3>3, <3>4, LateSurvives
    <3>6. Rebuilt(d, c, e) \in AddsOf(g[c])
      BY <3>2, <3>5, RebuiltIs
    <3> QED
      BY <3>2, <3>3, <3>6, RebuiltParts
  <2> QED
    BY <2>1, <2>2
<1>10. Counters(d, g)
  <2> SUFFICES ASSUME NEW k \in Commitments(d), NEW c \in Chain, NEW x \in AddsOf(g[c])
               PROVE  x.id < k.htlcIndex[c] <=> On(x, k, c)
    BY DEF Counters
  <2>1. PICK a \in AddsOf(l[c]) : x = Rebuilt(d, c, a) /\ a \in EntryType
    BY RebuiltIs
  <2>2. x.id = a.id /\ (On(x, k, c) <=> On(a, k, c))
    BY <2>1, RebuiltParts
  <2> QED
    BY <1>1, <2>1, <2>2 DEF Counters
<1>11. Contents(d, g)
  BY <1>1, RebuiltOpen DEF Contents
<1>12. Parents(d, g)
  <2>1. ASSUME NEW c \in Chain, NEW x \in g[c].entries, IsRemoval(x)
        PROVE  \E y \in AddsOf(g[Opposite(c)]) : ParentOf(d, g, c, x, y)
    <3>1. PICK r \in l[c].entries :
             Survives(d, l, c, r) /\ x = Rebuilt(d, c, r) /\ r \in EntryType
      BY <1>5
    <3>2. IsRemoval(r) /\ x.id = r.id /\ \A k : On(x, k, c) <=> On(r, k, c)
      BY <2>1, <3>1, RebuiltParts
    <3>3. PICK a \in AddsOf(l[Opposite(c)]) : ParentOf(d, l, c, r, a)
      BY <1>1, <3>2 DEF Parents
    <3>4. a \in l[Opposite(c)].entries /\ a.type = "Add" /\ a.id = r.id /\ a \in EntryType
      BY <1>2, <3>3, EntriesOf DEF AddsOf, ParentOf
    <3>5. Survives(d, l, Opposite(c), a)
      BY <3>1, <3>2, <3>4, ParentSurvives
    <3> DEFINE y == Rebuilt(d, Opposite(c), a)
    <3>6. y \in AddsOf(g[Opposite(c)])
      BY <1>2, <3>3, <3>5, RebuiltIs
    <3>7. y.id = a.id /\ \A k : On(y, k, Opposite(c)) <=> On(a, k, Opposite(c))
      BY <1>2, <3>4, RebuiltParts
    <3> HIDE DEF y
    <3>8. ParentOf(d, g, c, x, y)
      BY <3>2, <3>3, <3>7 DEF ParentOf
    <3> QED
      BY <3>6, <3>8
  <2>2. ASSUME NEW c \in Chain, NEW id
        PROVE  id \in g[c].modified <=>
                  \E x \in g[Opposite(c)].entries : IsRemoval(x) /\ x.id = id
    <3>1. id \in g[c].modified <=>
             \E r \in l[Opposite(c)].entries :
                 IsRemoval(r) /\ r.id = id /\ Survives(d, l, Opposite(c), r)
      BY DEF RebuiltLogs, RebuiltLog
    <3>2. \A r \in l[Opposite(c)].entries : r \in EntryType
      BY <1>2, EntriesOf
    <3>3. ASSUME NEW r \in l[Opposite(c)].entries, IsRemoval(r), r.id = id,
                 Survives(d, l, Opposite(c), r)
          PROVE  \E x \in g[Opposite(c)].entries : IsRemoval(x) /\ x.id = id
      BY <1>2, <1>5, <3>2, <3>3, RebuiltParts
    <3>4. ASSUME NEW x \in g[Opposite(c)].entries, IsRemoval(x), x.id = id
          PROVE  \E r \in l[Opposite(c)].entries :
                    IsRemoval(r) /\ r.id = id /\ Survives(d, l, Opposite(c), r)
      BY <1>2, <1>5, <3>4, RebuiltParts
    <3> QED
      BY <3>1, <3>3, <3>4
  <2> QED
    BY <2>1, <2>2 DEF Parents
<1>13. Stored(d, g)
  <2>1. d.unsignedAckedUpdates.updates =
          LogUpdates({x \in g["remote"].entries :
              ~ On(x, d.commit["remote"], "remote") /\ On(x, d.commit["local"], "remote")})
    <3> DEFINE A == {e \in l["remote"].entries :
                ~ On(e, d.commit["remote"], "remote") /\ On(e, d.commit["local"], "remote")}
               B == {x \in g["remote"].entries :
                ~ On(x, d.commit["remote"], "remote") /\ On(x, d.commit["local"], "remote")}
    <3>1. \A e \in A : \E x \in B : LogUpdate(x) = LogUpdate(e)
      BY <1>2, <1>5, LateSurvives, EntriesOf, RebuiltParts
    <3>2. \A x \in B : \E e \in A : LogUpdate(x) = LogUpdate(e)
      BY <1>2, <1>5, RebuiltParts
    <3>3. d.unsignedAckedUpdates.updates = LogUpdates(A)
      BY <1>1 DEF Stored
    <3> HIDE DEF A, B
    <3>4. d.unsignedAckedUpdates.updates = LogUpdates(B)
      BY <3>1, <3>2, <3>3, SameUpdates
    <3> QED
      BY <3>4 DEF B
  <2>2. d.remoteUnsignedLocalUpdates.updates =
          LogUpdates({x \in g["local"].entries :
              x.type # "Add" /\ ~ On(x, d.commit["local"], "local")
                             /\ On(x, d.commit["remote"], "local")})
    <3> DEFINE A == {e \in l["local"].entries :
                e.type # "Add" /\ ~ On(e, d.commit["local"], "local")
                               /\ On(e, d.commit["remote"], "local")}
               B == {x \in g["local"].entries :
                x.type # "Add" /\ ~ On(x, d.commit["local"], "local")
                               /\ On(x, d.commit["remote"], "local")}
    <3>0. \A e \in A : On(e, RemoteTip(d), "local") /\ e \in EntryType
      BY <1>1, <1>2, EntriesOf, OnOrder
    <3>1. \A e \in A : \E x \in B : LogUpdate(x) = LogUpdate(e)
      BY <1>2, <1>5, <3>0, LateSurvives, RebuiltParts
    <3>2. \A x \in B : \E e \in A : LogUpdate(x) = LogUpdate(e)
      BY <1>2, <1>5, RebuiltParts
    <3>3. d.remoteUnsignedLocalUpdates.updates = LogUpdates(A)
      BY <1>1 DEF Stored
    <3> HIDE DEF A, B
    <3>4. d.remoteUnsignedLocalUpdates.updates = LogUpdates(B)
      BY <3>1, <3>2, <3>3, SameUpdates
    <3> QED
      BY <3>4 DEF B
  <2>3. ASSUME HasUnacked(d)
        PROVE  d.diff.updates =
                  LogUpdates({x \in g["local"].entries :
                      ~ On(x, d.commit["remote"], "local") /\ On(x, RemoteTip(d), "local")})
    <3> DEFINE A == {e \in l["local"].entries :
                ~ On(e, d.commit["remote"], "local") /\ On(e, RemoteTip(d), "local")}
               B == {x \in g["local"].entries :
                ~ On(x, d.commit["remote"], "local") /\ On(x, RemoteTip(d), "local")}
    <3>0. \A e \in A : ~ On(e, d.commit["local"], "local") /\ e \in EntryType
      BY <1>1, <1>2, EntriesOf, OnOrder
    <3>1. \A e \in A : \E x \in B : LogUpdate(x) = LogUpdate(e)
      BY <1>2, <1>5, <3>0, LateSurvives, RebuiltParts
    <3>2. \A x \in B : \E e \in A : LogUpdate(x) = LogUpdate(e)
      BY <1>2, <1>5, RebuiltParts
    <3>3. d.diff.updates = LogUpdates(A)
      BY <1>1, <2>3 DEF Stored
    <3> HIDE DEF A, B
    <3>4. d.diff.updates = LogUpdates(B)
      BY <3>1, <3>2, <3>3, SameUpdates
    <3> QED
      BY <3>4 DEF B
  <2>4. \A x \in g["remote"].entries :
          x.isForwarded => On(x, d.commit["remote"], "remote")
    BY <1>2, <1>5, RebuiltParts
  <2> QED
    BY <2>1, <2>2, <2>3, <2>4 DEF Stored
<1>14. Keys(d, g)
  <2>1. ASSUME ~ d.unsignedAckedUpdates.written
        PROVE  \A x \in g["local"].entries : x.type = "Add"
    BY <1>1, <1>2, <1>5, <2>1, RebuiltParts DEF Keys
  <2> QED
    BY <1>1, <2>1 DEF Keys
<1> QED
  BY <1>1, <1>6, <1>7, <1>8, <1>9, <1>10, <1>11, <1>12, <1>13, <1>14 DEF LogInv

\* As many elements as indexes, if each index belongs to one.
LEMMA Indexed ==
    ASSUME NEW S, IsFiniteSet(S), NEW f, f = [x \in S |-> f[x]],
           NEW a \in Nat, NEW b \in Nat, a <= b,
           \A x \in S : f[x] \in Nat /\ a <= f[x] /\ f[x] < b,
           \A i \in Nat : (a <= i /\ i < b) => \E x \in S : f[x] = i,
           \A x, y \in S : f[x] = f[y] => x = y
    PROVE  Cardinality(S) = b - a
<1> DEFINE T == a .. (b - 1)
<1>1. f \in [S -> T]
  OBVIOUS
<1>2. \A t \in T : \E x \in S : f[x] = t
  OBVIOUS
<1> HIDE DEF T
<1>3. f \in Bijection(S, T)
  <2>1. f \in Injection(S, T)
    BY <1>1 DEF Injection, IsInjective
  <2>2. f \in Surjection(S, T)
    BY <1>1, <1>2 DEF Surjection
  <2> QED
    BY <2>1, <2>2 DEF Bijection
<1>4. ExistsBijection(S, T)
  BY <1>3 DEF ExistsBijection
<1>5. Cardinality(T) = Cardinality(S)
  BY <1>4, FS_Bijection
<1>6. Cardinality(T) = b - a
  <2>1. a \in Int /\ b - 1 \in Int
    OBVIOUS
  <2>2. Cardinality(T) = IF a > b - 1 THEN 0 ELSE (b - 1) - a + 1
    BY <2>1, FS_Interval DEF T
  <2> QED
    BY <2>2
<1> QED
  BY <1>5, <1>6

\* The updates of the signature that is not revoked.
Pending(d) == IF HasUnacked(d) THEN d.diff.updates ELSE {}

\* They are those of the local log that only the signed commitment has.
LEMMA PendingIs ==
    ASSUME NEW d \in DiskType, NEW l \in LogsType, LogInv(d, l)
    PROVE  /\ IsFiniteSet(Pending(d)) /\ Pending(d) \in SUBSET LogUpdateType
           /\ \A u \in Pending(d) : \E e \in l["local"].entries :
                 /\ e \in EntryType /\ u = LogUpdate(e)
                 /\ ~ On(e, d.commit["remote"], "local") /\ On(e, RemoteTip(d), "local")
           /\ \A e \in l["local"].entries :
                 ~ On(e, d.commit["remote"], "local") /\ On(e, RemoteTip(d), "local") =>
                     LogUpdate(e) \in Pending(d)
<1>1. \A e \in l["local"].entries : e \in EntryType
  BY EntriesOf DEF Chain
<1>2. CASE HasUnacked(d)
  <2>1. Pending(d) = d.diff.updates
    BY <1>2 DEF Pending
  <2>2. d.diff.updates =
          LogUpdates({e \in l["local"].entries :
              ~ On(e, d.commit["remote"], "local") /\ On(e, RemoteTip(d), "local")})
    BY <1>2 DEF LogInv, Stored
  <2>3. IsFiniteSet(d.diff.updates) /\ d.diff.updates \in SUBSET LogUpdateType
    BY <1>2, DiskParts DEF HasUnacked
  <2>4. /\ \A u \in d.diff.updates : \E e \in l["local"].entries :
              /\ u = LogUpdate(e)
              /\ ~ On(e, d.commit["remote"], "local") /\ On(e, RemoteTip(d), "local")
        /\ \A e \in l["local"].entries :
              ~ On(e, d.commit["remote"], "local") /\ On(e, RemoteTip(d), "local") =>
                  LogUpdate(e) \in d.diff.updates
    BY <2>2 DEF LogUpdates
  <2> QED
    BY <1>1, <2>1, <2>3, <2>4
<1>3. CASE ~ HasUnacked(d)
  <2>1. Pending(d) = {} /\ RemoteTip(d) = d.commit["remote"]
    BY <1>3 DEF Pending, RemoteTip
  <2> QED
    BY <2>1, FS_EmptySet
<1> QED
  BY <1>2, <1>3

\* They continue the log without a gap.
LEMMA PendingIndexes ==
    ASSUME NEW d \in DiskType, NEW l \in LogsType, LogInv(d, l)
    PROVE  LET a == d.commit["remote"].messageIndex["local"]
               b == RemoteTip(d).messageIndex["local"]
               p == d.commit["remote"].htlcIndex["local"]
               q == RemoteTip(d).htlcIndex["local"]
           IN  /\ a \in Nat /\ b \in Nat /\ a <= b /\ p \in Nat /\ q \in Nat /\ p <= q
               /\ \A u \in Pending(d) :
                     u.logIndex \in Nat /\ a <= u.logIndex /\ u.logIndex < b
               /\ \A i \in Nat : (a <= i /\ i < b) => \E u \in Pending(d) : u.logIndex = i
               /\ \A u, v \in Pending(d) : u.logIndex = v.logIndex => u = v
               /\ \A u \in Pending(d) :
                     u.type = "Add" => u.id \in Nat /\ p <= u.id /\ u.id < q
               /\ \A i \in Nat : (p <= i /\ i < q) =>
                     \E u \in Pending(d) : u.type = "Add" /\ u.id = i
               /\ \A u, v \in Pending(d) :
                     (u.type = "Add" /\ v.type = "Add" /\ u.id = v.id) => u = v
<1> DEFINE a == d.commit["remote"].messageIndex["local"]
           b == RemoteTip(d).messageIndex["local"]
           p == d.commit["remote"].htlcIndex["local"]
           q == RemoteTip(d).htlcIndex["local"]
           a0 == d.commit["local"].messageIndex["local"]
           p0 == d.commit["local"].htlcIndex["local"]
<1>1. /\ Ordered(d) /\ Bounded(d, l) /\ Distinct(l) /\ Complete(d, l) /\ Counters(d, l)
      /\ "local" \in Chain /\ "remote" \in Chain
  BY DEF LogInv, Chain
<1>2. /\ a \in Nat /\ b \in Nat /\ a <= b /\ p \in Nat /\ q \in Nat /\ p <= q
      /\ a0 \in Nat /\ a0 <= a /\ p0 \in Nat /\ p0 <= p
  BY <1>1, OrderedParts
<1>3. b <= l["local"].logIndex /\ q <= l["local"].htlcCounter
      /\ l["local"].logIndex \in Nat /\ l["local"].htlcCounter \in Nat
  BY <1>1, EntriesOf DEF Bounded
<1>4. /\ \A e : On(e, d.commit["remote"], "local") <=> e.logIndex < a
      /\ \A e : On(e, RemoteTip(d), "local") <=> e.logIndex < b
  BY DEF On
<1>5. \A e \in AddsOf(l["local"]) :
         /\ e.id < p <=> On(e, d.commit["remote"], "local")
         /\ e.id < q <=> On(e, RemoteTip(d), "local")
  BY <1>1 DEF Counters, Commitments
<1>6. /\ \A i \in Nat : (a0 <= i /\ i < l["local"].logIndex) =>
            \E e \in l["local"].entries : e.logIndex = i
      /\ \A i \in Nat : (p0 <= i /\ i < l["local"].htlcCounter) =>
            \E e \in AddsOf(l["local"]) : e.id = i
  BY <1>1 DEF Complete
<1> HIDE DEF a, b, p, q, a0, p0
<1>7. \A e \in l["local"].entries : e \in EntryType /\ e.logIndex \in Nat /\ e.id \in Nat
  BY <1>1, EntriesOf, EntryParts
<1>8. \A e : LogUpdate(e).type = e.type /\ LogUpdate(e).logIndex = e.logIndex
             /\ LogUpdate(e).id = e.id
  BY DEF LogUpdate
<1>9. /\ \A u \in Pending(d) : \E e \in l["local"].entries :
            u = LogUpdate(e) /\ ~ (e.logIndex < a) /\ e.logIndex < b
      /\ \A e \in l["local"].entries :
            (~ (e.logIndex < a) /\ e.logIndex < b) => LogUpdate(e) \in Pending(d)
  BY <1>4, PendingIs
<1>10. \A u \in Pending(d) : u.logIndex \in Nat /\ a <= u.logIndex /\ u.logIndex < b
  BY <1>2, <1>7, <1>8, <1>9
<1>11. ASSUME NEW i \in Nat, a <= i, i < b
       PROVE  \E u \in Pending(d) : u.logIndex = i
  <2>1. a0 <= i /\ i < l["local"].logIndex
    BY <1>2, <1>3, <1>11
  <2>2. PICK e \in l["local"].entries : e.logIndex = i
    BY <1>6, <2>1
  <2>3. ~ (e.logIndex < a) /\ e.logIndex < b
    BY <1>2, <1>11, <2>2
  <2> QED
    BY <1>8, <1>9, <2>2, <2>3
<1>12. \A u, v \in Pending(d) : u.logIndex = v.logIndex => u = v
  BY <1>1, <1>8, <1>9 DEF Distinct
<1>13. \A u \in Pending(d) : u.type = "Add" => u.id \in Nat /\ p <= u.id /\ u.id < q
  <2> SUFFICES ASSUME NEW u \in Pending(d), u.type = "Add"
               PROVE  u.id \in Nat /\ p <= u.id /\ u.id < q
    OBVIOUS
  <2>1. PICK e \in l["local"].entries :
           u = LogUpdate(e) /\ ~ (e.logIndex < a) /\ e.logIndex < b
    BY <1>9
  <2>2. e \in AddsOf(l["local"]) /\ u.id = e.id
    BY <1>8, <2>1 DEF AddsOf
  <2> QED
    BY <1>2, <1>4, <1>5, <1>7, <2>1, <2>2
<1>14. ASSUME NEW i \in Nat, p <= i, i < q
       PROVE  \E u \in Pending(d) : u.type = "Add" /\ u.id = i
  <2>1. p0 <= i /\ i < l["local"].htlcCounter
    BY <1>2, <1>3, <1>14
  <2>2. PICK e \in AddsOf(l["local"]) : e.id = i
    BY <1>6, <2>1
  <2>3. e \in l["local"].entries /\ e.type = "Add"
    BY <2>2 DEF AddsOf
  <2>4. ~ (e.logIndex < a) /\ e.logIndex < b
    BY <1>2, <1>4, <1>5, <1>14, <2>2
  <2> QED
    BY <1>8, <1>9, <2>2, <2>3, <2>4
<1>15. \A u, v \in Pending(d) :
          (u.type = "Add" /\ v.type = "Add" /\ u.id = v.id) => u = v
  BY <1>1, <1>8, <1>9 DEF Distinct
<1> QED
  BY <1>2, <1>10, <1>11, <1>12, <1>13, <1>14, <1>15 DEF a, b, p, q

\* An entry is restored from what is on disk of it.
LEMMA RebuiltFrom ==
    ASSUME NEW d \in DiskType, NEW c \in Chain, NEW e \in EntryType,
           NEW h, h.id = e.id, h.logIndex = e.logIndex
    PROVE  /\ e.type = "Add" => RestoredAdd(h, HeightsOf(d, c, e)) = Rebuilt(d, c, e)
           /\ e.type # "Add" /\ h.type = e.type =>
                 RestoredUpdate(h, HeightsOf(d, c, e)) = Rebuilt(d, c, e)
<1> DEFINE H == HeightsOf(d, c, e)
<1>1. Rebuilt(d, c, e) =
         Restored(e, IF IsRemoval(e) THEN At(0, 0) ELSE H, IF e.type = "Add" THEN At(0, 0) ELSE H)
  BY DEF Rebuilt
<1>2. IsRemoval(e) <=> e.type # "Add" /\ e.type # "FeeUpdate"
  BY EntryParts
<1> HIDE DEF H
<1>3. ASSUME e.type = "Add"
      PROVE  RestoredAdd(h, H) = Rebuilt(d, c, e)
  BY <1>1, <1>2, <1>3 DEF RestoredAdd, Restored
<1>4. ASSUME e.type # "Add", h.type = e.type
      PROVE  RestoredUpdate(h, H) = Rebuilt(d, c, e)
  BY <1>1, <1>2, <1>4 DEF RestoredUpdate, Restored
<1> QED
  BY <1>3, <1>4 DEF H

\* What the stored updates say of the entries.
LEMMA StoredUpdates ==
    ASSUME NEW d \in DiskType, NEW l \in LogsType, LogInv(d, l)
    PROVE  /\ \A u \in d.unsignedAckedUpdates.updates : \E e \in l["remote"].entries :
                 /\ e \in EntryType /\ u = LogUpdate(e)
                 /\ ~ On(e, d.commit["remote"], "remote") /\ On(e, d.commit["local"], "remote")
           /\ \A e \in l["remote"].entries :
                 ~ On(e, d.commit["remote"], "remote") /\ On(e, d.commit["local"], "remote") =>
                     LogUpdate(e) \in d.unsignedAckedUpdates.updates
           /\ \A u \in d.remoteUnsignedLocalUpdates.updates : \E e \in l["local"].entries :
                 /\ e \in EntryType /\ u = LogUpdate(e) /\ e.type # "Add"
                 /\ ~ On(e, d.commit["local"], "local") /\ On(e, d.commit["remote"], "local")
           /\ \A e \in l["local"].entries :
                 /\ e.type # "Add" /\ ~ On(e, d.commit["local"], "local")
                 /\ On(e, d.commit["remote"], "local")
                 => LogUpdate(e) \in d.remoteUnsignedLocalUpdates.updates
<1>1. \A c \in Chain : \A e \in l[c].entries : e \in EntryType
  BY EntriesOf
<1>2. d.unsignedAckedUpdates.updates =
          LogUpdates({e \in l["remote"].entries :
              ~ On(e, d.commit["remote"], "remote") /\ On(e, d.commit["local"], "remote")})
  BY DEF LogInv, Stored
<1>3. d.remoteUnsignedLocalUpdates.updates =
          LogUpdates({e \in l["local"].entries :
              e.type # "Add" /\ ~ On(e, d.commit["local"], "local")
                             /\ On(e, d.commit["remote"], "local")})
  BY DEF LogInv, Stored
<1>4. /\ \A u \in d.unsignedAckedUpdates.updates : \E e \in l["remote"].entries :
            /\ u = LogUpdate(e)
            /\ ~ On(e, d.commit["remote"], "remote") /\ On(e, d.commit["local"], "remote")
      /\ \A e \in l["remote"].entries :
            ~ On(e, d.commit["remote"], "remote") /\ On(e, d.commit["local"], "remote") =>
                LogUpdate(e) \in d.unsignedAckedUpdates.updates
  BY <1>2 DEF LogUpdates
<1>5. /\ \A u \in d.remoteUnsignedLocalUpdates.updates : \E e \in l["local"].entries :
            /\ u = LogUpdate(e) /\ e.type # "Add"
            /\ ~ On(e, d.commit["local"], "local") /\ On(e, d.commit["remote"], "local")
      /\ \A e \in l["local"].entries :
            /\ e.type # "Add" /\ ~ On(e, d.commit["local"], "local")
            /\ On(e, d.commit["remote"], "local")
            => LogUpdate(e) \in d.remoteUnsignedLocalUpdates.updates
  BY <1>3 DEF LogUpdates
<1> QED
  BY <1>1, <1>4, <1>5 DEF Chain

\* The open HTLCs of a log are those in the commitment.
LEMMA StoredHtlcs ==
    ASSUME NEW d \in DiskType, NEW l \in LogsType, LogInv(d, l),
           NEW k \in Commitments(d), NEW c \in Chain
    PROVE  /\ \A h \in k.htlcs[c] : \E a \in OpenAt(l, k, c) : h = Htlc(a)
           /\ \A a \in OpenAt(l, k, c) : Htlc(a) \in k.htlcs[c] /\ a.id \in Ids(k.htlcs[c])
           /\ \A id \in Ids(k.htlcs[c]) : \E a \in OpenAt(l, k, c) : a.id = id
           /\ \A a \in OpenAt(l, k, c) :
                 /\ a \in l[c].entries /\ a \in EntryType /\ a.type = "Add" /\ On(a, k, c)
                 /\ ~ ResolvedAt(l, k, c, a.id)
<1>1. k.htlcs[c] = OpenHtlcs(l, k, c)
  BY DEF LogInv, Contents
<1>2. \A h \in k.htlcs[c] : \E a \in OpenAt(l, k, c) : h = Htlc(a)
  BY <1>1 DEF OpenHtlcs
<1>3. \A a \in OpenAt(l, k, c) : Htlc(a) \in k.htlcs[c]
  BY <1>1 DEF OpenHtlcs
<1>4. \A a : Htlc(a).id = a.id
  BY DEF Htlc
<1>5. /\ \A id \in Ids(k.htlcs[c]) : \E a \in OpenAt(l, k, c) : a.id = id
      /\ \A a \in OpenAt(l, k, c) : a.id \in Ids(k.htlcs[c])
  BY <1>2, <1>3, <1>4 DEF Ids
<1>6. \A a \in OpenAt(l, k, c) :
         /\ a \in l[c].entries /\ a \in EntryType /\ a.type = "Add" /\ On(a, k, c)
         /\ ~ ResolvedAt(l, k, c, a.id)
  BY EntriesOf DEF OpenAt, AddsOf
<1> QED
  BY <1>2, <1>3, <1>5, <1>6

\* The log of our updates, made of what is on disk.
LEMMA RestoredLocalIs ==
    ASSUME NEW d \in DiskType, NEW l \in LogsType, LogInv(d, l)
    PROVE  /\ RebuiltLog(d, l, "local", RestoredLocalLog(d))
           /\ Cardinality(Pending(d)) =
                 RemoteTip(d).messageIndex["local"] - d.commit["remote"].messageIndex["local"]
<1> DEFINE lh == d.commit["local"].height
           rh == d.commit["remote"].height
           onLocal == ResolvedIds(d.unsignedAckedUpdates.updates)
                            \cup Ids(d.commit["local"].htlcs["local"])
           add(h) == RestoredAdd(h, At(IF h.id \in onLocal THEN lh ELSE 0, rh))
           adds == {add(h) : h \in d.commit["remote"].htlcs["local"]}
           pend(u) == IF u.type = "Add" THEN RestoredAdd(u, At(0, rh + 1))
                      ELSE RestoredUpdate(u, At(0, rh + 1))
           pending == {pend(u) : u \in Pending(d)}
           unsigned == {RestoredUpdate(u, At(0, rh)) :
                            u \in d.remoteUnsignedLocalUpdates.updates}
           new == {e \in pending : e.type = "Add"}
           loc == d.commit["local"]
           rem == d.commit["remote"]
           tip == RemoteTip(d)
           n == RestoredLocalLog(d)
<1>1. /\ n.logIndex = d.commit["remote"].messageIndex["local"] + Cardinality(pending)
      /\ n.htlcCounter = d.commit["remote"].htlcIndex["local"] + Cardinality(new)
      /\ n.entries = adds \cup pending \cup unsigned
      /\ n.modified = ResolvedIds(d.unsignedAckedUpdates.updates)
  BY DEF RestoredLocalLog, Pending
<1>2. /\ Ordered(d) /\ Distinct(l) /\ "local" \in Chain /\ "remote" \in Chain
      /\ Opposite("local") = "remote" /\ Opposite("remote") = "local"
      /\ Last(d, "local") = tip /\ Last(d, "remote") = loc
      /\ loc \in Commitments(d) /\ rem \in Commitments(d) /\ tip \in Commitments(d)
  BY DEF LogInv, Opposite, Chain, Last, Commitments
<1>3. \A e \in l["local"].entries :
         /\ e \in EntryType
         /\ On(e, loc, "local") => On(e, rem, "local")
         /\ On(e, rem, "local") => On(e, tip, "local")
  BY <1>2, EntriesOf, OnOrder
<1>4. ASSUME NEW a \in OpenAt(l, rem, "local")
      PROVE  add(Htlc(a)) = Rebuilt(d, "local", a) /\ Survives(d, l, "local", a)
  <2>1. /\ a \in l["local"].entries /\ a \in EntryType /\ a.type = "Add"
        /\ On(a, rem, "local") /\ ~ ResolvedAt(l, rem, "local", a.id)
    BY <1>2, StoredHtlcs
  <2>2. ASSUME a.id \in ResolvedIds(d.unsignedAckedUpdates.updates)
        PROVE  On(a, loc, "local")
    <3>1. PICK u \in d.unsignedAckedUpdates.updates : IsRemoval(u) /\ u.id = a.id
      BY <2>2 DEF ResolvedIds
    <3>2. PICK r \in l["remote"].entries : u = LogUpdate(r) /\ On(r, loc, "remote")
      BY StoredUpdates
    <3>3. IsRemoval(r) /\ r.id = a.id
      BY <3>1, <3>2 DEF LogUpdate, IsRemoval
    <3> QED
      BY <1>2, <2>1, <3>2, <3>3, ParentIs
  <2>3. ASSUME a.id \in Ids(loc.htlcs["local"])
        PROVE  On(a, loc, "local")
    <3>0. PICK h \in loc.htlcs["local"] : h.id = a.id
      BY <2>3 DEF Ids
    <3>1. PICK b \in OpenAt(l, loc, "local") : h = Htlc(b)
      BY <1>2, StoredHtlcs
    <3>2. b \in l["local"].entries /\ b.type = "Add" /\ On(b, loc, "local")
      BY <3>1 DEF OpenAt, AddsOf
    <3> QED
      BY <1>2, <2>1, <3>0, <3>1, <3>2 DEF Distinct, Htlc
  <2>4. ASSUME On(a, loc, "local")
        PROVE  a.id \in onLocal
    <3>1. CASE ResolvedAt(l, loc, "local", a.id)
      <4>1. PICK r \in l["remote"].entries :
               IsRemoval(r) /\ r.id = a.id /\ On(r, loc, "remote")
        BY <1>2, <3>1 DEF ResolvedAt
      <4>2. ~ On(r, rem, "remote")
        BY <1>2, <2>1, <4>1 DEF ResolvedAt
      <4>3. LogUpdate(r) \in d.unsignedAckedUpdates.updates
        BY <4>1, <4>2, StoredUpdates
      <4>4. IsRemoval(LogUpdate(r)) /\ LogUpdate(r).id = a.id
        BY <4>1 DEF LogUpdate, IsRemoval
      <4> QED
        BY <4>3, <4>4 DEF ResolvedIds
    <3>2. CASE ~ ResolvedAt(l, loc, "local", a.id)
      <4>1. a \in OpenAt(l, loc, "local")
        BY <2>1, <2>4, <3>2 DEF OpenAt, AddsOf
      <4> QED
        BY <1>2, <4>1, StoredHtlcs
    <3> QED
      BY <3>1, <3>2
  <2>5. a.id \in onLocal <=> On(a, loc, "local")
    BY <2>2, <2>3, <2>4
  <2>6. Htlc(a).id = a.id /\ Htlc(a).logIndex = a.logIndex
    BY DEF Htlc
  <2> HIDE DEF onLocal
  <2>7. At(IF Htlc(a).id \in onLocal THEN lh ELSE 0, rh) = HeightsOf(d, "local", a)
    BY <2>1, <2>5, <2>6 DEF HeightsOf
  <2>8. add(Htlc(a)) = Rebuilt(d, "local", a)
    BY <1>2, <2>1, <2>6, <2>7, RebuiltFrom
  <2>9. Survives(d, l, "local", a)
    BY <1>2, OpenSurvives
  <2> QED
    BY <2>8, <2>9
<1>5. ASSUME NEW e \in l["local"].entries, ~ On(e, rem, "local"), On(e, tip, "local")
      PROVE  pend(LogUpdate(e)) = Rebuilt(d, "local", e) /\ Survives(d, l, "local", e)
  <2>1. e \in EntryType /\ ~ On(e, loc, "local")
    BY <1>3, <1>5
  <2>2. HeightsOf(d, "local", e) = At(0, rh + 1)
    BY <1>5, <2>1 DEF HeightsOf
  <2>3. /\ LogUpdate(e).type = e.type /\ LogUpdate(e).id = e.id
        /\ LogUpdate(e).logIndex = e.logIndex
    BY DEF LogUpdate
  <2>4. pend(LogUpdate(e)) = Rebuilt(d, "local", e)
    BY <1>2, <2>1, <2>2, <2>3, RebuiltFrom
  <2>5. Survives(d, l, "local", e)
    BY <1>2, <1>5, <2>1, LateSurvives
  <2> QED
    BY <2>4, <2>5
<1>6. ASSUME NEW e \in l["local"].entries, e.type # "Add",
             ~ On(e, loc, "local"), On(e, rem, "local")
      PROVE  /\ RestoredUpdate(LogUpdate(e), At(0, rh)) = Rebuilt(d, "local", e)
             /\ Survives(d, l, "local", e)
  <2>1. e \in EntryType /\ On(e, tip, "local")
    BY <1>3, <1>6
  <2>2. HeightsOf(d, "local", e) = At(0, rh)
    BY <1>6, <2>1 DEF HeightsOf
  <2>3. /\ LogUpdate(e).type = e.type /\ LogUpdate(e).id = e.id
        /\ LogUpdate(e).logIndex = e.logIndex
    BY DEF LogUpdate
  <2>4. RestoredUpdate(LogUpdate(e), At(0, rh)) = Rebuilt(d, "local", e)
    BY <1>2, <1>6, <2>1, <2>2, <2>3, RebuiltFrom
  <2>5. Survives(d, l, "local", e)
    BY <1>2, <1>6, <2>1, LateSurvives
  <2> QED
    BY <2>4, <2>5
<1> HIDE DEF n, onLocal, add, pend
<1>7. ASSUME NEW x \in n.entries
      PROVE  \E e \in l["local"].entries : Survives(d, l, "local", e) /\ x = Rebuilt(d, "local", e)
  <2>1. CASE x \in adds
    <3>1. PICK h \in rem.htlcs["local"] : x = add(h)
      BY <2>1
    <3>2. PICK a \in OpenAt(l, rem, "local") : h = Htlc(a)
      BY <1>2, StoredHtlcs
    <3>3. a \in l["local"].entries
      BY <1>2, StoredHtlcs
    <3> QED
      BY <1>4, <3>1, <3>2, <3>3
  <2>2. CASE x \in pending
    <3>1. PICK u \in Pending(d) : x = pend(u)
      BY <2>2
    <3>2. PICK e \in l["local"].entries :
             u = LogUpdate(e) /\ ~ On(e, rem, "local") /\ On(e, tip, "local")
      BY PendingIs
    <3> QED
      BY <1>5, <3>1, <3>2
  <2>3. CASE x \in unsigned
    <3>1. PICK u \in d.remoteUnsignedLocalUpdates.updates : x = RestoredUpdate(u, At(0, rh))
      BY <2>3
    <3>2. PICK e \in l["local"].entries :
             /\ u = LogUpdate(e) /\ e.type # "Add"
             /\ ~ On(e, loc, "local") /\ On(e, rem, "local")
      BY StoredUpdates
    <3> QED
      BY <1>6, <3>1, <3>2
  <2> QED
    BY <1>1, <2>1, <2>2, <2>3
<1>8. ASSUME NEW e \in l["local"].entries, Survives(d, l, "local", e)
      PROVE  Rebuilt(d, "local", e) \in n.entries
  <2>1. On(e, tip, "local")
    BY <1>2, <1>8 DEF Survives
  <2>2. CASE ~ On(e, rem, "local")
    <3>1. LogUpdate(e) \in Pending(d)
      BY <2>1, <2>2, PendingIs
    <3>2. Rebuilt(d, "local", e) \in pending
      BY <1>5, <2>1, <2>2, <3>1
    <3> QED
      BY <1>1, <3>2
  <2>3. CASE On(e, rem, "local") /\ e.type = "Add"
    <3>1. e \in OpenAt(l, rem, "local")
      BY <1>2, <1>8, <2>3 DEF Survives, OpenAt, AddsOf
    <3>2. Htlc(e) \in rem.htlcs["local"]
      BY <1>2, <3>1, StoredHtlcs
    <3>3. Rebuilt(d, "local", e) \in adds
      BY <1>4, <3>1, <3>2
    <3> QED
      BY <1>1, <3>3
  <2>4. CASE On(e, rem, "local") /\ e.type # "Add"
    <3>1. ~ On(e, loc, "local")
      BY <1>8, <2>4 DEF Survives
    <3>2. LogUpdate(e) \in d.remoteUnsignedLocalUpdates.updates
      BY <2>4, <3>1, StoredUpdates
    <3>3. Rebuilt(d, "local", e) \in unsigned
      BY <1>6, <2>4, <3>1, <3>2
    <3> QED
      BY <1>1, <3>3
  <2> QED
    BY <2>2, <2>3, <2>4
<1>9. \A id : id \in n.modified <=>
         \E r \in l["remote"].entries :
            IsRemoval(r) /\ r.id = id /\ Survives(d, l, "remote", r)
  <2>1. ASSUME NEW u \in d.unsignedAckedUpdates.updates, IsRemoval(u)
        PROVE  \E r \in l["remote"].entries :
                  IsRemoval(r) /\ r.id = u.id /\ Survives(d, l, "remote", r)
    <3>1. PICK r \in l["remote"].entries :
             u = LogUpdate(r) /\ ~ On(r, rem, "remote") /\ On(r, loc, "remote")
      BY StoredUpdates
    <3>2. Survives(d, l, "remote", r)
      BY <1>2, <3>1, LateSurvives
    <3> QED
      BY <2>1, <3>1, <3>2 DEF LogUpdate, IsRemoval
  <2>2. ASSUME NEW r \in l["remote"].entries, IsRemoval(r), Survives(d, l, "remote", r)
        PROVE  LogUpdate(r) \in d.unsignedAckedUpdates.updates
               /\ IsRemoval(LogUpdate(r)) /\ LogUpdate(r).id = r.id
    <3>1. On(r, loc, "remote") /\ ~ On(r, rem, "remote")
      BY <1>2, <2>2 DEF Survives, IsRemoval
    <3> QED
      BY <2>2, <3>1, StoredUpdates DEF LogUpdate, IsRemoval
  <2> QED
    BY <1>1, <2>1, <2>2 DEF ResolvedIds
<1>10. /\ Cardinality(Pending(d)) = tip.messageIndex["local"] - rem.messageIndex["local"]
       /\ Cardinality(pending) = tip.messageIndex["local"] - rem.messageIndex["local"]
       /\ Cardinality(new) = tip.htlcIndex["local"] - rem.htlcIndex["local"]
  <2> DEFINE a == rem.messageIndex["local"]
             b == tip.messageIndex["local"]
             p == rem.htlcIndex["local"]
             q == tip.htlcIndex["local"]
  <2>1. /\ a \in Nat /\ b \in Nat /\ a <= b /\ p \in Nat /\ q \in Nat /\ p <= q
        /\ \A u \in Pending(d) : u.logIndex \in Nat /\ a <= u.logIndex /\ u.logIndex < b
        /\ \A i \in Nat : (a <= i /\ i < b) => \E u \in Pending(d) : u.logIndex = i
        /\ \A u, v \in Pending(d) : u.logIndex = v.logIndex => u = v
        /\ \A u \in Pending(d) : u.type = "Add" => u.id \in Nat /\ p <= u.id /\ u.id < q
        /\ \A i \in Nat : (p <= i /\ i < q) => \E u \in Pending(d) : u.type = "Add" /\ u.id = i
        /\ \A u, v \in Pending(d) : (u.type = "Add" /\ v.type = "Add" /\ u.id = v.id) => u = v
    BY PendingIndexes
  <2> HIDE DEF a, b, p, q
  <2>2. \A u \in Pending(d) :
           /\ pend(u).type = u.type /\ pend(u).logIndex = u.logIndex /\ pend(u).id = u.id
    BY DEF pend, RestoredAdd, RestoredUpdate, Restored
  <2>3. IsFiniteSet(Pending(d))
    BY PendingIs
  <2>4. IsFiniteSet(pending)
    <3> DEFINE f == [u \in Pending(d) |-> pend(u)]
    <3>1. \A y \in pending : \E u \in Pending(d) : y = f[u]
      OBVIOUS
    <3> HIDE DEF f, pending
    <3> QED
      BY <2>3, <3>1, FiniteImage
  <2>5. Cardinality(Pending(d)) = b - a
    <3> DEFINE S == Pending(d)
               f == [u \in S |-> u.logIndex]
    <3>1. /\ f = [u \in S |-> f[u]]
          /\ \A u \in S : f[u] \in Nat /\ a <= f[u] /\ f[u] < b
          /\ \A i \in Nat : (a <= i /\ i < b) => \E u \in S : f[u] = i
          /\ \A u, v \in S : f[u] = f[v] => u = v
      BY <2>1
    <3>2. IsFiniteSet(S) /\ a \in Nat /\ b \in Nat /\ a <= b
      BY <2>1, <2>3
    <3> HIDE DEF f, S
    <3>3. Cardinality(S) = b - a
      BY <3>1, <3>2, Indexed
    <3> QED
      BY <3>3 DEF S
  <2>6. Cardinality(pending) = b - a
    <3> DEFINE f == [x \in pending |-> x.logIndex]
    <3>1. \A x \in pending : \E u \in Pending(d) : x = pend(u)
      OBVIOUS
    <3>2. \A u \in Pending(d) : pend(u) \in pending
      OBVIOUS
    <3> HIDE DEF pending
    <3>3. /\ f = [x \in pending |-> f[x]]
          /\ \A x \in pending : f[x] \in Nat /\ a <= f[x] /\ f[x] < b
          /\ \A i \in Nat : (a <= i /\ i < b) => \E x \in pending : f[x] = i
          /\ \A x, y \in pending : f[x] = f[y] => x = y
      BY <2>1, <2>2, <3>1, <3>2
    <3> HIDE DEF f
    <3> QED
      BY <2>1, <2>4, <3>3, Indexed
  <2>7. Cardinality(new) = q - p
    <3> DEFINE f == [x \in new |-> x.id]
    <3>1. \A x \in new : \E u \in Pending(d) : x = pend(u) /\ x.type = "Add"
      OBVIOUS
    <3>2. \A u \in Pending(d) : pend(u).type = "Add" => pend(u) \in new
      OBVIOUS
    <3>3. new \in SUBSET pending
      OBVIOUS
    <3> HIDE DEF pending, new
    <3>4. IsFiniteSet(new)
      BY <2>4, <3>3, FS_Subset
    <3>5. /\ f = [x \in new |-> f[x]]
          /\ \A x \in new : f[x] \in Nat /\ p <= f[x] /\ f[x] < q
          /\ \A i \in Nat : (p <= i /\ i < q) => \E x \in new : f[x] = i
          /\ \A x, y \in new : f[x] = f[y] => x = y
      BY <2>1, <2>2, <3>1, <3>2
    <3> HIDE DEF f
    <3> QED
      BY <2>1, <3>4, <3>5, Indexed
  <2> QED
    BY <2>5, <2>6, <2>7 DEF a, b, p, q
<1> HIDE DEF adds, pending, unsigned, new
<1>11. n.logIndex = tip.messageIndex["local"] /\ n.htlcCounter = tip.htlcIndex["local"]
  BY <1>1, <1>2, <1>10, OrderedParts, SMTT(30)
<1>12. RebuiltLog(d, l, "local", n)
  BY <1>2, <1>7, <1>8, <1>9, <1>11 DEF RebuiltLog
<1> QED
  BY <1>10, <1>12 DEF n

\* The log of the peer's updates, made of what is on disk.
LEMMA RestoredRemoteIs ==
    ASSUME NEW d \in DiskType, NEW l \in LogsType, LogInv(d, l)
    PROVE  RebuiltLog(d, l, "remote", RestoredRemoteLog(d))
<1> DEFINE lh == d.commit["local"].height
           rh == d.commit["remote"].height
           onRemote == ResolvedIds(d.remoteUnsignedLocalUpdates.updates)
                            \cup Ids(d.commit["remote"].htlcs["remote"])
           pendingIds == IF HasUnacked(d) THEN Ids(d.diff.commit.htlcs["remote"]) ELSE {}
           addedAt(id) ==
              IF id \in onRemote THEN rh ELSE IF id \in pendingIds THEN rh + 1 ELSE 0
           add(h) == RestoredAdd(h, At(lh, addedAt(h.id)))
           adds == {add(h) : h \in d.commit["local"].htlcs["remote"]}
           height(u) == IF HasUnacked(d) /\ u.logIndex < RemoteTip(d).messageIndex["remote"]
                          THEN rh + 1 ELSE 0
           ack(u) == RestoredUpdate(u, At(lh, height(u)))
           acked == {ack(u) : u \in {v \in d.unsignedAckedUpdates.updates : v.type # "Add"}}
           loc == d.commit["local"]
           rem == d.commit["remote"]
           tip == RemoteTip(d)
           n == RestoredRemoteLog(d)
<1>1. /\ n.logIndex = loc.messageIndex["remote"]
      /\ n.htlcCounter = loc.htlcIndex["remote"]
      /\ n.entries = adds \cup acked
      /\ n.modified = ResolvedIds(Pending(d) \cup d.remoteUnsignedLocalUpdates.updates)
  BY DEF RestoredRemoteLog, Pending
<1>2. /\ Ordered(d) /\ Distinct(l) /\ "local" \in Chain /\ "remote" \in Chain
      /\ Opposite("local") = "remote" /\ Opposite("remote") = "local"
      /\ Last(d, "local") = tip /\ Last(d, "remote") = loc
      /\ loc \in Commitments(d) /\ rem \in Commitments(d) /\ tip \in Commitments(d)
      /\ HasUnacked(d) => tip = d.diff.commit
      /\ ~ HasUnacked(d) => tip = rem
  BY DEF LogInv, Opposite, Chain, Last, Commitments, RemoteTip
<1>3. /\ \A e \in l["remote"].entries :
            /\ e \in EntryType
            /\ On(e, rem, "remote") => On(e, tip, "remote")
            /\ On(e, tip, "remote") => On(e, loc, "remote")
      /\ \A e \in l["local"].entries :
            /\ e \in EntryType
            /\ On(e, loc, "local") => On(e, rem, "local")
            /\ On(e, rem, "local") => On(e, tip, "local")
  BY <1>2, EntriesOf, OnOrder
<1>4. ASSUME NEW a \in OpenAt(l, loc, "remote")
      PROVE  add(Htlc(a)) = Rebuilt(d, "remote", a) /\ Survives(d, l, "remote", a)
  <2>1. /\ a \in l["remote"].entries /\ a \in EntryType /\ a.type = "Add"
        /\ On(a, loc, "remote") /\ ~ ResolvedAt(l, loc, "remote", a.id)
    BY <1>2, StoredHtlcs
  <2>2. ASSUME NEW r \in l["local"].entries, IsRemoval(r), r.id = a.id
        PROVE  On(a, rem, "remote")
    BY <1>2, <2>1, <2>2, ParentIs
  <2>3. ASSUME a.id \in ResolvedIds(d.remoteUnsignedLocalUpdates.updates)
        PROVE  On(a, rem, "remote")
    <3>1. PICK u \in d.remoteUnsignedLocalUpdates.updates : IsRemoval(u) /\ u.id = a.id
      BY <2>3 DEF ResolvedIds
    <3>2. PICK r \in l["local"].entries : u = LogUpdate(r)
      BY StoredUpdates
    <3>3. IsRemoval(r) /\ r.id = a.id
      BY <3>1, <3>2 DEF LogUpdate, IsRemoval
    <3> QED
      BY <2>2, <3>3
  <2>4. ASSUME NEW k \in Commitments(d), a.id \in Ids(k.htlcs["remote"])
        PROVE  On(a, k, "remote")
    <3>1. PICK h \in k.htlcs["remote"] : h.id = a.id
      BY <2>4 DEF Ids
    <3>2. PICK b \in OpenAt(l, k, "remote") : h = Htlc(b)
      BY <1>2, StoredHtlcs
    <3>3. b \in l["remote"].entries /\ b.type = "Add" /\ On(b, k, "remote")
      BY <3>2 DEF OpenAt, AddsOf
    <3> QED
      BY <1>2, <2>1, <3>1, <3>2, <3>3 DEF Distinct, Htlc
  <2>5. ASSUME On(a, rem, "remote")
        PROVE  a.id \in onRemote
    <3>1. CASE ResolvedAt(l, rem, "remote", a.id)
      <4>1. PICK r \in l["local"].entries :
               IsRemoval(r) /\ r.id = a.id /\ On(r, rem, "local")
        BY <1>2, <3>1 DEF ResolvedAt
      <4>2. ~ On(r, loc, "local") /\ r.type # "Add"
        BY <1>2, <2>1, <4>1 DEF ResolvedAt, IsRemoval
      <4>3. LogUpdate(r) \in d.remoteUnsignedLocalUpdates.updates
        BY <4>1, <4>2, StoredUpdates
      <4>4. IsRemoval(LogUpdate(r)) /\ LogUpdate(r).id = a.id
        BY <4>1 DEF LogUpdate, IsRemoval
      <4> QED
        BY <4>3, <4>4 DEF ResolvedIds
    <3>2. CASE ~ ResolvedAt(l, rem, "remote", a.id)
      <4>1. a \in OpenAt(l, rem, "remote")
        BY <2>1, <2>5, <3>2 DEF OpenAt, AddsOf
      <4> QED
        BY <1>2, <4>1, StoredHtlcs
    <3> QED
      BY <3>1, <3>2
  <2>6. ASSUME ~ On(a, rem, "remote"), On(a, tip, "remote")
        PROVE  a.id \in pendingIds
    <3>1. HasUnacked(d)
      BY <1>2, <2>6
    <3>2. ~ ResolvedAt(l, tip, "remote", a.id)
      BY <1>2, <2>2, <2>6 DEF ResolvedAt
    <3>3. a \in OpenAt(l, tip, "remote")
      BY <2>1, <2>6, <3>2 DEF OpenAt, AddsOf
    <3>4. a.id \in Ids(tip.htlcs["remote"])
      BY <1>2, <3>3, StoredHtlcs
    <3> QED
      BY <1>2, <3>1, <3>4
  <2>7. a.id \in onRemote <=> On(a, rem, "remote")
    BY <1>2, <2>3, <2>4, <2>5
  <2>8. a.id \in pendingIds => On(a, tip, "remote")
    BY <1>2, <2>4
  <2>9. Htlc(a).id = a.id /\ Htlc(a).logIndex = a.logIndex
    BY DEF Htlc
  <2> HIDE DEF onRemote, pendingIds
  <2>10. At(lh, addedAt(Htlc(a).id)) = HeightsOf(d, "remote", a)
    BY <2>1, <2>6, <2>7, <2>8, <2>9 DEF HeightsOf
  <2>11. add(Htlc(a)) = Rebuilt(d, "remote", a)
    <3> HIDE DEF addedAt
    <3> QED
      BY <1>2, <2>1, <2>9, <2>10, RebuiltFrom
  <2>12. Survives(d, l, "remote", a)
    BY <1>2, OpenSurvives
  <2> QED
    BY <2>11, <2>12
<1>5. ASSUME NEW e \in l["remote"].entries, e.type # "Add",
             ~ On(e, rem, "remote"), On(e, loc, "remote")
      PROVE  ack(LogUpdate(e)) = Rebuilt(d, "remote", e) /\ Survives(d, l, "remote", e)
  <2>1. e \in EntryType
    BY <1>3, <1>5
  <2>2. /\ LogUpdate(e).type = e.type /\ LogUpdate(e).id = e.id
        /\ LogUpdate(e).logIndex = e.logIndex
    BY DEF LogUpdate
  <2>3. height(LogUpdate(e)) = IF On(e, tip, "remote") THEN rh + 1 ELSE 0
    BY <1>2, <1>5, <2>2 DEF On
  <2>4. HeightsOf(d, "remote", e) = At(lh, height(LogUpdate(e)))
    <3> HIDE DEF height
    <3> QED
      BY <1>5, <2>3 DEF HeightsOf
  <2>5. ack(LogUpdate(e)) = Rebuilt(d, "remote", e)
    <3> HIDE DEF height
    <3> QED
      BY <1>2, <1>5, <2>1, <2>2, <2>4, RebuiltFrom
  <2>6. Survives(d, l, "remote", e)
    BY <1>2, <1>5, <2>1, LateSurvives
  <2> QED
    BY <2>5, <2>6
<1> HIDE DEF n, add, ack
<1>6. ASSUME NEW x \in n.entries
      PROVE  \E e \in l["remote"].entries : Survives(d, l, "remote", e) /\ x = Rebuilt(d, "remote", e)
  <2>1. CASE x \in adds
    <3>1. PICK h \in loc.htlcs["remote"] : x = add(h)
      BY <2>1
    <3>2. PICK a \in OpenAt(l, loc, "remote") : h = Htlc(a)
      BY <1>2, StoredHtlcs
    <3>3. a \in l["remote"].entries
      BY <3>2 DEF OpenAt, AddsOf
    <3> QED
      BY <1>4, <3>1, <3>2, <3>3
  <2>2. CASE x \in acked
    <3>1. PICK u \in d.unsignedAckedUpdates.updates : x = ack(u) /\ u.type # "Add"
      BY <2>2
    <3>2. PICK e \in l["remote"].entries :
             u = LogUpdate(e) /\ ~ On(e, rem, "remote") /\ On(e, loc, "remote")
      BY StoredUpdates
    <3>3. e.type # "Add"
      BY <3>1, <3>2 DEF LogUpdate
    <3> QED
      BY <1>5, <3>1, <3>2, <3>3
  <2> QED
    BY <1>1, <2>1, <2>2
<1>7. ASSUME NEW e \in l["remote"].entries, Survives(d, l, "remote", e)
      PROVE  Rebuilt(d, "remote", e) \in n.entries
  <2>1. On(e, loc, "remote")
    BY <1>2, <1>7 DEF Survives
  <2>2. CASE e.type = "Add"
    <3>1. e \in OpenAt(l, loc, "remote")
      BY <1>2, <1>7, <2>1, <2>2 DEF Survives, OpenAt, AddsOf
    <3>2. Htlc(e) \in loc.htlcs["remote"]
      BY <1>2, <3>1, StoredHtlcs
    <3>3. Rebuilt(d, "remote", e) \in adds
      BY <1>4, <3>1, <3>2
    <3> QED
      BY <1>1, <3>3
  <2>3. CASE e.type # "Add"
    <3>1. ~ On(e, rem, "remote")
      BY <1>7, <2>3 DEF Survives
    <3>2. LogUpdate(e) \in d.unsignedAckedUpdates.updates /\ LogUpdate(e).type # "Add"
      BY <2>1, <2>3, <3>1, StoredUpdates DEF LogUpdate
    <3>3. ack(LogUpdate(e)) \in acked
      BY <3>2
    <3>4. Rebuilt(d, "remote", e) \in acked
      BY <1>5, <2>1, <2>3, <3>1, <3>3
    <3> QED
      BY <1>1, <3>4
  <2> QED
    BY <2>2, <2>3
<1>8. \A id : id \in n.modified <=>
         \E r \in l["local"].entries :
            IsRemoval(r) /\ r.id = id /\ Survives(d, l, "local", r)
  <2> DEFINE U == Pending(d) \cup d.remoteUnsignedLocalUpdates.updates
  <2>1. ASSUME NEW u \in U, IsRemoval(u)
        PROVE  \E r \in l["local"].entries :
                  IsRemoval(r) /\ r.id = u.id /\ Survives(d, l, "local", r)
    <3>1. PICK r \in l["local"].entries :
             u = LogUpdate(r) /\ ~ On(r, loc, "local") /\ On(r, tip, "local")
      <4>1. CASE u \in Pending(d)
        <5>1. PICK r \in l["local"].entries :
                 u = LogUpdate(r) /\ ~ On(r, rem, "local") /\ On(r, tip, "local")
          BY <4>1, PendingIs
        <5> QED
          BY <1>3, <5>1
      <4>2. CASE u \in d.remoteUnsignedLocalUpdates.updates
        <5>1. PICK r \in l["local"].entries :
                 u = LogUpdate(r) /\ ~ On(r, loc, "local") /\ On(r, rem, "local")
          BY <4>2, StoredUpdates
        <5> QED
          BY <1>3, <5>1
      <4> QED
        BY <2>1, <4>1, <4>2
    <3>2. Survives(d, l, "local", r)
      BY <1>2, <3>1, LateSurvives
    <3> QED
      BY <2>1, <3>1, <3>2 DEF LogUpdate, IsRemoval
  <2>2. ASSUME NEW r \in l["local"].entries, IsRemoval(r), Survives(d, l, "local", r)
        PROVE  LogUpdate(r) \in U /\ IsRemoval(LogUpdate(r)) /\ LogUpdate(r).id = r.id
    <3>1. On(r, tip, "local") /\ ~ On(r, loc, "local") /\ r.type # "Add"
      BY <1>2, <2>2 DEF Survives, IsRemoval
    <3>2. LogUpdate(r) \in U
      <4>1. CASE On(r, rem, "local")
        BY <3>1, <4>1, StoredUpdates
      <4>2. CASE ~ On(r, rem, "local")
        BY <3>1, <4>2, PendingIs
      <4> QED
        BY <4>1, <4>2
    <3> HIDE DEF U
    <3> QED
      BY <2>2, <3>2 DEF LogUpdate, IsRemoval
  <2>3. n.modified = ResolvedIds(U)
    BY <1>1
  <2> HIDE DEF U
  <2> QED
    BY <2>1, <2>2, <2>3 DEF ResolvedIds
<1> HIDE DEF adds, acked
<1>9. RebuiltLog(d, l, "remote", n)
  BY <1>1, <1>2, <1>6, <1>7, <1>8 DEF RebuiltLog
<1> QED
  BY <1>9 DEF n

\* NewLightningChannel finds the logs again, as far as they are needed.
LEMMA RestoredKeeps ==
    ASSUME NEW d \in DiskType, NEW l \in LogsType, LogInv(d, l)
    PROVE  restoreCommitState(d) \in LogsType /\ LogInv(d, restoreCommitState(d))
<1> DEFINE g == restoreCommitState(d)
<1>1. g \in LogsType
  BY RestoredLogs
<1>2. g["local"] = RestoredLocalLog(d) /\ g["remote"] = RestoredRemoteLog(d)
  BY DEF restoreCommitState
<1> HIDE DEF g
<1>3. RebuiltLogs(d, l, g)
  BY <1>2, RestoredLocalIs, RestoredRemoteIs DEF RebuiltLogs, Chain
<1>4. LogInv(d, g)
  BY <1>1, <1>3, RebuiltKeeps
<1> QED
  BY <1>1, <1>4 DEF g

\* It neither panics nor returns an error.
LEMMA AlwaysRestorable ==
    ASSUME NEW d \in DiskType, NEW l \in LogsType, LogInv(d, l)
    PROVE  Restorable(d)
<1> DEFINE g == restoreCommitState(d)
           sent == IF HasUnacked(d) THEN d.diff.updates ELSE {}
           base == d.commit["remote"].messageIndex["local"]
           tip == RemoteTip(d)
<1>1. g \in LogsType /\ LogInv(d, g)
  BY RestoredKeeps
<1>2. sent = Pending(d)
  BY DEF Pending
<1>3. Cardinality(sent) = tip.messageIndex["local"] - base
  BY <1>2, RestoredLocalIs
<1>4. RebuiltLog(d, l, "local", g["local"]) /\ RebuiltLog(d, l, "remote", g["remote"])
  BY RestoredLocalIs, RestoredRemoteIs DEF restoreCommitState
<1>5. /\ g["local"].htlcCounter = tip.htlcIndex["local"]
      /\ g["remote"].logIndex = d.commit["local"].messageIndex["remote"]
  BY <1>4 DEF RebuiltLog, Last
<1>6. {u.logIndex : u \in sent} = base .. (base + Cardinality(sent) - 1)
  <2> DEFINE b == tip.messageIndex["local"]
  <2>1. /\ base \in Nat /\ b \in Nat /\ base <= b
        /\ \A u \in sent : u.logIndex \in Nat /\ base <= u.logIndex /\ u.logIndex < b
        /\ \A i \in Nat : (base <= i /\ i < b) => \E u \in sent : u.logIndex = i
    BY <1>2, PendingIndexes
  <2> HIDE DEF sent, base, b
  <2>2. Cardinality(sent) = b - base
    BY <1>3 DEF b
  <2>3. base + Cardinality(sent) - 1 = b - 1
    BY <2>1, <2>2
  <2>4. \A x \in {u.logIndex : u \in sent} : x \in base .. (b - 1)
    BY <2>1
  <2>5. \A x \in base .. (b - 1) : x \in {u.logIndex : u \in sent}
    BY <2>1
  <2> QED
    BY <2>3, <2>4, <2>5
<1>7. {u.id : u \in {v \in sent : v.type = "Add"}} =
         d.commit["remote"].htlcIndex["local"] .. (g["local"].htlcCounter - 1)
  <2> DEFINE p == d.commit["remote"].htlcIndex["local"]
             q == tip.htlcIndex["local"]
  <2>1. /\ p \in Nat /\ q \in Nat
        /\ \A u \in sent : u.type = "Add" => u.id \in Nat /\ p <= u.id /\ u.id < q
        /\ \A i \in Nat : (p <= i /\ i < q) => \E u \in sent : u.type = "Add" /\ u.id = i
    BY <1>2, PendingIndexes
  <2> HIDE DEF sent, p, q
  <2>2. \A x \in {u.id : u \in {v \in sent : v.type = "Add"}} : x \in p .. (q - 1)
    BY <2>1
  <2>3. \A x \in p .. (q - 1) : x \in {u.id : u \in {v \in sent : v.type = "Add"}}
    BY <2>1
  <2>4. {u.id : u \in {v \in sent : v.type = "Add"}} = p .. (q - 1)
    BY <2>2, <2>3
  <2> QED
    BY <1>5, <2>4 DEF p, q
<1>8. \A u \in d.unsignedAckedUpdates.updates : u.logIndex < g["remote"].logIndex
  <2> SUFFICES ASSUME NEW u \in d.unsignedAckedUpdates.updates
               PROVE  u.logIndex < g["remote"].logIndex
    OBVIOUS
  <2>1. PICK e \in l["remote"].entries :
           u = LogUpdate(e) /\ On(e, d.commit["local"], "remote")
    BY StoredUpdates
  <2> QED
    BY <1>5, <2>1 DEF LogUpdate, On
<1>9. \A c \in Chain : \A e \in g[c].entries : IsRemoval(e) => HasHtlc(g[Opposite(c)], e.id)
  <2> HIDE DEF g
  <2> QED
    BY <1>1 DEF LogInv, Parents, ParentOf, HasHtlc
<1> QED
  BY <1>6, <1>7, <1>8, <1>9 DEF Restorable

-----------------------------------------------------------------------------
(* The handlers that add to the logs.                                      *)

\* An HTLC is offered.
LEMMA HtlcAdded ==
    ASSUME NEW d \in DiskType, NEW l \in LogsType, LogInv(d, l), NEW c \in Chain,
           NEW m, m = [x \in Chain |-> m[x]],
           m[c] = appendHtlc(l[c]), m[Opposite(c)] = l[Opposite(c)]
    PROVE  m \in LogsType /\ LogInv(d, m)
<1> DEFINE id == l[c].htlcCounter
           e == Entry("Add", l[c].logIndex, id)
<1>1. /\ Opposite(c) \in Chain /\ \A x \in Chain : x = c \/ x = Opposite(c)
      /\ "Add" \in UpdateKind
  BY DEF Opposite, Chain, UpdateKind
<1>2. /\ l[c] \in LogType /\ IsFiniteSet(l[c].entries) /\ id \in Nat
      /\ l[Opposite(c)] \in LogType /\ IsFiniteSet(l[Opposite(c)].entries)
  BY <1>1, EntriesOf
<1>3. /\ e = Entry("Add", l[c].logIndex, id) /\ id = l[c].htlcCounter
      /\ ~ IsRemoval(e) /\ ("Add" = "Add" => id = l[c].htlcCounter)
  BY DEF Entry, IsRemoval
<1>4. IsFiniteSet(l[c].entries \cup {e})
  BY <1>1, <1>2, AppendedType
<1>5. /\ m[c] = [logIndex |-> l[c].logIndex + 1, htlcCounter |-> l[c].htlcCounter + 1,
                 entries |-> l[c].entries \cup {e}, modified |-> l[c].modified]
      /\ m[c] \in LogType
  BY <1>2, AppendedHtlcType
<1> HIDE DEF e, id
<1>6. /\ m[c].entries = l[c].entries \cup {e} /\ m[c].logIndex = l[c].logIndex + 1
      /\ m[c].htlcCounter = l[c].htlcCounter + 1 /\ m[c].modified = l[c].modified
  BY <1>5
<1>7. m \in LogsType
  <2>1. \A x \in Chain : m[x] \in LogType /\ IsFiniteSet(m[x].entries)
    BY <1>1, <1>2, <1>4, <1>5, <1>6
  <2> QED
    BY <2>1, LogsAre
<1>8. /\ m[Opposite(c)].entries = l[Opposite(c)].entries
      /\ m[Opposite(c)].logIndex = l[Opposite(c)].logIndex
      /\ m[Opposite(c)].htlcCounter = l[Opposite(c)].htlcCounter
      /\ m[Opposite(c)].modified =
            IF IsRemoval(e) THEN l[Opposite(c)].modified \cup {id} ELSE l[Opposite(c)].modified
  BY <1>3
<1>9. m[c].htlcCounter = IF "Add" = "Add" THEN l[c].htlcCounter + 1 ELSE l[c].htlcCounter
  BY <1>6
<1>10. Appends(d, l, m, c, "Add", id, e)
  BY <1>3, <1>6, <1>8, <1>9 DEF Appends
<1>11. LogInv(d, m)
  BY <1>1, <1>2, <1>7, <1>10, Appended
<1> QED
  BY <1>7, <1>11

\* The fee rate is changed.
LEMMA FeeAdded ==
    ASSUME NEW d \in DiskType, NEW l \in LogsType, LogInv(d, l), NEW c \in Chain,
           NEW id \in Nat, d.unsignedAckedUpdates.written \/ c = "remote",
           NEW m, m = [x \in Chain |-> m[x]],
           m[c] = appendUpdate(l[c], "FeeUpdate", id), m[Opposite(c)] = l[Opposite(c)]
    PROVE  m \in LogsType /\ LogInv(d, m)
<1>1. /\ Opposite(c) \in Chain /\ \A x \in Chain : x = c \/ x = Opposite(c)
      /\ "FeeUpdate" \in UpdateKind
  BY DEF Opposite, Chain, UpdateKind
<1>2. PICK type \in UpdateKind : type = "FeeUpdate"
  BY <1>1
<1> DEFINE e == Entry(type, l[c].logIndex, id)
<1>3. /\ l[c] \in LogType /\ IsFiniteSet(l[c].entries)
      /\ l[Opposite(c)] \in LogType /\ IsFiniteSet(l[Opposite(c)].entries)
  BY <1>1, EntriesOf
<1>4. e = Entry(type, l[c].logIndex, id)
  OBVIOUS
<1>5. ~ IsRemoval(e)
  BY <1>2 DEF Entry, IsRemoval
<1>6. /\ m[c] = [logIndex |-> l[c].logIndex + 1, htlcCounter |-> l[c].htlcCounter,
                 entries |-> l[c].entries \cup {e}, modified |-> l[c].modified]
      /\ m[c] \in LogType /\ IsFiniteSet(l[c].entries \cup {e})
  <2>1. /\ appendUpdate(l[c], type, id) =
               [logIndex |-> l[c].logIndex + 1, htlcCounter |-> l[c].htlcCounter,
                entries |-> l[c].entries \cup {Entry(type, l[c].logIndex, id)},
                modified |-> l[c].modified]
         /\ appendUpdate(l[c], type, id) \in LogType
         /\ IsFiniteSet(l[c].entries \cup {Entry(type, l[c].logIndex, id)})
    BY <1>2, <1>3, AppendedType
  <2> QED
    BY <1>2, <2>1
<1> HIDE DEF e
<1>7. /\ m[c].entries = l[c].entries \cup {e}
      /\ m[c].logIndex = l[c].logIndex + 1
      /\ m[c].htlcCounter = l[c].htlcCounter
      /\ m[c].modified = l[c].modified
  BY <1>6
<1>8. m \in LogsType
  <2>1. \A x \in Chain : m[x] \in LogType /\ IsFiniteSet(m[x].entries)
    BY <1>1, <1>3, <1>6, <1>7
  <2> QED
    BY <2>1, LogsAre
<1>9. /\ m[Opposite(c)].entries = l[Opposite(c)].entries
      /\ m[Opposite(c)].logIndex = l[Opposite(c)].logIndex
      /\ m[Opposite(c)].htlcCounter = l[Opposite(c)].htlcCounter
      /\ m[Opposite(c)].modified =
            IF IsRemoval(e) THEN l[Opposite(c)].modified \cup {id} ELSE l[Opposite(c)].modified
  BY <1>5
<1>10. m[c].htlcCounter = IF type = "Add" THEN l[c].htlcCounter + 1 ELSE l[c].htlcCounter
  BY <1>2, <1>7
<1>11. /\ type = "Add" => id = l[c].htlcCounter
       /\ IsRemoval(e) =>
            /\ id \notin l[Opposite(c)].modified
            /\ \E a \in AddsOf(l[Opposite(c)]) :
                  /\ a.id = id
                  /\ c = "local" => \A k \in Commitments(d) : On(a, k, Opposite(c))
  BY <1>2, <1>5
<1>12. d.unsignedAckedUpdates.written \/ c = "remote" \/ type = "Add"
  OBVIOUS
<1>13. m[c].entries = l[c].entries \cup {e} /\ m[c].logIndex = l[c].logIndex + 1
  BY <1>7
<1>14. m[c].modified = l[c].modified
  BY <1>7
<1>15. Appends(d, l, m, c, type, id, e)
  BY <1>4, <1>9, <1>10, <1>11, <1>12, <1>13, <1>14 DEF Appends
<1>16. LogInv(d, m)
  BY <1>2, <1>8, <1>15, Appended
<1> QED
  BY <1>8, <1>16

\* An HTLC is settled or failed.
LEMMA RemovalAdded ==
    ASSUME NEW d \in DiskType, NEW l \in LogsType, LogInv(d, l), NEW c \in Chain,
           NEW type \in {"Settle", "Fail"}, NEW id \in Nat,
           d.unsignedAckedUpdates.written \/ c = "remote",
           id \notin l[Opposite(c)].modified,
           NEW a \in AddsOf(l[Opposite(c)]), a.id = id,
           c = "local" => \A k \in Commitments(d) : On(a, k, Opposite(c)),
           NEW m, m = [x \in Chain |-> m[x]],
           m[c] = appendUpdate(l[c], type, id),
           m[Opposite(c)] = markHtlcModified(l[Opposite(c)], id)
    PROVE  m \in LogsType /\ LogInv(d, m)
<1> DEFINE e == Entry(type, l[c].logIndex, id)
           o == Opposite(c)
<1> HIDE DEF o
<1>1. /\ o \in Chain /\ \A x \in Chain : x = c \/ x = o
      /\ type \in UpdateKind /\ type # "Add"
  BY DEF o, Opposite, Chain, UpdateKind
<1>2. /\ l[c] \in LogType /\ IsFiniteSet(l[c].entries)
      /\ l[o] \in LogType /\ IsFiniteSet(l[o].entries)
  BY <1>1, EntriesOf
<1>3. e = Entry(type, l[c].logIndex, id) /\ IsRemoval(e)
  BY DEF Entry, IsRemoval
<1> HIDE DEF e
<1>4. /\ appendUpdate(l[c], type, id) =
            [logIndex |-> l[c].logIndex + 1, htlcCounter |-> l[c].htlcCounter,
             entries |-> l[c].entries \cup {Entry(type, l[c].logIndex, id)},
             modified |-> l[c].modified]
      /\ appendUpdate(l[c], type, id) \in LogType
      /\ IsFiniteSet(l[c].entries \cup {Entry(type, l[c].logIndex, id)})
  <2>1. type \in UpdateKind /\ l[c] \in LogType /\ IsFiniteSet(l[c].entries)
    BY <1>1, <1>2
  <2> QED
    BY ONLY id \in Nat, <2>1, AppendedType
<1>5. /\ m[c] = [logIndex |-> l[c].logIndex + 1, htlcCounter |-> l[c].htlcCounter,
                 entries |-> l[c].entries \cup {e}, modified |-> l[c].modified]
      /\ m[c] \in LogType /\ IsFiniteSet(l[c].entries \cup {e})
  BY <1>3, <1>4
<1>6. /\ m[o] = [logIndex |-> l[o].logIndex, htlcCounter |-> l[o].htlcCounter,
                 entries |-> l[o].entries, modified |-> l[o].modified \cup {id}]
      /\ m[o] \in LogType
  BY <1>2, MarkedType DEF o
<1>7. /\ m[c].entries = l[c].entries \cup {e} /\ m[c].logIndex = l[c].logIndex + 1
      /\ m[c].htlcCounter = l[c].htlcCounter /\ m[c].modified = l[c].modified
  BY <1>5
<1>8. /\ m[o].entries = l[o].entries /\ m[o].logIndex = l[o].logIndex
      /\ m[o].htlcCounter = l[o].htlcCounter /\ m[o].modified = l[o].modified \cup {id}
  BY <1>6
<1>9. m \in LogsType
  <2>1. \A x \in Chain : m[x] \in LogType /\ IsFiniteSet(m[x].entries)
    BY <1>1, <1>2, <1>5, <1>6, <1>7, <1>8
  <2> QED
    BY <2>1, LogsAre
<1>10. \E b \in AddsOf(l[Opposite(c)]) :
          /\ b.id = id
          /\ c = "local" => \A k \in Commitments(d) : On(b, k, Opposite(c))
  OBVIOUS
<1>11. /\ m[Opposite(c)].entries = l[Opposite(c)].entries
       /\ m[Opposite(c)].logIndex = l[Opposite(c)].logIndex
       /\ m[Opposite(c)].htlcCounter = l[Opposite(c)].htlcCounter
       /\ m[Opposite(c)].modified =
            IF IsRemoval(e) THEN l[Opposite(c)].modified \cup {id} ELSE l[Opposite(c)].modified
  BY <1>3, <1>8 DEF o
<1>12. m[c].htlcCounter = IF type = "Add" THEN l[c].htlcCounter + 1 ELSE l[c].htlcCounter
  BY <1>1, <1>7
<1>13. /\ type = "Add" => id = l[c].htlcCounter
       /\ IsRemoval(e) =>
            /\ id \notin l[Opposite(c)].modified
            /\ \E b \in AddsOf(l[Opposite(c)]) :
                  /\ b.id = id
                  /\ c = "local" => \A k \in Commitments(d) : On(b, k, Opposite(c))
  BY <1>1, <1>10
<1>14. d.unsignedAckedUpdates.written \/ c = "remote" \/ type = "Add"
  OBVIOUS
<1>15. /\ m[c].entries = l[c].entries \cup {e} /\ m[c].logIndex = l[c].logIndex + 1
       /\ m[c].modified = l[c].modified
  BY <1>7
<1>16. type \in UpdateKind /\ e = Entry(type, l[c].logIndex, id)
  BY <1>1, <1>3
<1>17. Appends(d, l, m, c, type, id, e)
  BY <1>11, <1>12, <1>13, <1>14, <1>15, <1>16 DEF Appends
<1>18. LogInv(d, m)
  BY <1>9, <1>16, <1>17, Appended
<1> QED
  BY <1>9, <1>18

\* An HTLC that was handed over is on all commitments.
LEMMA HandedOverOn ==
    ASSUME NEW d \in DiskType, NEW l \in LogsType, LogInv(d, l), NEW id \in Nat,
           HandedOver(d, {"Add"}, id), NEW a \in AddsOf(l["remote"]), a.id = id
    PROVE  /\ \A k \in Commitments(d) : On(a, k, "remote")
           /\ d.unsignedAckedUpdates.written
<1>1. /\ Ordered(d) /\ Counters(d, l) /\ Keys(d, l) /\ Packages(d)
      /\ "remote" \in Chain /\ "local" \in Chain
  BY DEF LogInv, Chain
<1>2. a \in EntryType
  BY <1>1, EntriesOf DEF AddsOf
<1>3. id < d.commit["remote"].htlcIndex["remote"]
  BY <1>1 DEF Packages
<1>4. d.commit["remote"] \in Commitments(d) /\ d.commit["local"] \in Commitments(d)
  BY DEF Commitments
<1>5. On(a, d.commit["remote"], "remote")
  BY <1>1, <1>3, <1>4 DEF Counters
<1>6. \A k \in Commitments(d) : On(a, k, "remote")
  BY <1>1, <1>2, <1>5, FirstLast
<1>7. d.commit["local"].messageIndex["remote"] # 0
  BY <1>2, <1>4, <1>6, EntryParts DEF On
<1> QED
  BY <1>1, <1>6, <1>7 DEF Keys

\* Increasing numbers that fit exactly.
LEMMA NoGap ==
    ASSUME NEW a \in Nat, NEW n \in Nat, NEW f, f = [i \in 1 .. n |-> f[i]],
           \A i \in 1 .. n : f[i] \in Nat /\ a <= f[i] /\ f[i] < a + n,
           \A i, j \in 1 .. n : i < j => f[i] < f[j]
    PROVE  \A i \in 1 .. n : f[i] = a + i - 1
<1> DEFINE T == a .. (a + n - 1)
<1>1. f \in [1 .. n -> T]
  OBVIOUS
<1>2. \A i, j \in 1 .. n : f[i] = f[j] => i = j
  OBVIOUS
<1>3. IsFiniteSet(1 .. n) /\ Cardinality(1 .. n) = n
  BY FS_Interval
<1>4. IsFiniteSet(T) /\ Cardinality(T) = n
  <2>1. a \in Int /\ a + n - 1 \in Int
    OBVIOUS
  <2>2. IsFiniteSet(T) /\ Cardinality(T) = IF a > a + n - 1 THEN 0 ELSE (a + n - 1) - a + 1
    BY <2>1, FS_Interval
  <2> HIDE DEF T
  <2> QED
    BY <2>2
<1>5. \A t \in T : \E i \in 1 .. n : f[i] = t
  <2> DEFINE R == {f[i] : i \in 1 .. n}
  <2>1. R \in SUBSET T
    BY <1>1
  <2>2. Cardinality(R) = n /\ IsFiniteSet(R)
    <3>1. f \in Injection(1 .. n, R)
      BY <1>1, <1>2 DEF Injection, IsInjective
    <3>2. f \in Surjection(1 .. n, R)
      BY <1>1 DEF Surjection
    <3>3. ExistsBijection(1 .. n, R)
      BY <3>1, <3>2 DEF ExistsBijection, Bijection
    <3> HIDE DEF R
    <3> QED
      BY <1>3, <3>3, FS_Bijection
  <2>3. R = T
    <3> HIDE DEF R, T
    <3> QED
      BY <1>4, <2>1, <2>2, FS_Subset
  <2> QED
    BY <2>3
<1> SUFFICES ASSUME ~ \A i \in 1 .. n : f[i] = a + i - 1
             PROVE  FALSE
  OBVIOUS
<1> DEFINE W == {i \in 1 .. n : f[i] # a + i - 1}
<1>6. W \in SUBSET Nat /\ W # {}
  OBVIOUS
<1>7. PICK i \in W : \A j \in W : i <= j
  <2> HIDE DEF W
  <2> QED
    BY <1>6, SmallestNat
<1>8. i \in 1 .. n /\ f[i] # a + i - 1 /\ \A j \in 1 .. n : j < i => f[j] = a + j - 1
  BY <1>7
<1> HIDE DEF W
<1>9. f[i] > a + i - 1
  <2>1. CASE i = 1
    BY <1>8, <2>1
  <2>2. CASE i # 1
    <3>1. PICK j \in 1 .. n : j = i - 1 /\ j < i
      BY <1>8, <2>2
    <3>2. f[j] = a + j - 1 /\ f[j] < f[i] /\ f[i] \in Nat
      BY <1>8, <3>1
    <3>3. i \in Nat /\ j \in Nat /\ f[j] \in Nat /\ f[i] # a + i - 1
      BY <1>8, <3>1, SMTT(30)
    <3> QED
      BY ONLY a \in Nat, <3>1, <3>2, <3>3
  <2> QED
    BY <2>1, <2>2
<1>10. a + i - 1 \in T
  BY <1>8
<1>11. PICK j \in 1 .. n : f[j] = a + i - 1
  BY <1>5, <1>10
<1>12. ~ (j < i)
  <2>1. j < i => f[j] = a + j - 1
    BY <1>8
  <2> QED
    BY <1>8, <1>11, <2>1
<1>13. ~ (i < j)
  <2>1. i < j => f[i] < f[j]
    BY <1>8
  <2> QED
    BY <1>8, <1>9, <1>11, <2>1
<1> QED
  BY <1>8, <1>11, <1>12, <1>13

\* The updates that are sent again.
LEMMA ResentAre ==
    ASSUME NEW d \in DiskType, NEW l \in LogsType, LogInv(d, l), HasUnacked(d)
    PROVE  LET a == d.commit["remote"].messageIndex["local"]
               n == RemoteTip(d).messageIndex["local"] - a
               w == UpdateMsgs(d.diff.updates)
           IN  /\ n \in Nat /\ Len(w) = n
               /\ \A i \in 1 .. n : \E u \in d.diff.updates :
                     u.logIndex = a + i - 1 /\ w[i] = Update(u.type, u.id)
               /\ \A m \in Msgs(w) : m.kind = "update" /\ m.type \in UpdateKind /\ m.id \in Nat
<1> DEFINE a == d.commit["remote"].messageIndex["local"]
           b == RemoteTip(d).messageIndex["local"]
           U == d.diff.updates
           n == Cardinality(U)
           Sorted(f) == \A i, j \in 1 .. n : i < j => f[i].logIndex < f[j].logIndex
           ordered == CHOOSE f \in [1 .. n -> U] : Sorted(f)
           w == UpdateMsgs(U)
<1>1. w = [i \in 1 .. n |-> Update(ordered[i].type, ordered[i].id)]
  BY DEF UpdateMsgs
<1>2. Pending(d) = U
  BY DEF Pending
<1>3. U \in SUBSET LogUpdateType
  BY <1>2, PendingIs
<1>4. n = b - a
  BY <1>2, RestoredLocalIs
<1>5. /\ a \in Nat /\ b \in Nat /\ a <= b
      /\ \A u \in U : u.logIndex \in Nat /\ a <= u.logIndex /\ u.logIndex < b
      /\ \A i \in Nat : (a <= i /\ i < b) => \E u \in U : u.logIndex = i
  BY <1>2, PendingIndexes
<1> HIDE DEF a, b, U, n
<1>6. n \in Nat
  BY <1>4, <1>5
<1>7. \E f \in [1 .. n -> U] : Sorted(f)
  <2> DEFINE f == [i \in 1 .. n |-> CHOOSE u \in U : u.logIndex = a + i - 1]
  <2>1. ASSUME NEW i \in 1 .. n
        PROVE  f[i] \in U /\ f[i].logIndex = a + i - 1
    <3>1. a + i - 1 \in Nat /\ a <= a + i - 1 /\ a + i - 1 < b
      BY <1>4, <1>5, <1>6
    <3>2. \E u \in U : u.logIndex = a + i - 1
      BY <1>5, <3>1
    <3> QED
      BY <3>2
  <2>2. f \in [1 .. n -> U]
    BY <2>1
  <2>3. Sorted(f)
    <3> HIDE DEF f
    <3> QED
      BY <1>5, <1>6, <2>1
  <2> HIDE DEF f
  <2> QED
    BY <2>2, <2>3
<1>8. ordered \in [1 .. n -> U] /\ Sorted(ordered)
  <2> HIDE DEF Sorted
  <2> QED
    BY <1>7
<1>9. w = [i \in 1 .. n |-> Update(ordered[i].type, ordered[i].id)]
  BY <1>1
<1> HIDE DEF ordered, w
<1>10. \A i \in 1 .. n : ordered[i].logIndex = a + i - 1
  <2> DEFINE index == [i \in 1 .. n |-> ordered[i].logIndex]
  <2>1. /\ \A i \in 1 .. n : index[i] \in Nat /\ a <= index[i] /\ index[i] < a + n
        /\ \A i, j \in 1 .. n : i < j => index[i] < index[j]
    BY <1>4, <1>5, <1>6, <1>8
  <2>2. index = [i \in 1 .. n |-> index[i]]
    OBVIOUS
  <2> HIDE DEF index
  <2>0. a \in Nat /\ n \in Nat
    BY <1>5, <1>6
  <2>3. \A i \in 1 .. n : index[i] = a + i - 1
    BY ONLY <2>0, <2>1, <2>2, NoGap
  <2> QED
    BY <2>3 DEF index
<1>11. Len(w) = n
  BY <1>6, <1>9
<1>12. \A i \in 1 .. n : \E u \in U :
          u.logIndex = a + i - 1 /\ w[i] = Update(u.type, u.id)
  BY <1>8, <1>9, <1>10
<1>13. \A m \in Msgs(w) : m.kind = "update" /\ m.type \in UpdateKind /\ m.id \in Nat
  <2> SUFFICES ASSUME NEW i \in 1 .. n
               PROVE  w[i].kind = "update" /\ w[i].type \in UpdateKind /\ w[i].id \in Nat
    BY <1>11 DEF Msgs
  <2>1. PICK u \in U : w[i] = Update(u.type, u.id)
    BY <1>12
  <2> QED
    BY <1>3, <2>1 DEF Update, LogUpdateType
<1> QED
  BY <1>4, <1>6, <1>11, <1>12, <1>13 DEF a, b, U, n, w

-----------------------------------------------------------------------------
(* The invariant: logs and bucket of each side are in line.                *)

\* Updates on their way are what a side can send.
UpdatesTyped(w) ==
    \A m \in Msgs(w) : m.kind = "update" => m.type \in UpdateKind /\ m.id \in Nat

\* A side that has updated its channel once has written its keys.
SideInv(d, l) ==
    /\ LogInv(d, l)
    /\ ~ Fresh0 => d.unsignedAckedUpdates.written

\* The inductive invariant of the channel.
ChannelInv ==
    /\ ChannelTypeOK
    /\ \A s \in Side : UpdatesTyped(wire[s])
    /\ \A s \in Side : SideInv(bucket[s], log[s])

\* What a step of one side has to keep.
LEMMA SideStep ==
    ASSUME ChannelInv, NEW s \in Side, NEW d \in DiskType, NEW l \in LogsType,
           bucket' = [bucket EXCEPT ![s] = d], log' = [log EXCEPT ![s] = l],
           SideInv(d, l), pc' \in [Side -> Pc], disconnects' = disconnects,
           wire' = [x \in Side |-> wire'[x]], \A x \in Side : IsSeq(wire'[x]),
           \A x \in Side : UpdatesTyped(wire'[x])
    PROVE  ChannelInv'
<1>1. bucket' \in [Side -> DiskType] /\ log' \in [Side -> LogsType]
  BY DEF ChannelInv, ChannelTypeOK
<1>2. ChannelTypeOK'
  BY <1>1 DEF ChannelInv, ChannelTypeOK
<1>3. \A x \in Side : SideInv(bucket'[x], log'[x])
  <2> SUFFICES ASSUME NEW x \in Side
               PROVE  SideInv(bucket'[x], log'[x])
    OBVIOUS
  <2>1. CASE x = s
    <3>1. bucket'[x] = d /\ log'[x] = l
      BY <2>1 DEF ChannelInv, ChannelTypeOK
    <3> QED
      BY <3>1
  <2>2. CASE x # s
    <3>1. bucket'[x] = bucket[x] /\ log'[x] = log[x]
      BY <2>2 DEF ChannelInv, ChannelTypeOK
    <3> QED
      BY <3>1 DEF ChannelInv
  <2> QED
    BY <2>1, <2>2
<1> QED
  BY <1>2, <1>3 DEF ChannelInv

\* What a step of one side starts from.
LEMMA SideParts ==
    ASSUME ChannelInv, NEW s \in Side
    PROVE  /\ bucket[s] \in DiskType /\ log[s] \in LogsType
           /\ LogInv(bucket[s], log[s])
           /\ ~ Fresh0 => bucket[s].unsignedAckedUpdates.written
           /\ bucket = [bucket EXCEPT ![s] = bucket[s]]
           /\ log = [log EXCEPT ![s] = log[s]]
           /\ wire = [x \in Side |-> wire[x]] /\ \A x \in Side : IsSeq(wire[x])
           /\ pc \in [Side -> Pc]
           /\ \A p \in Pc : [pc EXCEPT ![s] = p] \in [Side -> Pc]
           /\ log[s] = [x \in Chain |-> log[s][x]]
           /\ log[s] = [local |-> log[s]["local"], remote |-> log[s]["remote"]]
<1>1. /\ bucket[s] \in DiskType /\ log[s] \in LogsType /\ LogInv(bucket[s], log[s])
      /\ ~ Fresh0 => bucket[s].unsignedAckedUpdates.written
  BY DEF ChannelInv, ChannelTypeOK, SideInv
<1>2. /\ bucket = [bucket EXCEPT ![s] = bucket[s]] /\ log = [log EXCEPT ![s] = log[s]]
      /\ wire = [x \in Side |-> wire[x]] /\ \A x \in Side : IsSeq(wire[x])
      /\ pc \in [Side -> Pc] /\ \A p \in Pc : [pc EXCEPT ![s] = p] \in [Side -> Pc]
  BY DEF ChannelInv, ChannelTypeOK
<1>3. log[s] = [x \in Chain |-> log[s][x]]
  BY <1>1 DEF LogsType
<1> QED
  BY <1>1, <1>2, <1>3, TwoChains

\* Messages are sent.
LEMMA SendStep ==
    ASSUME ChannelInv, NEW s \in Side, NEW msgs, IsSeq(msgs), UpdatesTyped(msgs),
           Send(s, msgs)
    PROVE  /\ wire' = [x \in Side |-> wire'[x]] /\ \A x \in Side : IsSeq(wire'[x])
           /\ \A x \in Side : UpdatesTyped(wire'[x])
<1>1. /\ Peer(s) \in Side /\ \A x \in Side : x = s \/ x = Peer(s)
      /\ UpdatesTyped(wire[s]) /\ UpdatesTyped(wire[Peer(s)])
  BY Sides DEF ChannelInv
<1>2. wire = [x \in Side |-> wire[x]] /\ \A x \in Side : IsSeq(wire[x])
  BY SideParts
<1>3. /\ wire' = [x \in Side |-> wire'[x]] /\ \A x \in Side : IsSeq(wire'[x])
      /\ wire'[s] = wire[s]
      /\ Msgs(wire'[Peer(s)]) = Msgs(wire[Peer(s)]) \cup Msgs(msgs)
  BY <1>2, Sent
<1>4. UpdatesTyped(wire'[s]) /\ UpdatesTyped(wire'[Peer(s)])
  BY <1>1, <1>3 DEF UpdatesTyped
<1> QED
  BY <1>1, <1>3, <1>4

\* A message is taken and answered.
LEMMA ReplyStep ==
    ASSUME ChannelInv, NEW s \in Side, NEW msgs, IsSeq(msgs), UpdatesTyped(msgs),
           wire[s] # << >>, Reply(s, msgs)
    PROVE  /\ wire' = [x \in Side |-> wire'[x]] /\ \A x \in Side : IsSeq(wire'[x])
           /\ \A x \in Side : UpdatesTyped(wire'[x])
<1>1. /\ Peer(s) \in Side /\ \A x \in Side : x = s \/ x = Peer(s)
      /\ UpdatesTyped(wire[s]) /\ UpdatesTyped(wire[Peer(s)])
  BY Sides DEF ChannelInv
<1>2. wire = [x \in Side |-> wire[x]] /\ \A x \in Side : IsSeq(wire[x])
  BY SideParts
<1>3. /\ wire' = [x \in Side |-> wire'[x]] /\ \A x \in Side : IsSeq(wire'[x])
      /\ Msgs(wire'[s]) \subseteq Msgs(wire[s])
      /\ Msgs(wire'[Peer(s)]) = Msgs(wire[Peer(s)]) \cup Msgs(msgs)
  BY <1>2, Replied
<1>4. UpdatesTyped(wire'[s]) /\ UpdatesTyped(wire'[Peer(s)])
  BY <1>1, <1>3 DEF UpdatesTyped
<1> QED
  BY <1>1, <1>3, <1>4

\* No message, and one that is no update.
LEMMA NoUpdates ==
    /\ UpdatesTyped(<< >>)
    /\ \A m : m.kind # "update" => UpdatesTyped(<<m>>)
BY SeqShort DEF UpdatesTyped

\* An update that a side can send.
LEMMA OneUpdate ==
    ASSUME NEW type \in UpdateKind, NEW id \in Nat
    PROVE  IsSeq(<<Update(type, id)>>) /\ UpdatesTyped(<<Update(type, id)>>)
<1> DEFINE u == Update(type, id)
<1>1. u.type = type /\ u.id = id
  BY DEF Update
<1> HIDE DEF u
<1>2. IsSeq(<<u>>) /\ Msgs(<<u>>) = {u}
  BY SeqShort
<1>3. UpdatesTyped(<<u>>)
  BY <1>1, <1>2 DEF UpdatesTyped
<1> QED
  BY <1>2, <1>3 DEF u

\* An update is sent.
LEMMA UpdateSent ==
    ASSUME ChannelInv, NEW s \in Side, NEW type \in UpdateKind, NEW id \in Nat,
           Send(s, <<Update(type, id)>>)
    PROVE  /\ wire' = [x \in Side |-> wire'[x]] /\ \A x \in Side : IsSeq(wire'[x])
           /\ \A x \in Side : UpdatesTyped(wire'[x])
<1> DEFINE w == <<Update(type, id)>>
<1>1. IsSeq(w) /\ UpdatesTyped(w) /\ Send(s, w)
  BY OneUpdate
<1> HIDE DEF w
<1> QED
  BY <1>1, SendStep

\* A message that is taken and handled before it is answered by a failure.
LEMMA Failed ==
    ASSUME ChannelInv, NEW s \in Side, Fail(s),
           UNCHANGED wire \/ (wire[s] # << >> /\ Reply(s, << >>))
    PROVE  ChannelInv'
<1>1. /\ bucket[s] \in DiskType /\ log[s] \in LogsType /\ SideInv(bucket[s], log[s])
      /\ bucket = [bucket EXCEPT ![s] = bucket[s]] /\ log = [log EXCEPT ![s] = log[s]]
      /\ [pc EXCEPT ![s] = "failed"] \in [Side -> Pc]
  BY SideParts DEF SideInv, Pc
<1>2. /\ wire' = [x \in Side |-> wire'[x]] /\ \A x \in Side : IsSeq(wire'[x])
      /\ \A x \in Side : UpdatesTyped(wire'[x])
  <2>1. CASE UNCHANGED wire
    BY <2>1, SideParts DEF ChannelInv
  <2>2. CASE wire[s] # << >> /\ Reply(s, << >>)
    BY <2>2, ReplyStep, SeqShort, NoUpdates
  <2> QED
    BY <2>1, <2>2
<1>3. bucket' = [bucket EXCEPT ![s] = bucket[s]] /\ log' = [log EXCEPT ![s] = log[s]]
  BY <1>1 DEF Fail
<1> QED
  BY <1>1, <1>2, <1>3, SideStep DEF Fail

\* An HTLC is offered.
LEMMA AddKeeps ==
    ASSUME ChannelInv, NEW s \in Side, AddHTLC(s)
    PROVE  ChannelInv'
<1> DEFINE d == bucket[s]
           l == log[s]
           m == [l EXCEPT !["local"] = appendHtlc(@)]
<1>1. /\ d \in DiskType /\ l \in LogsType /\ LogInv(d, l)
      /\ ~ Fresh0 => d.unsignedAckedUpdates.written
      /\ bucket = [bucket EXCEPT ![s] = d]
      /\ pc \in [Side -> Pc] /\ l = [x \in Chain |-> l[x]]
  BY SideParts
<1>2. log' = [log EXCEPT ![s] = m]
  BY DEF AddHTLC
<1>3. /\ m = [x \in Chain |-> m[x]] /\ m["local"] = appendHtlc(l["local"])
      /\ m["remote"] = l["remote"] /\ "local" \in Chain /\ Opposite("local") = "remote"
  BY <1>1 DEF Chain, Opposite
<1> HIDE DEF m, d, l
<1>4. m \in LogsType /\ LogInv(d, m)
  BY <1>1, <1>3, HtlcAdded
<1>5. log[s]["local"].htlcCounter \in Nat
  BY SideParts, EntriesOf DEF Chain
<1>6. "Add" \in UpdateKind
  BY DEF UpdateKind
<1>7. /\ wire' = [x \in Side |-> wire'[x]] /\ \A x \in Side : IsSeq(wire'[x])
      /\ \A x \in Side : UpdatesTyped(wire'[x])
  BY <1>5, <1>6, UpdateSent DEF AddHTLC
<1>8. SideInv(d, m)
  BY <1>1, <1>4 DEF SideInv
<1> QED
  BY <1>1, <1>2, <1>4, <1>7, <1>8, SideStep DEF AddHTLC

\* An HTLC of the peer is settled or failed.
LEMMA ResolveKeeps ==
    ASSUME ChannelInv, NEW s \in Side, NEW id \in Nat, NEW type \in {"Settle", "Fail"},
           ResolveHTLC(s, id, type)
    PROVE  ChannelInv'
<1> DEFINE d == bucket[s]
           l == log[s]
           m == [local |-> appendUpdate(l["local"], type, id),
                 remote |-> markHtlcModified(l["remote"], id)]
<1>1. /\ d \in DiskType /\ l \in LogsType /\ LogInv(d, l)
      /\ ~ Fresh0 => d.unsignedAckedUpdates.written
      /\ bucket = [bucket EXCEPT ![s] = d]
      /\ [pc EXCEPT ![s] = "signing"] \in [Side -> Pc]
  BY SideParts DEF Pc
<1>2. log' = [log EXCEPT ![s] = m]
  BY DEF ResolveHTLC
<1>3. /\ m = [x \in Chain |-> m[x]]
      /\ m["local"] = appendUpdate(l["local"], type, id)
      /\ m["remote"] = markHtlcModified(l["remote"], id)
      /\ "local" \in Chain /\ Opposite("local") = "remote"
  BY DEF Chain, Opposite
<1>4. HandedOver(d, {"Add"}, id)
  BY DEF ResolveHTLC, Forwarded, HandedOver
<1>5. HasHtlc(l["remote"], id) /\ id \notin l["remote"].modified
  BY DEF ResolveHTLC, htlcHasModification
<1> HIDE DEF m, d, l
<1>6. PICK a \in AddsOf(l["remote"]) : a.id = id
  BY <1>5 DEF HasHtlc
<1>7. /\ \A k \in Commitments(d) : On(a, k, "remote")
      /\ d.unsignedAckedUpdates.written
  BY <1>1, <1>4, <1>6, HandedOverOn
<1>8. m \in LogsType /\ LogInv(d, m)
  BY <1>1, <1>3, <1>5, <1>6, <1>7, RemovalAdded
<1>9. type \in UpdateKind
  BY DEF UpdateKind
<1>10. /\ wire' = [x \in Side |-> wire'[x]] /\ \A x \in Side : IsSeq(wire'[x])
       /\ \A x \in Side : UpdatesTyped(wire'[x])
  BY <1>9, UpdateSent DEF ResolveHTLC
<1>11. SideInv(d, m)
  BY <1>1, <1>8 DEF SideInv
<1> QED
  BY <1>1, <1>2, <1>8, <1>10, <1>11, SideStep DEF ResolveHTLC

\* The fee rate is changed, in a channel that was updated before.
LEMMA FeeKeeps ==
    ASSUME ChannelInv, ~ Fresh0, NEW s \in Side, NEW rate \in Nat, UpdateFee(s, rate)
    PROVE  ChannelInv'
<1> DEFINE d == bucket[s]
           l == log[s]
           m == [l EXCEPT !["local"] = appendUpdate(@, "FeeUpdate", rate)]
<1>1. /\ d \in DiskType /\ l \in LogsType /\ LogInv(d, l)
      /\ d.unsignedAckedUpdates.written
      /\ bucket = [bucket EXCEPT ![s] = d] /\ l = [x \in Chain |-> l[x]]
      /\ [pc EXCEPT ![s] = "signing"] \in [Side -> Pc]
  BY SideParts DEF Pc
<1>2. log' = [log EXCEPT ![s] = m]
  BY DEF UpdateFee
<1>3. /\ m = [x \in Chain |-> m[x]]
      /\ m["local"] = appendUpdate(l["local"], "FeeUpdate", rate)
      /\ m["remote"] = l["remote"] /\ "local" \in Chain /\ Opposite("local") = "remote"
  BY <1>1 DEF Chain, Opposite
<1> HIDE DEF m, d, l
<1>4. m \in LogsType /\ LogInv(d, m)
  BY <1>1, <1>3, FeeAdded
<1>5. "FeeUpdate" \in UpdateKind
  BY DEF UpdateKind
<1>6. /\ wire' = [x \in Side |-> wire'[x]] /\ \A x \in Side : IsSeq(wire'[x])
      /\ \A x \in Side : UpdatesTyped(wire'[x])
  BY <1>5, UpdateSent DEF UpdateFee
<1>7. SideInv(d, m)
  BY <1>1, <1>4 DEF SideInv
<1> QED
  BY <1>1, <1>2, <1>4, <1>6, <1>7, SideStep DEF UpdateFee

\* An update of the peer arrives.
LEMMA UpdateKeeps ==
    ASSUME ChannelInv, NEW s \in Side, ReceiveUpdate(s)
    PROVE  ChannelInv'
<1> DEFINE d == bucket[s]
           l == log[s]
           u == Head(wire[s])
           n == [local |-> IF u.type \in {"Add", "FeeUpdate"} THEN l["local"]
                           ELSE markHtlcModified(l["local"], u.id),
                 remote |-> IF u.type = "Add" THEN appendHtlc(l["remote"])
                            ELSE appendUpdate(l["remote"], u.type, u.id)]
<1>1. wire[s] # << >> /\ u.kind = "update" /\ Reply(s, << >>)
  BY DEF ReceiveUpdate, Receive
<1>2. CASE ~ Acceptable(s, u)
  <2>1. Fail(s)
    BY <1>2 DEF ReceiveUpdate
  <2> QED
    BY <1>1, <2>1, Failed
<1>3. CASE Acceptable(s, u)
  <2>1. /\ d \in DiskType /\ l \in LogsType /\ LogInv(d, l)
        /\ ~ Fresh0 => d.unsignedAckedUpdates.written
        /\ bucket = [bucket EXCEPT ![s] = d]
        /\ pc \in [Side -> Pc] /\ l = [x \in Chain |-> l[x]]
    BY SideParts
  <2>2. u \in Msgs(wire[s]) /\ UpdatesTyped(wire[s])
    BY <1>1, SideParts, SeqTail DEF ChannelInv
  <2>3. u.type \in UpdateKind /\ u.id \in Nat
    BY <1>1, <2>2 DEF UpdatesTyped
  <2>4. log' = [log EXCEPT ![s] = n] /\ UNCHANGED <<bucket, pc, disconnects>>
    BY <1>3 DEF ReceiveUpdate
  <2>5. /\ n = [x \in Chain |-> n[x]]
        /\ n["local"] = IF u.type \in {"Add", "FeeUpdate"} THEN l["local"]
                         ELSE markHtlcModified(l["local"], u.id)
        /\ n["remote"] = IF u.type = "Add" THEN appendHtlc(l["remote"])
                          ELSE appendUpdate(l["remote"], u.type, u.id)
        /\ "remote" \in Chain /\ Opposite("remote") = "local"
    BY DEF Chain, Opposite
  <2>6. u.type \notin {"Add", "FeeUpdate"} =>
            HasHtlc(l["local"], u.id) /\ u.id \notin l["local"].modified
    BY <1>3 DEF Acceptable, htlcHasModification
  <2> HIDE DEF n, d, l, u
  <2>7. n \in LogsType /\ LogInv(d, n)
    <3>1. CASE u.type = "Add"
      BY <2>1, <2>5, <3>1, HtlcAdded
    <3>2. CASE u.type = "FeeUpdate"
      <4>1. n["remote"] = appendUpdate(l["remote"], "FeeUpdate", u.id) /\ n["local"] = l["local"]
        BY <2>5, <3>2
      <4> QED
        BY <2>1, <2>3, <2>5, <4>1, FeeAdded
    <3>3. CASE u.type \notin {"Add", "FeeUpdate"}
      <4>1. u.type \in {"Settle", "Fail"}
        BY <2>3, <3>3 DEF UpdateKind
      <4>2. PICK a \in AddsOf(l["local"]) : a.id = u.id
        BY <2>6, <3>3 DEF HasHtlc
      <4>3. /\ n["remote"] = appendUpdate(l["remote"], u.type, u.id)
            /\ n["local"] = markHtlcModified(l["local"], u.id)
            /\ u.id \notin l["local"].modified
        BY <2>5, <2>6, <3>3
      <4> QED
        BY <2>1, <2>3, <2>5, <4>1, <4>2, <4>3, RemovalAdded
    <3> QED
      BY <3>1, <3>2, <3>3
  <2>8. /\ wire' = [x \in Side |-> wire'[x]] /\ \A x \in Side : IsSeq(wire'[x])
        /\ \A x \in Side : UpdatesTyped(wire'[x])
    BY <1>1, SeqShort, NoUpdates, ReplyStep
  <2>9. SideInv(d, n)
    BY <2>1, <2>7 DEF SideInv
  <2> QED
    BY <2>1, <2>4, <2>7, <2>8, <2>9, SideStep
<1> QED
  BY <1>2, <1>3

\* The logs with a signature.
LEMMA SignedLogsType ==
    ASSUME NEW d \in DiskType, NEW l \in LogsType
    PROVE  SignedLogs(d, l) \in LogsType
<1>1. d.commit["remote"] \in CommitmentType /\ "remote" \in Chain
  BY DiskParts DEF Chain
<1> QED
  BY <1>1, EvaluatedType DEF SignedLogs

\* A signature is given.
LEMMA SignedKeeps ==
    ASSUME NEW d \in DiskType, NEW l \in LogsType, SideInv(d, l), ~ HasUnacked(d)
    PROVE  /\ SignedDisk(d, l) \in DiskType /\ SignedLogs(d, l) \in LogsType
           /\ SideInv(SignedDisk(d, l), SignedLogs(d, l))
<1>1. LogInv(d, l) /\ (~ Fresh0 => d.unsignedAckedUpdates.written)
  BY DEF SideInv
<1>2. /\ SignedDisk(d, l) \in DiskType
      /\ SignedDisk(d, l).unsignedAckedUpdates = d.unsignedAckedUpdates
  BY SignedType
<1>3. LogInv(SignedDisk(d, l), SignedLogs(d, l))
  BY <1>1, Signed
<1> QED
  BY <1>1, <1>2, <1>3, SignedLogsType DEF SideInv

\* The link signs.
LEMMA SignKeeps ==
    ASSUME ChannelInv, NEW s \in Side, UpdateCommitTx(s)
    PROVE  ChannelInv'
<1> DEFINE d == bucket[s]
           l == log[s]
           e == SignedDisk(d, l)
           m == SignedLogs(d, l)
<1>1. /\ d \in DiskType /\ l \in LogsType /\ LogInv(d, l) /\ SideInv(d, l)
      /\ bucket = [bucket EXCEPT ![s] = d] /\ log = [log EXCEPT ![s] = l]
      /\ [pc EXCEPT ![s] = "ready"] \in [Side -> Pc]
      /\ wire = [x \in Side |-> wire[x]] /\ \A x \in Side : IsSeq(wire[x])
      /\ \A x \in Side : UpdatesTyped(wire[x])
  BY SideParts DEF Pc, SideInv, ChannelInv
<1>2. CASE HasUnacked(d)
  <2>1. /\ pc' = [pc EXCEPT ![s] = "ready"]
        /\ UNCHANGED <<bucket, log, wire, disconnects>>
    BY <1>2 DEF UpdateCommitTx
  <2> HIDE DEF d, l
  <2> QED
    BY <1>1, <2>1, SideStep
<1>3. CASE ~ HasUnacked(d)
  <2>1. CanSign(d, l)
    BY <1>1, AlwaysSigns
  <2>2. /\ bucket' = [bucket EXCEPT ![s] = e] /\ log' = [log EXCEPT ![s] = m]
        /\ pc' = [pc EXCEPT ![s] = "ready"] /\ Send(s, <<SignedMsg(s, d, l)>>)
        /\ UNCHANGED disconnects
    BY <1>3, <2>1 DEF UpdateCommitTx
  <2>3. e \in DiskType /\ m \in LogsType /\ SideInv(e, m)
    BY <1>1, <1>3, SignedKeeps
  <2>4. /\ wire' = [x \in Side |-> wire'[x]] /\ \A x \in Side : IsSeq(wire'[x])
        /\ \A x \in Side : UpdatesTyped(wire'[x])
    <3> DEFINE w == <<SignedMsg(s, d, l)>>
    <3>1. SignedMsg(s, d, l).kind # "update"
      BY DEF SignedMsg, CommitSig
    <3>2. IsSeq(w) /\ UpdatesTyped(w) /\ Send(s, w)
      BY <2>2, <3>1, SeqShort, NoUpdates
    <3> HIDE DEF w
    <3> QED
      BY <3>2, SendStep
  <2> HIDE DEF d, l, e, m
  <2> QED
    BY <1>1, <2>2, <2>3, <2>4, SideStep
<1> QED
  BY <1>2, <1>3

\* A signature of the peer arrives.
LEMMA CommitSigKeeps ==
    ASSUME ChannelInv, NEW s \in Side, ReceiveCommitSig(s)
    PROVE  ChannelInv'
<1> DEFINE d == bucket[s]
           l == log[s]
           e == ReceivedDisk(d, l)
           m == ReceivedLogs(d, l)
           ok == /\ ParentsFetched(l, fetchHTLCView(l, ReceiveIndexes(d, l)), "local")
                 /\ Tx(s, ReceivedCommit(d, l)) = Head(wire[s]).tx
<1>1. wire[s] # << >>
  BY DEF ReceiveCommitSig, Receive
<1>2. CASE ~ ok
  <2>1. Fail(s) /\ Reply(s, << >>)
    BY <1>2 DEF ReceiveCommitSig
  <2> QED
    BY <1>1, <2>1, Failed
<1>3. CASE ok
  <2>1. /\ d \in DiskType /\ l \in LogsType /\ LogInv(d, l)
        /\ ~ Fresh0 => d.unsignedAckedUpdates.written
    BY SideParts
  <2>2. /\ bucket' = [bucket EXCEPT ![s] = e] /\ log' = [log EXCEPT ![s] = m]
        /\ AfterHandler(s, e, m)
        /\ Reply(s, <<RevokeAndAck(d.commit["local"].height)>>) /\ UNCHANGED disconnects
    BY <1>3 DEF ReceiveCommitSig
  <2>3. e \in DiskType /\ m \in LogsType
    BY <2>1, ReceivedType
  <2>4. LogInv(e, m)
    BY <1>3, <2>1, Received
  <2>5. e.unsignedAckedUpdates.written
    <3>1. e.unsignedAckedUpdates =
            Written(getUnsignedAckedUpdates(d, m, ReceivedCommit(d, l)))
      BY <2>1, ReceivedType
    <3> QED
      BY <3>1 DEF Written
  <2>6. pc' \in [Side -> Pc]
    BY <2>2, SideParts DEF AfterHandler, Pc
  <2>7. /\ wire' = [x \in Side |-> wire'[x]] /\ \A x \in Side : IsSeq(wire'[x])
        /\ \A x \in Side : UpdatesTyped(wire'[x])
    <3> DEFINE w == <<RevokeAndAck(d.commit["local"].height)>>
    <3>1. RevokeAndAck(d.commit["local"].height).kind # "update"
      BY DEF RevokeAndAck
    <3>2. IsSeq(w) /\ UpdatesTyped(w) /\ Reply(s, w)
      BY <2>2, <3>1, SeqShort, NoUpdates
    <3> HIDE DEF w
    <3> QED
      BY <1>1, <3>2, ReplyStep
  <2> HIDE DEF d, l, e, m
  <2>8. SideInv(e, m)
    BY <2>4, <2>5 DEF SideInv
  <2> QED
    BY <2>2, <2>3, <2>6, <2>7, <2>8, SideStep
<1> QED
  BY <1>2, <1>3

\* A revocation of the peer arrives.
LEMMA RevocationKeeps ==
    ASSUME ChannelInv, NEW s \in Side, ReceiveRevocation(s)
    PROVE  ChannelInv'
<1> DEFINE d == bucket[s]
           l == log[s]
           e == RevokedDisk(d, l)
           m == RevokedLogs(d, l)
           ok == HasUnacked(d) /\ Head(wire[s]).height = d.commit["remote"].height
<1>1. wire[s] # << >> /\ Reply(s, << >>)
  BY DEF ReceiveRevocation, Receive
<1>2. CASE ~ ok
  <2>1. Fail(s)
    BY <1>2 DEF ReceiveRevocation
  <2> QED
    BY <1>1, <2>1, Failed
<1>3. CASE ok
  <2>1. /\ d \in DiskType /\ l \in LogsType /\ LogInv(d, l)
        /\ ~ Fresh0 => d.unsignedAckedUpdates.written
    BY SideParts
  <2>2. /\ bucket' = [bucket EXCEPT ![s] = e] /\ log' = [log EXCEPT ![s] = m]
        /\ AfterHandler(s, e, m) /\ UNCHANGED disconnects
    BY <1>3 DEF ReceiveRevocation
  <2>3. e \in DiskType /\ m \in LogsType /\ LogInv(e, m)
    BY <1>3, <2>1, Revoked
  <2>4. d.unsignedAckedUpdates.written => e.unsignedAckedUpdates.written
    BY <1>3, <2>1, RevokedType
  <2>5. pc' \in [Side -> Pc]
    BY <2>2, SideParts DEF AfterHandler, Pc
  <2>6. /\ wire' = [x \in Side |-> wire'[x]] /\ \A x \in Side : IsSeq(wire'[x])
        /\ \A x \in Side : UpdatesTyped(wire'[x])
    BY <1>1, SeqShort, NoUpdates, ReplyStep
  <2> HIDE DEF d, l, e, m
  <2>7. SideInv(e, m)
    BY <2>1, <2>3, <2>4 DEF SideInv
  <2> QED
    BY <2>2, <2>3, <2>5, <2>6, <2>7, SideStep
<1> QED
  BY <1>2, <1>3

\* What is sent again after a reconnection is what a side can send.
LEMMA AnswerTyped ==
    ASSUME NEW s \in Side, NEW d \in DiskType, NEW l \in LogsType, LogInv(d, l), NEW m,
           Syncable(d, m)
    PROVE  /\ OweCommit(d, m) => HasUnacked(d)
           /\ IsSeq(SyncAnswer(s, d, l, m)) /\ UpdatesTyped(SyncAnswer(s, d, l, m))
<1>1. OweCommit(d, m) => HasUnacked(d)
  <2>1. d.commit["remote"].height \in Nat
    BY DiskParts DEF Chain, CommitmentType
  <2> QED
    BY <2>1 DEF OweCommit, RemoteTip, Syncable
<1> DEFINE w == UpdateMsgs(d.diff.updates)
<1>2. OweCommit(d, m) =>
         \A x \in Msgs(w) : x.kind = "update" => x.type \in UpdateKind /\ x.id \in Nat
  BY <1>1, ResentAre
<1> DEFINE again == IF OweCommit(d, m) THEN w \o <<CommitSig(Tx(s, d.diff.commit))>>
                                       ELSE << >>
           revocation == IF OweRevocation(d, m) THEN <<RevokeAndAck(m.tail)>> ELSE << >>
           signature == IF SignsOnSync(d, l, m) THEN <<SignedMsg(s, d, l)>> ELSE << >>
<1>3. IsSeq(revocation) /\ UpdatesTyped(revocation)
  <2>1. RevokeAndAck(m.tail).kind # "update"
    BY DEF RevokeAndAck
  <2> QED
    BY <2>1, NoUpdates, SeqShort
<1>4. IsSeq(signature) /\ UpdatesTyped(signature)
  <2>1. SignedMsg(s, d, l).kind # "update"
    BY DEF SignedMsg, CommitSig
  <2> QED
    BY <2>1, NoUpdates, SeqShort
<1>5. IsSeq(again) /\ UpdatesTyped(again)
  <2>1. CASE OweCommit(d, m)
    <3> DEFINE c == <<CommitSig(Tx(s, d.diff.commit))>>
    <3>1. CommitSig(Tx(s, d.diff.commit)).kind # "update"
      BY DEF CommitSig
    <3>2. IsSeq(c) /\ UpdatesTyped(c)
      BY <3>1, NoUpdates, SeqShort
    <3>3. IsFiniteSet(d.diff.updates)
      BY <1>1, <2>1, DiskParts DEF HasUnacked
    <3>4. IsSeq(w)
      BY <3>3, ResentUpdates
    <3> HIDE DEF c, w
    <3>5. IsSeq(w \o c) /\ Msgs(w \o c) = Msgs(w) \cup Msgs(c)
      BY <3>2, <3>4, SeqConcat
    <3>6. UpdatesTyped(w \o c)
      BY <1>2, <2>1, <3>2, <3>5 DEF UpdatesTyped
    <3> QED
      BY <2>1, <3>5, <3>6 DEF c
  <2>2. CASE ~ OweCommit(d, m)
    BY <2>2, NoUpdates, SeqShort
  <2> QED
    BY <2>1, <2>2
<1>6. SyncAnswer(s, d, l, m) = InOrder(d, revocation \o signature, again)
  BY DEF SyncAnswer
<1> HIDE DEF revocation, signature, again, w
<1> DEFINE owed == revocation \o signature
<1>7. /\ IsSeq(owed) /\ UpdatesTyped(owed)
  <2>1. IsSeq(owed) /\ Msgs(owed) = Msgs(revocation) \cup Msgs(signature)
    BY <1>3, <1>4, SeqConcat
  <2> HIDE DEF owed
  <2> QED
    BY <1>3, <1>4, <2>1 DEF UpdatesTyped
<1> HIDE DEF owed
<1>8. /\ IsSeq(owed \o again) /\ Msgs(owed \o again) = Msgs(owed) \cup Msgs(again)
      /\ IsSeq(again \o owed) /\ Msgs(again \o owed) = Msgs(again) \cup Msgs(owed)
  BY <1>5, <1>7, SeqConcat
<1>9. UpdatesTyped(owed \o again) /\ UpdatesTyped(again \o owed)
  BY <1>5, <1>7, <1>8 DEF UpdatesTyped
<1>10. \/ SyncAnswer(s, d, l, m) = owed \o again
       \/ SyncAnswer(s, d, l, m) = again \o owed
  BY <1>6 DEF InOrder, owed
<1> QED
  BY <1>1, <1>8, <1>9, <1>10

\* A ChannelReestablish arrives.
LEMMA ChanSyncKeeps ==
    ASSUME ChannelInv, NEW s \in Side, ProcessChanSyncMsg(s)
    PROVE  ChannelInv'
<1> DEFINE d == bucket[s]
           l == log[s]
           n == Head(wire[s])
           w == SyncAnswer(s, d, l, n)
           ok == Syncable(d, n) /\ (SignsOnSync(d, l, n) => CanSign(d, l))
<1>1. wire[s] # << >>
  BY DEF ProcessChanSyncMsg, Receive
<1>2. CASE ~ ok
  <2>1. Fail(s) /\ Reply(s, << >>)
    BY <1>2 DEF ProcessChanSyncMsg
  <2> QED
    BY <1>1, <2>1, Failed
<1>3. CASE ok
  <2>1. /\ d \in DiskType /\ l \in LogsType /\ LogInv(d, l) /\ SideInv(d, l)
        /\ bucket = [bucket EXCEPT ![s] = d] /\ log = [log EXCEPT ![s] = l]
        /\ [pc EXCEPT ![s] = "ready"] \in [Side -> Pc]
    BY SideParts DEF Pc, SideInv
  <2>2. /\ Reply(s, w) /\ pc' = [pc EXCEPT ![s] = "ready"] /\ UNCHANGED disconnects
        /\ bucket' = IF SignsOnSync(d, l, n)
                       THEN [bucket EXCEPT ![s] = SignedDisk(d, l)] ELSE bucket
        /\ log' = IF SignsOnSync(d, l, n)
                       THEN [log EXCEPT ![s] = SignedLogs(d, l)] ELSE log
    BY <1>3 DEF ProcessChanSyncMsg
  <2>3. IsSeq(w) /\ UpdatesTyped(w)
    BY <1>3, <2>1, AnswerTyped
  <2>4. SignsOnSync(d, l, n) => ~ HasUnacked(d)
    BY DEF SignsOnSync
  <2> HIDE DEF d, l, n, w
  <2>5. /\ wire' = [x \in Side |-> wire'[x]] /\ \A x \in Side : IsSeq(wire'[x])
        /\ \A x \in Side : UpdatesTyped(wire'[x])
    BY <1>1, <2>2, <2>3, ReplyStep
  <2>6. CASE SignsOnSync(d, l, n)
    <3> DEFINE e == SignedDisk(d, l)
               m == SignedLogs(d, l)
    <3>1. e \in DiskType /\ m \in LogsType /\ SideInv(e, m)
      BY <2>1, <2>4, <2>6, SignedKeeps
    <3>2. bucket' = [bucket EXCEPT ![s] = e] /\ log' = [log EXCEPT ![s] = m]
      BY <2>2, <2>6
    <3> HIDE DEF e, m
    <3> QED
      BY <2>1, <2>2, <2>5, <3>1, <3>2, SideStep
  <2>7. CASE ~ SignsOnSync(d, l, n)
    <3>1. bucket' = [bucket EXCEPT ![s] = d] /\ log' = [log EXCEPT ![s] = l]
      BY <2>1, <2>2, <2>7
    <3> QED
      BY <2>1, <2>2, <2>5, <3>1, SideStep
  <2> QED
    BY <2>6, <2>7
<1> QED
  BY <1>2, <1>3

\* The connection breaks.
LEMMA DisconnectKeeps ==
    ASSUME ChannelInv, Disconnect
    PROVE  ChannelInv'
<1>1. bucket' = bucket /\ disconnects' = disconnects + 1
  BY DEF Disconnect
<1>2. bucket' \in [Side -> DiskType] /\ disconnects' \in Nat
  BY <1>1 DEF ChannelInv, ChannelTypeOK
<1>3. log' = [s \in Side |-> restoreCommitState(bucket[s])]
  BY DEF Disconnect
<1>4. /\ log' \in [Side -> LogsType]
      /\ \A s \in Side : SideInv(bucket'[s], log'[s])
  <2>1. \A s \in Side : /\ restoreCommitState(bucket[s]) \in LogsType
                        /\ LogInv(bucket[s], restoreCommitState(bucket[s]))
    BY SideParts, RestoredKeeps
  <2>2. \A s \in Side : ~ Fresh0 => bucket[s].unsignedAckedUpdates.written
    BY SideParts
  <2> QED
    BY <1>1, <1>3, <2>1, <2>2 DEF SideInv
<1>5. pc' \in [Side -> Pc]
  BY DEF Disconnect, Pc
<1>6. wire' = [s \in Side |-> <<ChanSyncMsg(bucket[Peer(s)])>>]
  BY DEF Disconnect
<1>7. \A d : IsSeq(<<ChanSyncMsg(d)>>) /\ UpdatesTyped(<<ChanSyncMsg(d)>>)
  <2> TAKE d
  <2>1. ChanSyncMsg(d).kind # "update"
    BY DEF ChanSyncMsg, ChannelReestablish
  <2> HIDE DEF ChanSyncMsg
  <2> QED
    BY <2>1, SeqShort, NoUpdates
<1>8. wire' = [s \in Side |-> wire'[s]]
      /\ \A s \in Side : IsSeq(wire'[s]) /\ UpdatesTyped(wire'[s])
  BY <1>6, <1>7
<1>9. ChannelTypeOK'
  BY <1>2, <1>4, <1>5, <1>8 DEF ChannelTypeOK
<1> QED
  BY <1>4, <1>8, <1>9 DEF ChannelInv

\* The commitment both sides begin with.
LEMMA FirstCommit ==
    ASSUME NEW s \in Side
    PROVE  LET k == NewCommit(s)
           IN  /\ k \in CommitmentType /\ FiniteCommit(k)
               /\ \A c \in Chain : k.htlcIndex[c] = 0 /\ k.htlcs[c] = {}
               /\ \A c \in Chain : k.messageIndex[c] \in Nat
               /\ \A c \in Chain : k.messageIndex[c] > 0 => k.height > 0
               /\ Fresh0 => k.messageIndex["remote"] = 0
<1> DEFINE k == NewCommit(s)
           n(x) == IF ~ Fresh0 /\ x = Initiator THEN 1 ELSE 0
           at == [local |-> n(s), remote |-> n(Peer(s))]
<1>1. k = [height |-> IF Fresh0 THEN 0 ELSE 1, messageIndex |-> at,
           htlcIndex |-> [c \in Chain |-> 0], htlcs |-> [c \in Chain |-> {}],
           balance |-> [c \in Chain |-> Balance], feePerKw |-> InitialFee]
  BY DEF NewCommit
<1>2. /\ at \in Heights /\ at["remote"] = n(Peer(s))
      /\ \A c \in Chain : at[c] \in Nat /\ (Fresh0 => at[c] = 0)
  BY DEF Heights, Chain
<1> HIDE DEF at
<1>3. k.height = IF Fresh0 THEN 0 ELSE 1
  BY <1>1
<1>4. k \in CommitmentType
  BY <1>1, <1>2, CommitmentChannelAssumption DEF CommitmentType, Heights
<1>5. FiniteCommit(k)
  BY <1>1, FS_EmptySet DEF FiniteCommit
<1>6. k.messageIndex = at /\ \A c \in Chain : k.htlcIndex[c] = 0 /\ k.htlcs[c] = {}
  BY <1>1
<1> HIDE DEF k
<1>7. \A c \in Chain : k.messageIndex[c] > 0 => k.height > 0
  BY <1>2, <1>3, <1>6
<1>8. Fresh0 => k.messageIndex["remote"] = 0
  BY <1>2, <1>6 DEF Chain
<1> QED
  BY <1>2, <1>4, <1>5, <1>6, <1>7, <1>8 DEF k

\* Logs without entries, and a bucket without anything pending.
LEMMA FirstLogs ==
    ASSUME NEW d \in DiskType, NEW l \in LogsType, NEW k \in CommitmentType,
           \A c \in Chain : d.commit[c] = k, d.diff = NoDiff, d.fwdPkgs = {},
           d.unsignedAckedUpdates.updates = {}, d.remoteUnsignedLocalUpdates.updates = {},
           ~ d.unsignedAckedUpdates.written => k.messageIndex["remote"] = 0,
           \A c \in Chain : k.htlcIndex[c] = 0 /\ k.htlcs[c] = {},
           \A c \in Chain : k.messageIndex[c] > 0 => k.height > 0,
           \A c \in Chain : l[c].entries = {} /\ l[c].modified = {} /\ l[c].htlcCounter = 0
                             /\ l[c].logIndex = k.messageIndex[c]
    PROVE  LogInv(d, l)
<1>1. /\ d.commit["local"] = k /\ d.commit["remote"] = k /\ RemoteTip(d) = k
      /\ ~ HasUnacked(d) /\ Commitments(d) = {k}
      /\ "local" \in Chain /\ "remote" \in Chain
      /\ \A c \in Chain : c = "local" \/ c = "remote"
      /\ \A c \in Chain : Opposite(c) \in Chain
  BY DEF RemoteTip, HasUnacked, Commitments, Chain, Opposite
<1>2. \A c \in Chain : k.messageIndex[c] \in Nat /\ k.htlcIndex[c] \in Nat
  BY DEF CommitmentType, Heights
<1>3. \A c \in Chain : AddsOf(l[c]) = {}
  BY DEF AddsOf
<1>4. Ordered(d)
  BY <1>1, <1>2 DEF Ordered
<1>5. Bounded(d, l)
  BY <1>1, <1>2 DEF Bounded
<1>6. Distinct(l)
  BY DEF Distinct
<1>7. Stamped(d, l)
  BY DEF Stamped
<1>8. Complete(d, l)
  <2> SUFFICES ASSUME NEW c \in Chain, NEW i \in Nat
               PROVE  /\ ~ (d.commit[c].messageIndex[c] <= i /\ i < l[c].logIndex)
                      /\ ~ (d.commit[c].htlcIndex[c] <= i /\ i < l[c].htlcCounter)
    BY DEF Complete
  <2>1. /\ d.commit[c].messageIndex[c] = l[c].logIndex /\ l[c].logIndex \in Nat
        /\ d.commit[c].htlcIndex[c] = 0 /\ l[c].htlcCounter = 0
    BY <1>1, <1>2
  <2> QED
    BY <2>1
<1>9. Counters(d, l)
  BY <1>3 DEF Counters
<1>10. Contents(d, l)
  BY <1>1, <1>3 DEF Contents, OpenHtlcs, OpenAt
<1>11. Parents(d, l)
  BY <1>1 DEF Parents
<1>12. Stored(d, l)
  BY <1>1 DEF Stored, LogUpdates
<1>13. Keys(d, l)
  BY <1>1 DEF Keys
<1>14. Packages(d)
  <2>1. \A id \in Nat : ~ (id < 0)
    OBVIOUS
  <2>2. \A id \in Nat : ~ HandedOver(d, {"Add"}, id) /\ ~ HandedOver(d, {"Settle", "Fail"}, id)
    BY DEF HandedOver
  <2>3. \A id \in Nat : ~ (id < d.commit["remote"].htlcIndex["remote"])
                        /\ ~ Gone(d.commit["remote"], id)
    BY <1>1, <2>1 DEF Gone
  <2> QED
    BY <2>2, <2>3 DEF Packages
<1> QED
  BY <1>4, <1>5, <1>6, <1>7, <1>8, <1>9, <1>10, <1>11, <1>12, <1>13, <1>14 DEF LogInv

\* How a channel begins.
LEMMA ChannelBegins ==
    ASSUME ChannelInit
    PROVE  ChannelInv
<1>1. \A s \in Side :
          bucket[s] = [commit |-> [c \in Chain |-> NewCommit(s)], diff |-> NoDiff,
                       unsignedAckedUpdates |-> IF Fresh0 THEN Unwritten ELSE Written({}),
                       remoteUnsignedLocalUpdates |->
                          IF Fresh0 \/ s = Initiator THEN Unwritten ELSE Written({}),
                       lastWasRevoke |-> ~ Fresh0 /\ s = Initiator,
                       fwdPkgs |-> {}]
  BY DEF ChannelInit
<1>2. \A s \in Side : log[s] = [c \in Chain |-> newUpdateLog(NewCommit(s).messageIndex[c], 0)]
  BY DEF ChannelInit
<1>3. ASSUME NEW s \in Side
      PROVE  bucket[s] \in DiskType /\ log[s] \in LogsType /\ SideInv(bucket[s], log[s])
  <2> DEFINE d == bucket[s]
             l == log[s]
             k == NewCommit(s)
  <2>1. /\ k \in CommitmentType /\ FiniteCommit(k)
        /\ \A c \in Chain : k.htlcIndex[c] = 0 /\ k.htlcs[c] = {}
        /\ \A c \in Chain : k.messageIndex[c] \in Nat
        /\ \A c \in Chain : k.messageIndex[c] > 0 => k.height > 0
        /\ Fresh0 => k.messageIndex["remote"] = 0
    BY FirstCommit
  <2>2. d = [commit |-> [c \in Chain |-> k], diff |-> NoDiff,
             unsignedAckedUpdates |-> IF Fresh0 THEN Unwritten ELSE Written({}),
             remoteUnsignedLocalUpdates |->
                IF Fresh0 \/ s = Initiator THEN Unwritten ELSE Written({}),
             lastWasRevoke |-> ~ Fresh0 /\ s = Initiator, fwdPkgs |-> {}]
    BY <1>1
  <2>3. l = [c \in Chain |-> newUpdateLog(k.messageIndex[c], 0)]
    BY <1>2
  <2> HIDE DEF d, l, k
  <2>4. /\ d.commit = [c \in Chain |-> k] /\ d.diff = NoDiff /\ d.fwdPkgs = {}
        /\ d.unsignedAckedUpdates = IF Fresh0 THEN Unwritten ELSE Written({})
        /\ d.remoteUnsignedLocalUpdates =
                IF Fresh0 \/ s = Initiator THEN Unwritten ELSE Written({})
    BY <2>2
  <2>5. d.lastWasRevoke \in BOOLEAN
    BY <2>2
  <2>6. /\ d.unsignedAckedUpdates \in KeyType /\ d.remoteUnsignedLocalUpdates \in KeyType
        /\ d.unsignedAckedUpdates.updates = {} /\ d.remoteUnsignedLocalUpdates.updates = {}
    BY <2>4 DEF KeyType, Unwritten, Written
  <2>7. /\ Fresh0 => ~ d.unsignedAckedUpdates.written
        /\ ~ Fresh0 => d.unsignedAckedUpdates.written
    BY <2>4 DEF Unwritten, Written
  <2>8. d \in DiskType
    <3>1. d = [commit |-> d.commit, diff |-> d.diff,
               unsignedAckedUpdates |-> d.unsignedAckedUpdates,
               remoteUnsignedLocalUpdates |-> d.remoteUnsignedLocalUpdates,
               lastWasRevoke |-> d.lastWasRevoke, fwdPkgs |-> d.fwdPkgs]
      BY <2>2
    <3>2. d.commit = [c \in Chain |-> d.commit[c]]
      BY <2>4
    <3> QED
      BY <2>1, <2>4, <2>5, <2>6, <3>1, <3>2, FS_EmptySet, DiskAre
  <2>9. \A c \in Chain : /\ l[c].entries = {} /\ l[c].modified = {} /\ l[c].htlcCounter = 0
                         /\ l[c].logIndex = k.messageIndex[c]
                         /\ l[c] \in LogType
    BY <2>1, <2>3 DEF newUpdateLog, LogType
  <2>10. l \in LogsType
    <3>1. l = [c \in Chain |-> l[c]]
      BY <2>3
    <3> QED
      BY <2>9, <3>1, FS_EmptySet, LogsAre
  <2>11. LogInv(d, l)
    <3>1. ~ d.unsignedAckedUpdates.written => k.messageIndex["remote"] = 0
      BY <2>1, <2>7
    <3>2. \A c \in Chain : /\ l[c].entries = {} /\ l[c].modified = {}
                           /\ l[c].htlcCounter = 0 /\ l[c].logIndex = k.messageIndex[c]
      BY <2>9
    <3>3. /\ \A c \in Chain : k.htlcIndex[c] = 0 /\ k.htlcs[c] = {}
          /\ \A c \in Chain : k.messageIndex[c] > 0 => k.height > 0
          /\ k \in CommitmentType
      BY <2>1
    <3>4. d.unsignedAckedUpdates.updates = {} /\ d.remoteUnsignedLocalUpdates.updates = {}
      BY <2>6
    <3>5. (\A c \in Chain : d.commit[c] = k) /\ d.diff = NoDiff /\ d.fwdPkgs = {}
      BY <2>4
    <3> QED
      BY <2>8, <2>10, <3>1, <3>2, <3>3, <3>4, <3>5, FirstLogs
  <2> QED
    BY <2>7, <2>8, <2>10, <2>11 DEF SideInv, d, l
<1>4. /\ bucket \in [Side -> DiskType] /\ log \in [Side -> LogsType]
  BY <1>3 DEF ChannelInit
<1>5. pc \in [Side -> Pc] /\ wire = [s \in Side |-> << >>] /\ disconnects \in Nat
  BY DEF ChannelInit, Pc
<1>6. /\ wire = [s \in Side |-> wire[s]]
      /\ \A s \in Side : IsSeq(wire[s]) /\ UpdatesTyped(wire[s])
  BY <1>5, SeqShort, NoUpdates
<1>7. ChannelTypeOK
  BY <1>4, <1>5, <1>6 DEF ChannelTypeOK
<1> QED
  BY <1>3, <1>6, <1>7 DEF ChannelInv

\* A fee change that is the first update of a channel is forgotten by a
\* reconnection (ChannelFirstFee.cfg).  The theorems are about channels that
\* were updated before, and fresh ones without fee changes.
FeeRatesKnown == Fresh0 => FeeRates = {}

\* ChannelInv is inductive.
THEOREM ChannelInductive ==
    ASSUME FeeRatesKnown
    PROVE  ChannelSpec => []ChannelInv
<1>1. ChannelInit => ChannelInv
  BY ChannelBegins
<1>2. ChannelInv /\ [ChannelNext]_channelVars => ChannelInv'
  <2> SUFFICES ASSUME ChannelInv, [ChannelNext]_channelVars
               PROVE  ChannelInv'
    OBVIOUS
  <2>1. CASE UNCHANGED channelVars
    BY <2>1 DEF channelVars, ChannelInv, ChannelTypeOK
  <2>2. ASSUME NEW s \in Side, AddHTLC(s)
        PROVE  ChannelInv'
    BY <2>2, AddKeeps
  <2>3. ASSUME NEW s \in Side, Resolve(s)
        PROVE  ChannelInv'
    <3>1. PICK id \in 0 .. (MaxHtlcs - 1), type \in {"Settle", "Fail"} : ResolveHTLC(s, id, type)
      BY <2>3 DEF Resolve
    <3>2. id \in Nat
      BY <3>1
    <3> QED
      BY <3>1, <3>2, ResolveKeeps
  <2>4. ASSUME NEW s \in Side, ChangeFee(s)
        PROVE  ChannelInv'
    <3>1. PICK rate \in FeeRates : UpdateFee(s, rate)
      BY <2>4 DEF ChangeFee
    <3>2. rate \in Nat /\ ~ Fresh0
      BY <3>1, FeeRatesKnown, CommitmentChannelAssumption DEF FeeRatesKnown
    <3> QED
      BY <3>1, <3>2, FeeKeeps
  <2>5. ASSUME NEW s \in Side, Link(s)
        PROVE  ChannelInv'
    BY <2>5, SignKeeps, UpdateKeeps, CommitSigKeeps, RevocationKeeps, ChanSyncKeeps DEF Link
  <2>6. CASE Disconnect
    BY <2>6, DisconnectKeeps
  <2> QED
    BY <2>1, <2>2, <2>3, <2>4, <2>5, <2>6 DEF ChannelNext
<1> QED
  BY <1>1, <1>2, PTL DEF ChannelSpec

-----------------------------------------------------------------------------
(* What is handed over.                                                    *)

\* How many packages hold an update, when no two hold the same.
LEMMA Times ==
    ASSUME NEW s \in Side, Packages(bucket[s]), NEW id \in Nat,
           NEW type, type = {"Add"} \/ type = {"Settle", "Fail"}
    PROVE  TimesForwarded(s, type, id) = IF HandedOver(bucket[s], type, id) THEN 1 ELSE 0
<1> DEFINE d == bucket[s]
           S == {p \in d.fwdPkgs : \E u \in p.updates : u.type \in type /\ u.id = id}
<1>1. TimesForwarded(s, type, id) = Cardinality(S)
  BY DEF TimesForwarded
<1>2. HandedOver(d, type, id) <=> S # {}
  BY DEF HandedOver
<1>3. \A p, q \in S : p = q
  <2> SUFFICES ASSUME NEW p \in S, NEW q \in S
               PROVE  p = q
    OBVIOUS
  <2>1. PICK u \in p.updates : u.type \in type /\ u.id = id
    OBVIOUS
  <2>2. PICK v \in q.updates : v.type \in type /\ v.id = id
    OBVIOUS
  <2>3. u.id = v.id /\ (u.type = "Add" <=> v.type = "Add")
    BY <2>1, <2>2
  <2> QED
    BY <2>1, <2>2, <2>3 DEF Packages
<1> HIDE DEF S, d
<1>4. CASE S = {}
  BY <1>1, <1>2, <1>4, FS_EmptySet DEF d
<1>5. CASE S # {}
  <2>1. PICK p : p \in S
    BY <1>5
  <2>2. S = {p}
    BY <1>3, <2>1
  <2> QED
    BY <1>1, <1>2, <2>1, <2>2, FS_Singleton DEF d
<1> QED
  BY <1>4, <1>5

\* Every HTLC is handed over once it is locked in, and only once; its removal
\* once it has left both commitments, however often the connection breaks.
THEOREM LockedInSafety ==
    ASSUME FeeRatesKnown
    PROVE  ChannelSpec => []LockedInOnce
<1>1. ChannelInv => LockedInOnce
  <2> SUFFICES ASSUME ChannelInv, NEW s \in Side, NEW id \in 0 .. (MaxHtlcs - 1)
               PROVE  /\ TimesForwarded(s, {"Add"}, id) =
                            IF id < bucket[s].commit["remote"].htlcIndex["remote"]
                              THEN 1 ELSE 0
                      /\ TimesForwarded(s, {"Settle", "Fail"}, id) =
                            IF /\ id < bucket[s].commit["remote"].htlcIndex["local"]
                               /\ id \notin Ids(bucket[s].commit["remote"].htlcs["local"])
                              THEN 1 ELSE 0
    BY DEF LockedInOnce
  <2> DEFINE d == bucket[s]
             k == d.commit["remote"]
  <2>1. id \in Nat /\ Packages(d)
    <3>1. id \in Nat
      OBVIOUS
    <3>2. LogInv(d, log[s])
      BY SideParts
    <3> QED
      BY <3>1, <3>2 DEF LogInv
  <2>2. /\ TimesForwarded(s, {"Add"}, id) = IF HandedOver(d, {"Add"}, id) THEN 1 ELSE 0
        /\ TimesForwarded(s, {"Settle", "Fail"}, id) =
                IF HandedOver(d, {"Settle", "Fail"}, id) THEN 1 ELSE 0
    <3>1. TimesForwarded(s, {"Add"}, id) = IF HandedOver(d, {"Add"}, id) THEN 1 ELSE 0
      BY <2>1, Times
    <3>2. TimesForwarded(s, {"Settle", "Fail"}, id) =
                IF HandedOver(d, {"Settle", "Fail"}, id) THEN 1 ELSE 0
      BY <2>1, Times
    <3> QED
      BY <3>1, <3>2
  <2>3. /\ HandedOver(d, {"Add"}, id) <=> id < k.htlcIndex["remote"]
        /\ HandedOver(d, {"Settle", "Fail"}, id) <=> Gone(k, id)
    BY <2>1 DEF Packages
  <2>4. Gone(k, id) <=> id < k.htlcIndex["local"] /\ id \notin Ids(k.htlcs["local"])
    BY DEF Gone, Ids
  <2> QED
    BY <2>2, <2>3, <2>4
<1> QED
  BY <1>1, ChannelInductive, PTL

-----------------------------------------------------------------------------
(* The commitments of both sides, and who waits for whom.                  *)

\* Heights of the commitments a side holds and signed.
Ours(s) == bucket[s].commit["local"].height
Theirs(s) == bucket[s].commit["remote"].height
TipHeight(s) == RemoteTip(bucket[s]).height
Unacked(s) == HasUnacked(bucket[s])

Kinds(w, kind) == {m \in Msgs(w) : m.kind = kind}

\* A side is at most one commitment ahead of what its peer has revoked for,
\* and a revocation is only sent once the next commitment is stored.
InStep(s) ==
    /\ Theirs(s) <= Ours(Peer(s)) /\ Ours(Peer(s)) <= TipHeight(s)
    /\ \A m \in Kinds(wire[Peer(s)], "sig") : m.tx.height \in 0 .. TipHeight(s)
    /\ \A m \in Kinds(wire[s], "revoke") : m.height \in 0 .. (Ours(Peer(s)) - 1)

\* A side that waits for ChannelReestablish gets it first, as its peer has
\* sent it, and has sent nothing itself.
Syncing(s) ==
    pc[s] = "syncing" =>
        /\ wire[s] # << >> /\ Head(wire[s]) = ChanSyncMsg(bucket[Peer(s)])
        /\ Msgs(wire[Peer(s)]) = Kinds(wire[Peer(s)], "reestablish")

\* A signature not revoked yet is under way, or its revocation is, or the
\* reconnection will send it again.
Waiting(s) ==
    Unacked(s) =>
        \/ /\ Ours(Peer(s)) = Theirs(s)
           /\ pc[s] = "syncing" \/ Kinds(wire[Peer(s)], "sig") # {}
        \/ /\ Ours(Peer(s)) = Theirs(s) + 1
           /\ pc[Peer(s)] = "syncing" \/ Kinds(wire[s], "revoke") # {}

\* Before the first reconnection a link that owes a signature is about to
\* give it.
Signing(s) ==
    disconnects = 0 =>
        /\ pc[s] # "syncing"
        /\ pc[s] = "ready" /\ ~ Unacked(s) => ~ RemoteUpdatesOwed(s)

\* The heights of both sides, and who waits for whom.
WaitInv ==
    \A s \in Side :
        /\ InStep(s) /\ Syncing(s) /\ Signing(s)
        /\ (\A x \in Side : pc[x] # "failed") => Waiting(s)

\* The heights of a bucket.
LEMMA HeightsAre ==
    ASSUME NEW d \in DiskType, NEW l \in LogsType, LogInv(d, l)
    PROVE  /\ d.commit["local"].height \in Nat /\ d.commit["remote"].height \in Nat
           /\ RemoteTip(d).height =
                IF HasUnacked(d) THEN d.commit["remote"].height + 1
                ELSE d.commit["remote"].height
<1>1. /\ d.commit["local"] \in CommitmentType /\ d.commit["remote"] \in CommitmentType
      /\ Ordered(d)
  BY DiskParts DEF Chain, LogInv
<1> QED
  BY <1>1 DEF Ordered, RemoteTip, CommitmentType

\* The heights of a side.
LEMMA SideHeights ==
    ASSUME ChannelInv, NEW s \in Side
    PROVE  /\ Ours(s) \in Nat /\ Theirs(s) \in Nat
           /\ TipHeight(s) = IF Unacked(s) THEN Theirs(s) + 1 ELSE Theirs(s)
BY SideParts, HeightsAre DEF Ours, Theirs, TipHeight, Unacked

\* A step that leaves what is on disk alone.
LEMMA QuietWaits ==
    ASSUME ChannelInv, WaitInv, NEW s \in Side, UNCHANGED bucket,
           disconnects' = disconnects, NEW q, q # "syncing", pc' = [pc EXCEPT ![s] = q],
           q = "ready" => pc[s] = "ready" \/ Unacked(s),
           q # "failed" => pc[s] # "syncing" /\ pc[s] # "failed",
           Msgs(wire'[s]) \subseteq Msgs(wire[s]),
           q # "failed" => /\ Kinds(wire'[s], "sig") = Kinds(wire[s], "sig")
                           /\ Kinds(wire'[s], "revoke") = Kinds(wire[s], "revoke"),
           Kinds(wire'[Peer(s)], "sig") = Kinds(wire[Peer(s)], "sig"),
           Kinds(wire'[Peer(s)], "revoke") = Kinds(wire[Peer(s)], "revoke"),
           wire[Peer(s)] # << >> =>
                wire'[Peer(s)] # << >> /\ Head(wire'[Peer(s)]) = Head(wire[Peer(s)])
    PROVE  WaitInv'
<1> DEFINE p == Peer(s)
<1>1. /\ p \in Side /\ p # s /\ Peer(p) = s /\ \A x \in Side : x = s \/ x = p
  BY Sides
<1>2. /\ pc'[s] = q /\ pc'[p] = pc[p]
  BY <1>1 DEF ChannelInv, ChannelTypeOK
<1>3. /\ Kinds(wire'[s], "sig") \subseteq Kinds(wire[s], "sig")
      /\ Kinds(wire'[s], "revoke") \subseteq Kinds(wire[s], "revoke")
  BY DEF Kinds
<1>4. /\ InStep(s) /\ InStep(p) /\ Syncing(s) /\ Syncing(p) /\ Signing(s) /\ Signing(p)
      /\ (\A x \in Side : pc[x] # "failed") => Waiting(s) /\ Waiting(p)
  BY <1>1 DEF WaitInv
<1> HIDE DEF p
<1>5. InStep(s)' /\ InStep(p)'
  BY <1>1, <1>3, <1>4 DEF InStep, Ours, Theirs, TipHeight, p
<1>6. Syncing(s)' /\ Syncing(p)'
  <2>1. Syncing(s)'
    BY <1>2 DEF Syncing
  <2>2. Syncing(p)'
    <3> SUFFICES ASSUME pc[p] = "syncing"
                 PROVE  /\ wire'[p] # << >> /\ Head(wire'[p]) = ChanSyncMsg(bucket[s])
                        /\ Msgs(wire'[s]) = Kinds(wire'[s], "reestablish")
      BY <1>1, <1>2 DEF Syncing
    <3>1. /\ wire[p] # << >> /\ Head(wire[p]) = ChanSyncMsg(bucket[s])
          /\ Msgs(wire[s]) = Kinds(wire[s], "reestablish")
      BY <1>1, <1>4 DEF Syncing
    <3>2. Msgs(wire'[s]) = Kinds(wire'[s], "reestablish")
      BY <3>1 DEF Kinds
    <3> QED
      BY <3>1, <3>2 DEF p
  <2> QED
    BY <2>1, <2>2
<1>7. Signing(s)' /\ Signing(p)'
  BY <1>2, <1>4 DEF Signing, Unacked, RemoteUpdatesOwed
<1>8. ASSUME \A x \in Side : pc'[x] # "failed"
      PROVE  Waiting(s)' /\ Waiting(p)'
  <2>1. q # "failed" /\ pc[s] # "syncing" /\ \A x \in Side : pc[x] # "failed"
    BY <1>1, <1>2, <1>8
  <2>2. Waiting(s) /\ Waiting(p)
    BY <1>4, <2>1
  <2>3. Waiting(s)'
    BY <1>1, <1>2, <2>1, <2>2 DEF Waiting, Unacked, Ours, Theirs, p
  <2>4. Waiting(p)'
    BY <1>1, <1>2, <2>1, <2>2 DEF Waiting, Unacked, Ours, Theirs, p
  <2> QED
    BY <2>3, <2>4
<1> QED
  BY <1>1, <1>5, <1>6, <1>7, <1>8 DEF WaitInv

\* The bucket with a signature, again.
LEMMA SignedIs ==
    ASSUME NEW d \in DiskType, NEW l \in LogsType, LogInv(d, l), ~ HasUnacked(d)
    PROVE  LET e == SignedDisk(d, l)
           IN  /\ e.commit = d.commit /\ HasUnacked(e)
               /\ RemoteTip(e).height = d.commit["remote"].height + 1
               /\ createCommitDiff(d, l).commit.height = d.commit["remote"].height + 1
<1> DEFINE e == SignedDisk(d, l)
           m == SignedLogs(d, l)
           new == createCommitDiff(d, l)
<1>1. e \in DiskType /\ e.commit = d.commit /\ e.diff = new
  BY SignedType
<1>2. new \in CommitDiffType
  BY DiffType
<1>3. HasUnacked(e) /\ RemoteTip(e) = new.commit
  BY <1>1, <1>2, CommitmentChannelAssumption DEF HasUnacked, RemoteTip
<1>4. m \in LogsType /\ LogInv(e, m)
  BY SignedLogsType, Signed
<1> HIDE DEF e, m, new
<1> QED
  BY <1>1, <1>3, <1>4, HeightsAre DEF e, new

\* The link signs.
LEMMA SignWaits ==
    ASSUME ChannelInv, WaitInv, NEW s \in Side, UpdateCommitTx(s)
    PROVE  WaitInv'
<1> DEFINE d == bucket[s]
           l == log[s]
           e == SignedDisk(d, l)
           p == Peer(s)
<1>1. /\ d \in DiskType /\ l \in LogsType /\ LogInv(d, l)
      /\ wire = [x \in Side |-> wire[x]] /\ \A x \in Side : IsSeq(wire[x])
  BY SideParts
<1>2. CASE HasUnacked(d)
  <2>1. /\ pc' = [pc EXCEPT ![s] = "ready"]
        /\ UNCHANGED <<bucket, log, wire, disconnects>> /\ pc[s] \in {"signing", "ready"}
    BY <1>2 DEF UpdateCommitTx
  <2> HIDE DEF d
  <2> QED
    BY <1>2, <2>1, QuietWaits DEF Unacked, d
<1>3. CASE ~ HasUnacked(d)
  <2>1. CanSign(d, l)
    BY <1>1, AlwaysSigns
  <2>2. /\ bucket' = [bucket EXCEPT ![s] = e]
        /\ pc' = [pc EXCEPT ![s] = "ready"] /\ Send(s, <<SignedMsg(s, d, l)>>)
        /\ UNCHANGED disconnects /\ pc[s] \in {"signing", "ready"}
    BY <1>3, <2>1 DEF UpdateCommitTx
  <2>3. /\ e.commit = d.commit /\ HasUnacked(e)
        /\ RemoteTip(e).height = d.commit["remote"].height + 1
        /\ createCommitDiff(d, l).commit.height = d.commit["remote"].height + 1
    BY <1>1, <1>3, SignedIs
  <2> DEFINE n == SignedMsg(s, d, l)
  <2>4. n.kind = "sig" /\ n.tx.height = d.commit["remote"].height + 1
    BY <2>3 DEF SignedMsg, CommitSig, Tx
  <2> HIDE DEF n, e
  <2>5. /\ wire'[s] = wire[s] /\ Msgs(wire'[p]) = Msgs(wire[p]) \cup {n}
        /\ wire[p] # << >> => wire'[p] # << >> /\ Head(wire'[p]) = Head(wire[p])
    <3> DEFINE w == <<n>>
    <3>1. IsSeq(w) /\ Msgs(w) = {n} /\ Send(s, w)
      BY <2>2, SeqShort DEF n
    <3> HIDE DEF w
    <3> QED
      BY <1>1, <3>1, Sent
  <2>6. /\ p \in Side /\ p # s /\ Peer(p) = s /\ \A x \in Side : x = s \/ x = p
    BY Sides
  <2>7. /\ bucket'[s] = e /\ bucket'[p] = bucket[p] /\ pc'[s] = "ready" /\ pc'[p] = pc[p]
    BY <2>2, <2>6 DEF ChannelInv, ChannelTypeOK
  <2>8. /\ InStep(s) /\ InStep(p) /\ Syncing(s) /\ Syncing(p) /\ Signing(s) /\ Signing(p)
        /\ (\A x \in Side : pc[x] # "failed") => Waiting(s) /\ Waiting(p)
    BY <2>6 DEF WaitInv
  <2>9. /\ Kinds(wire'[p], "sig") = Kinds(wire[p], "sig") \cup {n}
        /\ Kinds(wire'[p], "revoke") = Kinds(wire[p], "revoke")
    BY <2>4, <2>5 DEF Kinds
  <2>10. /\ Ours(s) \in Nat /\ Theirs(s) \in Nat /\ TipHeight(s) = Theirs(s)
         /\ Ours(p) \in Nat /\ Theirs(p) \in Nat /\ TipHeight(p) \in Nat
         /\ Theirs(s) = d.commit["remote"].height /\ Ours(s) = d.commit["local"].height
    BY <1>3, <2>6, SideHeights DEF Unacked, Theirs, Ours
  <2>11. /\ Ours(s)' = Ours(s) /\ Theirs(s)' = Theirs(s) /\ TipHeight(s)' = Theirs(s) + 1
         /\ Ours(p)' = Ours(p) /\ Theirs(p)' = Theirs(p) /\ TipHeight(p)' = TipHeight(p)
         /\ Unacked(s)' /\ ~ Unacked(s) /\ (Unacked(p)' <=> Unacked(p))
    BY <1>3, <2>3, <2>7, <2>10 DEF Ours, Theirs, TipHeight, Unacked
  <2> HIDE DEF p, d, l
  <2>12. InStep(s)' /\ InStep(p)'
    <3>1. Ours(p) = Theirs(s)
      BY <2>8, <2>10 DEF InStep, p
    <3>2. InStep(s)'
      <4> SUFFICES /\ Theirs(s)' <= Ours(p)' /\ Ours(p)' <= TipHeight(s)'
                   /\ \A m \in Kinds(wire'[p], "sig") : m.tx.height \in 0 .. TipHeight(s)'
                   /\ \A m \in Kinds(wire'[s], "revoke") : m.height \in 0 .. (Ours(p)' - 1)
        BY DEF InStep, p
      <4>1. \A m \in Kinds(wire[p], "sig") : m.tx.height \in 0 .. Theirs(s)
        BY <2>8, <2>10 DEF InStep, p
      <4> QED
        <5>1. \A m \in Kinds(wire'[p], "sig") : m.tx.height \in 0 .. TipHeight(s)'
          <6> TAKE m \in Kinds(wire'[p], "sig")
          <6>1. m = n \/ m.tx.height \in 0 .. Theirs(s)
            BY <2>9, <4>1
          <6>2. CASE m = n
            BY <2>4, <2>10, <2>11, <6>2
          <6>3. CASE m \in Kinds(wire[p], "sig")
            <7>1. m.tx.height \in 0 .. Theirs(s)
              BY <4>1, <6>3
            <7> QED
              BY <2>10, <2>11, <7>1
          <6> QED
            BY <2>9, <6>2, <6>3
        <5>2. \A m \in Kinds(wire'[s], "revoke") : m.height \in 0 .. (Ours(p)' - 1)
          BY <2>5, <2>8, <2>11 DEF InStep, p
        <5> QED
          BY <2>10, <2>11, <3>1, <5>1, <5>2
    <3>3. InStep(p)'
      BY <2>5, <2>6, <2>8, <2>9, <2>11 DEF InStep
    <3> QED
      BY <3>2, <3>3
  <2>13. Syncing(s)' /\ Syncing(p)'
    <3>1. Syncing(s)'
      BY <2>7 DEF Syncing
    <3>2. ChanSyncMsg(e) = ChanSyncMsg(d)
      BY <2>3 DEF ChanSyncMsg
    <3>3. Syncing(p)'
      BY <2>5, <2>6, <2>7, <2>8, <3>2 DEF Syncing, Kinds, d
    <3> QED
      BY <3>1, <3>3
  <2>14. Signing(s)' /\ Signing(p)'
    BY <2>2, <2>6, <2>7, <2>8, <2>11 DEF Signing, RemoteUpdatesOwed
  <2>15. ASSUME \A x \in Side : pc'[x] # "failed"
         PROVE  Waiting(s)' /\ Waiting(p)'
    <3>1. \A x \in Side : pc[x] # "failed"
      BY <2>2, <2>6, <2>7, <2>15
    <3>2. Waiting(p)
      BY <2>8, <3>1
    <3>3. Kinds(wire'[p], "sig") # {} /\ Ours(p)' = Theirs(s)'
      BY <2>8, <2>9, <2>10, <2>11 DEF InStep, p
    <3>4. Waiting(s)'
      BY <3>3 DEF Waiting, p
    <3>5. Waiting(p)'
      BY <2>2, <2>5, <2>6, <2>7, <2>9, <2>11, <3>2 DEF Waiting
    <3> QED
      BY <3>4, <3>5
  <2> QED
    BY <2>6, <2>12, <2>13, <2>14, <2>15 DEF WaitInv
<1> QED
  BY <1>2, <1>3

\* A link fails.
LEMMA FailWaits ==
    ASSUME ChannelInv, WaitInv, NEW s \in Side, Fail(s), wire[s] # << >>, Reply(s, << >>)
    PROVE  WaitInv'
<1>1. wire = [x \in Side |-> wire[x]] /\ \A x \in Side : IsSeq(wire[x])
  BY SideParts
<1>2. /\ Msgs(wire'[s]) \subseteq Msgs(wire[s])
      /\ Msgs(wire'[Peer(s)]) = Msgs(wire[Peer(s)])
      /\ wire[Peer(s)] # << >> =>
            wire'[Peer(s)] # << >> /\ Head(wire'[Peer(s)]) = Head(wire[Peer(s)])
  <2> DEFINE w == << >>
  <2>1. IsSeq(w) /\ Msgs(w) = {} /\ Reply(s, w)
    BY SeqShort
  <2> HIDE DEF w
  <2>2. /\ Msgs(wire[s]) = {Head(wire[s])} \cup Msgs(wire'[s])
        /\ Msgs(wire'[Peer(s)]) = Msgs(wire[Peer(s)]) \cup Msgs(w)
        /\ wire[Peer(s)] # << >> =>
              wire'[Peer(s)] # << >> /\ Head(wire'[Peer(s)]) = Head(wire[Peer(s)])
    BY <1>1, <2>1, Replied
  <2> QED
    BY <2>1, <2>2
<1>3. /\ Kinds(wire'[Peer(s)], "sig") = Kinds(wire[Peer(s)], "sig")
      /\ Kinds(wire'[Peer(s)], "revoke") = Kinds(wire[Peer(s)], "revoke")
  BY <1>2 DEF Kinds
<1>4. /\ UNCHANGED bucket /\ disconnects' = disconnects
      /\ pc' = [pc EXCEPT ![s] = "failed"]
  BY DEF Fail
<1>5. PICK q : q = "failed"
  OBVIOUS
<1>6. q # "syncing" /\ q # "ready" /\ pc' = [pc EXCEPT ![s] = q]
  BY <1>4, <1>5
<1> QED
  BY <1>2, <1>3, <1>4, <1>5, <1>6, QuietWaits

\* Updates are sent.
LEMMA SendWaits ==
    ASSUME ChannelInv, WaitInv, NEW s \in Side, NEW type, NEW id,
           Send(s, <<Update(type, id)>>), UNCHANGED <<bucket, disconnects>>,
           NEW q, q \in {"ready", "signing"}, pc' = [pc EXCEPT ![s] = q],
           q = "ready" => pc[s] = "ready", pc[s] \in {"ready", "signing"}
    PROVE  WaitInv'
<1> DEFINE w == <<Update(type, id)>>
<1>1. wire = [x \in Side |-> wire[x]] /\ \A x \in Side : IsSeq(wire[x])
  BY SideParts
<1>2. IsSeq(w) /\ Send(s, w) /\ \A m \in Msgs(w) : m.kind = "update"
  BY SeqShort DEF Update
<1> HIDE DEF w
<1>3. /\ wire'[s] = wire[s]
      /\ Msgs(wire'[Peer(s)]) = Msgs(wire[Peer(s)]) \cup Msgs(w)
      /\ wire[Peer(s)] # << >> =>
            wire'[Peer(s)] # << >> /\ Head(wire'[Peer(s)]) = Head(wire[Peer(s)])
  BY <1>1, <1>2, Sent
<1>4. /\ Kinds(wire'[Peer(s)], "sig") = Kinds(wire[Peer(s)], "sig")
      /\ Kinds(wire'[Peer(s)], "revoke") = Kinds(wire[Peer(s)], "revoke")
  BY <1>2, <1>3 DEF Kinds
<1>5. Msgs(wire'[s]) \subseteq Msgs(wire[s])
  BY <1>3
<1> QED
  BY <1>3, <1>4, <1>5, QuietWaits

\* A message is taken from a side that is of no kind anybody waits for.
LEMMA TakenIs ==
    ASSUME ChannelInv, NEW s \in Side, wire[s] # << >>, NEW msgs, IsSeq(msgs), Reply(s, msgs)
    PROVE  /\ \A k : Kinds(wire'[s], k) \subseteq Kinds(wire[s], k)
           /\ \A k : k # Head(wire[s]).kind => Kinds(wire'[s], k) = Kinds(wire[s], k)
           /\ Head(wire[s]) \in Kinds(wire[s], Head(wire[s]).kind)
           /\ \A k : Kinds(wire'[Peer(s)], k) = Kinds(wire[Peer(s)], k) \cup Kinds(msgs, k)
           /\ wire[Peer(s)] # << >> =>
                wire'[Peer(s)] # << >> /\ Head(wire'[Peer(s)]) = Head(wire[Peer(s)])
<1>1. wire = [x \in Side |-> wire[x]] /\ \A x \in Side : IsSeq(wire[x])
  BY SideParts
<1>2. /\ Msgs(wire[s]) = {Head(wire[s])} \cup Msgs(wire'[s])
      /\ Msgs(wire'[Peer(s)]) = Msgs(wire[Peer(s)]) \cup Msgs(msgs)
      /\ wire[Peer(s)] # << >> =>
            wire'[Peer(s)] # << >> /\ Head(wire'[Peer(s)]) = Head(wire[Peer(s)])
  BY <1>1, Replied
<1>3. /\ \A k : Kinds(wire'[s], k) \subseteq Kinds(wire[s], k)
      /\ \A k : k # Head(wire[s]).kind => Kinds(wire'[s], k) = Kinds(wire[s], k)
      /\ Head(wire[s]) \in Kinds(wire[s], Head(wire[s]).kind)
  BY <1>2 DEF Kinds
<1>4. \A k : Kinds(wire'[Peer(s)], k) = Kinds(wire[Peer(s)], k) \cup Kinds(msgs, k)
  BY <1>2 DEF Kinds
<1> QED
  BY <1>2, <1>3, <1>4

\* An update arrives.
LEMMA UpdateWaits ==
    ASSUME ChannelInv, WaitInv, NEW s \in Side, ReceiveUpdate(s)
    PROVE  WaitInv'
<1>1. /\ wire[s] # << >> /\ Head(wire[s]).kind = "update" /\ Reply(s, << >>)
      /\ pc[s] = "ready"
      /\ Fail(s) \/ UNCHANGED <<bucket, pc, disconnects>>
  BY DEF ReceiveUpdate, Receive
<1>2. CASE Fail(s)
  BY <1>1, <1>2, FailWaits
<1>3. CASE UNCHANGED <<bucket, pc, disconnects>>
  <2> DEFINE w == << >>
  <2>1. Kinds(w, "sig") = {} /\ Kinds(w, "revoke") = {} /\ IsSeq(w) /\ Reply(s, w)
    BY <1>1, SeqShort DEF Kinds
  <2> HIDE DEF w
  <2>2. /\ Kinds(wire'[s], "sig") = Kinds(wire[s], "sig")
        /\ Kinds(wire'[s], "revoke") = Kinds(wire[s], "revoke")
        /\ Kinds(wire'[Peer(s)], "sig") = Kinds(wire[Peer(s)], "sig")
        /\ Kinds(wire'[Peer(s)], "revoke") = Kinds(wire[Peer(s)], "revoke")
        /\ wire[Peer(s)] # << >> =>
              wire'[Peer(s)] # << >> /\ Head(wire'[Peer(s)]) = Head(wire[Peer(s)])
    <3>1. /\ \A k : k # Head(wire[s]).kind => Kinds(wire'[s], k) = Kinds(wire[s], k)
          /\ \A k : Kinds(wire'[Peer(s)], k) = Kinds(wire[Peer(s)], k) \cup Kinds(w, k)
          /\ wire[Peer(s)] # << >> =>
                wire'[Peer(s)] # << >> /\ Head(wire'[Peer(s)]) = Head(wire[Peer(s)])
      BY <1>1, <2>1, TakenIs
    <3> QED
      BY <1>1, <2>1, <3>1
  <2>3. Msgs(wire'[s]) \subseteq Msgs(wire[s])
    <3>1. wire = [x \in Side |-> wire[x]] /\ \A x \in Side : IsSeq(wire[x])
      BY SideParts
    <3> QED
      BY <1>1, <2>1, <3>1, Replied
  <2>4. pc' = [pc EXCEPT ![s] = "ready"]
    BY <1>1, <1>3 DEF ChannelInv, ChannelTypeOK
  <2> QED
    BY <1>1, <1>3, <2>2, <2>3, <2>4, QuietWaits
<1> QED
  BY <1>1, <1>2, <1>3

\* What AfterHandler makes of a link.
LEMMA AfterSigning ==
    ASSUME ChannelInv, NEW s \in Side, NEW d, NEW l, AfterHandler(s, d, l),
           bucket'[s] = d
    PROVE  /\ pc' = [pc EXCEPT ![s] = pc'[s]] /\ pc'[s] \in {"ready", "signing"}
           /\ Signing(s)'
<1>1. pc' = [pc EXCEPT ![s] = IF OweCommitment(d, l) THEN "signing" ELSE "ready"]
  BY DEF AfterHandler
<1>2. pc'[s] = IF OweCommitment(d, l) THEN "signing" ELSE "ready"
  BY <1>1 DEF ChannelInv, ChannelTypeOK
<1>3. pc'[s] \in {"ready", "signing"} /\ pc' = [pc EXCEPT ![s] = pc'[s]]
  BY <1>1, <1>2
<1>4. ASSUME pc'[s] = "ready", ~ HasUnacked(d)
      PROVE  d.commit["local"].messageIndex["remote"] = d.commit["remote"].messageIndex["remote"]
  <2>1. ~ OweCommitment(d, l)
    BY <1>2, <1>4
  <2> QED
    BY <1>4, <2>1 DEF OweCommitment, RemoteTip
<1>5. Signing(s)'
  BY <1>3, <1>4 DEF Signing, Unacked, RemoteUpdatesOwed
<1> QED
  BY <1>3, <1>5

\* A signature of the peer arrives.
LEMMA CommitSigWaits ==
    ASSUME ChannelInv, WaitInv, NEW s \in Side, ReceiveCommitSig(s)
    PROVE  WaitInv'
<1> DEFINE d == bucket[s]
           l == log[s]
           e == ReceivedDisk(d, l)
           m == ReceivedLogs(d, l)
           p == Peer(s)
           n == Head(wire[s])
           r == RevokeAndAck(d.commit["local"].height)
           ok == /\ ParentsFetched(l, fetchHTLCView(l, ReceiveIndexes(d, l)), "local")
                 /\ Tx(s, ReceivedCommit(d, l)) = n.tx
<1>1. wire[s] # << >> /\ n.kind = "sig" /\ pc[s] = "ready"
  BY DEF ReceiveCommitSig, Receive
<1>2. CASE ~ ok
  <2>1. Fail(s) /\ Reply(s, << >>)
    BY <1>2 DEF ReceiveCommitSig
  <2> QED
    BY <1>1, <2>1, FailWaits
<1>3. CASE ok
  <2>1. /\ bucket' = [bucket EXCEPT ![s] = e]
        /\ AfterHandler(s, e, m) /\ Reply(s, <<r>>) /\ UNCHANGED disconnects
    BY <1>3 DEF ReceiveCommitSig
  <2>2. d \in DiskType /\ l \in LogsType
    BY SideParts
  <2>3. /\ e.commit = [local |-> ReceivedCommit(d, l), remote |-> d.commit["remote"]]
        /\ e.diff = d.diff /\ ReceivedCommit(d, l).height = d.commit["local"].height + 1
    BY <2>2, ReceivedType
  <2>4. n.tx.height = d.commit["local"].height + 1
    BY <1>3, <2>3 DEF Tx
  <2>5. /\ e.commit["local"].height = d.commit["local"].height + 1
        /\ e.commit["remote"] = d.commit["remote"]
        /\ RemoteTip(e) = RemoteTip(d) /\ (HasUnacked(e) <=> HasUnacked(d))
    BY <2>3 DEF RemoteTip, HasUnacked
  <2>6. /\ p \in Side /\ p # s /\ Peer(p) = s /\ \A x \in Side : x = s \/ x = p
    BY Sides
  <2> HIDE DEF e, m, p
  <2>7. bucket'[s] = e /\ bucket'[p] = bucket[p]
    BY <2>1, <2>6 DEF ChannelInv, ChannelTypeOK
  <2>8. /\ pc'[s] \in {"ready", "signing"} /\ pc'[p] = pc[p] /\ Signing(s)'
    <3>1. pc' = [pc EXCEPT ![s] = pc'[s]] /\ pc'[s] \in {"ready", "signing"} /\ Signing(s)'
      BY <2>1, <2>7, AfterSigning
    <3> QED
      BY <2>6, <3>1 DEF ChannelInv, ChannelTypeOK
  <2>9. /\ InStep(s) /\ InStep(p) /\ Syncing(p) /\ Signing(p)
        /\ (\A x \in Side : pc[x] # "failed") => Waiting(s) /\ Waiting(p)
    BY <2>6 DEF WaitInv
  <2>10. /\ \A k : Kinds(wire'[s], k) \subseteq Kinds(wire[s], k)
         /\ Kinds(wire'[s], "revoke") = Kinds(wire[s], "revoke")
         /\ n \in Kinds(wire[s], "sig")
         /\ Kinds(wire'[p], "sig") = Kinds(wire[p], "sig")
         /\ Kinds(wire'[p], "revoke") = Kinds(wire[p], "revoke") \cup {r}
    <3> DEFINE w == <<r>>
    <3>1. IsSeq(w) /\ Reply(s, w) /\ Kinds(w, "sig") = {} /\ Kinds(w, "revoke") = {r}
      BY <2>1, SeqShort DEF Kinds, RevokeAndAck
    <3> HIDE DEF w, r, n
    <3>2. /\ \A k : Kinds(wire'[s], k) \subseteq Kinds(wire[s], k)
          /\ \A k : k # n.kind => Kinds(wire'[s], k) = Kinds(wire[s], k)
          /\ n \in Kinds(wire[s], n.kind)
          /\ \A k : Kinds(wire'[p], k) = Kinds(wire[p], k) \cup Kinds(w, k)
      BY <1>1, <3>1, TakenIs, SMTT(30) DEF p, n
    <3> QED
      BY <1>1, <3>1, <3>2
  <2>11. r.height = d.commit["local"].height
    BY DEF RevokeAndAck
  <2>12. /\ Ours(s) \in Nat /\ Theirs(s) \in Nat /\ TipHeight(s) \in Nat
         /\ Ours(p) \in Nat /\ Theirs(p) \in Nat
         /\ TipHeight(p) = IF Unacked(p) THEN Theirs(p) + 1 ELSE Theirs(p)
         /\ Ours(s) = d.commit["local"].height
    BY <2>6, SideHeights DEF Ours
  <2>13. /\ Ours(s)' = Ours(s) + 1 /\ Theirs(s)' = Theirs(s) /\ TipHeight(s)' = TipHeight(s)
         /\ Ours(p)' = Ours(p) /\ Theirs(p)' = Theirs(p) /\ TipHeight(p)' = TipHeight(p)
         /\ (Unacked(s)' <=> Unacked(s)) /\ (Unacked(p)' <=> Unacked(p))
    BY <2>5, <2>7 DEF Ours, Theirs, TipHeight, Unacked
  <2> HIDE DEF d, l, n, r
  <2>14. InStep(s)'
    <3>1. /\ Theirs(s) <= Ours(p) /\ Ours(p) <= TipHeight(s)
          /\ \A x \in Kinds(wire[p], "sig") : x.tx.height \in 0 .. TipHeight(s)
          /\ \A x \in Kinds(wire[s], "revoke") : x.height \in 0 .. (Ours(p) - 1)
      BY <2>9 DEF InStep, p
    <3> QED
      BY <2>10, <2>13, <3>1 DEF InStep, p
  <2>15. Ours(s) + 1 <= TipHeight(p) /\ Theirs(p) <= Ours(s)
    BY <2>4, <2>6, <2>9, <2>10, <2>12 DEF InStep
  <2>16. InStep(p)'
    <3>1. /\ \A x \in Kinds(wire[s], "sig") : x.tx.height \in 0 .. TipHeight(p)
          /\ \A x \in Kinds(wire[p], "revoke") : x.height \in 0 .. (Ours(s) - 1)
      BY <2>6, <2>9 DEF InStep
    <3>2. \A x \in Kinds(wire'[p], "revoke") : x.height \in 0 .. (Ours(s)' - 1)
      <4> TAKE x \in Kinds(wire'[p], "revoke")
      <4>1. CASE x = r
        BY <2>11, <2>12, <2>13, <4>1
      <4>2. CASE x \in Kinds(wire[p], "revoke")
        <5>1. x.height \in 0 .. (Ours(s) - 1)
          BY <3>1, <4>2
        <5> QED
          BY <2>12, <2>13, <5>1
      <4> QED
        BY <2>10, <4>1, <4>2
    <3>3. \A x \in Kinds(wire'[s], "sig") : x.tx.height \in 0 .. TipHeight(p)'
      BY <2>10, <2>13, <3>1
    <3>4. Theirs(p)' <= Ours(s)' /\ Ours(s)' <= TipHeight(p)'
      BY <2>12, <2>13, <2>15
    <3> QED
      BY <2>6, <3>2, <3>3, <3>4 DEF InStep
  <2>17. pc[p] # "syncing"
    <3> SUFFICES ASSUME pc[p] = "syncing"
                 PROVE  FALSE
      OBVIOUS
    <3>1. Msgs(wire[s]) = Kinds(wire[s], "reestablish")
      BY <2>6, <2>9 DEF Syncing
    <3> QED
      BY <1>1, <2>10, <3>1 DEF Kinds
  <2>18. Syncing(s)' /\ Syncing(p)'
    BY <2>8, <2>17 DEF Syncing
  <2>19. Signing(p)'
    BY <2>1, <2>7, <2>8, <2>9 DEF Signing, Unacked, RemoteUpdatesOwed
  <2>20. ASSUME \A x \in Side : pc'[x] # "failed"
         PROVE  Waiting(s)' /\ Waiting(p)'
    <3>1. \A x \in Side : pc[x] # "failed"
      BY <1>1, <2>6, <2>8, <2>20
    <3>2. Waiting(s)
      BY <2>9, <3>1
    <3>3. Waiting(s)'
      BY <1>1, <2>8, <2>10, <2>13, <3>2 DEF Waiting, p
    <3>4. Unacked(p) => Ours(s)' = Theirs(p)' + 1
      BY <2>12, <2>13, <2>15
    <3>5. Waiting(p)'
      BY <2>6, <2>10, <2>13, <3>4 DEF Waiting
    <3> QED
      BY <3>3, <3>5
  <2> QED
    BY <2>6, <2>8, <2>14, <2>16, <2>18, <2>19, <2>20 DEF WaitInv
<1> QED
  BY <1>2, <1>3

\* A revocation of the peer arrives.
LEMMA RevocationWaits ==
    ASSUME ChannelInv, WaitInv, NEW s \in Side, ReceiveRevocation(s)
    PROVE  WaitInv'
<1> DEFINE d == bucket[s]
           l == log[s]
           e == RevokedDisk(d, l)
           m == RevokedLogs(d, l)
           p == Peer(s)
           n == Head(wire[s])
           ok == HasUnacked(d) /\ n.height = d.commit["remote"].height
<1>1. wire[s] # << >> /\ n.kind = "revoke" /\ pc[s] = "ready" /\ Reply(s, << >>)
  BY DEF ReceiveRevocation, Receive
<1>2. CASE ~ ok
  <2>1. Fail(s)
    BY <1>2 DEF ReceiveRevocation
  <2> QED
    BY <1>1, <2>1, FailWaits
<1>3. CASE ok
  <2>1. /\ bucket' = [bucket EXCEPT ![s] = e]
        /\ AfterHandler(s, e, m) /\ UNCHANGED disconnects
    BY <1>3 DEF ReceiveRevocation
  <2>2. d \in DiskType /\ l \in LogsType
    BY SideParts
  <2>3. /\ e.commit["local"] = d.commit["local"] /\ e.commit["remote"] = RemoteTip(d)
        /\ ~ HasUnacked(e) /\ RemoteTip(e) = RemoteTip(d)
    BY <1>3, <2>2, RevokedType
  <2>4. /\ p \in Side /\ p # s /\ Peer(p) = s /\ \A x \in Side : x = s \/ x = p
    BY Sides
  <2> HIDE DEF e, m, p
  <2>5. bucket'[s] = e /\ bucket'[p] = bucket[p]
    BY <2>1, <2>4 DEF ChannelInv, ChannelTypeOK
  <2>6. /\ pc'[s] \in {"ready", "signing"} /\ pc'[p] = pc[p] /\ Signing(s)'
    <3>1. pc' = [pc EXCEPT ![s] = pc'[s]] /\ pc'[s] \in {"ready", "signing"} /\ Signing(s)'
      BY <2>1, <2>5, AfterSigning
    <3> QED
      BY <2>4, <3>1 DEF ChannelInv, ChannelTypeOK
  <2>7. /\ InStep(s) /\ InStep(p) /\ Syncing(p) /\ Signing(p)
        /\ (\A x \in Side : pc[x] # "failed") => Waiting(s) /\ Waiting(p)
    BY <2>4 DEF WaitInv
  <2>8. /\ \A k : Kinds(wire'[s], k) \subseteq Kinds(wire[s], k)
        /\ Kinds(wire'[s], "sig") = Kinds(wire[s], "sig")
        /\ n \in Kinds(wire[s], "revoke")
        /\ Kinds(wire'[p], "sig") = Kinds(wire[p], "sig")
        /\ Kinds(wire'[p], "revoke") = Kinds(wire[p], "revoke")
    <3> DEFINE w == << >>
    <3>1. IsSeq(w) /\ Reply(s, w) /\ Kinds(w, "sig") = {} /\ Kinds(w, "revoke") = {}
      BY <1>1, SeqShort DEF Kinds
    <3> HIDE DEF w, n
    <3>2. /\ \A k : Kinds(wire'[s], k) \subseteq Kinds(wire[s], k)
          /\ \A k : k # n.kind => Kinds(wire'[s], k) = Kinds(wire[s], k)
          /\ n \in Kinds(wire[s], n.kind)
          /\ \A k : Kinds(wire'[p], k) = Kinds(wire[p], k) \cup Kinds(w, k)
      BY <1>1, <3>1, TakenIs DEF p, n
    <3> QED
      BY <1>1, <3>1, <3>2
  <2>9. /\ Ours(s) \in Nat /\ Theirs(s) \in Nat /\ TipHeight(s) = Theirs(s) + 1
        /\ Ours(p) \in Nat /\ Theirs(p) \in Nat /\ TipHeight(p) \in Nat
        /\ Theirs(s) = d.commit["remote"].height
    BY <1>3, <2>4, SideHeights DEF Unacked, Theirs
  <2>10. /\ Ours(s)' = Ours(s) /\ Theirs(s)' = Theirs(s) + 1 /\ TipHeight(s)' = TipHeight(s)
         /\ Ours(p)' = Ours(p) /\ Theirs(p)' = Theirs(p) /\ TipHeight(p)' = TipHeight(p)
         /\ ~ Unacked(s)' /\ (Unacked(p)' <=> Unacked(p))
    BY <2>3, <2>5, <2>9 DEF Ours, Theirs, TipHeight, Unacked
  <2> HIDE DEF d, l, n
  <2>11. InStep(s)'
    <3>1. /\ Theirs(s) <= Ours(p) /\ Ours(p) <= TipHeight(s)
          /\ \A x \in Kinds(wire[p], "sig") : x.tx.height \in 0 .. TipHeight(s)
          /\ \A x \in Kinds(wire[s], "revoke") : x.height \in 0 .. (Ours(p) - 1)
      BY <2>7 DEF InStep, p
    <3>2. Theirs(s) + 1 <= Ours(p)
      BY <1>3, <2>8, <2>9, <3>1
    <3> QED
      BY <2>8, <2>10, <3>1, <3>2 DEF InStep, p
  <2>12. InStep(p)'
    BY <2>4, <2>7, <2>8, <2>10 DEF InStep
  <2>13. pc[p] # "syncing"
    <3> SUFFICES ASSUME pc[p] = "syncing"
                 PROVE  FALSE
      OBVIOUS
    <3>1. Msgs(wire[s]) = Kinds(wire[s], "reestablish")
      BY <2>4, <2>7 DEF Syncing
    <3> QED
      BY <1>1, <2>8, <3>1 DEF Kinds
  <2>14. Syncing(s)' /\ Syncing(p)'
    BY <2>6, <2>13 DEF Syncing
  <2>15. Signing(p)'
    BY <2>1, <2>5, <2>6, <2>7 DEF Signing, Unacked, RemoteUpdatesOwed
  <2>16. ASSUME \A x \in Side : pc'[x] # "failed"
         PROVE  Waiting(s)' /\ Waiting(p)'
    <3>1. \A x \in Side : pc[x] # "failed"
      BY <1>1, <2>4, <2>6, <2>16
    <3>2. Waiting(p)
      BY <2>7, <3>1
    <3>3. Waiting(s)'
      BY <2>10 DEF Waiting
    <3>4. Waiting(p)'
      BY <1>1, <2>4, <2>6, <2>8, <2>10, <3>2 DEF Waiting
    <3> QED
      BY <3>3, <3>4
  <2> QED
    BY <2>4, <2>6, <2>11, <2>12, <2>14, <2>15, <2>16 DEF WaitInv
<1> QED
  BY <1>2, <1>3

\* The connection breaks.
LEMMA DisconnectWaits ==
    ASSUME ChannelInv, WaitInv, Disconnect
    PROVE  WaitInv'
<1>1. /\ UNCHANGED bucket /\ disconnects' = disconnects + 1 /\ disconnects \in Nat
      /\ \A s \in Side : pc[s] # "failed"
      /\ wire' = [s \in Side |-> <<ChanSyncMsg(bucket[Peer(s)])>>]
  BY DEF Disconnect, ChannelInv, ChannelTypeOK
<1>2. \A s \in Side : pc'[s] = "syncing"
  <2>1. \A s \in Side : Restorable(bucket[s])
    BY SideParts, AlwaysRestorable
  <2> QED
    BY <2>1 DEF Disconnect
<1>3. \A d : /\ Msgs(<<ChanSyncMsg(d)>>) = {ChanSyncMsg(d)} /\ <<ChanSyncMsg(d)>> # << >>
             /\ Head(<<ChanSyncMsg(d)>>) = ChanSyncMsg(d)
             /\ ChanSyncMsg(d).kind = "reestablish"
  <2> TAKE d
  <2>1. ChanSyncMsg(d).kind = "reestablish"
    BY DEF ChanSyncMsg, ChannelReestablish
  <2> HIDE DEF ChanSyncMsg
  <2> QED
    BY <2>1, SeqShort
<1>4. \A s \in Side :
          /\ wire'[s] # << >> /\ Head(wire'[s]) = ChanSyncMsg(bucket[Peer(s)])
          /\ Msgs(wire'[s]) = Kinds(wire'[s], "reestablish")
          /\ Kinds(wire'[s], "sig") = {} /\ Kinds(wire'[s], "revoke") = {}
  <2> TAKE s \in Side
  <2>1. /\ wire'[s] # << >> /\ Head(wire'[s]) = ChanSyncMsg(bucket[Peer(s)])
        /\ \A m \in Msgs(wire'[s]) : m.kind = "reestablish"
    BY <1>1, <1>3
  <2> QED
    BY <2>1 DEF Kinds
<1> SUFFICES ASSUME NEW s \in Side
             PROVE  InStep(s)' /\ Syncing(s)' /\ Signing(s)' /\ Waiting(s)'
  BY DEF WaitInv
<1>5. Peer(s) \in Side /\ InStep(s)
  BY Sides DEF WaitInv
<1>6. InStep(s)'
  BY <1>1, <1>4, <1>5 DEF InStep, Ours, Theirs, TipHeight
<1>7. Syncing(s)'
  BY <1>1, <1>4, <1>5 DEF Syncing
<1>8. Signing(s)'
  BY <1>1 DEF Signing
<1>9. Waiting(s)'
  <2>1. /\ Ours(s) \in Nat /\ Theirs(s) \in Nat /\ Ours(Peer(s)) \in Nat
        /\ TipHeight(s) = IF Unacked(s) THEN Theirs(s) + 1 ELSE Theirs(s)
    BY <1>5, SideHeights
  <2>2. Unacked(s) => Ours(Peer(s)) = Theirs(s) \/ Ours(Peer(s)) = Theirs(s) + 1
    BY <1>5, <2>1 DEF InStep
  <2>3. /\ (Unacked(s)' <=> Unacked(s)) /\ Ours(Peer(s))' = Ours(Peer(s))
        /\ Theirs(s)' = Theirs(s)
    BY <1>1 DEF Unacked, Ours, Theirs
  <2> QED
    BY <1>2, <1>5, <2>2, <2>3 DEF Waiting
<1> QED
  BY <1>6, <1>7, <1>8, <1>9

\* How a channel begins.
LEMMA BeginsWaiting ==
    ASSUME ChannelInit
    PROVE  WaitInv
<1> SUFFICES ASSUME NEW s \in Side
             PROVE  InStep(s) /\ Syncing(s) /\ Signing(s) /\ Waiting(s)
  BY DEF WaitInv
<1> DEFINE p == Peer(s)
<1>1. p \in Side
  BY Sides
<1>2. \A x \in Side : bucket[x].commit = [c \in Chain |-> NewCommit(x)] /\ bucket[x].diff = NoDiff
  BY DEF ChannelInit
<1>3. \A x \in Side : NewCommit(x).height = IF Fresh0 THEN 0 ELSE 1
  BY DEF NewCommit
<1>4. \A x \in Side : /\ Ours(x) = IF Fresh0 THEN 0 ELSE 1
                      /\ Theirs(x) = Ours(x) /\ TipHeight(x) = Ours(x) /\ ~ Unacked(x)
  BY <1>2, <1>3 DEF Ours, Theirs, TipHeight, RemoteTip, Unacked, HasUnacked, Chain
<1>5. \A x \in Side : \A k : Kinds(wire[x], k) = {}
  BY SeqShort DEF ChannelInit, Kinds
<1>6. ~ RemoteUpdatesOwed(s)
  BY <1>2, ZenonT(30) DEF RemoteUpdatesOwed, Chain
<1>7. pc[s] = "ready"
  BY DEF ChannelInit
<1> HIDE DEF p
<1>8. InStep(s)
  BY <1>1, <1>4, <1>5 DEF InStep, p
<1> QED
  BY <1>4, <1>6, <1>7, <1>8 DEF Syncing, Signing, Waiting

\* A ChannelReestablish arrives.
LEMMA ChanSyncWaits ==
    ASSUME ChannelInv, WaitInv, NEW s \in Side, ProcessChanSyncMsg(s)
    PROVE  WaitInv'
<1> DEFINE d == bucket[s]
           l == log[s]
           p == Peer(s)
           n == Head(wire[s])
           w == SyncAnswer(s, d, l, n)
           signs == SignsOnSync(d, l, n)
           e == IF signs THEN SignedDisk(d, l) ELSE d
           ok == Syncable(d, n) /\ (signs => CanSign(d, l))
<1>1. wire[s] # << >> /\ n.kind = "reestablish" /\ pc[s] = "syncing"
  BY DEF ProcessChanSyncMsg, Receive
<1>2. CASE ~ ok
  <2>1. Fail(s) /\ Reply(s, << >>)
    BY <1>2 DEF ProcessChanSyncMsg
  <2> QED
    BY <1>1, <2>1, FailWaits
<1>3. CASE ok
  <2>1. d \in DiskType /\ l \in LogsType /\ LogInv(d, l)
    BY SideParts
  <2>2. /\ Reply(s, w) /\ pc' = [pc EXCEPT ![s] = "ready"] /\ UNCHANGED disconnects
        /\ bucket' = IF signs THEN [bucket EXCEPT ![s] = SignedDisk(d, l)] ELSE bucket
    BY <1>3 DEF ProcessChanSyncMsg
  <2>3. /\ p \in Side /\ p # s /\ Peer(p) = s /\ \A x \in Side : x = s \/ x = p
    BY Sides
  <2>4. signs => /\ ~ HasUnacked(d) /\ e.commit = d.commit /\ HasUnacked(e)
                 /\ RemoteTip(e).height = d.commit["remote"].height + 1
                 /\ createCommitDiff(d, l).commit.height = d.commit["remote"].height + 1
    BY <2>1, SignedIs DEF SignsOnSync
  <2>5. ~ signs => e = d
    OBVIOUS
  <2> HIDE DEF p, e
  <2>6. bucket'[s] = e /\ bucket'[p] = bucket[p] /\ pc'[s] = "ready" /\ pc'[p] = pc[p]
    <3>1. bucket'[s] = e
      BY <2>2 DEF ChannelInv, ChannelTypeOK, e
    <3> QED
      BY <2>2, <2>3, <3>1 DEF ChannelInv, ChannelTypeOK
  <2>7. /\ InStep(s) /\ InStep(p) /\ Syncing(s) /\ Syncing(p) /\ Signing(s) /\ Signing(p)
        /\ (\A x \in Side : pc[x] # "failed") => Waiting(s) /\ Waiting(p)
    BY <2>3 DEF WaitInv
  <2>8. n.next = Ours(p) + 1 /\ n.tail = Theirs(p)
    <3>1. n = ChanSyncMsg(bucket[p])
      BY <1>1, <2>7 DEF Syncing, p
    <3> HIDE DEF n
    <3> QED
      BY <3>1 DEF ChanSyncMsg, ChannelReestablish, Ours, Theirs
  <2>9. OweCommit(d, n) => HasUnacked(d)
    BY <1>3, <2>1, AnswerTyped
  <2>10. /\ IsSeq(w)
         /\ \A x \in Msgs(w) :
              \/ x.kind = "update"
              \/ OweRevocation(d, n) /\ x = RevokeAndAck(n.tail)
              \/ signs /\ x = SignedMsg(s, d, l)
              \/ OweCommit(d, n) /\ x = CommitSig(Tx(s, d.diff.commit))
         /\ OweRevocation(d, n) => RevokeAndAck(n.tail) \in Msgs(w)
         /\ signs => SignedMsg(s, d, l) \in Msgs(w)
         /\ OweCommit(d, n) => CommitSig(Tx(s, d.diff.commit)) \in Msgs(w)
    BY <2>1, <2>9, SyncAnswered
  <2> HIDE DEF w, signs, n
  <2>11. /\ \A k : Kinds(wire'[s], k) \subseteq Kinds(wire[s], k)
         /\ Kinds(wire'[s], "sig") = Kinds(wire[s], "sig")
         /\ Kinds(wire'[s], "revoke") = Kinds(wire[s], "revoke")
         /\ Kinds(wire'[p], "sig") = Kinds(wire[p], "sig") \cup Kinds(w, "sig")
         /\ Kinds(wire'[p], "revoke") = Kinds(wire[p], "revoke") \cup Kinds(w, "revoke")
         /\ wire[p] # << >> => wire'[p] # << >> /\ Head(wire'[p]) = Head(wire[p])
    <3>1. /\ \A k : Kinds(wire'[s], k) \subseteq Kinds(wire[s], k)
          /\ \A k : k # n.kind => Kinds(wire'[s], k) = Kinds(wire[s], k)
          /\ \A k : Kinds(wire'[p], k) = Kinds(wire[p], k) \cup Kinds(w, k)
          /\ wire[p] # << >> => wire'[p] # << >> /\ Head(wire'[p]) = Head(wire[p])
      BY <1>1, <2>2, <2>10, TakenIs DEF p, n
    <3> QED
      BY <1>1, <3>1
  <2>12. /\ RevokeAndAck(n.tail).kind = "revoke" /\ RevokeAndAck(n.tail).height = n.tail
         /\ SignedMsg(s, d, l).kind = "sig"
         /\ SignedMsg(s, d, l).tx.height = createCommitDiff(d, l).commit.height
         /\ CommitSig(Tx(s, d.diff.commit)).kind = "sig"
         /\ CommitSig(Tx(s, d.diff.commit)).tx.height = d.diff.commit.height
    BY DEF RevokeAndAck, SignedMsg, CommitSig, Tx
  <2>13. HasUnacked(d) => d.diff.commit.height = TipHeight(s)
    BY DEF TipHeight, RemoteTip
  <2>14. /\ Ours(s) \in Nat /\ Theirs(s) \in Nat
         /\ TipHeight(s) = IF Unacked(s) THEN Theirs(s) + 1 ELSE Theirs(s)
         /\ Ours(p) \in Nat /\ Theirs(p) \in Nat
         /\ TipHeight(p) = IF Unacked(p) THEN Theirs(p) + 1 ELSE Theirs(p)
         /\ Theirs(s) = d.commit["remote"].height /\ Ours(s) = d.commit["local"].height
         /\ (Unacked(s) <=> HasUnacked(d))
    BY <2>3, SideHeights DEF Theirs, Ours, Unacked
  <2>15. /\ Ours(s)' = Ours(s) /\ Theirs(s)' = Theirs(s)
         /\ TipHeight(s)' = IF signs THEN Theirs(s) + 1 ELSE TipHeight(s)
         /\ Ours(p)' = Ours(p) /\ Theirs(p)' = Theirs(p) /\ TipHeight(p)' = TipHeight(p)
         /\ signs => ~ Unacked(s)
         /\ (Unacked(s)' <=> (signs \/ Unacked(s))) /\ (Unacked(p)' <=> Unacked(p))
    <3>1. /\ Ours(s)' = Ours(s) /\ Theirs(s)' = Theirs(s)
      BY <2>4, <2>5, <2>6 DEF Ours, Theirs
    <3>2. TipHeight(s)' = IF signs THEN Theirs(s) + 1 ELSE TipHeight(s)
      BY <2>4, <2>5, <2>6, <2>14 DEF TipHeight
    <3>3. /\ signs => ~ Unacked(s)
          /\ (Unacked(s)' <=> (signs \/ Unacked(s)))
      BY <2>4, <2>5, <2>6 DEF Unacked
    <3>4. /\ Ours(p)' = Ours(p) /\ Theirs(p)' = Theirs(p) /\ TipHeight(p)' = TipHeight(p)
          /\ (Unacked(p)' <=> Unacked(p))
      BY <2>6 DEF Ours, Theirs, TipHeight, Unacked
    <3> QED
      BY <3>1, <3>2, <3>3, <3>4
  <2>16. OweRevocation(d, n) <=> Ours(s) = Theirs(p) + 1
    BY <2>8, <2>14 DEF OweRevocation
  <2>17. OweCommit(d, n) <=> Ours(p) + 1 = TipHeight(s)
    BY <2>8 DEF OweCommit, TipHeight
  <2>18. \A x \in Kinds(w, "sig") : x.tx.height \in 0 .. TipHeight(s)'
    <3> TAKE x \in Kinds(w, "sig")
    <3>1. \/ signs /\ x = SignedMsg(s, d, l)
          \/ OweCommit(d, n) /\ x = CommitSig(Tx(s, d.diff.commit))
      BY <2>10, <2>12 DEF Kinds
    <3>2. CASE signs /\ x = SignedMsg(s, d, l)
      <4>1. x.tx.height = Theirs(s) + 1
        BY <2>4, <2>12, <2>14, <3>2
      <4> QED
        BY <2>14, <2>15, <3>2, <4>1
    <3>3. CASE OweCommit(d, n) /\ x = CommitSig(Tx(s, d.diff.commit))
      <4>1. x.tx.height = TipHeight(s) /\ ~ signs
        BY <2>4, <2>9, <2>12, <2>13, <3>3
      <4> QED
        BY <2>14, <2>15, <4>1
    <3> QED
      BY <3>1, <3>2, <3>3
  <2>19. \A x \in Kinds(w, "revoke") : x.height = Theirs(p) /\ Ours(s) = Theirs(p) + 1
    BY <2>8, <2>10, <2>12, <2>16 DEF Kinds
  <2> HIDE DEF d, l
  <2>20. TipHeight(s)' \in Nat /\ TipHeight(s) \in Nat /\ TipHeight(s) <= TipHeight(s)'
    BY <2>14, <2>15
  <2>21. InStep(s)'
    <3>1. /\ Theirs(s) <= Ours(p) /\ Ours(p) <= TipHeight(s)
          /\ \A x \in Kinds(wire[p], "sig") : x.tx.height \in 0 .. TipHeight(s)
          /\ \A x \in Kinds(wire[s], "revoke") : x.height \in 0 .. (Ours(p) - 1)
      BY <2>7 DEF InStep, p
    <3>2. \A x \in Kinds(wire'[p], "sig") : x.tx.height \in 0 .. TipHeight(s)'
      <4> TAKE x \in Kinds(wire'[p], "sig")
      <4>1. x \in Kinds(w, "sig") \/ x.tx.height \in 0 .. TipHeight(s)
        BY <2>11, <3>1
      <4> QED
        BY <2>18, <2>20, <4>1
    <3>3. Theirs(s)' <= Ours(p)' /\ Ours(p)' <= TipHeight(s)'
      BY <2>14, <2>15, <2>20, <3>1
    <3>4. \A x \in Kinds(wire'[s], "revoke") : x.height \in 0 .. (Ours(p)' - 1)
      BY <2>11, <2>15, <3>1
    <3> QED
      BY <3>2, <3>3, <3>4 DEF InStep, p
  <2>22. InStep(p)'
    <3>1. /\ Theirs(p) <= Ours(s) /\ Ours(s) <= TipHeight(p)
          /\ \A x \in Kinds(wire[s], "sig") : x.tx.height \in 0 .. TipHeight(p)
          /\ \A x \in Kinds(wire[p], "revoke") : x.height \in 0 .. (Ours(s) - 1)
      BY <2>3, <2>7 DEF InStep
    <3>2. \A x \in Kinds(wire'[p], "revoke") : x.height \in 0 .. (Ours(s)' - 1)
      <4> TAKE x \in Kinds(wire'[p], "revoke")
      <4>1. CASE x \in Kinds(w, "revoke")
        <5>1. x.height = Theirs(p) /\ Ours(s)' = Theirs(p) + 1
          BY <2>15, <2>19, <4>1
        <5> QED
          BY <2>14, <5>1
      <4>2. CASE x \in Kinds(wire[p], "revoke")
        BY <2>15, <3>1, <4>2
      <4> QED
        BY <2>11, <4>1, <4>2
    <3> QED
      BY <2>3, <2>11, <2>15, <3>1, <3>2 DEF InStep
  <2>23. Syncing(s)' /\ Syncing(p)'
    <3>1. Syncing(s)'
      BY <2>6 DEF Syncing
    <3>2. Syncing(p)'
      <4> SUFFICES ASSUME pc[p] = "syncing"
                   PROVE  /\ wire'[p] # << >> /\ Head(wire'[p]) = ChanSyncMsg(e)
                          /\ Msgs(wire'[s]) = Kinds(wire'[s], "reestablish")
        BY <2>3, <2>6 DEF Syncing
      <4>1. /\ wire[p] # << >> /\ Head(wire[p]) = ChanSyncMsg(d)
            /\ Msgs(wire[s]) = Kinds(wire[s], "reestablish")
        BY <2>3, <2>7 DEF Syncing, d
      <4>2. ChanSyncMsg(e) = ChanSyncMsg(d)
        BY <2>4, <2>5 DEF ChanSyncMsg
      <4>3. Msgs(wire'[s]) = Kinds(wire'[s], "reestablish")
        <5>1. \A m \in Msgs(wire'[s]) : m.kind = "reestablish"
          <6> TAKE m \in Msgs(wire'[s])
          <6>1. m \in Kinds(wire'[s], m.kind)
            BY DEF Kinds
          <6>2. m \in Msgs(wire[s])
            BY <2>11, <6>1 DEF Kinds
          <6> QED
            BY <4>1, <6>2 DEF Kinds
        <5> QED
          BY <5>1 DEF Kinds
      <4> QED
        BY <2>11, <4>1, <4>2, <4>3
    <3> QED
      BY <3>1, <3>2
  <2>24. Signing(s)' /\ Signing(p)'
    BY <1>1, <2>2, <2>7 DEF Signing
  <2>25. ASSUME \A x \in Side : pc'[x] # "failed"
         PROVE  Waiting(s)' /\ Waiting(p)'
    <3>1. \A x \in Side : pc[x] # "failed"
      BY <1>1, <2>3, <2>6, <2>25
    <3>2. Waiting(s) /\ Waiting(p)
      BY <2>7, <3>1
    <3>3. Waiting(s)'
      <4>1. CASE signs
        <5>1. Ours(p)' = Theirs(s)'
          BY <2>7, <2>14, <2>15, <4>1 DEF InStep, p
        <5>2. Kinds(wire'[p], "sig") # {}
          BY <2>10, <2>11, <2>12, <4>1 DEF Kinds
        <5> QED
          BY <5>1, <5>2 DEF Waiting, p
      <4>2. CASE ~ signs /\ Unacked(s) /\ Ours(p) = Theirs(s)
        <5>1. OweCommit(d, n)
          BY <2>14, <2>17, <4>2
        <5>2. Kinds(wire'[p], "sig") # {}
          BY <2>10, <2>11, <2>12, <5>1 DEF Kinds
        <5> QED
          BY <2>15, <4>2, <5>2 DEF Waiting, p
      <4>3. CASE ~ signs /\ Unacked(s) /\ Ours(p) # Theirs(s)
        BY <2>6, <2>11, <2>15, <3>2, <4>3 DEF Waiting, p
      <4>4. CASE ~ signs /\ ~ Unacked(s)
        BY <2>15, <4>4 DEF Waiting
      <4> QED
        BY <4>1, <4>2, <4>3, <4>4
    <3>4. Waiting(p)'
      <4> SUFFICES ASSUME Unacked(p)
                   PROVE  \/ /\ Ours(s) = Theirs(p)
                             /\ pc'[p] = "syncing" \/ Kinds(wire'[s], "sig") # {}
                          \/ /\ Ours(s) = Theirs(p) + 1
                             /\ Kinds(wire'[p], "revoke") # {}
        BY <2>3, <2>15 DEF Waiting
      <4>1. CASE Ours(s) = Theirs(p)
        BY <2>3, <2>6, <2>11, <2>14, <3>2, <4>1 DEF Waiting
      <4>2. CASE Ours(s) = Theirs(p) + 1
        <5>1. OweRevocation(d, n)
          BY <2>16, <4>2
        <5>2. Kinds(wire'[p], "revoke") # {}
          BY <2>10, <2>11, <2>12, <5>1 DEF Kinds
        <5> QED
          BY <4>2, <5>2
      <4> QED
        BY <2>3, <3>2, <4>1, <4>2 DEF Waiting
    <3> QED
      BY <3>3, <3>4
  <2> QED
    BY <2>3, <2>21, <2>22, <2>23, <2>24, <2>25 DEF WaitInv
<1> QED
  BY <1>2, <1>3

\* WaitInv is inductive, with ChannelInv.
THEOREM WaitInductive ==
    ASSUME FeeRatesKnown
    PROVE  ChannelSpec => []WaitInv
<1>1. ChannelInit => WaitInv
  BY BeginsWaiting
<1>2. ChannelInv /\ WaitInv /\ [ChannelNext]_channelVars => WaitInv'
  <2> SUFFICES ASSUME ChannelInv, WaitInv, [ChannelNext]_channelVars
               PROVE  WaitInv'
    OBVIOUS
  <2>1. CASE UNCHANGED channelVars
    BY <2>1 DEF channelVars, WaitInv, InStep, Syncing, Waiting, Signing, Ours, Theirs,
                TipHeight, Unacked, RemoteUpdatesOwed
  <2>2. ASSUME NEW s \in Side, AddHTLC(s)
        PROVE  WaitInv'
    <3>1. PICK q : q = "ready"
      OBVIOUS
    <3>2. pc' = [pc EXCEPT ![s] = q] /\ pc[s] = "ready"
      BY <2>2, <3>1 DEF AddHTLC, ChannelInv, ChannelTypeOK
    <3> QED
      BY <2>2, <3>1, <3>2, SendWaits DEF AddHTLC
  <2>3. ASSUME NEW s \in Side, Resolve(s)
        PROVE  WaitInv'
    <3>1. PICK id \in 0 .. (MaxHtlcs - 1), type \in {"Settle", "Fail"} : ResolveHTLC(s, id, type)
      BY <2>3 DEF Resolve
    <3>2. PICK q : q = "signing"
      OBVIOUS
    <3> QED
      BY <3>1, <3>2, SendWaits DEF ResolveHTLC
  <2>4. ASSUME NEW s \in Side, ChangeFee(s)
        PROVE  WaitInv'
    <3>1. PICK rate \in FeeRates : UpdateFee(s, rate)
      BY <2>4 DEF ChangeFee
    <3>2. PICK q : q = "signing"
      OBVIOUS
    <3> QED
      BY <3>1, <3>2, SendWaits DEF UpdateFee
  <2>5. ASSUME NEW s \in Side, Link(s)
        PROVE  WaitInv'
    BY <2>5, SignWaits, UpdateWaits, CommitSigWaits, RevocationWaits, ChanSyncWaits DEF Link
  <2>6. CASE Disconnect
    BY <2>6, DisconnectWaits
  <2> QED
    BY <2>1, <2>2, <2>3, <2>4, <2>5, <2>6 DEF ChannelNext
<1> QED
  BY <1>1, <1>2, ChannelInductive, PTL DEF ChannelSpec

\* No side holds a commitment whose secret it has given away, whatever is
\* lost on the way.
THEOREM RevokedSafety ==
    ASSUME FeeRatesKnown
    PROVE  ChannelSpec => []RevokedNeverHeld
<1>1. WaitInv => RevokedNeverHeld
  <2> SUFFICES ASSUME WaitInv, NEW s \in Side
               PROVE  /\ Theirs(Peer(s)) <= Ours(s) /\ Ours(s) <= TipHeight(Peer(s))
    BY DEF RevokedNeverHeld, Theirs, Ours, TipHeight
  <2>1. Peer(s) \in Side /\ Peer(Peer(s)) = s
    BY Sides
  <2> QED
    BY <2>1 DEF WaitInv, InStep
<1> QED
  BY <1>1, WaitInductive, PTL

\* Nobody waits for an answer that is not coming.
THEOREM WaitSafety ==
    ASSUME FeeRatesKnown
    PROVE  ChannelSpec => []NobodyWaits
<1>1. WaitInv => NobodyWaits
  <2> SUFFICES ASSUME WaitInv, Idle, NEW s \in Side
               PROVE  /\ ~ HasUnacked(bucket[s])
                      /\ disconnects = 0 => ~ RemoteUpdatesOwed(s)
    BY DEF NobodyWaits
  <2>1. /\ Peer(s) \in Side /\ \A x \in Side : pc[x] = "ready" /\ wire[x] = << >>
    BY Sides DEF Idle
  <2>2. \A k : Kinds(wire[s], k) = {} /\ Kinds(wire[Peer(s)], k) = {}
    BY <2>1, SeqShort DEF Kinds
  <2>3. Waiting(s) /\ Signing(s)
    BY <2>1 DEF WaitInv
  <2>4. ~ Unacked(s)
    BY <2>1, <2>2, <2>3 DEF Waiting
  <2> QED
    BY <2>1, <2>3, <2>4 DEF Signing, Unacked
<1> QED
  BY <1>1, WaitInductive, PTL
=============================================================================
