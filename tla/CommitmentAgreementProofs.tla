---------------------- MODULE CommitmentAgreementProofs ----------------------
(***************************************************************************)
(* Both sides of the channel compute the same commitments: no link fails   *)
(* because a signature does not verify, an update does not fit, or a       *)
(* re-establishment finds the other side ahead, whatever messages are lost *)
(* by disconnections (AgreeSafety).  From that follows what each side has  *)
(* in its commitments (MoneySafety).                                       *)
(*                                                                         *)
(* ChannelInv and WaitInv (CommitmentChannelProofs) speak of one side, and *)
(* of heights.  AgreeInv relates the contents of both sides:               *)
(*                                                                         *)
(*   ChainsAgree  the commitment a side holds is the one its peer keeps of *)
(*                it (Mirrors); one signed but not received covers those   *)
(*                updates of the receiver that the receiver counts, too    *)
(*   LogsAgree    the peer's copy of a log has the updates of the log, up  *)
(*                to its own index                                         *)
(*   Conveys      the messages under way bring that copy up to the log,    *)
(*                with the signature at the index that it covers, and      *)
(*                signature and revocation in the order that is on disk    *)
(*   NextOnDisk   the commitment signed last follows the one before by the *)
(*                updates between their indexes                            *)
(*   AtRest       after a restart both copies of a log end where the       *)
(*                commitments do, so that what is sent again fits          *)
(*                                                                         *)
(* The handlers are taken one by one on the logs and buckets of both       *)
(* sides; the steps of the channel follow.                                 *)
(*                                                                         *)
(* MoneyInv adds that every commitment holds what both sides brought, and  *)
(* that the owner of a commitment has in it what it began with, with the   *)
(* settles of its own that the commitment includes and without those of    *)
(* the peer: the settles told to a side are counted in its forwarding      *)
(* packages and, as long as they are in none, in its copy of the log.      *)
(***************************************************************************)
EXTENDS CommitmentChannelProofs

-----------------------------------------------------------------------------
(* The next commitment, from the last one and the updates that are new.    *)

\* The updates of a log, and those that a commitment up to an index adds to
\* what commitment k includes.
UpdatesOf(l, c) == LogUpdates(l[c].entries)
Window(l, k, upto, c) ==
    {u \in UpdatesOf(l, c) : k.messageIndex[c] <= u.logIndex /\ u.logIndex < upto[c]}

OfType(updates, type) == {u \in updates : u.type = type}
Resolves(updates, id) == \E r \in updates : IsRemoval(r) /\ r.id = id

\* The rate a commitment has after these updates.
RateAfter(k, updates) ==
    LET fees == OfType(updates, "FeeUpdate")
    IN  IF fees = {} THEN k.feePerKw
        ELSE (CHOOSE f \in fees : \A g \in fees : g.logIndex <= f.logIndex).id

\* Commitment n follows k by the updates W[c] of each side.
Follows(k, W, n) ==
    /\ n.height = k.height + 1
    /\ \A c \in Chain :
          /\ n.htlcs[c] = {h \in k.htlcs[c] \cup {Htlc(u) : u \in OfType(W[c], "Add")} :
                              ~ Resolves(W[Opposite(c)], h.id)}
          /\ n.balance[c] = k.balance[c] - Count(W[c], "Add") + Count(W[c], "Settle")
                                + Count(W[Opposite(c)], "Fail")
    /\ n.feePerKw = RateAfter(k, W["local"] \cup W["remote"])

\* Fees are changed by one side only.
OneSideFees(l) ==
    \E c \in Chain : \A e \in l[c].entries : e.type # "FeeUpdate"

\* An update of a log has an entry.
LEMMA UpdateParts ==
    ASSUME NEW l \in LogsType, NEW c \in Chain
    PROVE  /\ \A e \in l[c].entries :
                 /\ LogUpdate(e) \in UpdatesOf(l, c) /\ e \in EntryType
                 /\ LogUpdate(e).type = e.type /\ LogUpdate(e).logIndex = e.logIndex
                 /\ LogUpdate(e).id = e.id /\ Htlc(LogUpdate(e)) = Htlc(e)
                 /\ IsRemoval(LogUpdate(e)) <=> IsRemoval(e)
           /\ \A u \in UpdatesOf(l, c) :
                 /\ \E e \in l[c].entries :
                       u = LogUpdate(e) /\ u.type = e.type /\ u.logIndex = e.logIndex
                       /\ u.id = e.id /\ Htlc(u) = Htlc(e) /\ (IsRemoval(u) <=> IsRemoval(e))
                       /\ e \in EntryType
                 /\ u.type \in UpdateKind /\ u.logIndex \in Nat /\ u.id \in Nat
                 /\ u = [type |-> u.type, logIndex |-> u.logIndex, id |-> u.id]
           /\ UpdatesOf(l, c) \in SUBSET LogUpdateType
           /\ IsFiniteSet(UpdatesOf(l, c))
<1>1. \A e \in l[c].entries : e \in EntryType
  BY EntriesOf
<1>2. \A e : /\ LogUpdate(e).type = e.type /\ LogUpdate(e).logIndex = e.logIndex
             /\ LogUpdate(e).id = e.id /\ Htlc(LogUpdate(e)) = Htlc(e)
             /\ IsRemoval(LogUpdate(e)) <=> IsRemoval(e)
             /\ LogUpdate(e) = [type |-> e.type, logIndex |-> e.logIndex, id |-> e.id]
  BY DEF LogUpdate, Htlc, IsRemoval
<1>3. \A e \in l[c].entries : e.type \in UpdateKind /\ e.logIndex \in Nat /\ e.id \in Nat
  BY <1>1, EntryParts
<1>4. \A e \in l[c].entries : LogUpdate(e) \in UpdatesOf(l, c)
  BY DEF UpdatesOf, LogUpdates
<1>5. \A u \in UpdatesOf(l, c) : \E e \in l[c].entries : u = LogUpdate(e)
  BY DEF UpdatesOf, LogUpdates
<1>6. UpdatesOf(l, c) \in SUBSET LogUpdateType /\ IsFiniteSet(UpdatesOf(l, c))
  BY EntriesOf, FiniteUpdates DEF UpdatesOf
<1> HIDE DEF LogUpdate
<1>7. ASSUME NEW u \in UpdatesOf(l, c)
      PROVE  /\ \E e \in l[c].entries :
                   u = LogUpdate(e) /\ u.type = e.type /\ u.logIndex = e.logIndex
                   /\ u.id = e.id /\ Htlc(u) = Htlc(e) /\ (IsRemoval(u) <=> IsRemoval(e))
                   /\ e \in EntryType
             /\ u.type \in UpdateKind /\ u.logIndex \in Nat /\ u.id \in Nat
             /\ u = [type |-> u.type, logIndex |-> u.logIndex, id |-> u.id]
  <2>1. PICK e \in l[c].entries : u = LogUpdate(e)
    BY <1>5
  <2> QED
    BY <2>1, <1>1, <1>2, <1>3
<1> QED
  BY <1>1, <1>2, <1>4, <1>6, <1>7

\* One update has an index, and the log has all from the first commitment on.
LEMMA UpdateAt ==
    ASSUME NEW d \in DiskType, NEW l \in LogsType, LogInv(d, l), NEW c \in Chain
    PROVE  /\ \A u, v \in UpdatesOf(l, c) : u.logIndex = v.logIndex => u = v
           /\ \A u \in UpdatesOf(l, c) : u.logIndex < l[c].logIndex
           /\ \A i \in Nat : (d.commit[c].messageIndex[c] <= i /\ i < l[c].logIndex) =>
                 \E u \in UpdatesOf(l, c) : u.logIndex = i
           /\ \A u, v \in UpdatesOf(l, c) :
                 (IsRemoval(u) /\ IsRemoval(v) /\ u.id = v.id) => u = v
<1>1. Distinct(l) /\ Bounded(d, l) /\ Complete(d, l)
  BY DEF LogInv
<1>2. \A u, v \in UpdatesOf(l, c) : u.logIndex = v.logIndex => u = v
  BY <1>1, UpdateParts DEF Distinct
<1>3. \A u \in UpdatesOf(l, c) : u.logIndex < l[c].logIndex
  BY <1>1, UpdateParts DEF Bounded
<1>4. ASSUME NEW i \in Nat, d.commit[c].messageIndex[c] <= i, i < l[c].logIndex
      PROVE  \E u \in UpdatesOf(l, c) : u.logIndex = i
  <2>1. PICK e \in l[c].entries : e.logIndex = i
    BY <1>1, <1>4 DEF Complete
  <2> QED
    BY <2>1, UpdateParts
<1>5. \A u, v \in UpdatesOf(l, c) :
         (IsRemoval(u) /\ IsRemoval(v) /\ u.id = v.id) => u = v
  BY <1>1, UpdateParts DEF Distinct
<1> QED
  BY <1>2, <1>3, <1>4, <1>5

\* An injective image has the size of its set.
LEMMA SameCount ==
    ASSUME NEW A, IsFiniteSet(A), NEW type,
           \A e, f \in A : LogUpdate(e) = LogUpdate(f) => e = f
    PROVE  Count(LogUpdates(A), type) = Count(A, type)
<1> DEFINE S == {e \in A : e.type = type}
           T == {u \in LogUpdates(A) : u.type = type}
           g == [e \in S |-> LogUpdate(e)]
<1>1. \A e : LogUpdate(e).type = e.type
  BY DEF LogUpdate
<1>2. g \in [S -> T]
  BY <1>1 DEF LogUpdates
<1>3. \A t \in T : \E e \in S : g[e] = t
  BY <1>1 DEF LogUpdates
<1>4. \A e, f \in S : g[e] = g[f] => e = f
  OBVIOUS
<1>5. IsFiniteSet(S)
  BY FS_Subset
<1> HIDE DEF S, T, g
<1>6. g \in Bijection(S, T)
  <2>1. g \in Injection(S, T)
    BY <1>2, <1>4 DEF Injection, IsInjective
  <2>2. g \in Surjection(S, T)
    BY <1>2, <1>3 DEF Surjection
  <2> QED
    BY <2>1, <2>2 DEF Bijection
<1>7. Cardinality(T) = Cardinality(S)
  BY <1>5, <1>6, FS_Bijection DEF ExistsBijection
<1> QED
  BY <1>7 DEF S, T, Count

\* An entry is new to a chain when its last commitment does not include it.
LEMMA FreshIs ==
    ASSUME NEW d \in DiskType, NEW l \in LogsType, NEW ch \in Chain,
           Distinct(l), Stamped(d, l),
           NEW upto, ParentsFetched(l, fetchHTLCView(l, upto), ch), NEW c \in Chain
    PROVE  /\ Fresh(fetchHTLCView(l, upto), c, ch) =
                {e \in l[c].entries : ~ On(e, Tip(d, ch), c) /\ e.logIndex < upto[c]}
           /\ \A a \in AddsOf(l[c]) : ~ On(a, Tip(d, ch), c) =>
                ~ \E r \in fetchHTLCView(l, upto)[Opposite(c)] : IsRemoval(r) /\ r.id = a.id
<1> DEFINE view == fetchHTLCView(l, upto)
<1>1. /\ Opposite(c) \in Chain /\ Opposite(Opposite(c)) = c
      /\ \A x \in Chain : view[x] = {e \in l[x].entries : e.logIndex < upto[x]}
      /\ \A x \in Chain : \A e \in l[x].entries : e \in EntryType
  BY EntriesOf DEF Opposite, Chain, fetchHTLCView
<1>2. \A e \in l[c].entries : StampOf(e, ch) = 0 <=> ~ On(e, Tip(d, ch), c)
  BY DEF Stamped, StampedOn
<1>3. ASSUME NEW e \in AddsOf(l[c]), ~ On(e, Tip(d, ch), c),
             NEW r \in view[Opposite(c)], IsRemoval(r), r.id = e.id
      PROVE  FALSE
  <2>1. PICK a \in AddsOf(l[c]) : a.id = r.id /\ a.added[ch] # 0
    BY <1>1, <1>3 DEF ParentsFetched
  <2>2. a = e
    BY <1>3, <2>1 DEF Distinct, AddsOf
  <2> QED
    BY <1>2, <1>3, <2>1, <2>2 DEF AddsOf, StampOf
<1>4. ASSUME NEW e \in l[c].entries
      PROVE  e \in Fresh(view, c, ch) <=> e.logIndex < upto[c] /\ StampOf(e, ch) = 0
  <2>1. e \in EntryType /\ StampedOn(d, e, c, ch)
    BY <1>1 DEF Stamped
  <2>2. e \in view[c] <=> e.logIndex < upto[c]
    BY <1>1
  <2> HIDE DEF view
  <2>3. ASSUME e.type = "Add", e \in view[c], e.added[ch] = 0
        PROVE  e \in Kept(view, c)
    BY <1>2, <1>3, <2>3 DEF Kept, AddsOf, StampOf
  <2>4. Kept(view, c) \subseteq {x \in view[c] : x.type = "Add"}
    BY DEF Kept
  <2>5. CASE e.type = "Add"
    BY <2>2, <2>3, <2>4, <2>5 DEF Fresh, StampOf, IsRemoval
  <2>6. CASE e.type = "FeeUpdate"
    BY <2>1, <2>2, <2>4, <2>6 DEF Fresh, StampOf, IsRemoval, StampedOn
  <2>7. CASE IsRemoval(e)
    BY <2>1, <2>2, <2>4, <2>7 DEF Fresh, StampOf, IsRemoval
  <2> QED
    BY <2>1, <2>5, <2>6, <2>7, EntryParts
<1>5. Fresh(view, c, ch) \subseteq l[c].entries
  BY ViewParts
<1> HIDE DEF view
<1>6. Fresh(view, c, ch) = {e \in l[c].entries : ~ On(e, Tip(d, ch), c) /\ e.logIndex < upto[c]}
  BY <1>2, <1>4, <1>5
<1> QED
  BY <1>3, <1>6 DEF view

\* The last fee update of a set that has one per index.
LEMMA RateIs ==
    ASSUME NEW k, NEW F \in SUBSET EntryType, IsFiniteSet(F),
           \A e, f \in F : (e.type = "FeeUpdate" /\ f.type = "FeeUpdate"
                                /\ e.logIndex = f.logIndex) => e.id = f.id,
           NEW fresh, F = fresh["local"] \cup fresh["remote"]
    PROVE  NextFee(k, fresh) = RateAfter(k, LogUpdates(F))
<1> DEFINE fees == {e \in F : e.type = "FeeUpdate"}
           U == OfType(LogUpdates(F), "FeeUpdate")
           last(S) == CHOOSE f \in S : \A g \in S : g.logIndex <= f.logIndex
<1>1. \A e \in F : /\ LogUpdate(e).type = e.type /\ LogUpdate(e).logIndex = e.logIndex
                   /\ LogUpdate(e).id = e.id /\ e.logIndex \in Nat
  BY EntryParts DEF LogUpdate
<1>2. /\ \A u \in U : \E e \in fees : u = LogUpdate(e)
      /\ \A e \in fees : LogUpdate(e) \in U
  BY <1>1 DEF OfType, LogUpdates
<1>3. RateAfter(k, LogUpdates(F)) = IF U = {} THEN k.feePerKw ELSE last(U).id
  BY DEF RateAfter
<1>6. NextFee(k, fresh) = IF fees = {} THEN k.feePerKw ELSE last(fees).id
  BY DEF NextFee
<1>4. CASE fees = {}
  <2> HIDE DEF fees, last
  <2> QED
    BY <1>2, <1>3, <1>4, <1>6
<1>5. CASE fees # {}
  <2>1. fees \in SUBSET EntryType /\ IsFiniteSet(fees) /\ fees \in SUBSET F
    BY FS_Subset
  <2> HIDE DEF fees, U
  <2>2. PICK f \in fees : \A g \in fees : g.logIndex <= f.logIndex
    BY <1>5, <2>1, LastEntry
  <2>3. last(fees) \in fees /\ \A g \in fees : g.logIndex <= last(fees).logIndex
    BY <2>2
  <2>4. \A u \in U : u.logIndex <= LogUpdate(f).logIndex
    BY <1>1, <1>2, <2>1, <2>2
  <2>5. LogUpdate(f) \in U
    BY <1>2
  <2>6. last(U) \in U /\ \A u \in U : u.logIndex <= last(U).logIndex
    BY <2>4, <2>5
  <2>7. PICK e \in fees : last(U) = LogUpdate(e)
    BY <1>2, <2>6
  <2> HIDE DEF last
  <2>8. e.logIndex = last(fees).logIndex
    <3>1. e.logIndex <= last(fees).logIndex
      BY <2>3
    <3>2. LogUpdate(last(fees)).logIndex <= last(U).logIndex
      BY <1>2, <2>3, <2>6
    <3>3. last(fees).logIndex <= e.logIndex
      BY <1>1, <2>1, <2>3, <2>7, <3>2
    <3> QED
      BY <1>1, <2>1, <2>3, <3>1, <3>3
  <2>9. e.id = last(fees).id
    BY <2>1, <2>3, <2>8 DEF fees
  <2>10. last(U).id = last(fees).id
    BY <1>1, <2>1, <2>7, <2>9
  <2> QED
    BY <1>3, <1>5, <1>6, <2>5, <2>10
<1> QED
  BY <1>4, <1>5

\* The view makes the commitment that follows.
LEMMA ViewFollows ==
    ASSUME NEW d \in DiskType, NEW l \in LogsType, LogInv(d, l), NEW ch \in Chain,
           OneSideFees(l), NEW upto \in Heights, NEW counters,
           \A c \in Chain : Tip(d, ch).messageIndex[c] <= upto[c],
           ParentsFetched(l, fetchHTLCView(l, upto), ch)
    PROVE  Follows(Tip(d, ch), [c \in Chain |-> Window(l, Tip(d, ch), upto, c)],
                   fetchCommitmentView(l, Tip(d, ch), ch, upto, counters))
<1> DEFINE k == Tip(d, ch)
           view == fetchHTLCView(l, upto)
           new(c) == {e \in l[c].entries : ~ On(e, k, c) /\ e.logIndex < upto[c]}
           fresh == [c \in Chain |-> Fresh(view, c, ch)]
           W == [c \in Chain |-> Window(l, k, upto, c)]
           n == fetchCommitmentView(l, k, ch, upto, counters)
<1>1. /\ Distinct(l) /\ Stamped(d, l) /\ Contents(d, l) /\ Ordered(d)
  BY DEF LogInv
<1>2. /\ \A c \in Chain : Opposite(c) \in Chain /\ Opposite(Opposite(c)) = c
      /\ k \in CommitmentType /\ k \in Commitments(d)
      /\ \A c \in Chain : k.messageIndex[c] \in Nat /\ upto[c] \in Nat
  BY DiskParts, CommitParts DEF Opposite, Chain, Tip, Commitments, Heights
<1>3. /\ n.height = k.height + 1
      /\ n.htlcs = [c \in Chain |-> {Htlc(e) : e \in Kept(view, c)}]
      /\ n.balance = [c \in Chain |-> NextBalance(k, fresh, c)]
      /\ n.feePerKw = NextFee(k, fresh)
  BY DEF fetchCommitmentView
<1>4. \A c \in Chain : fresh[c] = new(c)
  BY <1>1, FreshIs
<1>5. \A c \in Chain : view[c] = {e \in l[c].entries : e.logIndex < upto[c]}
  BY DEF fetchHTLCView
<1>6. \A c \in Chain : LogUpdates(new(c)) = W[c]
  <2> SUFFICES ASSUME NEW c \in Chain
               PROVE  LogUpdates(new(c)) = Window(l, k, upto, c)
    OBVIOUS
  <2>1. \A e \in l[c].entries : ~ On(e, k, c) <=> k.messageIndex[c] <= e.logIndex
    BY <1>2, UpdateParts, EntryParts DEF On
  <2>2. \A u \in LogUpdates(new(c)) : u \in Window(l, k, upto, c)
    <3> HIDE DEF k
    <3> QED
      BY <2>1, UpdateParts DEF LogUpdates, Window
  <2>3. \A u \in Window(l, k, upto, c) : u \in LogUpdates(new(c))
    <3> SUFFICES ASSUME NEW u \in Window(l, k, upto, c)
                 PROVE  u \in LogUpdates(new(c))
      OBVIOUS
    <3>1. u \in UpdatesOf(l, c) /\ k.messageIndex[c] <= u.logIndex /\ u.logIndex < upto[c]
      BY DEF Window
    <3>2. PICK e \in l[c].entries : u = LogUpdate(e) /\ u.logIndex = e.logIndex
      BY <3>1, UpdateParts
    <3>3. e \in new(c)
      BY <2>1, <3>1, <3>2
    <3> HIDE DEF new
    <3> QED
      BY <3>2, <3>3 DEF LogUpdates
  <2> HIDE DEF new
  <2> QED
    BY <2>2, <2>3
<1>7. \A c \in Chain : /\ new(c) \in SUBSET EntryType /\ IsFiniteSet(new(c))
                       /\ \A e, f \in new(c) : e.logIndex = f.logIndex => e = f
  <2> SUFFICES ASSUME NEW c \in Chain
               PROVE  /\ new(c) \in SUBSET EntryType /\ IsFiniteSet(new(c))
                      /\ \A e, f \in new(c) : e.logIndex = f.logIndex => e = f
    OBVIOUS
  <2>1. new(c) \in SUBSET l[c].entries
    OBVIOUS
  <2> HIDE DEF new
  <2> QED
    BY <1>1, <2>1, EntriesOf, FS_Subset DEF Distinct
<1>8. \A c \in Chain : \A type : Count(fresh[c], type) = Count(W[c], type)
  <2> SUFFICES ASSUME NEW c \in Chain, NEW type
               PROVE  Count(fresh[c], type) = Count(W[c], type)
    OBVIOUS
  <2>1. \A e, f \in new(c) : LogUpdate(e) = LogUpdate(f) => e = f
    BY <1>7 DEF LogUpdate
  <2> HIDE DEF new, fresh, W
  <2> QED
    BY <1>4, <1>6, <1>7, <2>1, SameCount
<1>9. \A c \in Chain : n.balance[c] = k.balance[c] - Count(W[c], "Add")
            + Count(W[c], "Settle") + Count(W[Opposite(c)], "Fail")
  <2> HIDE DEF n, W, fresh, k
  <2> QED
    BY <1>2, <1>3, <1>8 DEF NextBalance
<1>10. n.feePerKw = RateAfter(k, W["local"] \cup W["remote"])
  <2> DEFINE F == new("local") \cup new("remote")
  <2>1. "local" \in Chain /\ "remote" \in Chain /\ \A c \in Chain : c = "local" \/ c = "remote"
    BY DEF Chain
  <2>2. F \in SUBSET EntryType /\ IsFiniteSet(F)
    <3> HIDE DEF new
    <3> QED
      BY <1>7, <2>1, FS_Union
  <2>3. W["local"] \cup W["remote"] = LogUpdates(F)
    <3>1. LogUpdates(F) = LogUpdates(new("local")) \cup LogUpdates(new("remote"))
      <4> HIDE DEF new
      <4> QED
        BY DEF LogUpdates
    <3> HIDE DEF F, W, new
    <3> QED
      BY <1>6, <2>1, <3>1
  <2>4. PICK x \in Chain : \A e \in l[x].entries : e.type # "FeeUpdate"
    BY DEF OneSideFees
  <2>5. \A c \in Chain : \A e \in new(c) : e.type = "FeeUpdate" => c # x
    BY <2>4
  <2>6. \A e, f \in F : (e.type = "FeeUpdate" /\ f.type = "FeeUpdate"
                            /\ e.logIndex = f.logIndex) => e.id = f.id
    <3> HIDE DEF new
    <3> QED
      BY <1>7, <2>1, <2>5
  <2>7. F = fresh["local"] \cup fresh["remote"]
    BY <1>4, <2>1
  <2>8. n.feePerKw = NextFee(k, fresh)
    BY <1>3
  <2> HIDE DEF F, n, fresh, k, W, new
  <2>9. NextFee(k, fresh) = RateAfter(k, LogUpdates(F))
    BY ONLY <2>2, <2>6, <2>7, RateIs
  <2> QED
    BY ONLY <2>3, <2>8, <2>9
<1>11. ASSUME NEW c \in Chain
       PROVE  n.htlcs[c] = {h \in k.htlcs[c] \cup {Htlc(u) : u \in OfType(W[c], "Add")} :
                              ~ Resolves(W[Opposite(c)], h.id)}
  <2> DEFINE old == k.htlcs[c]
             add == {Htlc(u) : u \in OfType(W[c], "Add")}
             o == Opposite(c)
  <2>1. o \in Chain /\ Opposite(o) = c
    BY <1>2
  <2>2. /\ \A h \in old : \E a \in OpenAt(l, k, c) : h = Htlc(a)
        /\ \A a \in OpenAt(l, k, c) :
              /\ Htlc(a) \in old /\ a \in l[c].entries /\ a.type = "Add" /\ On(a, k, c)
              /\ ~ ResolvedAt(l, k, c, a.id)
    BY <1>2, StoredHtlcs
  <2>3. /\ \A x \in Chain : \A e \in new(x) : LogUpdate(e) \in W[x]
        /\ \A x \in Chain : \A u \in W[x] : \E e \in new(x) : u = LogUpdate(e)
    <3> HIDE DEF W, new
    <3> QED
      BY <1>6 DEF LogUpdates
  <2>4. \A e : /\ LogUpdate(e).type = e.type /\ LogUpdate(e).id = e.id
               /\ Htlc(LogUpdate(e)) = Htlc(e) /\ Htlc(e).id = e.id
               /\ IsRemoval(LogUpdate(e)) <=> IsRemoval(e)
    BY DEF LogUpdate, Htlc, IsRemoval
  <2>5. /\ \A e \in new(c) : e.type = "Add" => Htlc(e) \in add
        /\ \A h \in add : \E e \in new(c) : e.type = "Add" /\ h = Htlc(e)
    <3> HIDE DEF W, new
    <3> QED
      BY <2>3, <2>4 DEF OfType
  <2>6. \A id : Resolves(W[o], id) <=> \E r \in new(o) : IsRemoval(r) /\ r.id = id
    <3> HIDE DEF W, new
    <3> QED
      BY <2>1, <2>3, <2>4 DEF Resolves
  <2>7. /\ \A a \in Kept(view, c) : /\ a \in l[c].entries /\ a.type = "Add"
                                    /\ a.logIndex < upto[c]
                                    /\ ~ \E r \in view[o] : IsRemoval(r) /\ r.id = a.id
        /\ \A a \in l[c].entries :
              (a.type = "Add" /\ a.logIndex < upto[c]
                   /\ ~ \E r \in view[o] : IsRemoval(r) /\ r.id = a.id)
              => a \in Kept(view, c)
    BY <1>5 DEF Kept
  <2>8. \A id : ResolvedAt(l, k, c, id) <=> \E r \in l[o].entries :
                    IsRemoval(r) /\ r.id = id /\ On(r, k, o)
    BY DEF ResolvedAt
  <2>9. \A x \in Chain : \A e \in l[x].entries :
           e.logIndex < upto[x] <=> On(e, k, x) \/ e \in new(x)
    <3>1. \A x \in Chain : \A e \in l[x].entries : e.logIndex \in Nat
      BY EntriesOf, EntryParts
    <3>2. \A x \in Chain : k.messageIndex[x] <= upto[x]
      OBVIOUS
    <3> HIDE DEF k
    <3> QED
      BY <1>2, <3>1, <3>2 DEF On
  <2>10. \A a \in l[c].entries : a.type = "Add" /\ ~ On(a, k, c) =>
            ~ \E r \in view[o] : IsRemoval(r) /\ r.id = a.id
    BY <1>1, FreshIs DEF AddsOf
  <2>11. \A e \in l[c].entries : e \in new(c) <=> ~ On(e, k, c) /\ e.logIndex < upto[c]
    OBVIOUS
  <2>12. \A e \in l[o].entries : e \in view[o] <=> e.logIndex < upto[o]
    BY <1>5, <2>1
  <2>13. \A r \in view[o] : r \in l[o].entries
    BY <1>5, <2>1
  <2>14. \A r \in new(o) : r \in l[o].entries
    OBVIOUS
  <2> HIDE DEF k, view, new, W, o, old, add
  <2>15. \A a \in Kept(view, c) : Htlc(a) \in old \cup add /\ ~ Resolves(W[o], Htlc(a).id)
    <3> SUFFICES ASSUME NEW a \in Kept(view, c)
                 PROVE  Htlc(a) \in old \cup add /\ ~ Resolves(W[o], Htlc(a).id)
      OBVIOUS
    <3>1. ~ Resolves(W[o], a.id)
      BY <2>1, <2>6, <2>7, <2>9, <2>12, <2>14
    <3>2. CASE On(a, k, c)
      <4>1. ~ ResolvedAt(l, k, c, a.id)
        BY <2>1, <2>7, <2>8, <2>9, <2>12
      <4>2. a \in OpenAt(l, k, c)
        BY <2>7, <3>2, <4>1 DEF OpenAt, AddsOf
      <4> QED
        BY <2>2, <2>4, <3>1, <4>2
    <3>3. CASE ~ On(a, k, c)
      BY <2>4, <2>5, <2>7, <2>11, <3>1, <3>3
    <3> QED
      BY <3>2, <3>3
  <2>16. \A h \in old \cup add : ~ Resolves(W[o], h.id) =>
            \E a \in Kept(view, c) : h = Htlc(a)
    <3> SUFFICES ASSUME NEW h \in old \cup add, ~ Resolves(W[o], h.id)
                 PROVE  \E a \in Kept(view, c) : h = Htlc(a)
      OBVIOUS
    <3>1. CASE h \in old
      <4>1. PICK a \in OpenAt(l, k, c) : h = Htlc(a)
        BY <2>2, <3>1
      <4>2. /\ a \in l[c].entries /\ a.type = "Add" /\ On(a, k, c)
            /\ ~ ResolvedAt(l, k, c, a.id) /\ h.id = a.id
        BY <2>2, <2>4, <4>1
      <4>3. ~ \E r \in view[o] : IsRemoval(r) /\ r.id = a.id
        BY <2>1, <2>6, <2>8, <2>9, <2>12, <2>13, <4>2
      <4>4. a \in Kept(view, c)
        BY <2>7, <2>9, <4>2, <4>3
      <4> QED
        BY <4>1, <4>4
    <3>2. CASE h \in add
      <4>1. PICK a \in new(c) : a.type = "Add" /\ h = Htlc(a)
        BY <2>5, <3>2
      <4>2. a \in l[c].entries /\ ~ On(a, k, c) /\ a.logIndex < upto[c]
        BY <4>1 DEF new
      <4>3. a \in Kept(view, c)
        BY <2>7, <2>10, <4>1, <4>2
      <4> QED
        BY <4>1, <4>3
    <3> QED
      BY <3>1, <3>2
  <2>17. n.htlcs[c] = {Htlc(a) : a \in Kept(view, c)}
    BY <1>3 DEF view
  <2> HIDE DEF n
  <2>18. \A h \in n.htlcs[c] : h \in old \cup add /\ ~ Resolves(W[o], h.id)
    BY <2>15, <2>17
  <2>19. \A h \in old \cup add : ~ Resolves(W[o], h.id) => h \in n.htlcs[c]
    BY <2>16, <2>17
  <2>20. n.htlcs[c] = {h \in old \cup add : ~ Resolves(W[o], h.id)}
    BY <2>18, <2>19
  <2> QED
    BY <2>20 DEF old, add, o
<1> HIDE DEF n, W, k
<1> QED
  BY <1>3, <1>9, <1>10, <1>11 DEF Follows, n, W, k

-----------------------------------------------------------------------------
(* Both sides of the channel.                                              *)

\* The logs fit the bucket.
Fits(d, l) == d \in DiskType /\ l \in LogsType /\ LogInv(d, l)

\* Commitment j of one side is commitment k of the other.
Mirrors(k, j) ==
    /\ j.height = k.height /\ j.feePerKw = k.feePerKw
    /\ \A c \in Chain :
          /\ j.messageIndex[c] = k.messageIndex[Opposite(c)]
          /\ j.htlcIndex[c] = k.htlcIndex[Opposite(c)]
          /\ j.htlcs[c] = k.htlcs[Opposite(c)]
          /\ j.balance[c] = k.balance[Opposite(c)]

\* The signature of side d is still to be received, the revocation of side d
\* is, by side e.
SigDue(d, e) ==
    HasUnacked(d) /\ e.commit["local"].height = d.commit["remote"].height
RevDue(d, e) ==
    HasUnacked(e) /\ d.commit["local"].height = e.commit["remote"].height + 1

\* The commitment of d that side e holds, and the one of e that e will have
\* got revoked when it receives the signature of d.
Counterpart(d, e) == IF SigDue(d, e) THEN d.commit["remote"] ELSE RemoteTip(d)
Base(d, e) ==
    IF RevDue(d, e) /\ ~ d.lastWasRevoke THEN RemoteTip(e) ELSE e.commit["remote"]

\* Both sides have the same commitment, and will have the next one.
ChainsAgree(d, e) ==
    /\ Mirrors(Counterpart(d, e), e.commit["local"])
    /\ SigDue(d, e) =>
         /\ d.diff.commit.messageIndex["remote"] = Base(d, e).messageIndex["local"]
         /\ d.diff.commit.htlcIndex["remote"] = Base(d, e).htlcIndex["local"]

\* What the receiver m has of the log of l is what the sender has.
LogsAgree(l, m) ==
    /\ \A u \in UpdatesOf(l, "local"), v \in UpdatesOf(m, "remote") :
          u.logIndex = v.logIndex => u = v
    /\ m["remote"].logIndex <= l["local"].logIndex
    /\ m["remote"].htlcCounter <= l["local"].htlcCounter
    /\ \A u \in UpdatesOf(l, "local") : u.type = "Add" =>
          (u.id < m["remote"].htlcCounter <=> u.logIndex < m["remote"].logIndex)

\* The heights of both sides are at most one apart.
Near(d, e) ==
    /\ d.commit["remote"].height <= e.commit["local"].height
    /\ e.commit["local"].height <= RemoteTip(d).height

\* The commitments of both chains agree.
Agree(d, l, e, m) == Near(d, e) /\ ChainsAgree(d, e) /\ LogsAgree(l, m)

\* Two logs that have all updates from a up to b have the same there.
LEMMA SameWindow ==
    ASSUME NEW U, NEW V, NEW a \in Nat, NEW b \in Nat,
           \A u \in U : u.logIndex \in Nat, \A v \in V : v.logIndex \in Nat,
           \A u \in U, v \in V : u.logIndex = v.logIndex => u = v,
           \A i \in Nat : (a <= i /\ i < b) => \E u \in U : u.logIndex = i,
           \A i \in Nat : (a <= i /\ i < b) => \E v \in V : v.logIndex = i
    PROVE  {u \in U : a <= u.logIndex /\ u.logIndex < b}
                = {v \in V : a <= v.logIndex /\ v.logIndex < b}
<1>1. ASSUME NEW u \in U, a <= u.logIndex, u.logIndex < b
      PROVE  u \in V
  <2>1. PICK v \in V : v.logIndex = u.logIndex
    BY <1>1
  <2> QED
    BY <2>1
<1>2. ASSUME NEW v \in V, a <= v.logIndex, v.logIndex < b
      PROVE  v \in U
  <2>1. PICK u \in U : u.logIndex = v.logIndex
    BY <1>2
  <2> QED
    BY <2>1
<1> QED
  BY <1>1, <1>2

\* A log has all updates that are not on both chains.
LEMMA Covers ==
    ASSUME NEW d, NEW l, Fits(d, l), NEW c \in Chain, NEW a \in Nat, NEW b \in Nat,
           d.commit[c].messageIndex[c] <= a, b <= l[c].logIndex
    PROVE  \A i \in Nat : (a <= i /\ i < b) => \E u \in UpdatesOf(l, c) : u.logIndex = i
<1>1. d.commit[c].messageIndex[c] \in Nat /\ l[c].logIndex \in Nat
  BY DiskParts, CommitParts, EntriesOf DEF Fits
<1> QED
  BY <1>1, UpdateAt DEF Fits

\* Commitments that follow the same one by the same updates are the same.
LEMMA MirrorsNext ==
    ASSUME NEW k, NEW j, NEW W, NEW V, NEW n, NEW o, Mirrors(k, j),
           Follows(k, W, n), Follows(j, V, o),
           \A c \in Chain : /\ V[c] = W[Opposite(c)]
                            /\ o.messageIndex[c] = n.messageIndex[Opposite(c)]
                            /\ o.htlcIndex[c] = n.htlcIndex[Opposite(c)]
    PROVE  Mirrors(n, o)
<1>1. \A c \in Chain : Opposite(c) \in Chain /\ Opposite(Opposite(c)) = c
  BY DEF Opposite, Chain
<1>2. o.height = n.height
  BY DEF Mirrors, Follows
<1>3. o.feePerKw = n.feePerKw
  <2>1. V["local"] \cup V["remote"] = W["local"] \cup W["remote"]
    BY DEF Opposite, Chain
  <2>2. RateAfter(j, V["local"] \cup V["remote"])
            = RateAfter(k, W["local"] \cup W["remote"])
    <3> DEFINE updates == W["local"] \cup W["remote"]
    <3>1. V["local"] \cup V["remote"] = updates /\ j.feePerKw = k.feePerKw
      BY <2>1 DEF Mirrors
    <3> HIDE DEF updates
    <3>2. RateAfter(j, updates) = RateAfter(k, updates)
      BY ONLY <3>1 DEF RateAfter
    <3> QED
      BY <3>1, <3>2 DEF updates
  <2> QED
    BY <2>2 DEF Follows
<1>4. ASSUME NEW c \in Chain
      PROVE  o.htlcs[c] = n.htlcs[Opposite(c)]
  <2> DEFINE x == Opposite(c)
  <2>1. /\ V[c] = W[x] /\ V[x] = W[c] /\ j.htlcs[c] = k.htlcs[x]
        /\ x \in Chain /\ Opposite(x) = c
    BY <1>1 DEF Mirrors
  <2>2. o.htlcs[c] = {h \in j.htlcs[c] \cup {Htlc(u) : u \in OfType(V[c], "Add")} :
                          ~ Resolves(V[x], h.id)}
    BY DEF Follows
  <2>3. n.htlcs[x] = {h \in k.htlcs[x] \cup {Htlc(u) : u \in OfType(W[x], "Add")} :
                          ~ Resolves(W[c], h.id)}
    BY <2>1 DEF Follows
  <2> HIDE DEF x
  <2>4. o.htlcs[c] = n.htlcs[x]
    BY <2>1, <2>2, <2>3
  <2> QED
    BY <2>4 DEF x
<1>5. ASSUME NEW c \in Chain
      PROVE  o.balance[c] = n.balance[Opposite(c)]
  <2> DEFINE x == Opposite(c)
  <2>1. /\ V[c] = W[x] /\ V[x] = W[c] /\ j.balance[c] = k.balance[x]
        /\ x \in Chain /\ Opposite(x) = c
    BY <1>1 DEF Mirrors
  <2>2. o.balance[c] = j.balance[c] - Count(V[c], "Add") + Count(V[c], "Settle")
                            + Count(V[x], "Fail")
    BY DEF Follows
  <2>3. n.balance[x] = k.balance[x] - Count(W[x], "Add") + Count(W[x], "Settle")
                            + Count(W[c], "Fail")
    BY <2>1 DEF Follows
  <2> HIDE DEF x
  <2>4. o.balance[c] = n.balance[x]
    BY <2>1, <2>2, <2>3
  <2> QED
    BY <2>4 DEF x
<1> QED
  BY <1>2, <1>3, <1>4, <1>5 DEF Mirrors

\* It is one transaction.
LEMMA SameTx ==
    ASSUME NEW s \in Side, NEW k, NEW j, Mirrors(k, j)
    PROVE  Tx(Peer(s), j) = Tx(s, k)
<1>1. \A x \in Side : /\ x = Peer(s) <=> x # s
                      /\ (IF x = Peer(s) THEN "local" ELSE "remote") \in Chain
                      /\ Opposite(IF x = Peer(s) THEN "local" ELSE "remote") =
                            (IF x = s THEN "local" ELSE "remote")
  BY Sides DEF Opposite, Chain
<1>2. \A x \in Side :
          /\ j.htlcs[IF x = Peer(s) THEN "local" ELSE "remote"]
                = k.htlcs[IF x = s THEN "local" ELSE "remote"]
          /\ j.balance[IF x = Peer(s) THEN "local" ELSE "remote"]
                = k.balance[IF x = s THEN "local" ELSE "remote"]
  BY <1>1 DEF Mirrors
<1>3. j.height = k.height /\ j.feePerKw = k.feePerKw
  BY DEF Mirrors
<1> QED
  BY <1>2, <1>3 DEF Tx

\* What the heights of both sides tell.
LEMMA NearParts ==
    ASSUME NEW d, NEW l, NEW e, NEW m, Fits(d, l), Fits(e, m), Near(d, e)
    PROVE  /\ SigDue(d, e) => ~ RevDue(e, d)
           /\ HasUnacked(d) => SigDue(d, e) \/ RevDue(e, d)
           /\ ~ SigDue(d, e) =>
                /\ Counterpart(d, e) = RemoteTip(d)
                /\ e.commit["local"].height = RemoteTip(d).height
           /\ SigDue(d, e) => /\ Counterpart(d, e) = d.commit["remote"]
                              /\ RemoteTip(d) = d.diff.commit
           /\ ~ HasUnacked(d) => /\ ~ SigDue(d, e) /\ ~ RevDue(e, d)
                                 /\ RemoteTip(d) = d.commit["remote"]
           /\ Counterpart(d, e) \in Commitments(d)
<1>1. /\ d.commit["local"].height \in Nat /\ d.commit["remote"].height \in Nat
      /\ e.commit["local"].height \in Nat /\ e.commit["remote"].height \in Nat
      /\ RemoteTip(d).height =
            IF HasUnacked(d) THEN d.commit["remote"].height + 1 ELSE d.commit["remote"].height
  BY HeightsAre DEF Fits
<1>2. HasUnacked(d) => RemoteTip(d) = d.diff.commit
  BY DEF RemoteTip
<1>3. ~ HasUnacked(d) => RemoteTip(d) = d.commit["remote"]
  BY DEF RemoteTip
<1> QED
  BY <1>1, <1>2, <1>3 DEF SigDue, RevDue, Near, Counterpart, Commitments

\* What the receiver has of the sender's log is on both its chains no later.
LEMMA Reached ==
    ASSUME NEW d, NEW l, NEW e, NEW m, Fits(d, l), Fits(e, m), Agree(d, l, e, m)
    PROVE  /\ \A c \in Chain :
                /\ d.commit["local"].messageIndex[c] \in Nat
                /\ d.commit["remote"].messageIndex[c] \in Nat
                /\ RemoteTip(d).messageIndex[c] \in Nat
                /\ d.commit["local"].htlcIndex[c] \in Nat
                /\ l[c].logIndex \in Nat /\ l[c].htlcCounter \in Nat
                /\ e.commit["local"].messageIndex[c] \in Nat
                /\ m[c].logIndex \in Nat /\ m[c].htlcCounter \in Nat
           /\ d.commit["local"].messageIndex["local"] <= e.commit["local"].messageIndex["remote"]
           /\ e.commit["local"].messageIndex["remote"] <= m["remote"].logIndex
           /\ e.commit["local"].messageIndex["remote"] <= RemoteTip(d).messageIndex["local"]
           /\ d.commit["local"].messageIndex["local"] <= m["remote"].logIndex
           /\ d.commit["local"].htlcIndex["local"] <= m["remote"].htlcCounter
           /\ m["remote"].logIndex <= l["local"].logIndex
           /\ m["remote"].htlcCounter <= l["local"].htlcCounter
           /\ e.commit["local"].messageIndex["local"] = Counterpart(d, e).messageIndex["remote"]
           /\ e.commit["local"].messageIndex["remote"] = Counterpart(d, e).messageIndex["local"]
           /\ e.commit["local"].htlcIndex["local"] = Counterpart(d, e).htlcIndex["remote"]
           /\ e.commit["local"].htlcIndex["remote"] = Counterpart(d, e).htlcIndex["local"]
<1>1. Ordered(d) /\ Bounded(e, m) /\ d \in DiskType /\ e \in DiskType /\ l \in LogsType /\ m \in LogsType
  BY DEF Fits, LogInv
<1>2. Counterpart(d, e) = d.commit["remote"] \/ Counterpart(d, e) = RemoteTip(d)
  BY DEF Counterpart
<1>3. /\ e.commit["local"].messageIndex["local"] = Counterpart(d, e).messageIndex["remote"]
      /\ e.commit["local"].messageIndex["remote"] = Counterpart(d, e).messageIndex["local"]
      /\ e.commit["local"].htlcIndex["local"] = Counterpart(d, e).htlcIndex["remote"]
      /\ e.commit["local"].htlcIndex["remote"] = Counterpart(d, e).htlcIndex["local"]
  BY DEF Agree, ChainsAgree, Mirrors, Opposite, Chain
<1>4. \A c \in Chain :
         /\ d.commit["local"].messageIndex[c] \in Nat
         /\ d.commit["remote"].messageIndex[c] \in Nat
         /\ RemoteTip(d).messageIndex[c] \in Nat
         /\ d.commit["local"].htlcIndex[c] \in Nat
         /\ d.commit["remote"].htlcIndex[c] \in Nat
         /\ RemoteTip(d).htlcIndex[c] \in Nat
  BY <1>1, OrderedParts
<1>5. \A c \in Chain : /\ l[c].logIndex \in Nat /\ l[c].htlcCounter \in Nat
                       /\ m[c].logIndex \in Nat /\ m[c].htlcCounter \in Nat
                       /\ e.commit["local"].messageIndex[c] \in Nat
                       /\ e.commit["local"].htlcIndex[c] \in Nat
  BY <1>1, EntriesOf, DiskParts, CommitParts DEF Chain
<1>6. /\ m["remote"].logIndex <= l["local"].logIndex
      /\ m["remote"].htlcCounter <= l["local"].htlcCounter
  BY DEF Agree, LogsAgree
<1>7. /\ d.commit["local"].messageIndex["local"] <= Counterpart(d, e).messageIndex["local"]
      /\ Counterpart(d, e).messageIndex["local"] <= RemoteTip(d).messageIndex["local"]
      /\ d.commit["local"].htlcIndex["local"] <= Counterpart(d, e).htlcIndex["local"]
  BY <1>1, <1>2, <1>4 DEF Ordered, Chain
<1>8. /\ e.commit["local"].messageIndex["remote"] <= m["remote"].logIndex
      /\ e.commit["local"].htlcIndex["remote"] <= m["remote"].htlcCounter
  BY <1>1 DEF Bounded
<1> QED
  BY <1>3, <1>4, <1>5, <1>6, <1>7, <1>8 DEF Chain

\* The next commitment of the peer follows the one before by what its indexes
\* tell, as long as it is on disk.
NextOnDisk(d, l) ==
    HasUnacked(d) =>
        Follows(d.commit["remote"],
                [c \in Chain |-> Window(l, d.commit["remote"], d.diff.commit.messageIndex, c)],
                d.diff.commit)

\* Side e is about to make its own commitment of what d signed.
Receiving(d, l, e, m) ==
    /\ Agree(d, l, e, m) /\ Agree(e, m, d, l) /\ SigDue(d, e)
    /\ m["remote"].logIndex = d.diff.commit.messageIndex["local"]
    /\ d.diff.commit.messageIndex["remote"] = e.commit["remote"].messageIndex["local"]
    /\ d.diff.commit.htlcIndex["remote"] = e.commit["remote"].htlcIndex["local"]

\* Both sides read the same updates off their logs.
LEMMA WindowsAgree ==
    ASSUME NEW d, NEW l, NEW e, NEW m, Fits(d, l), Fits(e, m), Receiving(d, l, e, m)
    PROVE  \A c \in Chain :
              /\ Window(m, e.commit["local"], ReceiveIndexes(e, m), c)
                    = Window(l, d.commit["remote"], d.diff.commit.messageIndex, Opposite(c))
              /\ ReceiveIndexes(e, m)[c] = d.diff.commit.messageIndex[Opposite(c)]
              /\ e.commit["local"].messageIndex[c] <= ReceiveIndexes(e, m)[c]
<1> DEFINE j == e.commit["local"]
           k == d.commit["remote"]
           n == d.diff.commit
           upto == ReceiveIndexes(e, m)
<1>1. /\ upto["local"] = n.messageIndex["remote"] /\ upto["remote"] = n.messageIndex["local"]
      /\ upto["local"] = e.commit["remote"].messageIndex["local"]
      /\ upto["remote"] = m["remote"].logIndex
  BY DEF Receiving, ReceiveIndexes
<1>2. /\ HasUnacked(d) /\ Counterpart(d, e) = k /\ RemoteTip(d) = n
      /\ Agree(d, l, e, m) /\ Agree(e, m, d, l)
  BY NearParts DEF Receiving, Agree, SigDue
<1>3. j.messageIndex["local"] = k.messageIndex["remote"]
      /\ j.messageIndex["remote"] = k.messageIndex["local"]
  BY <1>2, Reached
<1>4. /\ Ordered(d) /\ Ordered(e) /\ Bounded(d, l) /\ Bounded(e, m)
      /\ d \in DiskType /\ e \in DiskType /\ l \in LogsType /\ m \in LogsType
  BY DEF Fits, LogInv
<1>5. \A c \in Chain : /\ l[c].logIndex \in Nat /\ m[c].logIndex \in Nat
  BY <1>4, EntriesOf
<1>6. /\ d.commit["local"].messageIndex["local"] <= k.messageIndex["local"]
      /\ n.messageIndex["local"] <= l["local"].logIndex
      /\ n.messageIndex["remote"] <= l["remote"].logIndex
      /\ k.messageIndex["local"] <= n.messageIndex["local"]
      /\ k.messageIndex["remote"] <= n.messageIndex["remote"]
      /\ \A c \in Chain : k.messageIndex[c] \in Nat /\ n.messageIndex[c] \in Nat
  <2>1. /\ \A c \in Chain : k.messageIndex[c] \in Nat /\ n.messageIndex[c] \in Nat
        /\ d.commit["local"].messageIndex["local"] <= k.messageIndex["local"]
        /\ k.messageIndex["local"] <= n.messageIndex["local"]
        /\ k.messageIndex["remote"] <= n.messageIndex["remote"]
    BY <1>2, <1>4, OrderedParts DEF Chain
  <2>2. /\ n.messageIndex["local"] <= l["local"].logIndex
        /\ n.messageIndex["remote"] <= l["remote"].logIndex
    <3>1. /\ n.messageIndex["remote"] <= d.commit["local"].messageIndex["remote"]
          /\ d.commit["local"].messageIndex["remote"] \in Nat
      BY <1>2, <1>4, OrderedParts DEF Chain
    <3>2. /\ n.messageIndex["local"] <= l["local"].logIndex
          /\ d.commit["local"].messageIndex["remote"] <= l["remote"].logIndex
      BY <1>2, <1>4 DEF Bounded, Chain
    <3> QED
      BY <1>5, <2>1, <3>1, <3>2 DEF Chain
  <2> QED
    BY <2>1, <2>2
<1>7. /\ e.commit["remote"].messageIndex["remote"] <= j.messageIndex["remote"]
      /\ upto["local"] <= m["local"].logIndex /\ upto["remote"] <= m["remote"].logIndex
      /\ j.messageIndex["local"] <= upto["local"]
      /\ j.messageIndex["remote"] <= upto["remote"]
      /\ \A c \in Chain : j.messageIndex[c] \in Nat /\ upto[c] \in Nat
  <2>1. /\ \A c \in Chain : j.messageIndex[c] \in Nat /\ e.commit["remote"].messageIndex[c] \in Nat
        /\ j.messageIndex["local"] <= e.commit["remote"].messageIndex["local"]
        /\ e.commit["remote"].messageIndex["remote"] <= j.messageIndex["remote"]
        /\ e.commit["remote"].messageIndex["local"] <= RemoteTip(e).messageIndex["local"]
    BY <1>4, OrderedParts DEF Chain
  <2>2. /\ RemoteTip(e).messageIndex["local"] <= m["local"].logIndex
        /\ j.messageIndex["remote"] <= m["remote"].logIndex
    BY <1>4 DEF Bounded, Chain
  <2>3. RemoteTip(e).messageIndex["local"] \in Nat
    BY <1>4, OrderedParts DEF Chain
  <2> QED
    BY <1>1, <1>5, <2>1, <2>2, <2>3 DEF Chain
<1>8. /\ \A c \in Chain : \A u \in UpdatesOf(l, c) : u.logIndex \in Nat
      /\ \A c \in Chain : \A u \in UpdatesOf(m, c) : u.logIndex \in Nat
  BY <1>4, UpdateParts
<1>9. /\ \A u \in UpdatesOf(l, "local"), v \in UpdatesOf(m, "remote") :
            u.logIndex = v.logIndex => u = v
      /\ \A u \in UpdatesOf(m, "local"), v \in UpdatesOf(l, "remote") :
            u.logIndex = v.logIndex => u = v
  BY <1>2 DEF Agree, LogsAgree
<1>10. "local" \in Chain /\ "remote" \in Chain
  BY DEF Chain
<1> HIDE DEF j, k, n, upto
<1>11. Window(m, j, upto, "remote") = Window(l, k, n.messageIndex, "local")
  <2> DEFINE a == k.messageIndex["local"]
             b == n.messageIndex["local"]
             U == UpdatesOf(l, "local")
             V == UpdatesOf(m, "remote")
  <2>1. a \in Nat /\ b \in Nat
    BY <1>6, <1>10
  <2>2. \A i \in Nat : (a <= i /\ i < b) => \E u \in U : u.logIndex = i
    BY <1>6, <1>10, <2>1, Covers
  <2>3. \A i \in Nat : (a <= i /\ i < b) => \E v \in V : v.logIndex = i
    BY <1>1, <1>3, <1>7, <1>10, <2>1, Covers
  <2>4. {u \in U : a <= u.logIndex /\ u.logIndex < b}
            = {v \in V : a <= v.logIndex /\ v.logIndex < b}
    <3> HIDE DEF a, b, U, V
    <3>1. /\ \A u \in U : u.logIndex \in Nat
          /\ \A v \in V : v.logIndex \in Nat
          /\ \A u \in U, v \in V : u.logIndex = v.logIndex => u = v
      BY <1>8, <1>9, <1>10 DEF U, V
    <3> QED
      BY ONLY <2>1, <2>2, <2>3, <3>1, SameWindow
  <2> QED
    BY <1>1, <1>3, <2>4 DEF Window
<1>12. Window(m, j, upto, "local") = Window(l, k, n.messageIndex, "remote")
  <2> DEFINE a == k.messageIndex["remote"]
             b == n.messageIndex["remote"]
             U == UpdatesOf(m, "local")
             V == UpdatesOf(l, "remote")
  <2>1. a \in Nat /\ b \in Nat
    BY <1>6, <1>10
  <2>2. \A i \in Nat : (a <= i /\ i < b) => \E u \in U : u.logIndex = i
    <3>1. e.commit["local"].messageIndex["local"] <= a
      BY <1>3, <2>1 DEF j
    <3> QED
      BY <1>1, <1>7, <1>10, <2>1, <3>1, Covers
  <2>3. \A i \in Nat : (a <= i /\ i < b) => \E v \in V : v.logIndex = i
    <3>1. d.commit["remote"].messageIndex["remote"] <= a
      BY <2>1 DEF k
    <3> QED
      BY <1>6, <1>10, <2>1, <3>1, Covers
  <2>4. {u \in U : a <= u.logIndex /\ u.logIndex < b}
            = {v \in V : a <= v.logIndex /\ v.logIndex < b}
    <3> HIDE DEF a, b, U, V
    <3>1. /\ \A u \in U : u.logIndex \in Nat
          /\ \A v \in V : v.logIndex \in Nat
          /\ \A u \in U, v \in V : u.logIndex = v.logIndex => u = v
      BY <1>8, <1>9, <1>10 DEF U, V
    <3> QED
      BY ONLY <2>1, <2>2, <2>3, <3>1, SameWindow
  <2> QED
    BY <1>1, <1>3, <2>4 DEF Window
<1> QED
  BY <1>1, <1>7, <1>11, <1>12 DEF Opposite, Chain, j, k, n, upto

\* What an entry in a window is.
LEMMA WindowEntry ==
    ASSUME NEW l \in LogsType, NEW k, NEW upto, NEW c \in Chain
    PROVE  /\ \A x \in l[c].entries :
                 k.messageIndex[c] <= x.logIndex /\ x.logIndex < upto[c] =>
                     LogUpdate(x) \in Window(l, k, upto, c)
           /\ \A u \in Window(l, k, upto, c) : \E x \in l[c].entries :
                 u = LogUpdate(x) /\ x.type = u.type /\ x.id = u.id
                 /\ x.logIndex = u.logIndex /\ (IsRemoval(x) <=> IsRemoval(u))
BY UpdateParts DEF Window

\* The HTLC of every removal is on our commitment.
LEMMA ParentsReceived ==
    ASSUME NEW d, NEW l, NEW e, NEW m, Fits(d, l), Fits(e, m), Receiving(d, l, e, m)
    PROVE  ParentsFetched(m, fetchHTLCView(m, ReceiveIndexes(e, m)), "local")
<1> DEFINE j == e.commit["local"]
           k == d.commit["remote"]
           n == d.diff.commit
           upto == ReceiveIndexes(e, m)
           view == fetchHTLCView(m, upto)
<1>1. /\ d \in DiskType /\ e \in DiskType /\ l \in LogsType /\ m \in LogsType
      /\ Parents(d, l) /\ Parents(e, m) /\ Counters(d, l) /\ Counters(e, m) /\ Stamped(e, m)
      /\ Agree(d, l, e, m) /\ SigDue(d, e)
  BY DEF Fits, LogInv, Receiving
<1>2. Counterpart(d, e) = k
  BY <1>1 DEF Counterpart
<1>3. j.htlcIndex["local"] = k.htlcIndex["remote"]
  BY <1>1, <1>2, Reached
<1>4. "local" \in Chain /\ "remote" \in Chain /\ Opposite("local") = "remote"
      /\ Opposite("remote") = "local"
  BY DEF Chain, Opposite
<1>5. \A c \in Chain : view[c] = {x \in m[c].entries : x.logIndex < upto[c]}
  BY DEF fetchHTLCView
<1>6. \A c \in Chain : \A a \in AddsOf(m[c]) : On(a, j, c) => a.added["local"] # 0
  BY <1>1, <1>4 DEF Stamped, StampedOn, StampOf, Tip, AddsOf
<1>7. j \in Commitments(e) /\ k \in Commitments(d)
  BY DEF Commitments
<1>8. Window(m, j, upto, "remote") = Window(l, k, n.messageIndex, "local")
  BY <1>4, WindowsAgree
<1>9. \A c \in Chain : \A x \in m[c].entries : x.logIndex \in Nat /\ j.messageIndex[c] \in Nat
  BY <1>1, EntriesOf, EntryParts, DiskParts, CommitParts, <1>4
<1>10. ASSUME NEW c \in Chain, NEW r \in view[c], IsRemoval(r)
       PROVE  \E a \in AddsOf(m[Opposite(c)]) : a.id = r.id /\ a.added["local"] # 0
  <2> HIDE DEF j, k, n, upto
  <2>1. r \in m[c].entries /\ r.logIndex < upto[c]
    BY <1>5, <1>10
  <2>2. PICK a \in AddsOf(m[Opposite(c)]) : ParentOf(e, m, c, r, a)
    BY <1>1, <1>10, <2>1 DEF Parents
  <2>3. a.id = r.id /\ (c = "local" \/ On(r, j, c) => On(a, j, Opposite(c)))
    BY <1>7, <2>2 DEF ParentOf
  <2>4. CASE c = "local" \/ On(r, j, c)
    BY <1>4, <1>6, <2>2, <2>3, <2>4 DEF Chain
  <2>5. CASE c = "remote" /\ ~ On(r, j, c)
    <3>1. j.messageIndex["remote"] <= r.logIndex
      BY <1>4, <1>9, <2>1, <2>5 DEF On
    <3>2. LogUpdate(r) \in Window(m, j, upto, "remote")
      BY <1>1, <1>4, <2>1, <2>5, <3>1, WindowEntry
    <3>3. LogUpdate(r) \in Window(l, k, n.messageIndex, "local")
      BY <1>8, <3>2
    <3>4. PICK x \in l["local"].entries : LogUpdate(r) = LogUpdate(x) /\ x.id = LogUpdate(r).id
                                           /\ (IsRemoval(x) <=> IsRemoval(LogUpdate(r)))
      BY <1>1, <1>4, <3>3, WindowEntry
    <3>5. IsRemoval(x) /\ x.id = r.id
      BY <1>10, <3>4 DEF LogUpdate, IsRemoval
    <3>6. PICK b \in AddsOf(l["remote"]) : ParentOf(d, l, "local", x, b)
      BY <1>1, <1>4, <3>5 DEF Parents
    <3>7. b.id = r.id /\ On(b, k, "remote")
      BY <1>4, <1>7, <3>5, <3>6 DEF ParentOf
    <3>8. b.id < k.htlcIndex["remote"]
      BY <1>1, <1>4, <1>7, <3>7 DEF Counters
    <3>9. a \in AddsOf(m["local"]) /\ a.id < j.htlcIndex["local"]
      BY <1>3, <1>4, <2>2, <2>3, <2>5, <3>7, <3>8
    <3>10. On(a, j, "local")
      BY <1>1, <1>4, <1>7, <3>9 DEF Counters
    <3> QED
      BY <1>4, <1>6, <2>3, <2>5, <3>9, <3>10
  <2> QED
    BY <2>4, <2>5 DEF Chain
<1> QED
  BY <1>10 DEF ParentsFetched

\* HTLCs are counted alike.
LEMMA CountersAgree ==
    ASSUME NEW d, NEW l, NEW e, NEW m, Fits(d, l), Fits(e, m), Agree(d, l, e, m),
           NEW k \in Commitments(d), k.messageIndex["local"] = m["remote"].logIndex
    PROVE  k.htlcIndex["local"] = m["remote"].htlcCounter
<1> DEFINE a == k.htlcIndex["local"]
           b == m["remote"].htlcCounter
           p == d.commit["local"].htlcIndex["local"]
           q == l["local"].htlcCounter
<1>1. /\ d \in DiskType /\ l \in LogsType /\ Counters(d, l) /\ Complete(d, l)
      /\ Ordered(d) /\ Bounded(d, l) /\ "local" \in Chain
      /\ LogsAgree(l, m)
  BY DEF Fits, LogInv, Agree, Chain
<1>2. p \in Nat /\ q \in Nat /\ b \in Nat /\ p <= b /\ b <= q
  BY <1>1, Reached DEF Chain
<1>3. a \in Nat /\ p <= a /\ a <= q
  <2>1. a \in Nat /\ a <= q
    BY <1>1, <1>2, Reach, CommitmentsAre
  <2>2. d.commit["remote"].htlcIndex["local"] \in Nat /\ RemoteTip(d).htlcIndex["local"] \in Nat
    BY <1>1, OrderedParts
  <2> QED
    BY <1>1, <1>2, <2>1, <2>2, CommitmentsAre DEF Ordered
<1>4. \A i \in Nat : (p <= i /\ i < q) => \E x \in AddsOf(l["local"]) : x.id = i
  BY <1>1 DEF Complete
<1>5. \A x \in AddsOf(l["local"]) : x.id < a <=> x.logIndex < m["remote"].logIndex
  BY <1>1 DEF Counters, On
<1>6. \A x \in AddsOf(l["local"]) : x.id < b <=> x.logIndex < m["remote"].logIndex
  BY <1>1, UpdateParts DEF LogsAgree, AddsOf
<1> HIDE DEF a, b, p, q
<1>7. ~ (a < b)
  <2> SUFFICES ASSUME a < b
               PROVE  FALSE
    OBVIOUS
  <2>1. PICK x \in AddsOf(l["local"]) : x.id = a
    BY <1>2, <1>3, <1>4
  <2> QED
    BY <1>3, <1>5, <1>6, <2>1
<1>8. ~ (b < a)
  <2> SUFFICES ASSUME b < a
               PROVE  FALSE
    OBVIOUS
  <2>1. PICK x \in AddsOf(l["local"]) : x.id = b
    BY <1>2, <1>3, <1>4
  <2> QED
    BY <1>2, <1>5, <1>6, <2>1
<1> QED
  BY <1>2, <1>3, <1>7, <1>8 DEF a, b

\* The commitment we make is the one that was signed.
LEMMA ReceivedMirrors ==
    ASSUME NEW d, NEW l, NEW e, NEW m, Fits(d, l), Fits(e, m), Receiving(d, l, e, m),
           NextOnDisk(d, l), OneSideFees(m)
    PROVE  Mirrors(d.diff.commit, ReceivedCommit(e, m))
<1> DEFINE j == e.commit["local"]
           k == d.commit["remote"]
           n == d.diff.commit
           o == ReceivedCommit(e, m)
           upto == ReceiveIndexes(e, m)
           V == [c \in Chain |-> Window(m, j, upto, c)]
           W == [c \in Chain |-> Window(l, k, n.messageIndex, c)]
<1>1. /\ HasUnacked(d) /\ Agree(d, l, e, m) /\ d \in DiskType /\ e \in DiskType
      /\ m \in LogsType /\ LogInv(e, m) /\ Counterpart(d, e) = k /\ RemoteTip(d) = n
      /\ n \in Commitments(d)
  BY NearParts DEF Receiving, SigDue, Fits, Agree, Commitments
<1>2. /\ upto \in Heights /\ o.messageIndex = upto
      /\ o.htlcIndex = [local |-> e.commit["remote"].htlcIndex["local"],
                        remote |-> m["remote"].htlcCounter]
      /\ o = fetchCommitmentView(m, j, "local", upto, o.htlcIndex)
  BY <1>1, ReceivedType
<1>3. /\ \A c \in Chain : V[c] = W[Opposite(c)]
      /\ \A c \in Chain : upto[c] = n.messageIndex[Opposite(c)]
      /\ \A c \in Chain : j.messageIndex[c] <= upto[c]
  BY WindowsAgree DEF Opposite, Chain
<1>4. Follows(k, W, n)
  BY <1>1 DEF NextOnDisk
<1>5. Follows(j, V, o)
  <2>1. Tip(e, "local") = j /\ "local" \in Chain
    BY DEF Tip, Chain
  <2>2. ParentsFetched(m, fetchHTLCView(m, upto), "local")
    BY ParentsReceived
  <2> HIDE DEF j, upto, o
  <2> QED
    BY <1>1, <1>2, <1>3, <2>1, <2>2, ViewFollows
<1>6. Mirrors(k, j)
  BY <1>1 DEF Agree, ChainsAgree
<1>7. n.htlcIndex["local"] = m["remote"].htlcCounter
  BY <1>1, CountersAgree DEF Receiving
<1>8. \A c \in Chain : o.htlcIndex[c] = n.htlcIndex[Opposite(c)]
  BY <1>2, <1>7 DEF Receiving, Opposite, Chain
<1> HIDE DEF j, k, n, o, upto, V, W
<1>9. Mirrors(n, o)
  BY <1>2, <1>3, <1>4, <1>5, <1>6, <1>8, MirrorsNext
<1> QED
  BY <1>9 DEF n, o

\* Fees are changed by the initiator.
FeesOf(q, l) ==
    \A c \in Chain : \A u \in UpdatesOf(l, c) :
        u.type = "FeeUpdate" => (c = "local" <=> q = Initiator)

\* HTLCs are offered in the order of their ids.
InTurn(l) ==
    \A u, v \in UpdatesOf(l, "local") :
        (u.type = "Add" /\ v.type = "Add" /\ u.id < v.id) => u.logIndex < v.logIndex

\* Logs n are logs l with some updates less, or with one more in log c.
Sheds(l, n) == \A c \in Chain : UpdatesOf(n, c) \subseteq UpdatesOf(l, c)
SameEnds(l, n) ==
    \A c \in Chain : n[c].logIndex = l[c].logIndex /\ n[c].htlcCounter = l[c].htlcCounter
Grows(l, n, c, u) ==
    /\ UpdatesOf(n, c) = UpdatesOf(l, c) \cup {u}
    /\ UpdatesOf(n, Opposite(c)) = UpdatesOf(l, Opposite(c))
    /\ u.logIndex = l[c].logIndex /\ n[c].logIndex = l[c].logIndex + 1
    /\ u.type = "Add" => u.id = l[c].htlcCounter /\ n[c].htlcCounter = l[c].htlcCounter + 1
    /\ u.type # "Add" => n[c].htlcCounter = l[c].htlcCounter
    /\ n[Opposite(c)].logIndex = l[Opposite(c)].logIndex
    /\ n[Opposite(c)].htlcCounter = l[Opposite(c)].htlcCounter

\* Logs with the same updates.
LEMMA AlikeUpdates ==
    ASSUME NEW l, NEW n, Alike(l, n)
    PROVE  (\A c \in Chain : UpdatesOf(n, c) = UpdatesOf(l, c)) /\ Sheds(l, n) /\ SameEnds(l, n)
<1>1. ASSUME NEW c \in Chain
      PROVE  UpdatesOf(n, c) = UpdatesOf(l, c)
  <2>1. /\ \A x \in l[c].entries : \E y \in n[c].entries : LogUpdate(y) = LogUpdate(x)
        /\ \A y \in n[c].entries : \E x \in l[c].entries : LogUpdate(y) = LogUpdate(x)
    BY LikeParts DEF Alike
  <2> QED
    BY <2>1, SameUpdates DEF UpdatesOf
<1> QED
  BY <1>1 DEF Sheds, SameEnds, Alike

\* A revocation only takes updates out of the logs.
LEMMA RevokedSheds ==
    ASSUME NEW d \in DiskType, NEW l \in LogsType
    PROVE  Sheds(l, RevokedLogs(d, l)) /\ SameEnds(l, RevokedLogs(d, l))
<1> DEFINE m == MarkedLogs(d, l)
           n == compactLogs(m, RevokedTail(d))
<1>1. /\ m \in LogsType /\ m["local"] = l["local"]
      /\ m["remote"].logIndex = l["remote"].logIndex
      /\ m["remote"].htlcCounter = l["remote"].htlcCounter
      /\ \A f \in m["remote"].entries : \E e \in l["remote"].entries :
            f.type = e.type /\ f.logIndex = e.logIndex /\ f.id = e.id
  BY MarkedLogsAre
<1>2. \A c \in Chain : \A f \in m[c].entries : \E e \in l[c].entries : LogUpdate(f) = LogUpdate(e)
  <2> HIDE DEF m
  <2> QED
    BY <1>1 DEF LogUpdate, Chain
<1> HIDE DEF m
<1>3. \A c \in Chain : /\ n[c].logIndex = m[c].logIndex /\ n[c].htlcCounter = m[c].htlcCounter
                       /\ n[c].entries \subseteq m[c].entries
  BY <1>1, CompactedType
<1>4. RevokedLogs(d, l) = n
  BY DEF RevokedLogs, m
<1> HIDE DEF n
<1>5. \A c \in Chain : UpdatesOf(n, c) \subseteq UpdatesOf(l, c)
  BY <1>2, <1>3 DEF UpdatesOf, LogUpdates
<1>6. \A c \in Chain : n[c].logIndex = l[c].logIndex /\ n[c].htlcCounter = l[c].htlcCounter
  BY <1>1, <1>3 DEF Chain
<1> QED
  BY <1>4, <1>5, <1>6 DEF Sheds, SameEnds

\* So does a restart, which sets the ends of the logs back.
LEMMA RestoredSheds ==
    ASSUME NEW d, NEW l, Fits(d, l)
    PROVE  LET n == restoreCommitState(d)
           IN  /\ Fits(d, n) /\ Sheds(l, n)
               /\ n["local"].logIndex = RemoteTip(d).messageIndex["local"]
               /\ n["local"].htlcCounter = RemoteTip(d).htlcIndex["local"]
               /\ n["remote"].logIndex = d.commit["local"].messageIndex["remote"]
               /\ n["remote"].htlcCounter = d.commit["local"].htlcIndex["remote"]
<1> DEFINE n == restoreCommitState(d)
<1>1. d \in DiskType /\ l \in LogsType /\ LogInv(d, l)
  BY DEF Fits
<1>2. RebuiltLog(d, l, "local", n["local"]) /\ RebuiltLog(d, l, "remote", n["remote"])
  BY <1>1, RestoredLocalIs, RestoredRemoteIs DEF restoreCommitState
<1>3. Fits(d, n)
  BY <1>1, RestoredKeeps DEF Fits
<1> HIDE DEF n
<1>4. ASSUME NEW c \in Chain
      PROVE  UpdatesOf(n, c) \subseteq UpdatesOf(l, c)
  <2>1. \A x \in n[c].entries : \E e \in l[c].entries : x = Rebuilt(d, c, e)
    BY <1>2 DEF RebuiltLog, Chain
  <2>2. \A x \in n[c].entries : \E e \in l[c].entries : LogUpdate(x) = LogUpdate(e)
    <3> SUFFICES ASSUME NEW x \in n[c].entries
                 PROVE  \E e \in l[c].entries : LogUpdate(x) = LogUpdate(e)
      OBVIOUS
    <3>1. PICK e \in l[c].entries : x = Rebuilt(d, c, e)
      BY <2>1
    <3>2. e \in EntryType
      BY <1>1, EntriesOf
    <3> QED
      BY <1>1, <3>1, <3>2, RebuiltParts
  <2> QED
    BY <2>2 DEF UpdatesOf, LogUpdates
<1>5. /\ n["local"].logIndex = RemoteTip(d).messageIndex["local"]
      /\ n["local"].htlcCounter = RemoteTip(d).htlcIndex["local"]
      /\ n["remote"].logIndex = d.commit["local"].messageIndex["remote"]
      /\ n["remote"].htlcCounter = d.commit["local"].htlcIndex["remote"]
  BY <1>2 DEF RebuiltLog, Last
<1> QED
  BY <1>3, <1>4, <1>5 DEF n, Sheds

\* Two logs of one side have the same updates where both have all.
LEMMA WindowKept ==
    ASSUME NEW d, NEW l, NEW f, NEW n, Fits(d, l), Fits(f, n), NEW c \in Chain,
           \A u \in UpdatesOf(l, c), v \in UpdatesOf(n, c) : u.logIndex = v.logIndex => u = v,
           NEW a \in Nat, NEW b \in Nat,
           d.commit[c].messageIndex[c] <= a, f.commit[c].messageIndex[c] <= a,
           b <= l[c].logIndex, b <= n[c].logIndex
    PROVE  {u \in UpdatesOf(l, c) : a <= u.logIndex /\ u.logIndex < b}
              = {u \in UpdatesOf(n, c) : a <= u.logIndex /\ u.logIndex < b}
<1>1. /\ \A u \in UpdatesOf(l, c) : u.logIndex \in Nat
      /\ \A u \in UpdatesOf(n, c) : u.logIndex \in Nat
  BY UpdateParts DEF Fits
<1>2. \A i \in Nat : (a <= i /\ i < b) => \E u \in UpdatesOf(l, c) : u.logIndex = i
  BY Covers
<1>3. \A i \in Nat : (a <= i /\ i < b) => \E u \in UpdatesOf(n, c) : u.logIndex = i
  BY Covers
<1> QED
  BY ONLY <1>1, <1>2, <1>3, a \in Nat, b \in Nat, SameWindow,
          \A u \in UpdatesOf(l, c), v \in UpdatesOf(n, c) : u.logIndex = v.logIndex => u = v

\* The next commitment of the peer is still what its indexes tell.
LEMMA DiskKept ==
    ASSUME NEW d, NEW l, NEW n, Fits(d, l), Fits(d, n), NextOnDisk(d, l),
           \A c \in Chain : \A u \in UpdatesOf(l, c), v \in UpdatesOf(n, c) :
               u.logIndex = v.logIndex => u = v
    PROVE  NextOnDisk(d, n)
<1> SUFFICES ASSUME HasUnacked(d)
             PROVE  NextOnDisk(d, n)
  BY DEF NextOnDisk
<1> DEFINE k == d.commit["remote"]
           upto == d.diff.commit.messageIndex
<1>1. d \in DiskType /\ Ordered(d) /\ Bounded(d, l) /\ Bounded(d, n) /\ RemoteTip(d) = d.diff.commit
      /\ l \in LogsType /\ n \in LogsType
  BY DEF Fits, LogInv, RemoteTip
<1>2. \A c \in Chain : /\ k.messageIndex[c] \in Nat /\ upto[c] \in Nat
                       /\ d.commit[c].messageIndex[c] <= k.messageIndex[c]
                       /\ upto[c] <= l[c].logIndex /\ upto[c] <= n[c].logIndex
  <2>1. RemoteTip(d) \in Commitments(d)
    BY DEF Commitments
  <2>2. \A c \in Chain : upto[c] <= l[c].logIndex /\ upto[c] <= n[c].logIndex
    BY <1>1, <2>1, Reach
  <2> QED
    BY <1>1, <2>2, OrderedParts DEF Chain
<1> HIDE DEF k, upto
<1>3. \A c \in Chain : Window(l, k, upto, c) = Window(n, k, upto, c)
  BY <1>2, WindowKept DEF Window
<1> QED
  BY <1>3 DEF NextOnDisk, k, upto

\* What one side knows of its own updates, when they get less or one more.
LEMMA ShedsOwn ==
    ASSUME NEW q, NEW l, NEW n, Sheds(l, n), FeesOf(q, l), InTurn(l)
    PROVE  FeesOf(q, n) /\ InTurn(n)
BY DEF Sheds, FeesOf, InTurn, Chain

\* The log that got one update, too.
LEMMA GrowsOwn ==
    ASSUME NEW d, NEW q, NEW l, NEW n, Fits(d, l), FeesOf(q, l), InTurn(l),
           NEW c \in Chain, NEW u, Grows(l, n, c, u), u.id \in Nat,
           u.type = "FeeUpdate" => (c = "local" <=> q = Initiator)
    PROVE  FeesOf(q, n) /\ InTurn(n)
<1>1. FeesOf(q, n)
  BY DEF FeesOf, Grows, Opposite, Chain
<1>2. /\ d \in DiskType /\ l \in LogsType /\ LogInv(d, l) /\ "local" \in Chain
  BY DEF Fits, Chain
<1>3. \A x \in UpdatesOf(l, "local") :
         /\ x.logIndex \in Nat /\ x.id \in Nat /\ x.logIndex < l["local"].logIndex
         /\ x.type = "Add" => x.id < l["local"].htlcCounter
  BY <1>2, UpdateParts, UpdateAt DEF LogInv, Bounded
<1>4. l["local"].logIndex \in Nat /\ l["local"].htlcCounter \in Nat
  BY <1>2, EntriesOf
<1>5. CASE c = "local"
  <2>1. /\ UpdatesOf(n, "local") = UpdatesOf(l, "local") \cup {u}
        /\ u.logIndex = l["local"].logIndex
        /\ u.type = "Add" => u.id = l["local"].htlcCounter
    BY <1>5 DEF Grows
  <2>2. ASSUME NEW x \in UpdatesOf(n, "local"), NEW v \in UpdatesOf(n, "local"),
               x.type = "Add", v.type = "Add", x.id < v.id
        PROVE  x.logIndex < v.logIndex
    <3>1. CASE x \in UpdatesOf(l, "local") /\ v \in UpdatesOf(l, "local")
      BY <2>2, <3>1 DEF InTurn
    <3>2. CASE x \in UpdatesOf(l, "local") /\ v = u
      BY <1>3, <2>1, <3>2
    <3>3. CASE x = u
      BY <1>3, <1>4, <2>1, <2>2, <3>3
    <3> QED
      BY <2>1, <3>1, <3>2, <3>3
  <2> QED
    BY <1>1, <2>2 DEF InTurn
<1>6. CASE c = "remote"
  BY <1>1, <1>6 DEF InTurn, Grows, Opposite
<1> QED
  BY <1>5, <1>6 DEF Chain

\* Only the initiator's log has fee updates.
LEMMA FeesOneSide ==
    ASSUME NEW q, NEW l, FeesOf(q, l)
    PROVE  OneSideFees(l)
<1>1. \A c \in Chain : \A x \in l[c].entries :
         LogUpdate(x) \in UpdatesOf(l, c) /\ LogUpdate(x).type = x.type
  BY DEF UpdatesOf, LogUpdates, LogUpdate
<1>2. CASE q = Initiator
  BY <1>1, <1>2 DEF OneSideFees, FeesOf, Chain
<1>3. CASE q # Initiator
  BY <1>1, <1>3 DEF OneSideFees, FeesOf, Chain
<1> QED
  BY <1>2, <1>3

\* Both logs, when updates leave them.
LEMMA ShedsAgree ==
    ASSUME NEW l, NEW m, NEW n, NEW o, LogsAgree(l, m),
           Sheds(l, n), SameEnds(l, n), Sheds(m, o), SameEnds(m, o)
    PROVE  LogsAgree(n, o)
<1>1. /\ UpdatesOf(n, "local") \subseteq UpdatesOf(l, "local")
      /\ UpdatesOf(o, "remote") \subseteq UpdatesOf(m, "remote")
      /\ n["local"].logIndex = l["local"].logIndex
      /\ n["local"].htlcCounter = l["local"].htlcCounter
      /\ o["remote"].logIndex = m["remote"].logIndex
      /\ o["remote"].htlcCounter = m["remote"].htlcCounter
  BY DEF Sheds, SameEnds, Chain
<1> QED
  BY <1>1 DEF LogsAgree

\* When the sender adds an update.
LEMMA SentAgree ==
    ASSUME NEW d, NEW l, NEW e, NEW m, Fits(d, l), Fits(e, m), LogsAgree(l, m),
           NEW n, NEW u, Grows(l, n, "local", u)
    PROVE  LogsAgree(n, m)
<1>1. /\ e \in DiskType /\ l \in LogsType /\ m \in LogsType /\ LogInv(d, l) /\ LogInv(e, m)
      /\ "local" \in Chain /\ "remote" \in Chain
  BY DEF Fits, Chain
<1>2. /\ l["local"].logIndex \in Nat /\ l["local"].htlcCounter \in Nat
      /\ m["remote"].logIndex \in Nat /\ m["remote"].htlcCounter \in Nat
  BY <1>1, EntriesOf
<1>3. \A v \in UpdatesOf(m, "remote") : v.logIndex \in Nat /\ v.logIndex < m["remote"].logIndex
  BY <1>1, UpdateParts, UpdateAt
<1>4. /\ UpdatesOf(n, "local") = UpdatesOf(l, "local") \cup {u}
      /\ u.logIndex = l["local"].logIndex /\ n["local"].logIndex = l["local"].logIndex + 1
      /\ u.type = "Add" => u.id = l["local"].htlcCounter
      /\ n["local"].htlcCounter \in {l["local"].htlcCounter, l["local"].htlcCounter + 1}
  BY DEF Grows
<1> QED
  BY <1>2, <1>3, <1>4 DEF LogsAgree

\* When the receiver adds the next one.
LEMMA TakenAgree ==
    ASSUME NEW d, NEW l, NEW e, NEW m, Fits(d, l), Fits(e, m), LogsAgree(l, m),
           NEW u \in UpdatesOf(l, "local"), u.logIndex = m["remote"].logIndex,
           NEW n, Grows(m, n, "remote", u)
    PROVE  LogsAgree(l, n)
<1>1. /\ l \in LogsType /\ m \in LogsType /\ LogInv(d, l)
      /\ "local" \in Chain /\ "remote" \in Chain
  BY DEF Fits, Chain
<1>2. /\ l["local"].logIndex \in Nat /\ l["local"].htlcCounter \in Nat
      /\ m["remote"].logIndex \in Nat /\ m["remote"].htlcCounter \in Nat
  BY <1>1, EntriesOf
<1>3. /\ \A x, v \in UpdatesOf(l, "local") : x.logIndex = v.logIndex => x = v
      /\ \A v \in UpdatesOf(l, "local") : v.logIndex \in Nat /\ v.id \in Nat
                /\ v.logIndex < l["local"].logIndex
                /\ (v.type = "Add" => v.id < l["local"].htlcCounter)
      /\ \A x, v \in UpdatesOf(l, "local") : (x.type = "Add" /\ v.type = "Add" /\ x.id = v.id)
                => x = v
  BY <1>1, UpdateParts, UpdateAt DEF LogInv, Bounded, Distinct
<1>4. /\ UpdatesOf(n, "remote") = UpdatesOf(m, "remote") \cup {u}
      /\ n["remote"].logIndex = m["remote"].logIndex + 1
      /\ u.type = "Add" => u.id = m["remote"].htlcCounter
                           /\ n["remote"].htlcCounter = m["remote"].htlcCounter + 1
      /\ u.type # "Add" => n["remote"].htlcCounter = m["remote"].htlcCounter
  BY DEF Grows
<1>5. n["remote"].logIndex <= l["local"].logIndex /\ n["remote"].htlcCounter <= l["local"].htlcCounter
  BY <1>2, <1>3, <1>4 DEF LogsAgree
<1>6. \A x \in UpdatesOf(l, "local"), v \in UpdatesOf(n, "remote") : x.logIndex = v.logIndex => x = v
  BY <1>3, <1>4 DEF LogsAgree
<1>7. \A x \in UpdatesOf(l, "local") : x.type = "Add" =>
         (x.id < n["remote"].htlcCounter <=> x.logIndex < n["remote"].logIndex)
  BY <1>2, <1>3, <1>4 DEF LogsAgree
<1> QED
  BY <1>5, <1>6, <1>7 DEF LogsAgree

\* When both sides restart.
LEMMA RestoredAgree ==
    ASSUME NEW d, NEW l, NEW e, NEW m, Fits(d, l), Fits(e, m), Agree(d, l, e, m)
    PROVE  LogsAgree(restoreCommitState(d), restoreCommitState(e))
<1> DEFINE n == restoreCommitState(d)
           o == restoreCommitState(e)
           k == Counterpart(d, e)
<1>1. /\ Sheds(l, n) /\ n["local"].logIndex = RemoteTip(d).messageIndex["local"]
      /\ n["local"].htlcCounter = RemoteTip(d).htlcIndex["local"]
  BY RestoredSheds
<1>2. /\ Sheds(m, o) /\ o["remote"].logIndex = e.commit["local"].messageIndex["remote"]
      /\ o["remote"].htlcCounter = e.commit["local"].htlcIndex["remote"]
  BY RestoredSheds
<1> HIDE DEF n, o, k
<1>3. /\ e.commit["local"].messageIndex["remote"] = k.messageIndex["local"]
      /\ e.commit["local"].htlcIndex["remote"] = k.htlcIndex["local"]
      /\ k \in Commitments(d) /\ (k = d.commit["remote"] \/ k = RemoteTip(d))
  BY Reached, NearParts DEF Agree, k, Counterpart
<1>4. d \in DiskType /\ Ordered(d) /\ Counters(d, l) /\ l \in LogsType /\ "local" \in Chain
      /\ "remote" \in Chain
  BY DEF Fits, LogInv, Chain
<1>5. \A u \in UpdatesOf(l, "local") : u.type = "Add" =>
         (u.id < k.htlcIndex["local"] <=> u.logIndex < k.messageIndex["local"])
  BY <1>3, <1>4, UpdateParts DEF Counters, On, AddsOf
<1>6. /\ k.messageIndex["local"] <= RemoteTip(d).messageIndex["local"]
      /\ k.htlcIndex["local"] <= RemoteTip(d).htlcIndex["local"]
  BY <1>3, <1>4, OrderedParts
<1>7. \A u \in UpdatesOf(n, "local"), v \in UpdatesOf(o, "remote") : u.logIndex = v.logIndex => u = v
  BY <1>1, <1>2, <1>4 DEF Sheds, Agree, LogsAgree
<1>8. UpdatesOf(n, "local") \subseteq UpdatesOf(l, "local")
  BY <1>1, <1>4 DEF Sheds
<1>9. LogsAgree(n, o)
  BY <1>1, <1>2, <1>3, <1>5, <1>6, <1>7, <1>8 DEF LogsAgree
<1> QED
  BY <1>9 DEF n, o

\* What the handlers add to the logs.
LEMMA GrowsIs ==
    ASSUME NEW l \in LogsType, NEW c \in Chain, NEW type \in UpdateKind, NEW id \in Nat,
           NEW n, \/ /\ type = "Add" /\ id = l[c].htlcCounter /\ n[c] = appendHtlc(l[c])
                  \/ /\ type # "Add" /\ n[c] = appendUpdate(l[c], type, id),
           \/ n[Opposite(c)] = l[Opposite(c)]
           \/ \E x \in Nat : n[Opposite(c)] = markHtlcModified(l[Opposite(c)], x)
    PROVE  Grows(l, n, c, [type |-> type, logIndex |-> l[c].logIndex, id |-> id])
<1> DEFINE u == [type |-> type, logIndex |-> l[c].logIndex, id |-> id]
           x == Entry(type, l[c].logIndex, id)
<1>1. l[c] \in LogType /\ IsFiniteSet(l[c].entries) /\ l[Opposite(c)] \in LogType
  BY EntriesOf DEF Opposite, Chain
<1>2. LogUpdate(x) = u
  BY DEF LogUpdate, Entry
<1>3. /\ n[c].entries = l[c].entries \cup {x} /\ n[c].logIndex = l[c].logIndex + 1
      /\ type = "Add" => n[c].htlcCounter = l[c].htlcCounter + 1
      /\ type # "Add" => n[c].htlcCounter = l[c].htlcCounter
  <2>1. CASE type = "Add"
    <3>1. id = l[c].htlcCounter /\ n[c] = appendHtlc(l[c])
      BY <2>1
    <3>2. x = Entry("Add", l[c].logIndex, l[c].htlcCounter)
      BY <2>1, <3>1
    <3> HIDE DEF x
    <3> QED
      BY <1>1, <2>1, <3>1, <3>2, AppendedHtlcType
  <2>2. CASE type # "Add"
    <3>1. n[c] = appendUpdate(l[c], type, id)
      BY <2>2
    <3> HIDE DEF x
    <3>2. appendUpdate(l[c], type, id) =
             [logIndex |-> l[c].logIndex + 1, htlcCounter |-> l[c].htlcCounter,
              entries |-> l[c].entries \cup {x}, modified |-> l[c].modified]
      BY <1>1, AppendedType DEF x
    <3> QED
      BY <2>2, <3>1, <3>2
  <2> QED
    BY <2>1, <2>2
<1>4. /\ n[Opposite(c)].entries = l[Opposite(c)].entries
      /\ n[Opposite(c)].logIndex = l[Opposite(c)].logIndex
      /\ n[Opposite(c)].htlcCounter = l[Opposite(c)].htlcCounter
  BY <1>1, MarkedType
<1> HIDE DEF x
<1>5. UpdatesOf(n, c) = UpdatesOf(l, c) \cup {u}
  BY <1>2, <1>3 DEF UpdatesOf, LogUpdates
<1>6. UpdatesOf(n, Opposite(c)) = UpdatesOf(l, Opposite(c))
  BY <1>4 DEF UpdatesOf, LogUpdates
<1>7. u.type = type /\ u.logIndex = l[c].logIndex /\ u.id = id
  OBVIOUS
<1> HIDE DEF u
<1>8. Grows(l, n, c, u)
  BY <1>3, <1>4, <1>5, <1>6, <1>7 DEF Grows
<1> QED
  BY <1>8 DEF u

-----------------------------------------------------------------------------
(* Messages under way, in order.                                           *)

\* The updates among the messages bring a log from index a to b: g[i] is its
\* index before message i.
Track(w, a, b, U, g) ==
    /\ g \in [Nat -> Nat] /\ g[1] = a /\ g[Len(w) + 1] = b
    /\ \A i, j \in 1 .. (Len(w) + 1) : i <= j => g[i] <= g[j]
    /\ \A i \in 1 .. Len(w) :
          IF w[i].kind = "update"
            THEN /\ g[i + 1] = g[i] + 1
                 /\ \E u \in U : u.logIndex = g[i] /\ w[i] = Update(u.type, u.id)
          ELSE g[i + 1] = g[i]

\* There is at most one signature and at most one revocation, after the
\* signature if rev holds and before it otherwise.
Paired(w, rev) ==
    \A i, j \in 1 .. Len(w) :
        /\ (w[i].kind = "sig" /\ w[j].kind = "sig") => i = j
        /\ (w[i].kind = "revoke" /\ w[j].kind = "revoke") => i = j
        /\ (w[i].kind = "sig" /\ w[j].kind = "revoke") => (i < j <=> rev)

\* The signature is one of sigs and comes when the log is at index n, the
\* revocation is one of revs.
Signals(w, g, sigs, n, revs, rev) ==
    /\ \A i \in 1 .. Len(w) : /\ w[i].kind = "sig" => w[i] \in sigs /\ g[i] = n
                              /\ w[i].kind = "revoke" => w[i] \in revs
    /\ Paired(w, rev)

\* What is under way: updates that bring the log from index a to b, and the
\* signature and the revocation.
Carries(w, a, b, U, sigs, n, revs, rev) ==
    \E g : Track(w, a, b, U, g) /\ Signals(w, g, sigs, n, revs, rev)

\* The places of a queue.
LEMMA SeqAt ==
    ASSUME NEW w, IsSeq(w)
    PROVE  /\ Len(w) \in Nat /\ \A i \in 1 .. Len(w) : w[i] \in Msgs(w)
           /\ \A x \in Msgs(w) : \E i \in 1 .. Len(w) : w[i] = x
           /\ w # << >> => /\ Len(w) >= 1 /\ Head(w) = w[1] /\ Len(Tail(w)) = Len(w) - 1
                           /\ \A i \in 1 .. Len(Tail(w)) : Tail(w)[i] = w[i + 1]
<1> DEFINE T == Msgs(w)
<1>1. w \in Seq(T)
  BY DEF IsSeq
<1>2. \A i \in 1 .. Len(w) : w[i] \in T
  BY DEF Msgs
<1>3. \A x \in T : \E i \in 1 .. Len(w) : w[i] = x
  BY DEF Msgs
<1> HIDE DEF T
<1>4. /\ Len(w) \in Nat
      /\ w # << >> => /\ Len(w) >= 1 /\ Head(w) = w[1] /\ Len(Tail(w)) = Len(w) - 1
                      /\ \A i \in 1 .. Len(Tail(w)) : Tail(w)[i] = w[i + 1]
  BY <1>1
<1> QED
  BY <1>2, <1>3, <1>4 DEF T

\* The places of two queues, one after the other.
LEMMA ConcatAt ==
    ASSUME NEW v, NEW w, IsSeq(v), IsSeq(w)
    PROVE  /\ Len(v \o w) = Len(v) + Len(w) /\ Len(v) \in Nat /\ Len(w) \in Nat
           /\ \A i \in 1 .. Len(v) + Len(w) :
                 (v \o w)[i] = IF i <= Len(v) THEN v[i] ELSE w[i - Len(v)]
<1> DEFINE T == Msgs(v) \cup Msgs(w)
<1>1. v \in Seq(T) /\ w \in Seq(T)
  BY DEF IsSeq
<1> HIDE DEF T
<1> QED
  BY <1>1, ConcatProperties, LenProperties

\* One message is taken.
LEMMA TrackTail ==
    ASSUME NEW w, IsSeq(w), w # << >>, NEW a, NEW b, NEW U, NEW g, Track(w, a, b, U, g),
           NEW sigs, NEW n, NEW revs, NEW rev, Signals(w, g, sigs, n, revs, rev)
    PROVE  LET h == [i \in Nat |-> g[i + 1]]
           IN  Track(Tail(w), g[2], b, U, h) /\ Signals(Tail(w), h, sigs, n, revs, rev)
<1> DEFINE h == [i \in Nat |-> g[i + 1]]
           v == Tail(w)
<1>1. /\ Len(w) \in Nat /\ Len(w) >= 1 /\ Len(v) = Len(w) - 1
      /\ \A i \in 1 .. Len(v) : v[i] = w[i + 1]
  BY SeqAt
<1>2. g \in [Nat -> Nat] /\ g[Len(w) + 1] = b
  BY ONLY Track(w, a, b, U, g) DEF Track
<1>3. h \in [Nat -> Nat] /\ h[1] = g[2] /\ h[Len(v) + 1] = b
  <2>1. h \in [Nat -> Nat]
    BY <1>2
  <2>2. h[1] = g[2] /\ Len(v) + 1 \in Nat /\ (Len(v) + 1) + 1 = Len(w) + 1
    BY <1>1
  <2>3. h[Len(v) + 1] = g[(Len(v) + 1) + 1]
    BY <2>2
  <2> HIDE DEF h, v
  <2> QED
    BY <1>2, <2>1, <2>2, <2>3
<1>4. \A i \in Nat : h[i] = g[i + 1]
  OBVIOUS
<1>5. \A i \in 1 .. Len(v) : i + 1 \in 1 .. Len(w) /\ i \in Nat /\ i + 1 \in Nat
  BY <1>1
<1>6. \A i \in 1 .. (Len(v) + 1) : i + 1 \in 1 .. (Len(w) + 1) /\ i \in Nat
  BY <1>1
<1> HIDE DEF v, h
<1>7. ASSUME NEW i \in 1 .. (Len(v) + 1), NEW j \in 1 .. (Len(v) + 1), i <= j
      PROVE  h[i] <= h[j]
  <2>1. i + 1 \in 1 .. (Len(w) + 1) /\ j + 1 \in 1 .. (Len(w) + 1) /\ i + 1 <= j + 1
    BY <1>1, <1>6, <1>7
  <2>2. g[i + 1] <= g[j + 1]
    BY ONLY <2>1, Track(w, a, b, U, g) DEF Track
  <2>3. h[i] = g[i + 1] /\ h[j] = g[j + 1]
    BY <1>4, <1>6
  <2> QED
    BY <2>2, <2>3
<1>8. \A i \in 1 .. Len(v) :
          IF v[i].kind = "update"
            THEN /\ h[i + 1] = h[i] + 1
                 /\ \E u \in U : u.logIndex = h[i] /\ v[i] = Update(u.type, u.id)
          ELSE h[i + 1] = h[i]
  <2> SUFFICES ASSUME NEW i \in 1 .. Len(v)
               PROVE  IF v[i].kind = "update"
                        THEN /\ h[i + 1] = h[i] + 1
                             /\ \E u \in U : u.logIndex = h[i] /\ v[i] = Update(u.type, u.id)
                      ELSE h[i + 1] = h[i]
    OBVIOUS
  <2>1. v[i] = w[i + 1] /\ h[i] = g[i + 1] /\ h[i + 1] = g[(i + 1) + 1] /\ i + 1 \in 1 .. Len(w)
    BY <1>1, <1>4, <1>5
  <2> QED
    BY <2>1 DEF Track
<1>9. Signals(v, h, sigs, n, revs, rev)
  <2>1. \A i \in 1 .. Len(v) : v[i] = w[i + 1] /\ h[i] = g[i + 1] /\ i + 1 \in 1 .. Len(w)
    BY <1>1, <1>4, <1>5
  <2>2. \A i, j \in 1 .. Len(v) : (i + 1 = j + 1 <=> i = j) /\ (i + 1 < j + 1 <=> i < j)
    BY <1>1
  <2>3. \A i \in 1 .. Len(v) : /\ v[i].kind = "sig" => v[i] \in sigs /\ h[i] = n
                               /\ v[i].kind = "revoke" => v[i] \in revs
    BY <2>1 DEF Signals
  <2>4. ASSUME NEW i \in 1 .. Len(v), NEW j \in 1 .. Len(v)
        PROVE  /\ (v[i].kind = "sig" /\ v[j].kind = "sig") => i = j
               /\ (v[i].kind = "revoke" /\ v[j].kind = "revoke") => i = j
               /\ (v[i].kind = "sig" /\ v[j].kind = "revoke") => (i < j <=> rev)
    <3> DEFINE x == i + 1
               y == j + 1
    <3>1. /\ x \in 1 .. Len(w) /\ y \in 1 .. Len(w) /\ v[i] = w[x] /\ v[j] = w[y]
          /\ (x = y <=> i = j) /\ (x < y <=> i < j)
      BY <2>1, <2>2
    <3> HIDE DEF x, y
    <3>2. /\ (w[x].kind = "sig" /\ w[y].kind = "sig") => x = y
          /\ (w[x].kind = "revoke" /\ w[y].kind = "revoke") => x = y
          /\ (w[x].kind = "sig" /\ w[y].kind = "revoke") => (x < y <=> rev)
      BY ONLY <3>1, Signals(w, g, sigs, n, revs, rev) DEF Signals, Paired
    <3> QED
      BY <3>1, <3>2
  <2>5. Paired(v, rev)
    BY <2>4 DEF Paired
  <2> QED
    BY ONLY <2>3, <2>5 DEF Signals
<1> QED
  BY <1>3, <1>7, <1>8, <1>9 DEF Track, v, h

\* The index rises along the messages.
LEMMA TrackRises ==
    ASSUME NEW w, IsSeq(w), NEW a, NEW b, NEW U, NEW g, Track(w, a, b, U, g)
    PROVE  /\ a \in Nat /\ b \in Nat /\ a <= b
           /\ \A i \in 1 .. Len(w) : a <= g[i] /\ g[i + 1] <= b /\ g[i] \in Nat
<1>1. Len(w) \in Nat
  BY SeqAt
<1> DEFINE n == Len(w) + 1
<1>2. 1 \in 1 .. n /\ n \in 1 .. n /\ n \in Nat /\ 1 <= n
  BY <1>1
<1>3. \A i \in 1 .. Len(w) : /\ i \in 1 .. n /\ i + 1 \in 1 .. n /\ i \in Nat
                              /\ 1 <= i /\ i + 1 <= n
  BY <1>1
<1>4. /\ g \in [Nat -> Nat] /\ g[1] = a /\ g[n] = b
      /\ \A i, j \in 1 .. n : i <= j => g[i] <= g[j]
  BY DEF Track
<1> HIDE DEF n
<1>5. a \in Nat /\ b \in Nat
  BY <1>2, <1>4
<1>6. a <= b
  <2>1. g[1] <= g[n]
    BY <1>2, <1>4
  <2> QED
    BY <1>4, <2>1
<1>7. ASSUME NEW i \in 1 .. Len(w)
      PROVE  a <= g[i] /\ g[i + 1] <= b /\ g[i] \in Nat
  <2>1. i \in 1 .. n /\ i + 1 \in 1 .. n /\ i \in Nat /\ 1 <= i /\ i + 1 <= n
    BY <1>3
  <2>2. g[1] <= g[i]
    BY <1>2, <1>4, <2>1
  <2>3. g[i + 1] <= g[n]
    BY <1>2, <1>4, <2>1
  <2> QED
    BY <1>4, <2>1, <2>2, <2>3
<1> QED
  BY <1>5, <1>6, <1>7

\* What is left, and what the message was.
LEMMA Taken ==
    ASSUME NEW w, IsSeq(w), w # << >>, NEW a, NEW b, NEW U,
           NEW sigs, NEW n, NEW revs, NEW rev, Carries(w, a, b, U, sigs, n, revs, rev)
    PROVE  /\ a \in Nat /\ b \in Nat /\ a <= b
           /\ Head(w).kind = "update" =>
                /\ \E u \in U : u.logIndex = a /\ Head(w) = Update(u.type, u.id)
                /\ Carries(Tail(w), a + 1, b, U, sigs, n, revs, rev)
           /\ Head(w).kind # "update" => Carries(Tail(w), a, b, U, sigs, n, revs, rev)
           /\ Head(w).kind = "sig" =>
                /\ Head(w) \in sigs /\ a = n /\ Kinds(Tail(w), "sig") = {}
                /\ Kinds(w, "revoke") # {} => rev
           /\ Head(w).kind = "revoke" =>
                /\ Head(w) \in revs /\ Kinds(Tail(w), "revoke") = {}
                /\ Kinds(w, "sig") # {} => ~ rev
<1>1. PICK g : Track(w, a, b, U, g) /\ Signals(w, g, sigs, n, revs, rev)
  BY DEF Carries
<1>2. /\ Len(w) \in Nat /\ Len(w) >= 1 /\ Head(w) = w[1] /\ Len(Tail(w)) = Len(w) - 1
      /\ \A i \in 1 .. Len(Tail(w)) : Tail(w)[i] = w[i + 1]
      /\ \A x \in Msgs(w) : \E i \in 1 .. Len(w) : w[i] = x
      /\ 1 \in 1 .. Len(w) /\ 1 \in 1 .. (Len(w) + 1) /\ Len(w) + 1 \in 1 .. (Len(w) + 1)
  BY SeqAt
<1>3. g[1] = a
  BY <1>1 DEF Track
<1>4. a \in Nat /\ b \in Nat /\ a <= b
  BY <1>1, TrackRises
<1>5. /\ Carries(Tail(w), g[2], b, U, sigs, n, revs, rev)
  BY <1>1, TrackTail DEF Carries
<1>6. IF w[1].kind = "update"
        THEN g[2] = g[1] + 1 /\ \E u \in U : u.logIndex = g[1] /\ w[1] = Update(u.type, u.id)
      ELSE g[2] = g[1]
  <2>1. 1 + 1 = 2
    OBVIOUS
  <2> QED
    BY <1>1, <1>2, <2>1 DEF Track
<1>7. \A x \in Msgs(Tail(w)) : \E i \in 1 .. Len(w) : w[i] = x /\ i # 1
  <2> SUFFICES ASSUME NEW x \in Msgs(Tail(w))
               PROVE  \E i \in 1 .. Len(w) : w[i] = x /\ i # 1
    OBVIOUS
  <2>1. PICK i \in 1 .. Len(Tail(w)) : x = Tail(w)[i]
    BY DEF Msgs
  <2>2. i + 1 \in 1 .. Len(w) /\ i + 1 # 1 /\ w[i + 1] = x
    BY <1>2, <2>1
  <2> QED
    BY <2>2
<1>8. ASSUME w[1].kind = "sig"
      PROVE  /\ w[1] \in sigs /\ a = n /\ Kinds(Tail(w), "sig") = {}
             /\ Kinds(w, "revoke") # {} => rev
  <2>1. w[1] \in sigs /\ g[1] = n
    BY <1>1, <1>2, <1>8 DEF Signals, Paired
  <2>2. Kinds(Tail(w), "sig") = {}
    BY <1>1, <1>2, <1>7, <1>8 DEF Signals, Paired, Kinds
  <2>3. ASSUME NEW x \in Kinds(w, "revoke")
        PROVE  rev
    <3>1. PICK j \in 1 .. Len(w) : w[j] = x /\ x.kind = "revoke"
      BY <1>2 DEF Kinds
    <3>2. 1 < j
      BY <1>2, <1>8, <3>1
    <3> QED
      BY <1>1, <1>2, <1>8, <3>1, <3>2 DEF Signals, Paired
  <2> QED
    BY <1>3, <2>1, <2>2, <2>3
<1>9. ASSUME w[1].kind = "revoke"
      PROVE  /\ w[1] \in revs /\ Kinds(Tail(w), "revoke") = {}
             /\ Kinds(w, "sig") # {} => ~ rev
  <2>1. w[1] \in revs
    BY <1>1, <1>2, <1>9 DEF Signals, Paired
  <2>2. Kinds(Tail(w), "revoke") = {}
    BY <1>1, <1>2, <1>7, <1>9 DEF Signals, Paired, Kinds
  <2>3. ASSUME NEW x \in Kinds(w, "sig")
        PROVE  ~ rev
    <3>1. PICK i \in 1 .. Len(w) : w[i] = x /\ x.kind = "sig"
      BY <1>2 DEF Kinds
    <3>2. ~ (i < 1)
      BY <1>2, <3>1
    <3> QED
      BY <1>1, <1>2, <1>9, <3>1, <3>2 DEF Signals, Paired
  <2> QED
    BY <2>1, <2>2, <2>3
<1> QED
  BY <1>2, <1>3, <1>4, <1>5, <1>6, <1>8, <1>9

\* Without a signature nothing is said of signatures.
LEMMA Unsigned ==
    ASSUME NEW w, IsSeq(w), NEW a, NEW b, NEW U, NEW sigs, NEW n, NEW revs, NEW rev,
           Carries(w, a, b, U, sigs, n, revs, rev), Kinds(w, "sig") = {},
           NEW sigs2, NEW n2, NEW rev2
    PROVE  Carries(w, a, b, U, sigs2, n2, revs, rev2)
<1>1. PICK g : Track(w, a, b, U, g) /\ Signals(w, g, sigs, n, revs, rev)
  BY DEF Carries
<1>2. \A i \in 1 .. Len(w) : w[i].kind # "sig"
  BY SeqAt DEF Kinds
<1>3. Signals(w, g, sigs2, n2, revs, rev2)
  BY <1>1, <1>2 DEF Signals, Paired
<1> QED
  BY <1>1, <1>3 DEF Carries

\* Without a revocation nothing is said of revocations.
LEMMA Unrevoked ==
    ASSUME NEW w, IsSeq(w), NEW a, NEW b, NEW U, NEW sigs, NEW n, NEW revs, NEW rev,
           Carries(w, a, b, U, sigs, n, revs, rev), Kinds(w, "revoke") = {},
           NEW revs2, NEW rev2
    PROVE  Carries(w, a, b, U, sigs, n, revs2, rev2)
<1>1. PICK g : Track(w, a, b, U, g) /\ Signals(w, g, sigs, n, revs, rev)
  BY DEF Carries
<1>2. \A i \in 1 .. Len(w) : w[i].kind # "revoke"
  BY SeqAt DEF Kinds
<1>3. Signals(w, g, sigs, n, revs2, rev2)
  BY <1>1, <1>2 DEF Signals, Paired
<1> QED
  BY <1>1, <1>3 DEF Carries

\* Where there can be none, there is none.
LEMMA NoneUnderWay ==
    ASSUME NEW w, IsSeq(w), NEW a, NEW b, NEW U, NEW sigs, NEW n, NEW revs, NEW rev,
           Carries(w, a, b, U, sigs, n, revs, rev)
    PROVE  /\ sigs = {} => Kinds(w, "sig") = {}
           /\ revs = {} => Kinds(w, "revoke") = {}
<1>1. PICK g : Track(w, a, b, U, g) /\ Signals(w, g, sigs, n, revs, rev)
  BY DEF Carries
<1>2. \A x \in Msgs(w) : \E i \in 1 .. Len(w) : w[i] = x
  BY SeqAt
<1> QED
  BY <1>1, <1>2 DEF Signals, Paired, Kinds

\* Updates may leave the log of the sender once they were received.
LEMMA CarriesKept ==
    ASSUME NEW w, IsSeq(w), NEW a, NEW b, NEW U, NEW sigs, NEW n, NEW revs, NEW rev,
           Carries(w, a, b, U, sigs, n, revs, rev),
           NEW V, \A u \in U : (a <= u.logIndex /\ u.logIndex < b) => u \in V
    PROVE  Carries(w, a, b, V, sigs, n, revs, rev)
<1>1. PICK g : Track(w, a, b, U, g) /\ Signals(w, g, sigs, n, revs, rev)
  BY DEF Carries
<1>3. \A i \in 1 .. Len(w) : /\ a <= g[i] /\ g[i + 1] <= b /\ g[i] \in Nat /\ b \in Nat
  BY <1>1, TrackRises
<1>4. \A i \in 1 .. Len(w) : w[i].kind = "update" =>
          /\ g[i + 1] = g[i] + 1
          /\ \E u \in V : u.logIndex = g[i] /\ w[i] = Update(u.type, u.id)
  <2> SUFFICES ASSUME NEW i \in 1 .. Len(w), w[i].kind = "update"
               PROVE  /\ g[i + 1] = g[i] + 1
                      /\ \E u \in V : u.logIndex = g[i] /\ w[i] = Update(u.type, u.id)
    OBVIOUS
  <2>1. /\ g[i + 1] = g[i] + 1
        /\ \E u \in U : u.logIndex = g[i] /\ w[i] = Update(u.type, u.id)
    BY <1>1 DEF Track
  <2>2. a <= g[i] /\ g[i] < b
    BY <1>3, <2>1
  <2> QED
    BY <2>1, <2>2
<1>5. Track(w, a, b, V, g)
  BY <1>1, <1>4 DEF Track
<1> QED
  BY <1>1, <1>5 DEF Carries

\* A queue of other messages carries nothing.
LEMMA CarriesNothing ==
    ASSUME NEW w, IsSeq(w), NEW a \in Nat, NEW U, NEW sigs, NEW n, NEW revs, NEW rev,
           \A x \in Msgs(w) : x.kind \notin {"update", "sig", "revoke"}
    PROVE  Carries(w, a, a, U, sigs, n, revs, rev)
<1> DEFINE g == [i \in Nat |-> a]
<1>1. Len(w) \in Nat /\ \A i \in 1 .. Len(w) : w[i] \in Msgs(w)
  BY SeqAt
<1>2. /\ g \in [Nat -> Nat] /\ g[1] = a /\ g[Len(w) + 1] = a
      /\ \A i \in 1 .. (Len(w) + 1) : g[i] = a
      /\ \A i \in 1 .. Len(w) : g[i + 1] = a /\ g[i] = a
  BY <1>1
<1> HIDE DEF g
<1>5. \A i, j \in 1 .. (Len(w) + 1) : i <= j => g[i] <= g[j]
  BY <1>2
<1>6. \A i \in 1 .. Len(w) : g[i + 1] = g[i] /\ w[i].kind # "update"
  BY <1>1, <1>2
<1>3. Track(w, a, a, U, g)
  BY <1>2, <1>5, <1>6 DEF Track
<1>4. Signals(w, g, sigs, n, revs, rev)
  BY <1>1 DEF Signals, Paired
<1> QED
  BY <1>3, <1>4 DEF Carries

\* The index of the log along two queues.
Joined(g, h, n) == [i \in Nat |-> IF i <= n + 1 THEN g[i] ELSE h[i - n]]

\* The log is followed along both, one after the other.
LEMMA TrackJoined ==
    ASSUME NEW v, NEW w, IsSeq(v), IsSeq(w), NEW a, NEW b, NEW c, NEW U, NEW g, NEW h,
           Track(v, a, b, U, g), Track(w, b, c, U, h)
    PROVE  /\ Track(v \o w, a, c, U, Joined(g, h, Len(v)))
           /\ \A i \in 1 .. Len(v) : Joined(g, h, Len(v))[i] = g[i]
           /\ \A i \in 1 .. Len(w) : Joined(g, h, Len(v))[Len(v) + i] = h[i]
<1> DEFINE k == Joined(g, h, Len(v))
           x == v \o w
           n == Len(v)
           o == Len(w)
<1>1. /\ n \in Nat /\ o \in Nat /\ Len(x) = n + o
      /\ \A i \in 1 .. n + o : x[i] = IF i <= n THEN v[i] ELSE w[i - n]
  BY ConcatAt
<1>2. /\ g \in [Nat -> Nat] /\ g[1] = a /\ g[n + 1] = b
      /\ \A i, j \in 1 .. (n + 1) : i <= j => g[i] <= g[j]
      /\ h \in [Nat -> Nat] /\ h[1] = b /\ h[o + 1] = c
      /\ \A i, j \in 1 .. (o + 1) : i <= j => h[i] <= h[j]
  BY DEF Track
<1>3. \A i \in Nat : k[i] = IF i <= n + 1 THEN g[i] ELSE h[i - n]
  BY DEF Joined
<1>4. k \in [Nat -> Nat]
  <2>1. \A i \in Nat : ~ (i <= n + 1) => i - n \in Nat
    BY <1>1
  <2> QED
    BY <1>2, <2>1 DEF Joined
<1> HIDE DEF k, x, n, o
<1>5. \A i \in 1 .. (o + 1) : k[n + i] = h[i]
  <2> SUFFICES ASSUME NEW i \in 1 .. (o + 1)
               PROVE  k[n + i] = h[i]
    OBVIOUS
  <2>1. CASE i = 1
    <3>1. n + 1 \in Nat /\ n + 1 <= n + 1
      BY <1>1
    <3>2. k[n + 1] = g[n + 1]
      BY <1>3, <3>1
    <3> QED
      BY <1>2, <2>1, <3>2
  <2>2. CASE i # 1
    <3>1. n + i \in Nat /\ ~ (n + i <= n + 1) /\ (n + i) - n = i
      BY <1>1, <2>2
    <3> QED
      BY <1>3, <3>1
  <2> QED
    BY <2>1, <2>2
<1>6. \A i \in 1 .. (n + 1) : k[i] = g[i]
  BY <1>1, <1>3
<1>7. k[1] = a /\ k[Len(x) + 1] = c
  <2>1. 1 \in 1 .. (n + 1) /\ o + 1 \in 1 .. (o + 1) /\ Len(x) + 1 = n + (o + 1)
    BY <1>1
  <2>2. k[1] = g[1]
    BY <1>6, <2>1
  <2>3. k[n + (o + 1)] = h[o + 1]
    BY <1>5, <2>1
  <2> QED
    BY <1>2, <2>1, <2>2, <2>3
<1>8. ASSUME NEW i \in 1 .. (Len(x) + 1), NEW j \in 1 .. (Len(x) + 1), i <= j
      PROVE  k[i] <= k[j]
  <2>1. CASE j <= n + 1
    <3>1. i \in 1 .. (n + 1) /\ j \in 1 .. (n + 1)
      BY <1>1, <1>8, <2>1
    <3> QED
      BY <1>2, <1>6, <1>8, <3>1
  <2>2. CASE i > n + 1
    <3>1. i - n \in 1 .. (o + 1) /\ j - n \in 1 .. (o + 1) /\ i - n <= j - n
          /\ n + (i - n) = i /\ n + (j - n) = j
      BY <1>1, <1>8, <2>2
    <3> QED
      BY <1>2, <1>5, <3>1
  <2>3. CASE i <= n + 1 /\ j > n + 1
    <3>1. i \in 1 .. (n + 1) /\ n + 1 \in 1 .. (n + 1) /\ 1 \in 1 .. (o + 1)
          /\ j - n \in 1 .. (o + 1) /\ 1 <= j - n /\ n + (j - n) = j
          /\ i \in Nat /\ j \in Nat /\ n + 1 \in Nat /\ j - n \in Nat
      BY <1>1, <1>8, <2>3
    <3>2. k[i] <= b /\ b <= k[j]
      BY <1>2, <1>5, <1>6, <2>3, <3>1
    <3>3. k[i] \in Nat /\ k[j] \in Nat /\ b \in Nat
      BY <1>2, <1>4, <3>1
    <3> QED
      BY <3>2, <3>3
  <2> QED
    BY <1>1, <2>1, <2>2, <2>3
<1>9. ASSUME NEW i \in 1 .. Len(x)
      PROVE  IF x[i].kind = "update"
               THEN /\ k[i + 1] = k[i] + 1
                    /\ \E u \in U : u.logIndex = k[i] /\ x[i] = Update(u.type, u.id)
             ELSE k[i + 1] = k[i]
  <2>1. CASE i <= n
    <3>1. i \in 1 .. n /\ i \in 1 .. (n + 1) /\ i + 1 \in 1 .. (n + 1) /\ x[i] = v[i]
      BY <1>1, <2>1
    <3>2. k[i] = g[i] /\ k[i + 1] = g[i + 1]
      BY <1>6, <3>1
    <3> QED
      BY <3>1, <3>2 DEF Track, n
  <2>2. CASE ~ (i <= n)
    <3> DEFINE j == i - n
    <3>1. j \in 1 .. o /\ j \in 1 .. (o + 1) /\ j + 1 \in 1 .. (o + 1) /\ x[i] = w[j]
          /\ n + j = i /\ n + (j + 1) = i + 1
      BY <1>1, <2>2
    <3> HIDE DEF j
    <3>2. k[i] = h[j] /\ k[i + 1] = h[j + 1]
      BY <1>5, <3>1
    <3> QED
      BY <3>1, <3>2 DEF Track, o
  <2> QED
    BY <2>1, <2>2
<1>10. Track(x, a, c, U, k)
  BY <1>4, <1>7, <1>8, <1>9 DEF Track
<1>11. \A i \in 1 .. o : k[n + i] = h[i]
  BY <1>1, <1>5
<1>12. \A i \in 1 .. n : k[i] = g[i]
  BY <1>1, <1>6
<1> QED
  BY <1>10, <1>11, <1>12 DEF k, x, n, o

\* The queue gets a signature.
LEMMA SigSent ==
    ASSUME NEW w, IsSeq(w), NEW a, NEW b, NEW U, NEW sigs, NEW n, NEW revs, NEW rev,
           Carries(w, a, b, U, sigs, n, revs, rev), Kinds(w, "sig") = {},
           NEW x, x.kind = "sig"
    PROVE  Carries(w \o <<x>>, a, b, U, {x}, b, revs, FALSE)
<1>1. PICK g : Track(w, a, b, U, g) /\ Signals(w, g, sigs, n, revs, rev)
  BY DEF Carries
<1> DEFINE v == <<x>>
           h == [i \in Nat |-> b]
           k == Joined(g, h, Len(w))
           z == w \o v
<1>2. IsSeq(v) /\ Msgs(v) = {x} /\ Len(v) = 1 /\ v[1] = x
  BY SeqShort
<1>3. b \in Nat
  <2>1. Len(w) + 1 \in Nat
    BY SeqAt
  <2> QED
    BY <1>1, <2>1 DEF Track
<1>4. Track(v, b, b, U, h) /\ h[1] = b
  <2>1. h \in [Nat -> Nat] /\ \A i \in Nat : h[i] = b
    BY <1>3
  <2>2. \A i \in 1 .. (Len(v) + 1) : i \in Nat
    BY <1>2
  <2>3. Len(v) + 1 \in Nat /\ \A i \in 1 .. Len(v) : i = 1 /\ i + 1 \in Nat /\ i \in Nat
    BY <1>2
  <2> HIDE DEF h, v
  <2> QED
    BY <1>2, <1>3, <2>1, <2>2, <2>3 DEF Track
<1> HIDE DEF v, h
<1>5. /\ Track(z, a, b, U, k) /\ \A i \in 1 .. Len(w) : k[i] = g[i]
      /\ \A i \in 1 .. Len(v) : k[Len(w) + i] = h[i]
  BY <1>1, <1>2, <1>4, TrackJoined
<1>6. /\ Len(z) = Len(w) + 1 /\ Len(w) \in Nat
      /\ \A i \in 1 .. Len(w) + 1 : z[i] = IF i <= Len(w) THEN w[i] ELSE v[i - Len(w)]
  <2> HIDE DEF v
  <2>1. IsSeq(v) /\ Len(v) = 1
    BY <1>2
  <2>2. /\ Len(w \o v) = Len(w) + Len(v) /\ Len(w) \in Nat
        /\ \A i \in 1 .. Len(w) + Len(v) :
              (w \o v)[i] = IF i <= Len(w) THEN w[i] ELSE v[i - Len(w)]
    BY <2>1, ConcatAt
  <2> QED
    BY <2>1, <2>2
<1> HIDE DEF z, k
<1>7. /\ \A i \in 1 .. Len(w) : z[i] = w[i]
      /\ z[Len(w) + 1] = x /\ k[Len(w) + 1] = b
      /\ \A i \in 1 .. Len(z) : i \in 1 .. Len(w) \/ i = Len(w) + 1
  <2>1. (Len(w) + 1) - Len(w) = 1 /\ ~ (Len(w) + 1 <= Len(w)) /\ Len(w) + 1 \in 1 .. Len(w) + 1
    BY <1>6
  <2>2. z[Len(w) + 1] = x
    BY <1>2, <1>6, <2>1
  <2>3. k[Len(w) + 1] = b
    BY <1>2, <1>4, <1>5
  <2> QED
    BY <1>6, <2>2, <2>3
<1>8. \A i \in 1 .. Len(w) : w[i].kind # "sig"
  BY SeqAt DEF Kinds
<1>9. \A j \in 1 .. Len(w) : ~ (Len(w) + 1 < j)
  BY <1>6
<1>10. Signals(z, k, {x}, b, revs, FALSE)
  BY <1>1, <1>7, <1>8, <1>9 DEF Signals, Paired
<1> QED
  BY <1>5, <1>10 DEF Carries, z, v

\* The queue gets a revocation.
LEMMA RevocationSent ==
    ASSUME NEW w, IsSeq(w), NEW a, NEW b, NEW U, NEW sigs, NEW n, NEW revs, NEW rev,
           Carries(w, a, b, U, sigs, n, revs, rev), Kinds(w, "revoke") = {},
           NEW x, x.kind = "revoke"
    PROVE  Carries(w \o <<x>>, a, b, U, sigs, n, {x}, TRUE)
<1>1. PICK g : Track(w, a, b, U, g) /\ Signals(w, g, sigs, n, revs, rev)
  BY DEF Carries
<1> DEFINE v == <<x>>
           h == [i \in Nat |-> b]
           k == Joined(g, h, Len(w))
           z == w \o v
<1>2. IsSeq(v) /\ Msgs(v) = {x} /\ Len(v) = 1 /\ v[1] = x
  BY SeqShort
<1>3. b \in Nat
  <2>1. Len(w) + 1 \in Nat
    BY SeqAt
  <2> QED
    BY <1>1, <2>1 DEF Track
<1>4. Track(v, b, b, U, h) /\ h[1] = b
  <2>1. h \in [Nat -> Nat] /\ \A i \in Nat : h[i] = b
    BY <1>3
  <2>2. \A i \in 1 .. (Len(v) + 1) : i \in Nat
    BY <1>2
  <2>3. Len(v) + 1 \in Nat /\ \A i \in 1 .. Len(v) : i = 1 /\ i + 1 \in Nat /\ i \in Nat
    BY <1>2
  <2> HIDE DEF h, v
  <2> QED
    BY <1>2, <1>3, <2>1, <2>2, <2>3 DEF Track
<1> HIDE DEF v, h
<1>5. /\ Track(z, a, b, U, k) /\ \A i \in 1 .. Len(w) : k[i] = g[i]
  BY <1>1, <1>2, <1>4, TrackJoined
<1>6. /\ Len(z) = Len(w) + 1 /\ Len(w) \in Nat
      /\ \A i \in 1 .. Len(w) + 1 : z[i] = IF i <= Len(w) THEN w[i] ELSE v[i - Len(w)]
  <2> HIDE DEF v
  <2>1. IsSeq(v) /\ Len(v) = 1
    BY <1>2
  <2>2. /\ Len(w \o v) = Len(w) + Len(v) /\ Len(w) \in Nat
        /\ \A i \in 1 .. Len(w) + Len(v) :
              (w \o v)[i] = IF i <= Len(w) THEN w[i] ELSE v[i - Len(w)]
    BY <2>1, ConcatAt
  <2> QED
    BY <2>1, <2>2
<1> HIDE DEF z, k
<1>7. /\ \A i \in 1 .. Len(w) : z[i] = w[i]
      /\ z[Len(w) + 1] = x
      /\ \A i \in 1 .. Len(z) : i \in 1 .. Len(w) \/ i = Len(w) + 1
  <2>1. (Len(w) + 1) - Len(w) = 1 /\ ~ (Len(w) + 1 <= Len(w)) /\ Len(w) + 1 \in 1 .. Len(w) + 1
    BY <1>6
  <2>2. z[Len(w) + 1] = x
    BY <1>2, <1>6, <2>1
  <2> QED
    BY <1>6, <2>2
<1>8. \A i \in 1 .. Len(w) : w[i].kind # "revoke"
  BY SeqAt DEF Kinds
<1>9. \A j \in 1 .. Len(w) : j < Len(w) + 1
  BY <1>6
<1>10. Signals(z, k, sigs, n, {x}, TRUE)
  <2>1. Paired(z, TRUE)
    <3> SUFFICES ASSUME NEW i \in 1 .. Len(z), NEW j \in 1 .. Len(z)
                 PROVE  /\ (z[i].kind = "sig" /\ z[j].kind = "sig") => i = j
                        /\ (z[i].kind = "revoke" /\ z[j].kind = "revoke") => i = j
                        /\ (z[i].kind = "sig" /\ z[j].kind = "revoke") => i < j
      BY DEF Paired
    <3> QED
      BY <1>1, <1>7, <1>8, <1>9 DEF Signals, Paired
  <2>2. \A i \in 1 .. Len(z) : /\ z[i].kind = "sig" => z[i] \in sigs /\ k[i] = n
                               /\ z[i].kind = "revoke" => z[i] \in {x}
    BY <1>1, <1>5, <1>7, <1>8 DEF Signals
  <2> QED
    BY <2>1, <2>2 DEF Signals
<1> QED
  BY <1>5, <1>10 DEF Carries, z, v

\* The queue gets the next updates of the sender's log.
LEMMA UpdatesSent ==
    ASSUME NEW w, IsSeq(w), NEW a, NEW b, NEW U, NEW sigs, NEW n, NEW revs, NEW rev,
           Carries(w, a, b, U, sigs, n, revs, rev),
           NEW v, IsSeq(v), \A i \in 1 .. Len(v) : \E u \in U :
                        u.logIndex = b + i - 1 /\ v[i] = Update(u.type, u.id)
    PROVE  Carries(w \o v, a, b + Len(v), U, sigs, n, revs, rev)
<1>1. PICK g : Track(w, a, b, U, g) /\ Signals(w, g, sigs, n, revs, rev)
  BY DEF Carries
<1> DEFINE h == [i \in Nat |-> IF i = 0 THEN b ELSE b + i - 1]
           k == Joined(g, h, Len(w))
           z == w \o v
<1>2. Len(v) \in Nat
  BY SeqAt
<1>3. b \in Nat
  <2>1. Len(w) + 1 \in Nat
    BY SeqAt
  <2> QED
    BY <1>1, <2>1 DEF Track
<1>4. \A i \in 1 .. Len(v) : v[i].kind = "update"
  <2> SUFFICES ASSUME NEW i \in 1 .. Len(v)
               PROVE  v[i].kind = "update"
    OBVIOUS
  <2>1. PICK u \in U : v[i] = Update(u.type, u.id)
    OBVIOUS
  <2> QED
    BY <2>1 DEF Update
<1>5. Track(v, b, b + Len(v), U, h)
  <2>1. h \in [Nat -> Nat]
    <3>1. \A i \in Nat : i # 0 => b + i - 1 \in Nat
      BY <1>3
    <3> QED
      BY <1>3, <3>1
  <2>2. /\ \A i \in 1 .. (Len(v) + 1) : h[i] = b + i - 1 /\ i \in Nat
        /\ \A i \in 1 .. Len(v) : h[i] = b + i - 1 /\ h[i + 1] = b + (i + 1) - 1 /\ i \in Nat
        /\ h[1] = b /\ h[Len(v) + 1] = b + Len(v)
    BY <1>2, <1>3
  <2> HIDE DEF h
  <2>3. \A i, j \in 1 .. (Len(v) + 1) : i <= j => h[i] <= h[j]
    BY <1>3, <2>2
  <2>4. \A i \in 1 .. Len(v) : h[i + 1] = h[i] + 1
    BY <1>3, <2>2
  <2> QED
    BY <1>4, <2>1, <2>2, <2>3, <2>4 DEF Track
<1> HIDE DEF h
<1>6. Track(z, a, b + Len(v), U, k) /\ \A i \in 1 .. Len(w) : k[i] = g[i]
  BY <1>1, <1>5, TrackJoined
<1>7. /\ Len(z) = Len(w) + Len(v) /\ Len(w) \in Nat
      /\ \A i \in 1 .. Len(w) + Len(v) : z[i] = IF i <= Len(w) THEN w[i] ELSE v[i - Len(w)]
  BY ConcatAt
<1> HIDE DEF z, k
<1>8. \A i \in 1 .. Len(z) : \/ i \in 1 .. Len(w) /\ z[i] = w[i]
                             \/ z[i].kind = "update"
  <2> SUFFICES ASSUME NEW i \in 1 .. Len(z), ~ (i <= Len(w))
               PROVE  z[i].kind = "update"
    BY <1>2, <1>7
  <2>1. i - Len(w) \in 1 .. Len(v) /\ z[i] = v[i - Len(w)]
    BY <1>2, <1>7
  <2> QED
    BY <1>4, <2>1
<1>9. Signals(z, k, sigs, n, revs, rev)
  <2>1. Paired(z, rev)
    BY <1>1, <1>8 DEF Signals, Paired
  <2>2. \A i \in 1 .. Len(z) : /\ z[i].kind = "sig" => z[i] \in sigs /\ k[i] = n
                               /\ z[i].kind = "revoke" => z[i] \in revs
    BY <1>1, <1>6, <1>8 DEF Signals
  <2> QED
    BY <2>1, <2>2 DEF Signals
<1> QED
  BY <1>6, <1>9 DEF Carries, z

-----------------------------------------------------------------------------
(* Both sides agree.                                                       *)

\* The signature and the revocation that side q has to get to its peer.
Sigs(q, d, e) == IF SigDue(d, e) THEN {CommitSig(Tx(q, d.diff.commit))} ELSE {}
Revs(d, e) == IF RevDue(d, e) THEN {RevokeAndAck(e.commit["remote"].height)} ELSE {}

\* What is under way brings the peer's copy of the log up to the log, with the
\* signature after the updates it covers, and what was sent last comes last.
Conveys(q, d, l, e, m, w) ==
    Carries(w, m["remote"].logIndex, l["local"].logIndex, UpdatesOf(l, "local"),
            Sigs(q, d, e), RemoteTip(d).messageIndex["local"],
            Revs(d, e), d.lastWasRevoke)

\* After a restart both have of the log what their commitments include.
AtRest(d, l, e, m) ==
    /\ l["local"].logIndex = RemoteTip(d).messageIndex["local"]
    /\ m["remote"].logIndex = e.commit["local"].messageIndex["remote"]

\* One side, with what its peer has and the messages under way to it.
Half(q, d, l, e, m, a, w) ==
    /\ a # "failed" /\ FeesOf(q, l) /\ InTurn(l) /\ NextOnDisk(d, l)
    /\ ChainsAgree(d, e) /\ LogsAgree(l, m)
    /\ a = "syncing" => AtRest(d, l, e, m)
    /\ a # "syncing" => Conveys(q, d, l, e, m, w)

\* Both sides agree on their chains and logs, or will when all messages that
\* are under way have arrived.
AgreeInv ==
    \A q \in Side : Half(q, bucket[q], log[q], bucket[Peer(q)], log[Peer(q)],
                         pc[q], wire[Peer(q)])

\* What is known of one side besides.
Known(d, l, e, m, a, w) ==
    /\ Fits(d, l) /\ Near(d, e) /\ IsSeq(w)
    /\ a # "syncing" => /\ SigDue(d, e) => Kinds(w, "sig") # {}
                        /\ RevDue(d, e) => Kinds(w, "revoke") # {}

\* Both sides at a step.
LEMMA AgreeParts ==
    ASSUME ChannelInv, WaitInv, AgreeInv, NEW s \in Side
    PROVE  /\ Peer(s) \in Side /\ Peer(s) # s /\ Peer(Peer(s)) = s
           /\ Known(bucket[s], log[s], bucket[Peer(s)], log[Peer(s)], pc[s], wire[Peer(s)])
           /\ Half(s, bucket[s], log[s], bucket[Peer(s)], log[Peer(s)], pc[s], wire[Peer(s)])
<1>1. /\ Peer(s) \in Side /\ Peer(s) # s /\ Peer(Peer(s)) = s /\ \A x \in Side : x = s \/ x = Peer(s)
  BY Sides
<1> DEFINE p == Peer(s)
<1>2. /\ Fits(bucket[s], log[s]) /\ IsSeq(wire[p])
  BY <1>1, SideParts DEF Fits
<1>3. /\ \A x \in Side : pc[x] # "failed"
      /\ Half(s, bucket[s], log[s], bucket[p], log[p], pc[s], wire[p])
  BY <1>1 DEF AgreeInv, Half
<1>4. Waiting(s) /\ Waiting(p) /\ InStep(s)
  BY <1>1, <1>3 DEF WaitInv
<1>5. Near(bucket[s], bucket[p])
  BY <1>4 DEF InStep, Near, Theirs, Ours, TipHeight
<1>6. /\ Ours(s) \in Nat /\ Theirs(s) \in Nat /\ Ours(p) \in Nat /\ Theirs(p) \in Nat
  BY <1>1, SideHeights
<1>7. ASSUME pc[s] # "syncing", SigDue(bucket[s], bucket[p])
      PROVE  Kinds(wire[p], "sig") # {}
  BY <1>4, <1>6, <1>7 DEF Waiting, SigDue, Unacked, Ours, Theirs
<1>8. ASSUME pc[s] # "syncing", RevDue(bucket[s], bucket[p])
      PROVE  Kinds(wire[p], "revoke") # {}
  BY <1>1, <1>4, <1>6, <1>8 DEF Waiting, RevDue, Unacked, Ours, Theirs
<1> QED
  BY <1>1, <1>2, <1>3, <1>5, <1>7, <1>8 DEF Known

\* What a step of one side has to keep.
LEMMA AgreeStep ==
    ASSUME NEW s \in Side, NEW f, NEW n, NEW a, NEW v, NEW w,
           bucket'[s] = f, log'[s] = n, pc'[s] = a, wire'[Peer(s)] = v, wire'[s] = w,
           bucket'[Peer(s)] = bucket[Peer(s)], log'[Peer(s)] = log[Peer(s)],
           pc'[Peer(s)] = pc[Peer(s)],
           Half(s, f, n, bucket[Peer(s)], log[Peer(s)], a, v),
           Half(Peer(s), bucket[Peer(s)], log[Peer(s)], f, n, pc[Peer(s)], w)
    PROVE  AgreeInv'
<1>1. /\ Peer(s) \in Side /\ Peer(s) # s /\ Peer(Peer(s)) = s /\ \A x \in Side : x = s \/ x = Peer(s)
  BY Sides
<1> QED
  BY <1>1 DEF AgreeInv

\* One side adds an update to its log.
LEMMA Grown ==
    ASSUME NEW s \in Side, NEW d, NEW l, NEW e, NEW m, NEW a, NEW b, NEW w, NEW v,
           Known(d, l, e, m, a, w), Fits(e, m),
           Half(s, d, l, e, m, a, w), Half(Peer(s), e, m, d, l, b, v),
           NEW n, Fits(d, n), NEW u, Grows(l, n, "local", u), u.id \in Nat,
           u.type = "FeeUpdate" => s = Initiator,
           a # "syncing", NEW a2 \in {"ready", "signing"}
    PROVE  /\ Half(s, d, n, e, m, a2, w \o <<Update(u.type, u.id)>>)
           /\ Half(Peer(s), e, m, d, n, b, v)
<1> DEFINE x == <<Update(u.type, u.id)>>
<1>1. Fits(d, l) /\ IsSeq(w) /\ FeesOf(s, l) /\ InTurn(l) /\ NextOnDisk(d, l)
      /\ ChainsAgree(d, e) /\ LogsAgree(l, m) /\ Conveys(s, d, l, e, m, w)
  BY DEF Half, Known
<1>2. /\ UpdatesOf(n, "local") = UpdatesOf(l, "local") \cup {u}
      /\ UpdatesOf(n, "remote") = UpdatesOf(l, "remote")
      /\ u.logIndex = l["local"].logIndex /\ n["local"].logIndex = l["local"].logIndex + 1
      /\ n["remote"].logIndex = l["remote"].logIndex
      /\ n["remote"].htlcCounter = l["remote"].htlcCounter
  BY DEF Grows, Opposite
<1>3. FeesOf(s, n) /\ InTurn(n)
  <2>1. "local" \in Chain /\ (u.type = "FeeUpdate" => ("local" = "local" <=> s = Initiator))
    BY DEF Chain
  <2> QED
    BY <1>1, <2>1, GrowsOwn
<1>4. NextOnDisk(d, n)
  <2>1. \A c \in Chain : \A y \in UpdatesOf(l, c), z \in UpdatesOf(n, c) :
            y.logIndex = z.logIndex => y = z
    <3>1. /\ d \in DiskType /\ n \in LogsType /\ LogInv(d, n)
      BY DEF Fits
    <3>2. \A c \in Chain : UpdatesOf(l, c) \subseteq UpdatesOf(n, c)
      BY <1>2 DEF Chain
    <3> QED
      BY <3>1, <3>2, UpdateAt
  <2> QED
    BY <1>1, <2>1, DiskKept
<1>5. LogsAgree(n, m)
  BY <1>1, SentAgree
<1>6. Conveys(s, d, n, e, m, w \o x)
  <2>1. IsSeq(x) /\ Len(x) = 1 /\ x[1] = Update(u.type, u.id)
    BY SeqShort
  <2>2. Carries(w, m["remote"].logIndex, l["local"].logIndex, UpdatesOf(n, "local"),
            Sigs(s, d, e), RemoteTip(d).messageIndex["local"], Revs(d, e), d.lastWasRevoke)
    BY <1>1, <1>2, CarriesKept DEF Conveys
  <2>3. l["local"].logIndex \in Nat
    BY <1>1, EntriesOf DEF Fits, Chain
  <2>4. \A i \in 1 .. Len(x) : \E y \in UpdatesOf(n, "local") :
            y.logIndex = l["local"].logIndex + i - 1 /\ x[i] = Update(y.type, y.id)
    <3>1. \A i \in 1 .. Len(x) : i = 1 /\ l["local"].logIndex + i - 1 = l["local"].logIndex
      BY <2>1, <2>3
    <3>2. u \in UpdatesOf(n, "local") /\ u.logIndex = l["local"].logIndex
      BY <1>2
    <3> HIDE DEF x
    <3> QED
      BY <2>1, <3>1, <3>2
  <2> HIDE DEF x
  <2>5. Carries(w \o x, m["remote"].logIndex, l["local"].logIndex + Len(x), UpdatesOf(n, "local"),
            Sigs(s, d, e), RemoteTip(d).messageIndex["local"], Revs(d, e), d.lastWasRevoke)
    BY <1>1, <2>1, <2>2, <2>4, UpdatesSent
  <2> QED
    BY <1>2, <2>1, <2>5 DEF Conveys
<1>7. LogsAgree(m, n)
  <2>1. LogsAgree(m, l)
    BY DEF Half
  <2> QED
    BY <1>2, <2>1 DEF LogsAgree
<1>8. Half(Peer(s), e, m, d, n, b, v)
  <2>1. AtRest(e, m, d, l) => AtRest(e, m, d, n)
    BY <1>2 DEF AtRest
  <2>2. Conveys(Peer(s), e, m, d, l, v) => Conveys(Peer(s), e, m, d, n, v)
    BY <1>2 DEF Conveys
  <2> QED
    BY <1>7, <2>1, <2>2 DEF Half
<1> QED
  BY <1>1, <1>3, <1>4, <1>5, <1>6, <1>8 DEF Half

-----------------------------------------------------------------------------
(* The handlers, side by side: an update or a signature moves on.          *)

\* The next update of the peer is one that is expected.
LEMMA Expected ==
    ASSUME NEW d, NEW l, NEW e, NEW m, Fits(d, l), Fits(e, m),
           Agree(d, l, e, m), Agree(e, m, d, l), InTurn(m),
           NEW u \in UpdatesOf(m, "local"), u.logIndex = l["remote"].logIndex
    PROVE  /\ u.type = "Add" => u.id = l["remote"].htlcCounter
           /\ IsRemoval(u) => HasHtlc(l["local"], u.id) /\ ~ htlcHasModification(l["local"], u.id)
<1>1. /\ d \in DiskType /\ l \in LogsType /\ LogInv(d, l)
      /\ e \in DiskType /\ m \in LogsType /\ LogInv(e, m)
      /\ LogsAgree(m, l) /\ "local" \in Chain /\ "remote" \in Chain
      /\ Opposite("local") = "remote" /\ Opposite("remote") = "local"
  BY DEF Fits, Agree, Chain, Opposite
<1>2. PICK y \in m["local"].entries : /\ u = LogUpdate(y) /\ u.type = y.type
              /\ u.logIndex = y.logIndex /\ u.id = y.id /\ (IsRemoval(u) <=> IsRemoval(y)) /\ y \in EntryType
  BY <1>1, UpdateParts
<1> DEFINE C == l["remote"].htlcCounter
           N == l["remote"].logIndex
           J == e.commit["local"]
           K == Counterpart(d, e)
<1>3. /\ J.messageIndex["local"] \in Nat /\ C \in Nat /\ N \in Nat
      /\ J.htlcIndex["local"] \in Nat /\ J.htlcIndex["local"] <= C
      /\ J.messageIndex["local"] <= N /\ N <= m["local"].logIndex
      /\ m["local"].logIndex \in Nat /\ m["local"].htlcCounter \in Nat
  <2>1. /\ e.commit["local"].messageIndex["local"] \in Nat
        /\ e.commit["local"].htlcIndex["local"] \in Nat
        /\ m["local"].logIndex \in Nat /\ m["local"].htlcCounter \in Nat
        /\ l["remote"].logIndex \in Nat /\ l["remote"].htlcCounter \in Nat
        /\ e.commit["local"].messageIndex["local"] <= l["remote"].logIndex
        /\ e.commit["local"].htlcIndex["local"] <= l["remote"].htlcCounter
        /\ l["remote"].logIndex <= m["local"].logIndex
    BY <1>1, Reached
  <2> QED
    BY <2>1
<1>4. ASSUME u.type = "Add"
      PROVE  u.id = C
  <2>1. u.id \in Nat /\ y \in AddsOf(m["local"]) /\ u.id < m["local"].htlcCounter
    BY <1>1, <1>2, <1>4 DEF LogInv, Bounded, AddsOf, EntryType
  <2>2. ~ (u.id < C)
    BY <1>1, <1>3, <1>4 DEF LogsAgree
  <2>3. ASSUME C < u.id
        PROVE  FALSE
    <3>1. C < m["local"].htlcCounter
      BY <1>3, <2>1, <2>3
    <3>2. PICK z \in AddsOf(m["local"]) : z.id = C
      <4>1. \A i \in Nat : (J.htlcIndex["local"] <= i /\ i < m["local"].htlcCounter) =>
                 \E z \in AddsOf(m["local"]) : z.id = i
        BY <1>1 DEF LogInv, Complete
      <4> HIDE DEF C, J
      <4> QED
        BY <1>3, <3>1, <4>1
    <3>3. /\ LogUpdate(z) \in UpdatesOf(m, "local") /\ LogUpdate(z).type = "Add"
          /\ LogUpdate(z).id = C
      BY <1>1, <3>2, UpdateParts DEF AddsOf
    <3>4. LogUpdate(z).logIndex < u.logIndex
      BY <1>4, <2>3, <3>3 DEF InTurn
    <3>5. LogUpdate(z).id < C
      BY <1>1, <3>3, <3>4 DEF LogsAgree
    <3> QED
      BY <1>3, <3>3, <3>5
  <2> QED
    BY <1>3, <2>1, <2>2, <2>3
<1>5. ASSUME IsRemoval(u)
      PROVE  HasHtlc(l["local"], u.id) /\ ~ htlcHasModification(l["local"], u.id)
  <2>1. PICK a \in AddsOf(m["remote"]) : ParentOf(e, m, "local", y, a)
    BY <1>1, <1>2, <1>5 DEF LogInv, Parents
  <2>2. a.id = u.id /\ On(a, J, "remote")
    BY <1>1, <1>2, <2>1 DEF ParentOf, Commitments
  <2>3. ~ ResolvedAt(m, J, "remote", a.id)
    <3> SUFFICES ASSUME NEW r \in m["local"].entries, IsRemoval(r), r.id = a.id, On(r, J, "local")
                 PROVE  FALSE
      BY <1>1 DEF ResolvedAt
    <3>1. r = y
      BY <1>1, <1>2, <1>5, <2>2 DEF LogInv, Distinct
    <3>2. r.logIndex < J.messageIndex["local"] /\ r.logIndex = N /\ N \in Nat
      BY <1>2, <1>3, <3>1 DEF On
    <3> QED
      BY <1>3, <3>2
  <2>4. Htlc(a) \in J.htlcs["remote"]
    <3>1. J \in Commitments(e)
      BY DEF Commitments
    <3>2. J.htlcs["remote"] = OpenHtlcs(m, J, "remote")
      BY <1>1, <3>1 DEF LogInv, Contents
    <3>3. a \in OpenAt(m, J, "remote")
      BY <2>1, <2>2, <2>3 DEF OpenAt
    <3> QED
      BY <3>2, <3>3 DEF OpenHtlcs
  <2>5. K \in Commitments(d) /\ Htlc(a) \in K.htlcs["local"]
        /\ K.messageIndex["remote"] = J.messageIndex["local"]
    <3>1. K \in Commitments(d)
      BY DEF Counterpart, Commitments
    <3>2. Mirrors(K, J)
      BY DEF Agree, ChainsAgree
    <3> QED
      BY <1>1, <2>4, <3>1, <3>2 DEF Mirrors
  <2>6. PICK b \in AddsOf(l["local"]) : /\ ~ ResolvedAt(l, K, "local", b.id) /\ Htlc(b) = Htlc(a)
    <3>1. K.htlcs["local"] = OpenHtlcs(l, K, "local")
      BY <1>1, <2>5 DEF LogInv, Contents
    <3> QED
      BY <2>5, <3>1 DEF OpenHtlcs, OpenAt
  <2>7. b.id = u.id
    BY <2>2, <2>6 DEF Htlc
  <2>8. ASSUME u.id \in l["local"].modified
        PROVE  FALSE
    <3>1. PICK r \in l["remote"].entries : IsRemoval(r) /\ r.id = u.id
      BY <1>1, <2>8 DEF LogInv, Parents
    <3>2. ~ On(r, K, "remote")
      BY <1>1, <2>6, <2>7, <3>1 DEF ResolvedAt
    <3>3. /\ LogUpdate(r) \in UpdatesOf(l, "remote") /\ IsRemoval(LogUpdate(r))
          /\ LogUpdate(r).id = u.id /\ LogUpdate(r).logIndex = r.logIndex /\ r.logIndex \in Nat
      BY <1>1, <3>1, UpdateParts DEF EntryType
    <3>4. r.logIndex < N
      BY <1>1, <3>1 DEF LogInv, Bounded
    <3>5. J.messageIndex["local"] <= r.logIndex /\ r.logIndex < m["local"].logIndex
      <4>1. ~ (r.logIndex < J.messageIndex["local"])
        BY <2>5, <3>2 DEF On
      <4> QED
        BY <1>3, <3>3, <3>4, <4>1
    <3>6. PICK z \in UpdatesOf(m, "local") : z.logIndex = r.logIndex
      BY <1>1, <3>3, <3>5, UpdateAt
    <3>7. z = LogUpdate(r)
      BY <1>1, <3>3, <3>6 DEF LogsAgree
    <3>8. z = u
      BY <1>1, <1>5, <3>3, <3>7, UpdateAt
    <3> QED
      BY <1>3, <3>3, <3>4, <3>6, <3>8
  <2> QED
    BY <2>6, <2>7, <2>8 DEF HasHtlc, htlcHasModification
<1> QED
  BY <1>4, <1>5

\* Side s takes the next update of its peer.
LEMMA UpdateTaken ==
    ASSUME NEW s \in Side, NEW d, NEW l, NEW e, NEW m, NEW a, NEW b, NEW w, NEW v,
           Known(d, l, e, m, a, w), Known(e, m, d, l, b, v),
           Half(s, d, l, e, m, a, w), Half(Peer(s), e, m, d, l, b, v),
           a # "syncing", b # "syncing", v # << >>, Head(v).kind = "update"
    PROVE  \E u \in UpdatesOf(m, "local") :
              /\ Head(v) = Update(u.type, u.id)
              /\ u = [type |-> u.type, logIndex |-> l["remote"].logIndex, id |-> u.id]
              /\ u.type = "Add" => u.id = l["remote"].htlcCounter
              /\ u.type = "FeeUpdate" => s # Initiator
              /\ IsRemoval(u) => HasHtlc(l["local"], u.id) /\ ~ htlcHasModification(l["local"], u.id)
              /\ \A n : (Fits(d, n) /\ Grows(l, n, "remote", u)) =>
                    /\ Half(s, d, n, e, m, a, w)
                    /\ Half(Peer(s), e, m, d, n, b, Tail(v))
<1> DEFINE p == Peer(s)
<1>1. /\ p \in Side /\ p # s /\ Peer(p) = s
  BY Sides
<1> HIDE DEF p
<1>2. /\ Fits(d, l) /\ Fits(e, m) /\ Near(d, e) /\ Near(e, d) /\ IsSeq(v)
      /\ FeesOf(p, m) /\ InTurn(m) /\ ChainsAgree(d, e) /\ ChainsAgree(e, d)
      /\ LogsAgree(l, m) /\ LogsAgree(m, l) /\ Conveys(p, e, m, d, l, v)
      /\ FeesOf(s, l) /\ InTurn(l) /\ NextOnDisk(d, l) /\ Conveys(s, d, l, e, m, w)
      /\ a # "failed" /\ b # "failed" /\ NextOnDisk(e, m)
  BY DEF Half, Known, p
<1>3. Agree(d, l, e, m) /\ Agree(e, m, d, l)
  BY <1>2 DEF Agree
<1>4. /\ \E u \in UpdatesOf(m, "local") : u.logIndex = l["remote"].logIndex /\ Head(v) = Update(u.type, u.id)
      /\ Carries(Tail(v), l["remote"].logIndex + 1, m["local"].logIndex, UpdatesOf(m, "local"),
                 Sigs(p, e, d), RemoteTip(e).messageIndex["local"], Revs(e, d), e.lastWasRevoke)
  BY <1>2, Taken DEF Conveys
<1>5. PICK u \in UpdatesOf(m, "local") : u.logIndex = l["remote"].logIndex /\ Head(v) = Update(u.type, u.id)
  BY <1>4
<1>6. /\ u.type = "Add" => u.id = l["remote"].htlcCounter
      /\ IsRemoval(u) => HasHtlc(l["local"], u.id) /\ ~ htlcHasModification(l["local"], u.id)
  BY <1>2, <1>3, <1>5, Expected
<1>7. u.type = "FeeUpdate" => s # Initiator
  BY <1>1, <1>2 DEF FeesOf, Chain
<1>8. u = [type |-> u.type, logIndex |-> u.logIndex, id |-> u.id] /\ u.id \in Nat
  BY <1>2, UpdateParts DEF Fits, Chain
<1>9. ASSUME NEW n, Fits(d, n), Grows(l, n, "remote", u)
      PROVE  /\ Half(s, d, n, e, m, a, w) /\ Half(p, e, m, d, n, b, Tail(v))
  <2>1. /\ UpdatesOf(n, "remote") = UpdatesOf(l, "remote") \cup {u}
        /\ UpdatesOf(n, "local") = UpdatesOf(l, "local")
        /\ n["remote"].logIndex = l["remote"].logIndex + 1
        /\ n["local"].logIndex = l["local"].logIndex
        /\ n["local"].htlcCounter = l["local"].htlcCounter
    BY <1>9 DEF Grows, Opposite
  <2>2. FeesOf(s, n) /\ InTurn(n)
    <3>1. "remote" \in Chain /\ (u.type = "FeeUpdate" => ("remote" = "local" <=> s = Initiator))
      BY <1>7 DEF Chain
    <3> QED
      BY <1>2, <1>8, <1>9, <3>1, GrowsOwn
  <2>3. NextOnDisk(d, n)
    <3>1. \A c \in Chain : \A y \in UpdatesOf(l, c), z \in UpdatesOf(n, c) :
              y.logIndex = z.logIndex => y = z
      <4>1. /\ d \in DiskType /\ n \in LogsType /\ LogInv(d, n)
        BY <1>9 DEF Fits
      <4>2. \A c \in Chain : UpdatesOf(l, c) \subseteq UpdatesOf(n, c)
        BY <2>1 DEF Chain
      <4> QED
        BY <4>1, <4>2, UpdateAt
    <3> QED
      BY <1>2, <1>9, <3>1, DiskKept
  <2>4. LogsAgree(m, n)
    BY <1>2, <1>5, <1>9, TakenAgree
  <2>5. LogsAgree(n, m)
    BY <1>2, <2>1 DEF LogsAgree
  <2>6. Conveys(s, d, n, e, m, w)
    BY <1>2, <2>1 DEF Conveys
  <2>7. Conveys(p, e, m, d, n, Tail(v))
    BY <1>4, <2>1 DEF Conveys
  <2> QED
    BY <1>2, <2>2, <2>3, <2>4, <2>5, <2>6, <2>7 DEF Half
<1> QED
  BY <1>5, <1>6, <1>7, <1>8, <1>9 DEF p

\* Side s signs the next commitment of its peer.
LEMMA SignatureGiven ==
    ASSUME NEW s \in Side, NEW d, NEW l, NEW e, NEW m, NEW a, NEW b, NEW w, NEW v,
           Fits(d, l), Fits(e, m), Near(d, e), Near(e, d), IsSeq(w), ~ HasUnacked(d),
           Half(s, d, l, e, m, a, w), Half(Peer(s), e, m, d, l, b, v), a # "syncing",
           NEW f, NEW n, f = SignedDisk(d, l), n = SignedLogs(d, l)
    PROVE  /\ Half(s, f, n, e, m, "ready", w \o <<SignedMsg(s, d, l)>>)
           /\ Half(Peer(s), e, m, f, n, b, v)
<1> DEFINE p == Peer(s)
           k == d.commit["remote"]
           o == createCommitDiff(d, l).commit
           x == SignedMsg(s, d, l)
<1>1. /\ FeesOf(s, l) /\ InTurn(l) /\ ChainsAgree(d, e) /\ LogsAgree(l, m)
      /\ Conveys(s, d, l, e, m, w)
      /\ b # "failed" /\ FeesOf(p, m) /\ InTurn(m) /\ NextOnDisk(e, m)
      /\ ChainsAgree(e, d) /\ LogsAgree(m, l)
      /\ b = "syncing" => AtRest(e, m, d, l)
      /\ b # "syncing" => Conveys(p, e, m, d, l, v)
  BY DEF Half
<1>2. /\ d \in DiskType /\ l \in LogsType /\ LogInv(d, l)
      /\ e \in DiskType /\ m \in LogsType /\ LogInv(e, m)
      /\ "local" \in Chain /\ "remote" \in Chain
  BY DEF Fits, Chain
<1>3. /\ f.commit = d.commit /\ f.diff = createCommitDiff(d, l) /\ ~ f.lastWasRevoke
      /\ f \in DiskType
  BY <1>2, SignedType
<1>4. HasUnacked(f) /\ RemoteTip(f) = o /\ RemoteTip(d) = k
  <2>1. createCommitDiff(d, l) \in CommitDiffType
    BY <1>2, DiffType
  <2> QED
    BY <1>3, <2>1, CommitmentChannelAssumption DEF HasUnacked, RemoteTip
<1>5. /\ SignIndexes(d, l) \in Heights /\ o.messageIndex = SignIndexes(d, l)
      /\ o.messageIndex["local"] = l["local"].logIndex
      /\ o.messageIndex["remote"] = d.commit["local"].messageIndex["remote"]
      /\ o.htlcIndex["remote"] = d.commit["local"].htlcIndex["remote"]
      /\ o = fetchCommitmentView(l, k, "remote", SignIndexes(d, l), o.htlcIndex)
  <2>1. /\ SignIndexes(d, l) \in Heights /\ o.messageIndex = SignIndexes(d, l)
        /\ o.htlcIndex = [local |-> l["local"].htlcCounter,
                          remote |-> d.commit["local"].htlcIndex["remote"]]
        /\ o = fetchCommitmentView(l, k, "remote", SignIndexes(d, l), o.htlcIndex)
    BY <1>2, DiffType
  <2> HIDE DEF o, k
  <2> QED
    BY <2>1 DEF SignIndexes
<1>6. ParentsFetched(l, fetchHTLCView(l, SignIndexes(d, l)), "remote")
  BY <1>2, AlwaysSigns DEF CanSign
<1>7. Alike(l, n)
  <2>1. k \in CommitmentType /\ Distinct(l) /\ Stamped(d, l)
    BY <1>2, DiskParts DEF LogInv
  <2> QED
    BY <1>2, <1>5, <1>6, <2>1, EvaluatedAlike DEF SignedLogs
<1> HIDE DEF k, o, p, x
<1>8. /\ \A c \in Chain : UpdatesOf(n, c) = UpdatesOf(l, c)
      /\ Sheds(l, n) /\ SameEnds(l, n) /\ Sheds(m, m) /\ SameEnds(m, m)
      /\ \A c \in Chain : n[c].logIndex = l[c].logIndex
  <2>1. (\A c \in Chain : UpdatesOf(n, c) = UpdatesOf(l, c)) /\ Sheds(l, n) /\ SameEnds(l, n)
    BY <1>7, AlikeUpdates
  <2>2. Sheds(m, m) /\ SameEnds(m, m)
    BY DEF Sheds, SameEnds
  <2> QED
    BY <2>1, <2>2 DEF SameEnds
<1>9. /\ ~ SigDue(d, e) /\ ~ RevDue(e, d) /\ Counterpart(d, e) = k
      /\ e.commit["local"].height = k.height
  BY <1>2, <1>4, NearParts
<1>10. /\ SigDue(f, e) /\ ~ RevDue(e, f) /\ Counterpart(f, e) = k
       /\ (RevDue(f, e) <=> RevDue(d, e)) /\ (SigDue(e, f) <=> SigDue(e, d))
       /\ Counterpart(e, f) = Counterpart(e, d)
       /\ Base(e, f) = d.commit["remote"] /\ Base(e, d) = d.commit["remote"]
  <2>1. SigDue(f, e)
    BY <1>3, <1>4, <1>9 DEF SigDue, k
  <2>2. /\ (RevDue(f, e) <=> RevDue(d, e)) /\ (SigDue(e, f) <=> SigDue(e, d))
    BY <1>3 DEF RevDue, SigDue
  <2>3. ~ RevDue(e, f)
    <3>1. k.height \in Nat
      BY <1>2, DiskParts, CommitParts DEF k
    <3> QED
      BY <1>3, <1>9, <3>1 DEF RevDue, k
  <2> QED
    BY <1>3, <1>9, <2>1, <2>2, <2>3 DEF Counterpart, Base, k
<1>11. /\ d.commit["local"].messageIndex["remote"] = Base(f, e).messageIndex["local"]
       /\ d.commit["local"].htlcIndex["remote"] = Base(f, e).htlcIndex["local"]
  <2>1. Base(f, e) = Counterpart(e, d)
    <3>1. CASE RevDue(d, e)
      <4>1. ~ SigDue(e, d)
        BY <1>2, <3>1, NearParts
      <4> QED
        BY <1>3, <1>10, <3>1, <4>1 DEF Base, Counterpart
    <3>2. CASE ~ RevDue(d, e)
      <4>1. HasUnacked(e) => SigDue(e, d)
        BY <1>2, <3>2, NearParts
      <4> QED
        BY <1>10, <3>2, <4>1 DEF Base, Counterpart, RemoteTip
    <3> QED
      BY <3>1, <3>2
  <2>2. Mirrors(Counterpart(e, d), d.commit["local"])
    BY <1>1 DEF ChainsAgree
  <2> QED
    BY <1>2, <2>1, <2>2 DEF Mirrors, Opposite
<1>12. ChainsAgree(f, e)
  <2>1. Mirrors(k, e.commit["local"])
    BY <1>1, <1>9 DEF ChainsAgree
  <2> QED
    BY <1>3, <1>5, <1>10, <1>11, <2>1 DEF ChainsAgree, o
<1>13. ChainsAgree(e, f)
  BY <1>1, <1>3, <1>10 DEF ChainsAgree
<1>14. NextOnDisk(f, n)
  <2>1. Tip(d, "remote") = k
    BY <1>4 DEF Tip
  <2>2. \A c \in Chain : k.messageIndex[c] <= SignIndexes(d, l)[c]
    <3>1. /\ RemoteTip(d).messageIndex["local"] <= l["local"].logIndex
          /\ RemoteTip(d).messageIndex["remote"] <= d.commit["local"].messageIndex["remote"]
      BY <1>2 DEF LogInv, Ordered, Bounded
    <3> QED
      BY <1>4, <3>1 DEF SignIndexes, Chain
  <2>3. OneSideFees(l)
    BY <1>1, FeesOneSide
  <2>4. Follows(k, [c \in Chain |-> Window(l, k, SignIndexes(d, l), c)], o)
    <3>1. \A c \in Chain : Tip(d, "remote").messageIndex[c] <= SignIndexes(d, l)[c]
      BY <2>1, <2>2
    <3> DEFINE counters == o.htlcIndex
    <3>2. o = fetchCommitmentView(l, k, "remote", SignIndexes(d, l), counters)
      BY <1>5
    <3> HIDE DEF counters
    <3>3. Follows(Tip(d, "remote"),
                  [c \in Chain |-> Window(l, Tip(d, "remote"), SignIndexes(d, l), c)],
                  fetchCommitmentView(l, Tip(d, "remote"), "remote", SignIndexes(d, l), counters))
      BY <1>2, <1>5, <1>6, <2>3, <3>1, ViewFollows
    <3> QED
      BY <2>1, <3>2, <3>3
  <2>5. \A c \in Chain : Window(n, k, SignIndexes(d, l), c) = Window(l, k, SignIndexes(d, l), c)
    BY <1>8 DEF Window
  <2>6. Follows(k, [c \in Chain |-> Window(n, k, o.messageIndex, c)], o)
    <3>1. [c \in Chain |-> Window(n, k, o.messageIndex, c)]
              = [c \in Chain |-> Window(l, k, SignIndexes(d, l), c)]
      BY <1>5, <2>5
    <3> QED
      BY <2>4, <3>1
  <2> QED
    BY <1>3, <2>6 DEF NextOnDisk, k, o
<1>15. LogsAgree(n, m) /\ LogsAgree(m, n)
  BY <1>1, <1>8, ShedsAgree
<1>16. Conveys(s, f, n, e, m, w \o <<x>>)
  <2>1. Kinds(w, "sig") = {}
    BY <1>1, <1>9, NoneUnderWay DEF Conveys, Sigs
  <2>2. x.kind = "sig" /\ Sigs(s, f, e) = {x}
    BY <1>3, <1>10 DEF x, SignedMsg, CommitSig, Sigs
  <2>3. Carries(w \o <<x>>, m["remote"].logIndex, l["local"].logIndex, UpdatesOf(l, "local"),
                {x}, l["local"].logIndex, Revs(d, e), FALSE)
    BY <1>1, <2>1, <2>2, SigSent DEF Conveys
  <2>4. Revs(f, e) = Revs(d, e) /\ f.lastWasRevoke = FALSE
    <3>1. f.lastWasRevoke = FALSE
      BY <1>2, SignedType
    <3> QED
      BY <1>10, <3>1 DEF Revs
  <2> QED
    BY <1>2, <1>4, <1>5, <1>8, <2>2, <2>3, <2>4 DEF Conveys
<1>17. AtRest(e, m, d, l) => AtRest(e, m, f, n)
  BY <1>2, <1>3, <1>8 DEF AtRest
<1>18. Conveys(p, e, m, d, l, v) => Conveys(p, e, m, f, n, v)
  <2>1. Sigs(p, e, f) = Sigs(p, e, d) /\ Revs(e, f) = Revs(e, d)
    BY <1>9, <1>10 DEF Sigs, Revs
  <2> QED
    BY <1>2, <1>8, <2>1 DEF Conveys
<1>19. FeesOf(s, n) /\ InTurn(n)
  BY <1>1, <1>8, ShedsOwn
<1> QED
  BY <1>1, <1>12, <1>13, <1>14, <1>15, <1>16, <1>17, <1>18, <1>19 DEF Half, p, x

-----------------------------------------------------------------------------
(* A signature and a revocation are taken, and what is kept to send again. *)

\* What was sent last is kept with the bucket.
LEMMA LastSent ==
    ASSUME NEW d \in DiskType, NEW l \in LogsType
    PROVE  /\ ReceivedDisk(d, l).lastWasRevoke = TRUE
           /\ RevokedDisk(d, l).lastWasRevoke = d.lastWasRevoke
<1>1. d = [commit |-> d.commit, diff |-> d.diff,
           unsignedAckedUpdates |-> d.unsignedAckedUpdates,
           remoteUnsignedLocalUpdates |-> d.remoteUnsignedLocalUpdates,
           lastWasRevoke |-> d.lastWasRevoke, fwdPkgs |-> d.fwdPkgs]
  BY DiskFields
<1>2. \A new, acked : UpdateCommitment(d, new, acked).lastWasRevoke = TRUE
  BY <1>1 DEF UpdateCommitment
<1>3. \A p, u : AdvanceCommitChainTail(d, p, u).lastWasRevoke = d.lastWasRevoke
  BY <1>1 DEF AdvanceCommitChainTail
<1> QED
  BY <1>2, <1>3 DEF ReceivedDisk, RevokedDisk

\* Side s takes the signature of its peer and revokes.
LEMMA SignatureTaken ==
    ASSUME NEW s \in Side, NEW d, NEW l, NEW e, NEW m, NEW a, NEW b, NEW w, NEW v,
           Known(d, l, e, m, a, w), Known(e, m, d, l, b, v),
           Half(s, d, l, e, m, a, w), Half(Peer(s), e, m, d, l, b, v),
           a # "syncing", b # "syncing", v # << >>, Head(v).kind = "sig",
           NEW f, NEW n, f = ReceivedDisk(d, l), n = ReceivedLogs(d, l),
           NEW a2 \in {"ready", "signing"}
    PROVE  /\ ParentsFetched(l, fetchHTLCView(l, ReceiveIndexes(d, l)), "local")
           /\ Tx(s, ReceivedCommit(d, l)) = Head(v).tx
           /\ Half(s, f, n, e, m, a2, w \o <<RevokeAndAck(d.commit["local"].height)>>)
           /\ Half(Peer(s), e, m, f, n, b, Tail(v))
<1> DEFINE p == Peer(s)
           o == ReceivedCommit(d, l)
           x == RevokeAndAck(d.commit["local"].height)
<1>1. /\ p \in Side /\ p # s /\ Peer(p) = s
  BY Sides
<1>2. /\ Fits(d, l) /\ Fits(e, m) /\ IsSeq(v) /\ IsSeq(w)
      /\ FeesOf(s, l) /\ InTurn(l) /\ NextOnDisk(d, l) /\ ChainsAgree(d, e) /\ LogsAgree(l, m)
      /\ Conveys(s, d, l, e, m, w)
      /\ b # "failed" /\ FeesOf(p, m) /\ InTurn(m) /\ NextOnDisk(e, m)
      /\ ChainsAgree(e, d) /\ LogsAgree(m, l) /\ Conveys(p, e, m, d, l, v)
      /\ RevDue(e, d) => Kinds(v, "revoke") # {}
  BY DEF Half, Known
<1>3. Agree(d, l, e, m) /\ Agree(e, m, d, l)
  BY <1>2 DEF Agree, Known
<1>4. /\ d \in DiskType /\ l \in LogsType /\ LogInv(d, l)
      /\ e \in DiskType /\ m \in LogsType /\ LogInv(e, m)
      /\ "local" \in Chain /\ "remote" \in Chain
  BY <1>2 DEF Fits, Chain
<1>5. /\ Head(v) \in Sigs(p, e, d) /\ l["remote"].logIndex = RemoteTip(e).messageIndex["local"]
      /\ Kinds(Tail(v), "sig") = {}
      /\ Kinds(v, "revoke") # {} => e.lastWasRevoke
      /\ Carries(Tail(v), l["remote"].logIndex, m["local"].logIndex, UpdatesOf(m, "local"),
                 Sigs(p, e, d), RemoteTip(e).messageIndex["local"], Revs(e, d), e.lastWasRevoke)
  BY <1>2, Taken DEF Conveys
<1>6. SigDue(e, d) /\ Head(v) = CommitSig(Tx(p, e.diff.commit))
  BY <1>5 DEF Sigs
<1>7. Base(e, d) = d.commit["remote"] /\ RemoteTip(e) = e.diff.commit
  BY <1>2, <1>5, <1>6 DEF Base, SigDue, RemoteTip
<1>8. Receiving(e, m, d, l)
  BY <1>2, <1>3, <1>5, <1>6, <1>7 DEF Receiving, ChainsAgree
<1>9. ParentsFetched(l, fetchHTLCView(l, ReceiveIndexes(d, l)), "local")
  BY <1>2, <1>8, ParentsReceived
<1>10. Mirrors(e.diff.commit, o)
  <2>1. OneSideFees(l)
    BY <1>2, FeesOneSide
  <2> QED
    BY <1>2, <1>8, <2>1, ReceivedMirrors
<1>11. Tx(s, o) = Head(v).tx
  <2>1. Tx(Peer(p), o) = Tx(p, e.diff.commit)
    <3> HIDE DEF o, p
    <3> QED
      BY <1>1, <1>10, SameTx
  <2> QED
    BY <1>1, <1>6, <2>1 DEF CommitSig
<1>12. /\ f.commit["local"] = o /\ f.commit["remote"] = d.commit["remote"] /\ f.diff = d.diff
       /\ o.height = d.commit["local"].height + 1 /\ f.lastWasRevoke = TRUE
       /\ RemoteTip(f) = RemoteTip(d) /\ (HasUnacked(f) <=> HasUnacked(d))
  <2>1. /\ f.commit = [local |-> o, remote |-> d.commit["remote"]] /\ f.diff = d.diff
        /\ o.height = d.commit["local"].height + 1
    BY <1>4, ReceivedType
  <2>2. f.lastWasRevoke = TRUE
    BY <1>4, LastSent
  <2> HIDE DEF o
  <2> QED
    BY <2>1, <2>2 DEF RemoteTip, HasUnacked
<1>13. Alike(l, n)
  <2>1. /\ d.commit["local"] \in CommitmentType /\ Distinct(l) /\ Stamped(d, l)
        /\ ReceiveIndexes(d, l) \in Heights
    BY <1>4, DiskParts, ReceivedType DEF LogInv
  <2> QED
    BY <1>4, <1>9, <2>1, EvaluatedAlike DEF ReceivedLogs
<1> HIDE DEF o, p, x
<1>14. /\ \A c \in Chain : UpdatesOf(n, c) = UpdatesOf(l, c)
       /\ Sheds(l, n) /\ SameEnds(l, n) /\ Sheds(m, m) /\ SameEnds(m, m)
       /\ \A c \in Chain : n[c].logIndex = l[c].logIndex
  <2>1. (\A c \in Chain : UpdatesOf(n, c) = UpdatesOf(l, c)) /\ Sheds(l, n) /\ SameEnds(l, n)
    BY <1>13, AlikeUpdates
  <2>2. Sheds(m, m) /\ SameEnds(m, m)
    BY DEF Sheds, SameEnds
  <2> QED
    BY <2>1, <2>2 DEF SameEnds
<1>15. d.commit["local"].height \in Nat /\ d.commit["local"].height = e.commit["remote"].height
       /\ HasUnacked(e)
  BY <1>4, <1>6, DiskParts, CommitParts DEF SigDue
<1>16. /\ ~ SigDue(e, f) /\ RevDue(f, e) /\ ~ RevDue(d, e)
       /\ (SigDue(f, e) <=> SigDue(d, e)) /\ (RevDue(e, f) <=> RevDue(e, d))
       /\ Counterpart(f, e) = Counterpart(d, e) /\ Counterpart(e, f) = e.diff.commit
       /\ Base(f, e) = e.commit["remote"] /\ Base(d, e) = e.commit["remote"]
  <2>1. /\ ~ SigDue(e, f) /\ RevDue(f, e) /\ ~ RevDue(d, e)
    BY <1>12, <1>15 DEF SigDue, RevDue
  <2>2. (SigDue(f, e) <=> SigDue(d, e)) /\ (RevDue(e, f) <=> RevDue(e, d))
    BY <1>12 DEF SigDue, RevDue
  <2> QED
    BY <1>7, <1>12, <2>1, <2>2 DEF Counterpart, Base
<1>17. ChainsAgree(e, f)
  BY <1>10, <1>12, <1>16 DEF ChainsAgree
<1>18. ChainsAgree(f, e)
  BY <1>2, <1>12, <1>16 DEF ChainsAgree
<1>19. NextOnDisk(f, n)
  <2> SUFFICES ASSUME HasUnacked(f)
               PROVE  Follows(f.commit["remote"],
                        [c \in Chain |-> Window(n, f.commit["remote"], f.diff.commit.messageIndex, c)],
                        f.diff.commit)
    BY DEF NextOnDisk
  <2>1. \A k, u : \A c \in Chain : Window(n, k, u, c) = Window(l, k, u, c)
    BY <1>14 DEF Window
  <2>2. \A k, u : [c \in Chain |-> Window(n, k, u, c)] = [c \in Chain |-> Window(l, k, u, c)]
    BY <2>1
  <2> QED
    BY <1>2, <1>12, <2>2 DEF NextOnDisk
<1>20. LogsAgree(n, m) /\ LogsAgree(m, n)
  BY <1>2, <1>14, ShedsAgree
<1>21. Conveys(s, f, n, e, m, w \o <<x>>)
  <2>1. Kinds(w, "revoke") = {}
    BY <1>2, <1>16, NoneUnderWay DEF Conveys, Revs
  <2>2. x.kind = "revoke" /\ Revs(f, e) = {x}
    BY <1>15, <1>16 DEF x, RevokeAndAck, Revs
  <2>3. Carries(w \o <<x>>, m["remote"].logIndex, l["local"].logIndex, UpdatesOf(l, "local"),
                Sigs(s, d, e), RemoteTip(d).messageIndex["local"], {x}, TRUE)
    BY <1>2, <2>1, <2>2, RevocationSent DEF Conveys
  <2>4. Sigs(s, f, e) = Sigs(s, d, e)
    BY <1>12, <1>16 DEF Sigs
  <2> QED
    BY <1>4, <1>12, <1>14, <2>2, <2>3, <2>4 DEF Conveys
<1>22. Conveys(p, e, m, f, n, Tail(v))
  <2>1. IsSeq(Tail(v))
    BY <1>2, SeqTail
  <2>2. Carries(Tail(v), l["remote"].logIndex, m["local"].logIndex, UpdatesOf(m, "local"),
                Sigs(p, e, f), RemoteTip(e).messageIndex["local"], Revs(e, d), e.lastWasRevoke)
    BY <1>5, <2>1, Unsigned
  <2>3. Revs(e, f) = Revs(e, d)
    BY <1>12, <1>16 DEF Revs
  <2> QED
    BY <1>4, <1>14, <2>2, <2>3 DEF Conveys
<1>23. FeesOf(s, n) /\ InTurn(n)
  BY <1>2, <1>14, ShedsOwn
<1> QED
  BY <1>2, <1>9, <1>11, <1>17, <1>18, <1>19, <1>20, <1>21, <1>22, <1>23 DEF Half, p, x, o

\* Side s takes the revocation of its peer.
LEMMA RevocationTaken ==
    ASSUME NEW s \in Side, NEW d, NEW l, NEW e, NEW m, NEW a, NEW b, NEW w, NEW v,
           Known(d, l, e, m, a, w), Known(e, m, d, l, b, v),
           Half(s, d, l, e, m, a, w), Half(Peer(s), e, m, d, l, b, v),
           a # "syncing", b # "syncing", v # << >>, Head(v).kind = "revoke",
           NEW f, NEW n, f = RevokedDisk(d, l), n = RevokedLogs(d, l),
           NEW a2 \in {"ready", "signing"}
    PROVE  /\ HasUnacked(d) /\ Head(v).height = d.commit["remote"].height
           /\ Half(s, f, n, e, m, a2, w)
           /\ Half(Peer(s), e, m, f, n, b, Tail(v))
<1> DEFINE p == Peer(s)
<1>1. /\ p \in Side /\ p # s /\ Peer(p) = s
  BY Sides
<1>2. /\ Fits(d, l) /\ Fits(e, m) /\ IsSeq(v) /\ IsSeq(w)
      /\ FeesOf(s, l) /\ InTurn(l) /\ NextOnDisk(d, l) /\ ChainsAgree(d, e) /\ LogsAgree(l, m)
      /\ Conveys(s, d, l, e, m, w)
      /\ b # "failed" /\ FeesOf(p, m) /\ InTurn(m) /\ NextOnDisk(e, m)
      /\ ChainsAgree(e, d) /\ LogsAgree(m, l) /\ Conveys(p, e, m, d, l, v)
      /\ SigDue(e, d) => Kinds(v, "sig") # {}
  BY DEF Half, Known
<1>3. Agree(d, l, e, m) /\ Agree(e, m, d, l)
  BY <1>2 DEF Agree, Known
<1>4. /\ d \in DiskType /\ l \in LogsType /\ LogInv(d, l)
      /\ e \in DiskType /\ m \in LogsType /\ LogInv(e, m)
      /\ "local" \in Chain /\ "remote" \in Chain
  BY <1>2 DEF Fits, Chain
<1> HIDE DEF p
<1>5. /\ Head(v) \in Revs(e, d) /\ Kinds(Tail(v), "revoke") = {}
      /\ Kinds(v, "sig") # {} => ~ e.lastWasRevoke
      /\ Carries(Tail(v), l["remote"].logIndex, m["local"].logIndex, UpdatesOf(m, "local"),
                 Sigs(p, e, d), RemoteTip(e).messageIndex["local"], Revs(e, d), e.lastWasRevoke)
  BY <1>2, Taken DEF Conveys
<1>6. /\ RevDue(e, d) /\ HasUnacked(d) /\ Head(v).height = d.commit["remote"].height
      /\ e.commit["local"].height = d.commit["remote"].height + 1
      /\ d.commit["remote"].height \in Nat
  BY <1>4, <1>5, DiskParts, CommitParts DEF Revs, RevDue, RevokeAndAck
<1>7. /\ f \in DiskType /\ n \in LogsType /\ LogInv(f, n)
      /\ f.commit["local"] = d.commit["local"] /\ f.commit["remote"] = RemoteTip(d)
      /\ ~ HasUnacked(f) /\ RemoteTip(f) = RemoteTip(d) /\ f.lastWasRevoke = d.lastWasRevoke
  BY <1>4, <1>6, RevokedType, Revoked, LastSent
<1>8. /\ Sheds(l, n) /\ SameEnds(l, n) /\ Sheds(m, m) /\ SameEnds(m, m)
      /\ \A c \in Chain : n[c].logIndex = l[c].logIndex
  <2>1. Sheds(l, n) /\ SameEnds(l, n)
    BY <1>4, RevokedSheds
  <2>2. Sheds(m, m) /\ SameEnds(m, m)
    BY DEF Sheds, SameEnds
  <2> QED
    BY <2>1, <2>2 DEF SameEnds
<1>9. /\ ~ SigDue(f, e) /\ ~ SigDue(d, e) /\ ~ RevDue(e, f)
      /\ (SigDue(e, f) <=> SigDue(e, d)) /\ (RevDue(f, e) <=> RevDue(d, e))
      /\ Counterpart(f, e) = Counterpart(d, e) /\ Counterpart(e, f) = Counterpart(e, d)
      /\ Base(e, f) = RemoteTip(d)
      /\ SigDue(e, d) => Base(e, d) = RemoteTip(d)
  <2>1. ~ SigDue(f, e) /\ ~ RevDue(e, f)
    BY <1>7 DEF SigDue, RevDue
  <2>2. ~ SigDue(d, e)
    BY <1>6 DEF SigDue
  <2>3. (SigDue(e, f) <=> SigDue(e, d)) /\ (RevDue(f, e) <=> RevDue(d, e))
    BY <1>7 DEF SigDue, RevDue
  <2>4. SigDue(e, d) => Base(e, d) = RemoteTip(d)
    BY <1>2, <1>5, <1>6 DEF Base
  <2> QED
    BY <1>7, <2>1, <2>2, <2>3, <2>4 DEF Counterpart, Base
<1>10. ChainsAgree(f, e)
  BY <1>2, <1>9 DEF ChainsAgree
<1>11. ChainsAgree(e, f)
  BY <1>2, <1>7, <1>9 DEF ChainsAgree
<1>12. LogsAgree(n, m) /\ LogsAgree(m, n)
  BY <1>2, <1>8, ShedsAgree
<1>13. NextOnDisk(f, n)
  BY <1>7 DEF NextOnDisk
<1>14. Conveys(s, f, n, e, m, w)
  <2>1. /\ d.commit["local"].messageIndex["local"] \in Nat /\ m["remote"].logIndex \in Nat
        /\ d.commit["local"].messageIndex["local"] <= m["remote"].logIndex
    BY <1>2, <1>3, <1>4, Reached
  <2>2. ASSUME NEW u \in UpdatesOf(l, "local"),
               m["remote"].logIndex <= u.logIndex, u.logIndex < l["local"].logIndex
        PROVE  u \in UpdatesOf(n, "local")
    <3>1. u.logIndex \in Nat
      BY <1>4, UpdateParts
    <3>2. d.commit["local"].messageIndex["local"] <= u.logIndex
      BY <2>1, <2>2, <3>1
    <3>3. PICK y \in UpdatesOf(n, "local") : y.logIndex = u.logIndex
      BY <1>4, <1>7, <1>8, <2>2, <3>1, <3>2, UpdateAt
    <3>4. y \in UpdatesOf(l, "local")
      BY <1>4, <1>8 DEF Sheds
    <3> QED
      BY <1>4, <3>3, <3>4, UpdateAt
  <2>3. Carries(w, m["remote"].logIndex, l["local"].logIndex, UpdatesOf(n, "local"),
                Sigs(s, d, e), RemoteTip(d).messageIndex["local"], Revs(d, e), d.lastWasRevoke)
    BY <1>2, <2>2, CarriesKept DEF Conveys
  <2>4. Sigs(s, f, e) = Sigs(s, d, e) /\ Revs(f, e) = Revs(d, e)
    BY <1>9 DEF Sigs, Revs
  <2> QED
    BY <1>4, <1>7, <1>8, <2>3, <2>4 DEF Conveys
<1>15. Conveys(p, e, m, f, n, Tail(v))
  <2>1. IsSeq(Tail(v))
    BY <1>2, SeqTail
  <2>2. Carries(Tail(v), l["remote"].logIndex, m["local"].logIndex, UpdatesOf(m, "local"),
                Sigs(p, e, d), RemoteTip(e).messageIndex["local"], Revs(e, f), e.lastWasRevoke)
    BY <1>5, <2>1, Unrevoked
  <2>3. Sigs(p, e, f) = Sigs(p, e, d)
    BY <1>9 DEF Sigs
  <2> QED
    BY <1>4, <1>8, <2>2, <2>3 DEF Conveys
<1>16. FeesOf(s, n) /\ InTurn(n)
  BY <1>2, <1>8, ShedsOwn
<1> QED
  BY <1>2, <1>6, <1>10, <1>11, <1>12, <1>13, <1>14, <1>15, <1>16 DEF Half, p

-----------------------------------------------------------------------------
(* Re-establishment: what each side sends again is what the other lacks.   *)

\* Queues can be joined in any order.
LEMMA JoinAny ==
    ASSUME NEW u, NEW v, NEW w, IsSeq(u), IsSeq(v), IsSeq(w)
    PROVE  (u \o v) \o w = u \o (v \o w)
<1> DEFINE T == Msgs(u) \cup Msgs(v) \cup Msgs(w)
<1>1. u \in Seq(Msgs(u)) /\ v \in Seq(Msgs(v)) /\ w \in Seq(Msgs(w))
  BY DEF IsSeq
<1>2. Msgs(u) \subseteq T /\ Msgs(v) \subseteq T /\ Msgs(w) \subseteq T
  OBVIOUS
<1> HIDE DEF T
<1>3. u \in Seq(T) /\ v \in Seq(T) /\ w \in Seq(T)
  BY <1>1, <1>2
<1> QED
  BY <1>3, ConcatAssociative

\* The empty queue changes nothing.
LEMMA JoinNone ==
    ASSUME NEW w, IsSeq(w)
    PROVE  w \o << >> = w /\ << >> \o w = w
<1>1. w \in Seq(Msgs(w))
  BY DEF IsSeq
<1> QED
  BY <1>1, ConcatEmptySeq

\* What ChannelReestablish tells is what is due.
LEMMA SyncTells ==
    ASSUME NEW d, NEW l, NEW e, NEW m, Fits(d, l), Fits(e, m), Near(d, e), Near(e, d),
           NEW x, x = ChanSyncMsg(e)
    PROVE  /\ Syncable(d, x) /\ x.tail = e.commit["remote"].height
           /\ OweRevocation(d, x) <=> RevDue(d, e)
           /\ OweCommit(d, x) <=> SigDue(d, e)
<1>1. x.next = e.commit["local"].height + 1 /\ x.tail = e.commit["remote"].height
  BY DEF ChanSyncMsg, ChannelReestablish
<1>2. /\ d.commit["local"].height \in Nat /\ d.commit["remote"].height \in Nat
      /\ RemoteTip(d).height = IF HasUnacked(d) THEN d.commit["remote"].height + 1
                               ELSE d.commit["remote"].height
      /\ e.commit["local"].height \in Nat /\ e.commit["remote"].height \in Nat
      /\ RemoteTip(e).height = IF HasUnacked(e) THEN e.commit["remote"].height + 1
                               ELSE e.commit["remote"].height
  BY HeightsAre DEF Fits
<1>3. /\ d.commit["remote"].height <= e.commit["local"].height
      /\ e.commit["local"].height <= RemoteTip(d).height
      /\ e.commit["remote"].height <= d.commit["local"].height
      /\ d.commit["local"].height <= RemoteTip(e).height
  BY DEF Near
<1>4. OweRevocation(d, x) <=> RevDue(d, e)
  BY <1>1, <1>2, <1>3 DEF OweRevocation, RevDue
<1>5. OweCommit(d, x) <=> SigDue(d, e)
  BY <1>1, <1>2, <1>3 DEF OweCommit, SigDue
<1>6. Syncable(d, x)
  BY <1>1, <1>2, <1>3 DEF Syncable
<1> QED
  BY <1>1, <1>4, <1>5, <1>6

\* What is sent again are the updates between the commitments.
LEMMA Resent ==
    ASSUME NEW d, NEW l, Fits(d, l), HasUnacked(d),
           l["local"].logIndex = RemoteTip(d).messageIndex["local"],
           NEW u, u = UpdateMsgs(d.diff.updates)
    PROVE  LET a == d.commit["remote"].messageIndex["local"]
           IN  /\ IsSeq(u) /\ a \in Nat /\ Len(u) \in Nat /\ a + Len(u) = l["local"].logIndex
               /\ \A x \in Msgs(u) : x.kind = "update"
               /\ \A i \in 1 .. Len(u) : \E y \in UpdatesOf(l, "local") :
                     y.logIndex = a + i - 1 /\ u[i] = Update(y.type, y.id)
<1> DEFINE a == d.commit["remote"].messageIndex["local"]
           n == RemoteTip(d).messageIndex["local"] - a
<1>1. d \in DiskType /\ l \in LogsType /\ LogInv(d, l)
      /\ "local" \in Chain /\ "remote" \in Chain
  BY DEF Fits, Chain
<1>2. /\ n \in Nat /\ Len(u) = n
      /\ \A i \in 1 .. n : \E y \in d.diff.updates :
            y.logIndex = a + i - 1 /\ u[i] = Update(y.type, y.id)
      /\ \A x \in Msgs(u) : x.kind = "update"
  BY <1>1, ResentAre
<1>3. a \in Nat /\ l["local"].logIndex \in Nat
  BY <1>1, DiskParts, CommitParts, EntriesOf
<1>4. IsSeq(u)
  <2>1. IsFiniteSet(d.diff.updates)
    BY <1>1, DiskParts DEF HasUnacked
  <2> QED
    BY <2>1, ResentUpdates
<1>5. d.diff.updates \subseteq UpdatesOf(l, "local")
  BY <1>1 DEF LogInv, Stored, LogUpdates, UpdatesOf
<1> HIDE DEF a
<1>6. \A i \in 1 .. Len(u) : \E y \in UpdatesOf(l, "local") :
          y.logIndex = a + i - 1 /\ u[i] = Update(y.type, y.id)
  BY <1>2, <1>5
<1>7. a + Len(u) = l["local"].logIndex
  BY <1>2, <1>3
<1> QED
  BY <1>2, <1>3, <1>4, <1>6, <1>7 DEF a

\* What a side answers, without a signature that is new.
Owed(d, x) == IF OweRevocation(d, x) THEN <<RevokeAndAck(x.tail)>> ELSE << >>
Again(s, d, x) ==
    IF OweCommit(d, x)
      THEN UpdateMsgs(d.diff.updates) \o <<CommitSig(Tx(s, d.diff.commit))>>
    ELSE << >>

\* The answer brings the peer what is due, in the order of what was sent last.
LEMMA AnswerConveys ==
    ASSUME NEW s \in Side, NEW d, NEW l, NEW e, NEW m, NEW w,
           Fits(d, l), Fits(e, m), Agree(d, l, e, m), Near(e, d), IsSeq(w),
           AtRest(d, l, e, m), \A x \in Msgs(w) : x.kind = "reestablish",
           NEW x, x = ChanSyncMsg(e),
           NEW owed, owed = Owed(d, x), NEW again, again = Again(s, d, x)
    PROVE  /\ Conveys(s, d, l, e, m, w \o InOrder(d, owed, again))
           /\ IsSeq(owed) /\ IsSeq(again) /\ IsSeq(w \o InOrder(d, owed, again))
<1> DEFINE a == m["remote"].logIndex
           L == l["local"].logIndex
           U == UpdatesOf(l, "local")
           R == RevokeAndAck(x.tail)
           S == CommitSig(Tx(s, d.diff.commit))
           u == UpdateMsgs(d.diff.updates)
           rev == d.lastWasRevoke
<1>1. /\ Near(d, e) /\ "local" \in Chain /\ "remote" \in Chain
      /\ l["local"].logIndex = RemoteTip(d).messageIndex["local"]
      /\ m["remote"].logIndex = e.commit["local"].messageIndex["remote"]
  BY DEF Agree, AtRest, Chain
<1>2. /\ x.tail = e.commit["remote"].height
      /\ OweRevocation(d, x) <=> RevDue(d, e)
      /\ OweCommit(d, x) <=> SigDue(d, e)
  BY <1>1, SyncTells
<1>3. /\ a \in Nat /\ a = Counterpart(d, e).messageIndex["local"]
      /\ L = RemoteTip(d).messageIndex["local"]
  BY <1>1, Reached
<1>4. Revs(d, e) = IF RevDue(d, e) THEN {R} ELSE {}
  BY <1>2 DEF Revs
<1>5. Sigs(s, d, e) = IF SigDue(d, e) THEN {S} ELSE {}
  BY DEF Sigs
<1>6. R.kind = "revoke" /\ S.kind = "sig"
  BY DEF RevokeAndAck, CommitSig
<1>7. /\ IsSeq(<<R>>) /\ Msgs(<<R>>) = {R} /\ IsSeq(<<S>>) /\ Msgs(<<S>>) = {S}
      /\ IsSeq(<< >>) /\ Msgs(<< >>) = {}
  BY SeqShort
<1>8. \A sigs, n, revs, r : Carries(w, a, a, U, sigs, n, revs, r)
  <2>1. \A y \in Msgs(w) : y.kind \notin {"update", "sig", "revoke"}
    OBVIOUS
  <2> HIDE DEF a, U
  <2> QED
    BY <1>3, <2>1, CarriesNothing
<1>9. SigDue(d, e) =>
        /\ IsSeq(u) /\ Len(u) \in Nat /\ a + Len(u) = L
        /\ \A y \in Msgs(u) : y.kind = "update"
        /\ \A i \in 1 .. Len(u) : \E y \in U : y.logIndex = a + i - 1 /\ u[i] = Update(y.type, y.id)
  <2> SUFFICES ASSUME SigDue(d, e)
               PROVE  /\ IsSeq(u) /\ Len(u) \in Nat /\ a + Len(u) = L
                      /\ \A y \in Msgs(u) : y.kind = "update"
                      /\ \A i \in 1 .. Len(u) : \E y \in U :
                            y.logIndex = a + i - 1 /\ u[i] = Update(y.type, y.id)
    OBVIOUS
  <2>1. HasUnacked(d) /\ a = d.commit["remote"].messageIndex["local"]
    BY <1>3 DEF SigDue, Counterpart
  <2>2. PICK z : z = UpdateMsgs(d.diff.updates)
    OBVIOUS
  <2>3. LET b == d.commit["remote"].messageIndex["local"]
        IN  /\ IsSeq(z) /\ b \in Nat /\ Len(z) \in Nat /\ b + Len(z) = l["local"].logIndex
            /\ \A y \in Msgs(z) : y.kind = "update"
            /\ \A i \in 1 .. Len(z) : \E y \in UpdatesOf(l, "local") :
                  y.logIndex = b + i - 1 /\ z[i] = Update(y.type, y.id)
    BY <1>1, <2>1, <2>2, Resent
  <2>4. z = u
    BY <2>2
  <2> HIDE DEF a
  <2> QED
    BY <2>1, <2>3, <2>4
<1>10. ~ SigDue(d, e) => a = L
  BY <1>3 DEF Counterpart
<1>11. /\ owed = IF RevDue(d, e) THEN <<R>> ELSE << >>
       /\ again = IF SigDue(d, e) THEN u \o <<S>> ELSE << >>
  BY <1>2 DEF Owed, Again
<1> HIDE DEF a, L, U, R, S, u
<1>12. /\ IsSeq(owed) /\ IsSeq(again)
       /\ Kinds(owed, "sig") = {} /\ Kinds(again, "revoke") = {}
  <2>1. IsSeq(owed) /\ Kinds(owed, "sig") = {}
    BY <1>6, <1>7, <1>11 DEF Kinds
  <2>2. CASE SigDue(d, e)
    <3>1. IsSeq(u \o <<S>>) /\ Msgs(u \o <<S>>) = Msgs(u) \cup {S}
      BY <1>7, <1>9, <2>2, SeqConcat
    <3> QED
      BY <1>6, <1>9, <1>11, <2>1, <2>2, <3>1 DEF Kinds
  <2>3. CASE ~ SigDue(d, e)
    BY <1>7, <1>11, <2>1, <2>3 DEF Kinds
  <2> QED
    BY <2>2, <2>3
  \* The updates and the signature on top of what is under way.
<1>13. ASSUME NEW v, IsSeq(v), Kinds(v, "sig") = {}, NEW revs, NEW r,
              \A sigs, n : Carries(v, a, a, U, sigs, n, revs, r),
              r = FALSE \/ Kinds(v, "revoke") = {}
       PROVE  Carries(v \o again, a, L, U, Sigs(s, d, e), L, revs, r)
  <2>1. CASE SigDue(d, e)
    <3>1. Carries(v, a, a, U, {}, L, revs, r)
      BY <1>13
    <3>2. Carries(v \o u, a, L, U, {}, L, revs, r)
      BY <1>9, <1>13, <2>1, <3>1, UpdatesSent
    <3>3. IsSeq(v \o u) /\ Msgs(v \o u) = Msgs(v) \cup Msgs(u)
      BY <1>9, <1>13, <2>1, SeqConcat
    <3>4. Kinds(v \o u, "sig") = {} /\ (Kinds(v, "revoke") = {} => Kinds(v \o u, "revoke") = {})
      BY <1>9, <1>13, <2>1, <3>3 DEF Kinds
    <3>5. Carries((v \o u) \o <<S>>, a, L, U, {S}, L, revs, FALSE)
      BY <1>6, <3>2, <3>3, <3>4, SigSent
    <3>6. (v \o u) \o <<S>> = v \o again
      <4>1. PICK z : z = <<S>>
        OBVIOUS
      <4>2. IsSeq(v) /\ IsSeq(u) /\ IsSeq(z)
        BY <1>7, <1>9, <1>13, <2>1, <4>1
      <4>3. (v \o u) \o z = v \o (u \o z)
        BY ONLY <4>2, JoinAny
      <4> QED
        BY <1>11, <2>1, <4>1, <4>3
    <3>7. CASE r = FALSE
      BY <1>5, <2>1, <3>5, <3>6, <3>7
    <3>8. CASE Kinds(v, "revoke") = {}
      <4>1. IsSeq((v \o u) \o <<S>>) /\ Msgs((v \o u) \o <<S>>) = Msgs(v \o u) \cup {S}
        BY <1>7, <3>3, SeqConcat
      <4>2. Kinds((v \o u) \o <<S>>, "revoke") = {}
        BY <1>6, <3>4, <3>8, <4>1 DEF Kinds
      <4>3. Carries((v \o u) \o <<S>>, a, L, U, {S}, L, revs, r)
        BY <3>5, <4>1, <4>2, Unrevoked
      <4> QED
        BY <1>5, <2>1, <3>6, <4>3
    <3> QED
      BY <1>13, <3>7, <3>8
  <2>2. CASE ~ SigDue(d, e)
    <3>1. v \o again = v
      BY <1>11, <1>13, <2>2, JoinNone
    <3> QED
      BY <1>5, <1>10, <1>13, <2>2, <3>1
  <2> QED
    BY <2>1, <2>2
  \* The revocation on top of what is under way.
<1>14. ASSUME NEW v, IsSeq(v), Kinds(v, "revoke") = {}, NEW b, NEW sigs, NEW n, NEW r,
              Carries(v, a, b, U, sigs, n, {}, r), r = TRUE \/ Kinds(v, "sig") = {}
       PROVE  Carries(v \o owed, a, b, U, sigs, n, Revs(d, e), r)
  <2>1. CASE RevDue(d, e)
    <3>1. Carries(v \o <<R>>, a, b, U, sigs, n, {R}, TRUE)
      BY <1>6, <1>14, RevocationSent
    <3>2. CASE r = TRUE
      BY <1>4, <1>11, <2>1, <3>1, <3>2
    <3>3. CASE Kinds(v, "sig") = {}
      <4>1. IsSeq(v \o <<R>>) /\ Msgs(v \o <<R>>) = Msgs(v) \cup {R}
        <5>1. IsSeq(<<R>>) /\ Msgs(<<R>>) = {R} /\ IsSeq(v)
          BY <1>7, <1>14
        <5> QED
          BY ONLY <5>1, SeqConcat
      <4>2. Kinds(v \o <<R>>, "sig") = {}
        BY <1>6, <3>3, <4>1 DEF Kinds
      <4>3. Carries(v \o <<R>>, a, b, U, sigs, n, {R}, r)
        BY <3>1, <4>1, <4>2, Unsigned
      <4> QED
        BY <1>4, <1>11, <2>1, <4>3
    <3> QED
      BY <1>14, <3>2, <3>3
  <2>2. CASE ~ RevDue(d, e)
    <3>1. v \o owed = v
      BY <1>11, <1>14, <2>2, JoinNone
    <3> QED
      BY <1>4, <1>14, <2>2, <3>1
  <2> QED
    BY <2>1, <2>2
<1>15. Kinds(w, "sig") = {} /\ Kinds(w, "revoke") = {}
  BY DEF Kinds
<1>18. rev \in BOOLEAN
  BY DiskParts DEF Fits
<1> HIDE DEF rev
<1>16. CASE rev
  <2>1. /\ Carries(w \o again, a, L, U, Sigs(s, d, e), L, {}, TRUE)
        /\ IsSeq(w \o again) /\ Msgs(w \o again) = Msgs(w) \cup Msgs(again)
    BY <1>8, <1>12, <1>13, <1>15, SeqConcat
  <2>2. Kinds(w \o again, "revoke") = {}
    BY <1>12, <1>15, <2>1 DEF Kinds
  <2>3. Carries((w \o again) \o owed, a, L, U, Sigs(s, d, e), L, Revs(d, e), TRUE)
    BY <1>14, <2>1, <2>2
  <2>4. (w \o again) \o owed = w \o InOrder(d, owed, again) /\ IsSeq((w \o again) \o owed)
    <3>1. (w \o again) \o owed = w \o (again \o owed)
      BY ONLY <1>12, IsSeq(w), JoinAny
    <3>2. IsSeq((w \o again) \o owed)
      BY ONLY <1>12, <2>1, SeqConcat
    <3>3. InOrder(d, owed, again) = again \o owed
      BY ONLY <1>16 DEF InOrder, rev
    <3> QED
      BY ONLY <3>1, <3>2, <3>3
  <2>5. Carries(w \o InOrder(d, owed, again), a, L, U, Sigs(s, d, e), L, Revs(d, e), rev)
    BY <1>16, <1>18, <2>3, <2>4
  <2> QED
    BY <1>3, <1>12, <2>4, <2>5 DEF Conveys, a, L, U, rev
<1>17. CASE ~ rev
  <2>1. /\ \A sigs, n : Carries(w \o owed, a, a, U, sigs, n, Revs(d, e), FALSE)
        /\ IsSeq(w \o owed) /\ Msgs(w \o owed) = Msgs(w) \cup Msgs(owed)
    BY <1>8, <1>12, <1>14, <1>15, SeqConcat
  <2>2. Kinds(w \o owed, "sig") = {}
    BY <1>12, <1>15, <2>1 DEF Kinds
  <2>3. Carries((w \o owed) \o again, a, L, U, Sigs(s, d, e), L, Revs(d, e), FALSE)
    BY <1>13, <2>1, <2>2
  <2>4. (w \o owed) \o again = w \o InOrder(d, owed, again) /\ IsSeq((w \o owed) \o again)
    <3>1. (w \o owed) \o again = w \o (owed \o again)
      BY ONLY <1>12, IsSeq(w), JoinAny
    <3>2. IsSeq((w \o owed) \o again)
      BY ONLY <1>12, <2>1, SeqConcat
    <3>3. InOrder(d, owed, again) = owed \o again
      BY ONLY <1>17 DEF InOrder, rev
    <3> QED
      BY ONLY <3>1, <3>2, <3>3
  <2>5. rev = FALSE
    BY <1>17, <1>18
  <2>6. Carries(w \o InOrder(d, owed, again), a, L, U, Sigs(s, d, e), L, Revs(d, e), rev)
    BY <2>3, <2>4, <2>5
  <2> QED
    BY <1>3, <1>12, <2>4, <2>6 DEF Conveys, a, L, U, rev
<1> QED
  BY <1>16, <1>17

\* Side s answers the ChannelReestablish of its peer.
LEMMA Synced ==
    ASSUME NEW s \in Side, NEW d, NEW l, NEW e, NEW m, NEW b, NEW w, NEW v,
           Known(d, l, e, m, "syncing", w), Known(e, m, d, l, b, v),
           Half(s, d, l, e, m, "syncing", w), Half(Peer(s), e, m, d, l, b, v),
           v # << >>, Head(v) = ChanSyncMsg(e), \A y \in Msgs(w) : y.kind = "reestablish",
           NEW x, x = Head(v), NEW f, NEW n,
           f = IF SignsOnSync(d, l, x) THEN SignedDisk(d, l) ELSE d,
           n = IF SignsOnSync(d, l, x) THEN SignedLogs(d, l) ELSE l
    PROVE  /\ Syncable(d, x)
           /\ Half(s, f, n, e, m, "ready", w \o SyncAnswer(s, d, l, x))
           /\ Half(Peer(s), e, m, f, n, b, Tail(v))
<1> DEFINE p == Peer(s)
           signs == SignsOnSync(d, l, x)
<1>1. /\ Fits(d, l) /\ Fits(e, m) /\ Near(d, e) /\ Near(e, d) /\ IsSeq(w) /\ IsSeq(v)
      /\ FeesOf(s, l) /\ InTurn(l) /\ NextOnDisk(d, l) /\ ChainsAgree(d, e) /\ LogsAgree(l, m)
      /\ AtRest(d, l, e, m)
  BY DEF Half, Known
<1>2. Agree(d, l, e, m)
  BY <1>1 DEF Agree
<1>3. /\ Syncable(d, x) /\ (OweCommit(d, x) <=> SigDue(d, e))
  BY <1>1, SyncTells
<1>4. Half(p, e, m, d, l, b, Tail(v))
  <2>1. Head(v).kind = "reestablish"
    BY DEF ChanSyncMsg, ChannelReestablish
  <2>2. Conveys(p, e, m, d, l, v) => Conveys(p, e, m, d, l, Tail(v))
    BY <1>1, <2>1, Taken DEF Conveys
  <2> QED
    BY <2>2 DEF Half
<1> DEFINE signature == IF signs THEN <<SignedMsg(s, d, l)>> ELSE << >>
<1>5. SyncAnswer(s, d, l, x) = InOrder(d, Owed(d, x) \o signature, Again(s, d, x))
  BY DEF SyncAnswer, Owed, Again
<1>6. PICK o : o = Owed(d, x)
  OBVIOUS
<1>7. PICK g : g = Again(s, d, x)
  OBVIOUS
<1> HIDE DEF signature
<1>8. /\ Conveys(s, d, l, e, m, w \o InOrder(d, o, g))
      /\ IsSeq(o) /\ IsSeq(g) /\ IsSeq(w \o InOrder(d, o, g))
  <2>1. x = ChanSyncMsg(e)
    OBVIOUS
  <2> QED
    BY ONLY s \in Side, \A y \in Msgs(w) : y.kind = "reestablish",
            <1>1, <1>2, <1>6, <1>7, <2>1, AnswerConveys
<1> HIDE DEF p
<1>9. Half(s, d, l, e, m, "ready", w \o InOrder(d, o, g))
  BY <1>1, <1>8 DEF Half
<1>10. CASE ~ signs
  <2>1. signature = << >>
    BY <1>10 DEF signature
  <2>2. Owed(d, x) \o signature = o
    BY <1>6, <1>8, <2>1, JoinNone
  <2>3. SyncAnswer(s, d, l, x) = InOrder(d, o, g)
    BY <1>5, <1>7, <2>2
  <2>4. f = d /\ n = l
    BY <1>10
  <2> QED
    BY <1>3, <1>4, <1>9, <2>3, <2>4 DEF p
<1>11. CASE signs
  <2>1. ~ HasUnacked(d)
    BY <1>11 DEF SignsOnSync
  <2>2. g = << >>
    BY <1>3, <1>7, <2>1 DEF SigDue, Again
  <2>3. PICK y : y = SignedMsg(s, d, l)
    OBVIOUS
  <2>4. IsSeq(<<y>>) /\ IsSeq(o \o <<y>>)
    <3>1. IsSeq(<<y>>)
      BY SeqShort
    <3> QED
      BY ONLY <1>8, <3>1, SeqConcat
  <2>5. InOrder(d, o, g) = o
    BY <1>8, <2>2, JoinNone DEF InOrder
  <2>6. SyncAnswer(s, d, l, x) = o \o <<y>>
    <3>1. InOrder(d, o \o <<y>>, << >>) = o \o <<y>>
      BY ONLY <2>4, JoinNone DEF InOrder
    <3>2. signature = <<y>>
      BY <1>11, <2>3 DEF signature
    <3> QED
      BY <1>5, <1>6, <1>7, <2>2, <3>1, <3>2
  <2>7. (w \o o) \o <<y>> = w \o (o \o <<y>>)
    <3>1. PICK z : z = <<y>>
      OBVIOUS
    <3>2. IsSeq(w) /\ IsSeq(o) /\ IsSeq(z)
      BY <1>1, <1>8, <2>4, <3>1
    <3>3. (w \o o) \o z = w \o (o \o z)
      BY ONLY <3>2, JoinAny
    <3> QED
      BY <3>1, <3>3
  <2>8. IsSeq(w \o o) /\ Half(s, d, l, e, m, "ready", w \o o)
    BY <1>8, <1>9, <2>5
  <2>9. f = SignedDisk(d, l) /\ n = SignedLogs(d, l)
    BY <1>11
  <2>10. PICK z : z = w \o o
    OBVIOUS
  <2>11. "ready" # "syncing"
    OBVIOUS
  <2>12. IsSeq(z) /\ Half(s, d, l, e, m, "ready", z)
    BY <2>8, <2>10
  <2>13. /\ Half(s, f, n, e, m, "ready", z \o <<SignedMsg(s, d, l)>>)
         /\ Half(p, e, m, f, n, b, Tail(v))
    BY <1>1, <1>4, <2>1, <2>9, <2>11, <2>12, SignatureGiven DEF p
  <2> QED
    BY <1>3, <2>3, <2>6, <2>7, <2>10, <2>13 DEF p
<1> QED
  BY <1>10, <1>11

-----------------------------------------------------------------------------
(* The steps of the channel.                                               *)

\* Both sides agree in the beginning.
LEMMA BeginsAgreed ==
    ASSUME ChannelInit
    PROVE  AgreeInv
<1>1. ASSUME NEW q \in Side
      PROVE  /\ bucket[q].commit = [c \in Chain |-> NewCommit(q)] /\ bucket[q].diff = NoDiff
             /\ log[q] = [c \in Chain |-> newUpdateLog(NewCommit(q).messageIndex[c], 0)]
             /\ pc[q] = "ready" /\ wire[q] = << >>
  BY DEF ChannelInit
<1> SUFFICES ASSUME NEW q \in Side
             PROVE  Half(q, bucket[q], log[q], bucket[Peer(q)], log[Peer(q)],
                         pc[q], wire[Peer(q)])
  BY DEF AgreeInv
<1> DEFINE p == Peer(q)
           d == bucket[q]
           l == log[q]
           e == bucket[p]
           m == log[p]
           k == NewCommit(q)
           j == NewCommit(p)
           n(x) == IF ~ Fresh0 /\ x = Initiator THEN 1 ELSE 0
<1>2. /\ p \in Side /\ p # q /\ Peer(p) = q /\ "local" \in Chain /\ "remote" \in Chain
      /\ \A c \in Chain : c = "local" \/ c = "remote"
      /\ Opposite("local") = "remote" /\ Opposite("remote") = "local"
  BY Sides DEF Chain, Opposite
<1>3. /\ k.messageIndex = [local |-> n(q), remote |-> n(p)]
      /\ j.messageIndex = [local |-> n(p), remote |-> n(q)]
  BY <1>2 DEF NewCommit
<1>4. /\ k.height = j.height /\ k.feePerKw = j.feePerKw
      /\ \A c \in Chain : /\ k.htlcIndex[c] = 0 /\ j.htlcIndex[c] = 0
                          /\ k.htlcs[c] = {} /\ j.htlcs[c] = {}
                          /\ k.balance[c] = Balance /\ j.balance[c] = Balance
  BY DEF NewCommit
<1>14. /\ d.commit = [c \in Chain |-> k] /\ d.diff = NoDiff
       /\ l = [c \in Chain |-> newUpdateLog(k.messageIndex[c], 0)] /\ pc[q] = "ready"
  BY <1>1
<1>15. /\ e.commit = [c \in Chain |-> j] /\ e.diff = NoDiff
       /\ m = [c \in Chain |-> newUpdateLog(j.messageIndex[c], 0)] /\ wire[p] = << >>
  BY <1>1, <1>2
<1> HIDE DEF k, j, n, p, d, e, l, m
<1>5. /\ \A c \in Chain : d.commit[c] = k /\ e.commit[c] = j
      /\ ~ HasUnacked(d) /\ ~ HasUnacked(e) /\ RemoteTip(d) = k
  BY <1>2, <1>14, <1>15 DEF HasUnacked, RemoteTip
<1>6. \A c \in Chain : /\ l[c].entries = {} /\ l[c].htlcCounter = 0
                       /\ l[c].logIndex = k.messageIndex[c]
                       /\ m[c].entries = {} /\ m[c].htlcCounter = 0
                       /\ m[c].logIndex = j.messageIndex[c]
  BY <1>14, <1>15 DEF newUpdateLog
<1>7. pc[q] = "ready" /\ wire[p] = << >>
  BY <1>14, <1>15
<1>8. \A c \in Chain : UpdatesOf(l, c) = {} /\ UpdatesOf(m, c) = {}
  BY <1>6 DEF UpdatesOf, LogUpdates
<1>9. FeesOf(q, l) /\ InTurn(l) /\ NextOnDisk(d, l)
  BY <1>2, <1>5, <1>8 DEF FeesOf, InTurn, NextOnDisk
<1>10. ChainsAgree(d, e)
  <2>1. ~ SigDue(d, e) /\ Counterpart(d, e) = k
    BY <1>5 DEF SigDue, Counterpart
  <2>2. Mirrors(k, j)
    <3>1. \A c \in Chain : j.messageIndex[c] = k.messageIndex[Opposite(c)]
      BY <1>2, <1>3
    <3>2. \A c \in Chain : Opposite(c) \in Chain
      BY <1>2
    <3> QED
      BY <1>4, <3>1, <3>2 DEF Mirrors
  <2> QED
    BY <1>2, <1>5, <2>1, <2>2 DEF ChainsAgree
<1>11. n(q) \in Nat /\ l["local"].logIndex = n(q) /\ m["remote"].logIndex = n(q)
  BY <1>2, <1>3, <1>6 DEF n
<1>12. LogsAgree(l, m)
  BY <1>2, <1>6, <1>8, <1>11 DEF LogsAgree
<1>13. Conveys(q, d, l, e, m, << >>)
  <2>1. IsSeq(<< >>) /\ \A x \in Msgs(<< >>) : x.kind \notin {"update", "sig", "revoke"}
    BY SeqShort
  <2>2. \A U, sigs, i, revs, rev : Carries(<< >>, n(q), n(q), U, sigs, i, revs, rev)
    BY <1>11, <2>1, CarriesNothing
  <2> QED
    BY <1>11, <2>2 DEF Conveys
<1> QED
  BY <1>7, <1>9, <1>10, <1>12, <1>13 DEF Half, p, d, e, l, m

\* The connection breaks and both sides are made again of what is on disk.
LEMMA DisconnectAgrees ==
    ASSUME ChannelInv, WaitInv, AgreeInv, Disconnect
    PROVE  AgreeInv'
<1>1. /\ bucket' = bucket /\ \A q \in Side : log'[q] = restoreCommitState(bucket[q])
      /\ \A q \in Side : pc'[q] = IF Restorable(bucket[q]) THEN "syncing" ELSE "failed"
  BY DEF Disconnect
<1> SUFFICES ASSUME NEW q \in Side
             PROVE  Half(q, bucket[q], log'[q], bucket[Peer(q)], log'[Peer(q)],
                         pc'[q], wire'[Peer(q)])
  BY <1>1 DEF AgreeInv
<1> DEFINE p == Peer(q)
           d == bucket[q]
           l == log[q]
           e == bucket[p]
           m == log[p]
           n == restoreCommitState(d)
           o == restoreCommitState(e)
<1>2. /\ p \in Side /\ Peer(p) = q
      /\ Known(d, l, e, m, pc[q], wire[p]) /\ Half(q, d, l, e, m, pc[q], wire[p])
      /\ Known(e, m, d, l, pc[p], wire[q])
  BY AgreeParts
<1>3. log'[q] = n /\ log'[p] = o /\ pc'[q] = "syncing"
  <2>1. Restorable(d)
    BY SideParts, AlwaysRestorable
  <2> QED
    BY <1>1, <1>2, <2>1
<1> HIDE DEF d, l, e, m, p
<1>4. /\ Fits(d, l) /\ Fits(e, m) /\ FeesOf(q, l) /\ InTurn(l) /\ NextOnDisk(d, l)
      /\ ChainsAgree(d, e) /\ Agree(d, l, e, m)
  BY <1>2 DEF Known, Half, Agree
<1>5. /\ Fits(d, n) /\ Sheds(l, n)
      /\ n["local"].logIndex = RemoteTip(d).messageIndex["local"]
  BY <1>4, RestoredSheds
<1>6. o["remote"].logIndex = e.commit["local"].messageIndex["remote"]
  BY <1>4, RestoredSheds
<1>7. LogsAgree(n, o)
  BY <1>4, RestoredAgree
<1> HIDE DEF n, o
<1>8. FeesOf(q, n) /\ InTurn(n)
  BY <1>4, <1>5, ShedsOwn
<1>9. NextOnDisk(d, n)
  <2>1. \A c \in Chain : \A y \in UpdatesOf(l, c), z \in UpdatesOf(n, c) :
            y.logIndex = z.logIndex => y = z
    BY <1>4, <1>5, UpdateAt DEF Sheds, Fits
  <2> QED
    BY <1>4, <1>5, <2>1, DiskKept
<1> QED
  BY <1>3, <1>4, <1>5, <1>6, <1>7, <1>8, <1>9 DEF Half, AtRest, d, e, p

\* What a step of one side leaves as it is.
LEMMA Moved ==
    ASSUME ChannelInv, NEW s \in Side, NEW f, NEW n, NEW a,
           bucket' = [bucket EXCEPT ![s] = f], log' = [log EXCEPT ![s] = n],
           pc' = [pc EXCEPT ![s] = a]
    PROVE  /\ bucket'[s] = f /\ log'[s] = n /\ pc'[s] = a
           /\ bucket'[Peer(s)] = bucket[Peer(s)] /\ log'[Peer(s)] = log[Peer(s)]
           /\ pc'[Peer(s)] = pc[Peer(s)]
<1>1. Peer(s) \in Side /\ Peer(s) # s
  BY Sides
<1> QED
  BY <1>1 DEF ChannelInv, ChannelTypeOK

\* The logs of a side fit its bucket after the step.
LEMMA FitsAfter ==
    ASSUME ChannelInv', NEW s \in Side
    PROVE  Fits(bucket'[s], log'[s])
BY DEF ChannelInv, ChannelTypeOK, SideInv, Fits

\* An update is sent.
LEMMA UpdateAgrees ==
    ASSUME ChannelInv, WaitInv, AgreeInv, ChannelInv', NEW s \in Side,
           pc[s] \in {"ready", "signing"}, NEW type \in UpdateKind, NEW id \in Nat,
           NEW n, log' = [log EXCEPT ![s] = n], bucket' = bucket,
           NEW a \in {"ready", "signing"}, pc' = [pc EXCEPT ![s] = a],
           Send(s, <<Update(type, id)>>),
           Grows(log[s], n, "local",
                 [type |-> type, logIndex |-> log[s]["local"].logIndex, id |-> id]),
           type = "FeeUpdate" => s = Initiator
    PROVE  AgreeInv'
<1> DEFINE p == Peer(s)
           d == bucket[s]
           l == log[s]
           e == bucket[p]
           m == log[p]
           u == [type |-> type, logIndex |-> log[s]["local"].logIndex, id |-> id]
<1>1. /\ p \in Side /\ p # s /\ Peer(p) = s
      /\ Known(d, l, e, m, pc[s], wire[p]) /\ Half(s, d, l, e, m, pc[s], wire[p])
  BY AgreeParts
<1>2. Known(e, m, d, l, pc[p], wire[s]) /\ Half(p, e, m, d, l, pc[p], wire[s])
  BY <1>1, AgreeParts
<1>3. /\ wire'[s] = wire[s] /\ wire'[p] = wire[p] \o <<Update(u.type, u.id)>>
      /\ u.type = type /\ u.id = id
  <2>1. IsSeq(<<Update(type, id)>>)
    BY SeqShort
  <2>2. wire = [x \in Side |-> wire[x]] /\ \A x \in Side : IsSeq(wire[x])
    BY SideParts
  <2>3. wire'[s] = wire[s] /\ wire'[p] = wire[p] \o <<Update(type, id)>>
    BY <2>1, <2>2, Sent
  <2> QED
    BY <2>3
<1>4. bucket = [bucket EXCEPT ![s] = d]
  BY SideParts
<1>5. /\ bucket'[s] = d /\ log'[s] = n /\ pc'[s] = a
      /\ bucket'[p] = e /\ log'[p] = m /\ pc'[p] = pc[p]
  <2>1. bucket' = [bucket EXCEPT ![s] = d]
    BY <1>4
  <2> HIDE DEF d
  <2> QED
    BY <2>1, Moved
<1>6. Fits(d, n)
  <2>1. Fits(bucket'[s], log'[s])
    BY FitsAfter
  <2> QED
    BY <1>5, <2>1
<1>7. Grows(l, n, "local", u) /\ u.id \in Nat /\ (u.type = "FeeUpdate" => s = Initiator)
  OBVIOUS
<1>8. Fits(e, m) /\ pc[s] # "syncing"
  BY <1>2 DEF Known
<1> HIDE DEF u, d, l, e, m, p
<1>9. /\ Half(s, d, n, e, m, a, wire[p] \o <<Update(u.type, u.id)>>)
      /\ Half(p, e, m, d, n, pc[p], wire[s])
  BY <1>1, <1>2, <1>6, <1>7, <1>8, Grown DEF p
<1> HIDE DEF AgreeInv
<1> QED
  BY <1>3, <1>5, <1>9, AgreeStep DEF p, e, m

\* An HTLC is offered.
LEMMA AddAgrees ==
    ASSUME ChannelInv, WaitInv, AgreeInv, ChannelInv', NEW s \in Side, AddHTLC(s)
    PROVE  AgreeInv'
<1> DEFINE l == log[s]
           n == [l EXCEPT !["local"] = appendHtlc(@)]
           id == l["local"].htlcCounter
<1>1. /\ l \in LogsType /\ l = [x \in Chain |-> l[x]] /\ pc = [pc EXCEPT ![s] = pc[s]]
  BY SideParts DEF ChannelInv, ChannelTypeOK
<1>2. /\ log' = [log EXCEPT ![s] = n] /\ bucket' = bucket /\ pc[s] = "ready" /\ pc' = pc
      /\ Send(s, <<Update("Add", id)>>)
  BY DEF AddHTLC
<1>3. /\ n["local"] = appendHtlc(l["local"]) /\ n["remote"] = l["remote"]
      /\ "local" \in Chain /\ Opposite("local") = "remote"
  BY <1>1 DEF Chain, Opposite
<1>4. PICK type \in UpdateKind : type = "Add"
  BY DEF UpdateKind
<1>5. id \in Nat
  BY <1>1, <1>3, EntriesOf
<1> HIDE DEF n
<1>6. Grows(l, n, "local", [type |-> type, logIndex |-> l["local"].logIndex, id |-> id])
  BY <1>1, <1>3, <1>4, <1>5, GrowsIs
<1>7. PICK a \in {"ready", "signing"} : a = "ready"
  OBVIOUS
<1>8. pc' = [pc EXCEPT ![s] = a] /\ pc[s] \in {"ready", "signing"}
  BY <1>1, <1>2, <1>7
<1>9. Send(s, <<Update(type, id)>>) /\ (type = "FeeUpdate" => s = Initiator)
  BY <1>2, <1>4
<1> HIDE DEF id
<1> QED
  BY <1>2, <1>5, <1>6, <1>8, <1>9, UpdateAgrees

\* An HTLC of the peer is settled or failed.
LEMMA ResolveAgrees ==
    ASSUME ChannelInv, WaitInv, AgreeInv, ChannelInv', NEW s \in Side, NEW id \in Nat,
           NEW type \in {"Settle", "Fail"}, ResolveHTLC(s, id, type)
    PROVE  AgreeInv'
<1> DEFINE l == log[s]
           n == [local |-> appendUpdate(l["local"], type, id),
                 remote |-> markHtlcModified(l["remote"], id)]
<1>1. l \in LogsType
  BY SideParts
<1>2. /\ log' = [log EXCEPT ![s] = n] /\ bucket' = bucket /\ pc[s] \in {"ready", "signing"}
      /\ pc' = [pc EXCEPT ![s] = "signing"] /\ Send(s, <<Update(type, id)>>)
  BY DEF ResolveHTLC
<1>3. /\ n["local"] = appendUpdate(l["local"], type, id)
      /\ n["remote"] = markHtlcModified(l["remote"], id)
      /\ "local" \in Chain /\ Opposite("local") = "remote"
      /\ type \in UpdateKind /\ type # "Add" /\ type # "FeeUpdate"
  BY DEF Chain, Opposite, UpdateKind
<1> HIDE DEF n
<1>4. Grows(l, n, "local", [type |-> type, logIndex |-> l["local"].logIndex, id |-> id])
  BY <1>1, <1>3, GrowsIs
<1>5. PICK a \in {"ready", "signing"} : a = "signing"
  OBVIOUS
<1> QED
  BY <1>2, <1>3, <1>4, <1>5, UpdateAgrees

\* The fee rate is changed.
LEMMA FeeAgrees ==
    ASSUME ChannelInv, WaitInv, AgreeInv, ChannelInv', NEW s \in Side, NEW rate \in Nat,
           UpdateFee(s, rate)
    PROVE  AgreeInv'
<1> DEFINE l == log[s]
           n == [l EXCEPT !["local"] = appendUpdate(@, "FeeUpdate", rate)]
<1>1. l \in LogsType /\ l = [x \in Chain |-> l[x]]
  BY SideParts
<1>2. /\ log' = [log EXCEPT ![s] = n] /\ bucket' = bucket /\ pc[s] = "ready" /\ s = Initiator
      /\ pc' = [pc EXCEPT ![s] = "signing"] /\ Send(s, <<Update("FeeUpdate", rate)>>)
  BY DEF UpdateFee
<1>3. PICK type \in UpdateKind : type = "FeeUpdate"
  BY DEF UpdateKind
<1>4. /\ n["local"] = appendUpdate(l["local"], type, rate) /\ n["remote"] = l["remote"]
      /\ "local" \in Chain /\ Opposite("local") = "remote" /\ type # "Add"
  BY <1>1, <1>3 DEF Chain, Opposite
<1> HIDE DEF n
<1>5. Grows(l, n, "local", [type |-> type, logIndex |-> l["local"].logIndex, id |-> rate])
  BY <1>1, <1>4, GrowsIs
<1>6. PICK a \in {"ready", "signing"} : a = "signing"
  OBVIOUS
<1>7. /\ pc' = [pc EXCEPT ![s] = a] /\ pc[s] \in {"ready", "signing"}
      /\ Send(s, <<Update(type, rate)>>) /\ (type = "FeeUpdate" => s = Initiator)
  BY <1>2, <1>3, <1>6
<1> QED
  BY <1>2, <1>5, <1>7, UpdateAgrees

\* A side that waits for ChannelReestablish has sent nothing else.
LEMMA Awake ==
    ASSUME ChannelInv, WaitInv, NEW s \in Side, wire[s] # << >>,
           Head(wire[s]).kind # "reestablish"
    PROVE  pc[Peer(s)] # "syncing"
<1>1. Peer(s) \in Side /\ Peer(Peer(s)) = s
  BY Sides
<1>2. Head(wire[s]) \in Msgs(wire[s])
  BY SideParts, SeqTail
<1>3. Syncing(Peer(s))
  BY <1>1 DEF WaitInv
<1> QED
  BY <1>1, <1>2, <1>3 DEF Syncing, Kinds

\* An update of the peer is taken.
LEMMA TakenAgrees ==
    ASSUME ChannelInv, WaitInv, AgreeInv, ChannelInv', NEW s \in Side, ReceiveUpdate(s)
    PROVE  AgreeInv'
<1> DEFINE p == Peer(s)
           d == bucket[s]
           l == log[s]
           e == bucket[p]
           m == log[p]
           v == wire[s]
           x == Head(wire[s])
<1>1. /\ p \in Side /\ p # s /\ Peer(p) = s
      /\ Known(d, l, e, m, pc[s], wire[p]) /\ Half(s, d, l, e, m, pc[s], wire[p])
  BY AgreeParts
<1>2. Known(e, m, d, l, pc[p], v) /\ Half(p, e, m, d, l, pc[p], v)
  BY <1>1, AgreeParts
<1>3. v # << >> /\ x.kind = "update" /\ pc[s] = "ready" /\ Reply(s, << >>)
  BY DEF ReceiveUpdate, Receive
<1>4. pc[p] # "syncing" /\ pc[s] # "syncing"
  BY <1>3, Awake
<1>5. PICK u \in UpdatesOf(m, "local") :
              /\ Head(v) = Update(u.type, u.id)
              /\ u = [type |-> u.type, logIndex |-> l["remote"].logIndex, id |-> u.id]
              /\ u.type = "Add" => u.id = l["remote"].htlcCounter
              /\ u.type = "FeeUpdate" => s # Initiator
              /\ IsRemoval(u) => HasHtlc(l["local"], u.id) /\ ~ htlcHasModification(l["local"], u.id)
              /\ \A n : (Fits(d, n) /\ Grows(l, n, "remote", u)) =>
                    /\ Half(s, d, n, e, m, pc[s], wire[p])
                    /\ Half(Peer(s), e, m, d, n, pc[p], Tail(v))
  <2> DEFINE a == pc[s]
             b == pc[p]
             w == wire[p]
  <2>1. /\ Known(d, l, e, m, a, w) /\ Half(s, d, l, e, m, a, w)
        /\ Known(e, m, d, l, b, v) /\ Half(Peer(s), e, m, d, l, b, v)
        /\ a # "syncing" /\ b # "syncing" /\ v # << >> /\ Head(v).kind = "update"
    BY <1>1, <1>2, <1>3, <1>4
  <2> HIDE DEF a, b, w, v, d, l, e, m
  <2> QED
    BY <2>1, UpdateTaken DEF a, b, w
<1>6. m \in LogsType /\ l \in LogsType /\ "local" \in Chain /\ "remote" \in Chain
      /\ Opposite("remote") = "local"
  BY <1>1, SideParts DEF Chain, Opposite
<1>7. u.type \in UpdateKind /\ u.id \in Nat
  BY <1>6, UpdateParts
<1>8. x.type = u.type /\ x.id = u.id
  BY <1>5 DEF Update
<1>9. Acceptable(s, x)
  <2>1. u.type \in {"Settle", "Fail"} => IsRemoval(u)
    BY DEF IsRemoval
  <2>2. u.type \in {"Add", "FeeUpdate", "Settle", "Fail"}
    BY <1>7 DEF UpdateKind
  <2> HIDE DEF x, l
  <2> QED
    BY <1>5, <1>8, <2>1, <2>2 DEF Acceptable, l
<1> DEFINE n == [local |-> IF x.type \in {"Add", "FeeUpdate"} THEN l["local"]
                           ELSE markHtlcModified(l["local"], x.id),
                 remote |-> IF x.type = "Add" THEN appendHtlc(l["remote"])
                            ELSE appendUpdate(l["remote"], x.type, x.id)]
<1>10. log' = [log EXCEPT ![s] = n] /\ bucket' = bucket /\ pc' = pc
  BY <1>9 DEF ReceiveUpdate
<1>11. Grows(l, n, "remote", u)
  <2>1. /\ n["local"] = IF x.type \in {"Add", "FeeUpdate"} THEN l["local"]
                        ELSE markHtlcModified(l["local"], x.id)
        /\ n["remote"] = IF x.type = "Add" THEN appendHtlc(l["remote"])
                         ELSE appendUpdate(l["remote"], x.type, x.id)
    OBVIOUS
  <2> HIDE DEF n, x, l
  <2>2. PICK type \in UpdateKind, id \in Nat : type = u.type /\ id = u.id
    BY <1>7
  <2>3. \/ /\ type = "Add" /\ id = l["remote"].htlcCounter /\ n["remote"] = appendHtlc(l["remote"])
        \/ /\ type # "Add" /\ n["remote"] = appendUpdate(l["remote"], type, id)
    BY <1>5, <1>8, <2>1, <2>2
  <2>4. \/ n["local"] = l["local"]
        \/ \E i \in Nat : n["local"] = markHtlcModified(l["local"], i)
    BY <1>7, <1>8, <2>1
  <2>5. Grows(l, n, "remote", [type |-> type, logIndex |-> l["remote"].logIndex, id |-> id])
    BY <1>6, <2>3, <2>4, GrowsIs
  <2> QED
    BY <1>5, <2>2, <2>5
<1>12. wire'[s] = Tail(v) /\ wire'[p] = wire[p]
  <2>1. wire = [y \in Side |-> wire[y]] /\ \A y \in Side : IsSeq(wire[y])
    BY SideParts
  <2>2. IsSeq(<< >>)
    BY SeqShort
  <2>3. wire'[s] = Tail(v) /\ wire'[p] = wire[p] \o << >>
    BY <1>3, <2>1, <2>2, Replied
  <2>4. wire[p] \o << >> = wire[p]
    BY <1>1, <2>1, JoinNone
  <2> QED
    BY <2>3, <2>4
<1> HIDE DEF n, x
<1>13. /\ bucket'[s] = d /\ log'[s] = n /\ pc'[s] = pc[s]
       /\ bucket'[p] = e /\ log'[p] = m /\ pc'[p] = pc[p]
  <2>1. log'[s] = n /\ log'[p] = m
    BY <1>1, <1>10 DEF ChannelInv, ChannelTypeOK
  <2> QED
    BY <1>10, <2>1
<1>14. Fits(d, n)
  <2>1. Fits(bucket'[s], log'[s])
    BY FitsAfter
  <2> QED
    BY <1>13, <2>1
<1> HIDE DEF d, l, e, m, p, v
<1>15. Half(s, d, n, e, m, pc[s], wire[p]) /\ Half(p, e, m, d, n, pc[p], Tail(v))
  BY <1>5, <1>11, <1>14 DEF p
<1> HIDE DEF AgreeInv
<1> QED
  BY <1>12, <1>13, <1>15, AgreeStep DEF p, e, m

\* The link signs.
LEMMA SigningAgrees ==
    ASSUME ChannelInv, WaitInv, AgreeInv, NEW s \in Side, UpdateCommitTx(s)
    PROVE  AgreeInv'
<1> DEFINE p == Peer(s)
           d == bucket[s]
           l == log[s]
           e == bucket[p]
           m == log[p]
           a == pc[s]
           b == pc[p]
           w == wire[p]
           v == wire[s]
           f == SignedDisk(d, l)
           n == SignedLogs(d, l)
           x == SignedMsg(s, d, l)
<1>1. /\ p \in Side /\ p # s /\ Peer(p) = s
      /\ Known(d, l, e, m, a, w) /\ Half(s, d, l, e, m, a, w)
  BY AgreeParts
<1>2. Known(e, m, d, l, b, v) /\ Half(p, e, m, d, l, b, v)
  BY <1>1, AgreeParts
<1>3. a # "syncing"
  BY DEF UpdateCommitTx
<1>4. CASE HasUnacked(d)
  <2>1. pc' = [pc EXCEPT ![s] = "ready"] /\ UNCHANGED <<bucket, log, wire, disconnects>>
    BY <1>4 DEF UpdateCommitTx
  <2>2. bucket = [bucket EXCEPT ![s] = d] /\ log = [log EXCEPT ![s] = l]
    BY SideParts
  <2>3. bucket' = [bucket EXCEPT ![s] = d] /\ log' = [log EXCEPT ![s] = l] /\ wire' = wire
    BY <2>1, <2>2
  <2> HIDE DEF d, l
  <2>4. /\ bucket'[s] = d /\ log'[s] = l /\ pc'[s] = "ready"
        /\ bucket'[p] = e /\ log'[p] = m /\ pc'[p] = b
    BY <2>1, <2>3, Moved
  <2>5. Half(s, d, l, e, m, "ready", w)
    BY <1>1, <1>3 DEF Half
  <2>6. wire'[p] = w /\ wire'[s] = v
    BY <2>3
  <2> HIDE DEF AgreeInv, w, v, e, m, b, p
  <2> QED
    BY <1>2, <2>4, <2>5, <2>6, AgreeStep DEF p, e, m, b
<1>5. CASE ~ HasUnacked(d)
  <2>1. CanSign(d, l)
    BY SideParts, AlwaysSigns
  <2>2. /\ bucket' = [bucket EXCEPT ![s] = f] /\ log' = [log EXCEPT ![s] = n]
        /\ pc' = [pc EXCEPT ![s] = "ready"] /\ Send(s, <<x>>)
    BY <1>5, <2>1 DEF UpdateCommitTx
  <2>3. wire'[s] = v /\ wire'[p] = w \o <<x>>
    <3>1. IsSeq(<<x>>)
      BY SeqShort
    <3>2. wire = [y \in Side |-> wire[y]] /\ \A y \in Side : IsSeq(wire[y])
      BY SideParts
    <3> HIDE DEF x
    <3> QED
      BY <2>2, <3>1, <3>2, Sent
  <2> HIDE DEF f, n, x
  <2>4. /\ bucket'[s] = f /\ log'[s] = n /\ pc'[s] = "ready"
        /\ bucket'[p] = e /\ log'[p] = m /\ pc'[p] = b
    BY <2>2, Moved
  <2>5. f = SignedDisk(d, l) /\ n = SignedLogs(d, l)
    BY DEF f, n
  <2> HIDE DEF AgreeInv, d, l, e, m, p, a, b, w, v
  <2>6. /\ Fits(d, l) /\ Fits(e, m) /\ Near(d, e) /\ Near(e, d) /\ IsSeq(w)
    BY <1>1, <1>2 DEF Known
  <2>7. /\ Half(s, f, n, e, m, "ready", w \o <<SignedMsg(s, d, l)>>)
        /\ Half(Peer(s), e, m, f, n, b, v)
    BY <1>1, <1>2, <1>3, <1>5, <2>5, <2>6, SignatureGiven DEF p
  <2> QED
    BY <2>3, <2>4, <2>7, AgreeStep DEF p, e, m, b, x
<1> QED
  BY <1>4, <1>5

\* A signature of the peer is taken.
LEMMA CommitSigAgrees ==
    ASSUME ChannelInv, WaitInv, AgreeInv, NEW s \in Side, ReceiveCommitSig(s)
    PROVE  AgreeInv'
<1> DEFINE p == Peer(s)
           d == bucket[s]
           l == log[s]
           e == bucket[p]
           m == log[p]
           a == pc[s]
           b == pc[p]
           w == wire[p]
           v == wire[s]
           f == ReceivedDisk(d, l)
           n == ReceivedLogs(d, l)
           x == RevokeAndAck(d.commit["local"].height)
<1>1. /\ p \in Side /\ p # s /\ Peer(p) = s
      /\ Known(d, l, e, m, a, w) /\ Half(s, d, l, e, m, a, w)
  BY AgreeParts
<1>2. Known(e, m, d, l, b, v) /\ Half(p, e, m, d, l, b, v)
  BY <1>1, AgreeParts
<1>3. v # << >> /\ Head(v).kind = "sig" /\ a = "ready"
  BY DEF ReceiveCommitSig, Receive
<1>4. a # "syncing" /\ b # "syncing"
  BY <1>3, Awake
<1>5. ASSUME NEW a2 \in {"ready", "signing"}
      PROVE  /\ ParentsFetched(l, fetchHTLCView(l, ReceiveIndexes(d, l)), "local")
             /\ Tx(s, ReceivedCommit(d, l)) = Head(v).tx
             /\ Half(s, f, n, e, m, a2, w \o <<x>>)
             /\ Half(p, e, m, f, n, b, Tail(v))
  <2>1. f = ReceivedDisk(d, l) /\ n = ReceivedLogs(d, l)
    OBVIOUS
  <2> HIDE DEF d, l, e, m, p, a, b, w, v, f, n
  <2> QED
    BY <1>1, <1>2, <1>3, <1>4, <2>1, SignatureTaken DEF p
<1>6. /\ bucket' = [bucket EXCEPT ![s] = f] /\ log' = [log EXCEPT ![s] = n]
      /\ AfterHandler(s, f, n) /\ Reply(s, <<x>>)
  <2>1. PICK a2 \in {"ready", "signing"} : a2 = "ready"
    OBVIOUS
  <2>2. /\ ParentsFetched(l, fetchHTLCView(l, ReceiveIndexes(d, l)), "local")
        /\ Tx(s, ReceivedCommit(d, l)) = Head(v).tx
    BY <1>5, <2>1
  <2> QED
    BY <2>2 DEF ReceiveCommitSig
<1>7. wire'[s] = Tail(v) /\ wire'[p] = w \o <<x>>
  <2>1. IsSeq(<<x>>)
    BY SeqShort
  <2>2. wire = [y \in Side |-> wire[y]] /\ \A y \in Side : IsSeq(wire[y])
    BY SideParts
  <2> HIDE DEF x
  <2> QED
    BY <1>3, <1>6, <2>1, <2>2, Replied
<1> HIDE DEF f, n, x
<1>8. bucket'[s] = f
  BY <1>6 DEF ChannelInv, ChannelTypeOK
<1>9. pc' = [pc EXCEPT ![s] = pc'[s]] /\ pc'[s] \in {"ready", "signing"}
  BY <1>6, <1>8, AfterSigning
<1>10. PICK a2 \in {"ready", "signing"} : a2 = pc'[s]
  BY <1>9
<1>11. /\ bucket'[s] = f /\ log'[s] = n /\ pc'[s] = a2
       /\ bucket'[p] = e /\ log'[p] = m /\ pc'[p] = b
  <2>1. pc' = [pc EXCEPT ![s] = a2]
    BY <1>9, <1>10
  <2> QED
    BY <1>6, <2>1, Moved
<1>12. Half(s, f, n, e, m, a2, w \o <<x>>) /\ Half(p, e, m, f, n, b, Tail(v))
  BY <1>5
<1> HIDE DEF AgreeInv, d, l, e, m, p, a, b, w, v
<1> QED
  BY <1>7, <1>11, <1>12, AgreeStep DEF p, e, m, b

\* A revocation of the peer is taken.
LEMMA RevocationAgrees ==
    ASSUME ChannelInv, WaitInv, AgreeInv, NEW s \in Side, ReceiveRevocation(s)
    PROVE  AgreeInv'
<1> DEFINE p == Peer(s)
           d == bucket[s]
           l == log[s]
           e == bucket[p]
           m == log[p]
           a == pc[s]
           b == pc[p]
           w == wire[p]
           v == wire[s]
           f == RevokedDisk(d, l)
           n == RevokedLogs(d, l)
<1>1. /\ p \in Side /\ p # s /\ Peer(p) = s
      /\ Known(d, l, e, m, a, w) /\ Half(s, d, l, e, m, a, w)
  BY AgreeParts
<1>2. Known(e, m, d, l, b, v) /\ Half(p, e, m, d, l, b, v)
  BY <1>1, AgreeParts
<1>3. v # << >> /\ Head(v).kind = "revoke" /\ a = "ready" /\ Reply(s, << >>)
  BY DEF ReceiveRevocation, Receive
<1>4. a # "syncing" /\ b # "syncing"
  BY <1>3, Awake
<1>5. ASSUME NEW a2 \in {"ready", "signing"}
      PROVE  /\ HasUnacked(d) /\ Head(v).height = d.commit["remote"].height
             /\ Half(s, f, n, e, m, a2, w)
             /\ Half(p, e, m, f, n, b, Tail(v))
  <2>1. f = RevokedDisk(d, l) /\ n = RevokedLogs(d, l)
    OBVIOUS
  <2> HIDE DEF d, l, e, m, p, a, b, w, v, f, n
  <2> QED
    BY <1>1, <1>2, <1>3, <1>4, <2>1, RevocationTaken DEF p
<1>6. /\ bucket' = [bucket EXCEPT ![s] = f] /\ log' = [log EXCEPT ![s] = n]
      /\ AfterHandler(s, f, n)
  <2>1. PICK a2 \in {"ready", "signing"} : a2 = "ready"
    OBVIOUS
  <2>2. HasUnacked(d) /\ Head(v).height = d.commit["remote"].height
    BY <1>5, <2>1
  <2> QED
    BY <2>2 DEF ReceiveRevocation
<1>7. wire'[s] = Tail(v) /\ wire'[p] = w
  <2>1. wire = [y \in Side |-> wire[y]] /\ \A y \in Side : IsSeq(wire[y])
    BY SideParts
  <2>2. IsSeq(<< >>)
    BY SeqShort
  <2>3. wire'[s] = Tail(v) /\ wire'[p] = w \o << >>
    BY <1>3, <2>1, <2>2, Replied
  <2>4. w \o << >> = w
    BY <1>1, <2>1, JoinNone
  <2> QED
    BY <2>3, <2>4
<1> HIDE DEF f, n
<1>8. bucket'[s] = f
  BY <1>6 DEF ChannelInv, ChannelTypeOK
<1>9. pc' = [pc EXCEPT ![s] = pc'[s]] /\ pc'[s] \in {"ready", "signing"}
  BY <1>6, <1>8, AfterSigning
<1>10. PICK a2 \in {"ready", "signing"} : a2 = pc'[s]
  BY <1>9
<1>11. /\ bucket'[s] = f /\ log'[s] = n /\ pc'[s] = a2
       /\ bucket'[p] = e /\ log'[p] = m /\ pc'[p] = b
  <2>1. pc' = [pc EXCEPT ![s] = a2]
    BY <1>9, <1>10
  <2> QED
    BY <1>6, <2>1, Moved
<1>12. Half(s, f, n, e, m, a2, w) /\ Half(p, e, m, f, n, b, Tail(v))
  BY <1>5
<1> HIDE DEF AgreeInv, d, l, e, m, p, a, b, w, v
<1> QED
  BY <1>7, <1>11, <1>12, AgreeStep DEF p, e, m, b

\* ChannelReestablish of the peer is answered.
LEMMA ChanSyncAgrees ==
    ASSUME ChannelInv, WaitInv, AgreeInv, NEW s \in Side, ProcessChanSyncMsg(s)
    PROVE  AgreeInv'
<1> DEFINE p == Peer(s)
           d == bucket[s]
           l == log[s]
           e == bucket[p]
           m == log[p]
           b == pc[p]
           w == wire[p]
           v == wire[s]
           x == Head(v)
           signs == SignsOnSync(d, l, x)
           f == IF signs THEN SignedDisk(d, l) ELSE d
           n == IF signs THEN SignedLogs(d, l) ELSE l
           y == SyncAnswer(s, d, l, x)
<1>1. /\ p \in Side /\ p # s /\ Peer(p) = s
      /\ Known(d, l, e, m, pc[s], w) /\ Half(s, d, l, e, m, pc[s], w)
  BY AgreeParts
<1>2. Known(e, m, d, l, b, v) /\ Half(p, e, m, d, l, b, v)
  BY <1>1, AgreeParts
<1>3. v # << >> /\ pc[s] = "syncing"
  BY DEF ProcessChanSyncMsg, Receive
<1>4. Head(v) = ChanSyncMsg(e) /\ \A z \in Msgs(w) : z.kind = "reestablish"
  <2>1. Syncing(s)
    BY DEF WaitInv
  <2> QED
    BY <1>3, <2>1 DEF Syncing, Kinds
<1>5. /\ Syncable(d, x)
      /\ Half(s, f, n, e, m, "ready", w \o y)
      /\ Half(p, e, m, f, n, b, Tail(v))
  <2>1. /\ f = IF SignsOnSync(d, l, x) THEN SignedDisk(d, l) ELSE d
        /\ n = IF SignsOnSync(d, l, x) THEN SignedLogs(d, l) ELSE l
        /\ x = Head(v) /\ y = SyncAnswer(s, d, l, x)
    OBVIOUS
  <2>2. Known(d, l, e, m, "syncing", w) /\ Half(s, d, l, e, m, "syncing", w)
    BY <1>1, <1>3
  <2> HIDE DEF d, l, e, m, b, w, v, f, n, x, y, p, signs
  <2> QED
    BY <1>1, <1>2, <1>3, <1>4, <2>1, <2>2, Synced DEF p
<1>6. signs => CanSign(d, l)
  BY SideParts, AlwaysSigns
<1>7. /\ Reply(s, y) /\ pc' = [pc EXCEPT ![s] = "ready"]
      /\ bucket' = [bucket EXCEPT ![s] = f] /\ log' = [log EXCEPT ![s] = n]
  <2>1. /\ Reply(s, y) /\ pc' = [pc EXCEPT ![s] = "ready"]
        /\ bucket' = IF signs THEN [bucket EXCEPT ![s] = SignedDisk(d, l)] ELSE bucket
        /\ log' = IF signs THEN [log EXCEPT ![s] = SignedLogs(d, l)] ELSE log
    BY <1>5, <1>6 DEF ProcessChanSyncMsg
  <2>2. bucket = [bucket EXCEPT ![s] = d] /\ log = [log EXCEPT ![s] = l]
    BY SideParts
  <2> HIDE DEF d, l, signs, y
  <2> QED
    BY <2>1, <2>2
<1>8. IsSeq(y)
  <2>1. d \in DiskType /\ l \in LogsType /\ LogInv(d, l)
    BY SideParts
  <2> HIDE DEF d, l, x
  <2> QED
    BY <1>5, <2>1, AnswerTyped
<1>9. wire'[s] = Tail(v) /\ wire'[p] = w \o y
  <2>1. wire = [z \in Side |-> wire[z]] /\ \A z \in Side : IsSeq(wire[z])
    BY SideParts
  <2> HIDE DEF y
  <2> QED
    BY <1>3, <1>7, <1>8, <2>1, Replied
<1> HIDE DEF f, n, y
<1>10. /\ bucket'[s] = f /\ log'[s] = n /\ pc'[s] = "ready"
       /\ bucket'[p] = e /\ log'[p] = m /\ pc'[p] = b
  BY <1>7, Moved
<1> HIDE DEF AgreeInv, d, l, e, m, p, b, w, v, x
<1> QED
  BY <1>5, <1>9, <1>10, AgreeStep DEF p, e, m, b

\* AgreeInv is inductive, with ChannelInv and WaitInv.
THEOREM AgreeInductive ==
    ASSUME FeeRatesKnown
    PROVE  ChannelSpec => []AgreeInv
<1>1. ChannelInit => AgreeInv
  BY BeginsAgreed
<1>2. ChannelInv /\ WaitInv /\ AgreeInv /\ [ChannelNext]_channelVars /\ ChannelInv' => AgreeInv'
  <2> SUFFICES ASSUME ChannelInv, WaitInv, AgreeInv, [ChannelNext]_channelVars, ChannelInv'
               PROVE  AgreeInv'
    OBVIOUS
  <2>1. CASE UNCHANGED channelVars
    BY <2>1 DEF channelVars, AgreeInv
  <2>2. ASSUME NEW s \in Side, Resolve(s)
        PROVE  AgreeInv'
    <3>1. PICK id \in 0 .. (MaxHtlcs - 1), type \in {"Settle", "Fail"} : ResolveHTLC(s, id, type)
      BY <2>2 DEF Resolve
    <3> QED
      BY <3>1, ResolveAgrees
  <2>3. ASSUME NEW s \in Side, ChangeFee(s)
        PROVE  AgreeInv'
    <3>1. PICK rate \in FeeRates : UpdateFee(s, rate)
      BY <2>3 DEF ChangeFee
    <3>2. rate \in Nat
      BY CommitmentChannelAssumption
    <3> QED
      BY <3>1, <3>2, FeeAgrees
  <2>4. ASSUME NEW s \in Side, Link(s)
        PROVE  AgreeInv'
    BY <2>4, SigningAgrees, TakenAgrees, CommitSigAgrees, RevocationAgrees, ChanSyncAgrees
       DEF Link
  <2>5. CASE Disconnect
    BY <2>5, DisconnectAgrees
  <2> QED
    BY <2>1, <2>2, <2>3, <2>4, <2>5, AddAgrees DEF ChannelNext
<1> QED
  BY <1>1, <1>2, ChannelInductive, WaitInductive, PTL DEF ChannelSpec

\* Two honest sides never disagree, whatever is lost on the way.
THEOREM AgreeSafety ==
    ASSUME FeeRatesKnown
    PROVE  ChannelSpec => []NeverFails
<1>1. AgreeInv => NeverFails
  BY DEF AgreeInv, Half, NeverFails
<1> QED
  BY <1>1, AgreeInductive, PTL

-----------------------------------------------------------------------------
(* The money in the next commitment.                                       *)

\* What a side has in a commitment, in its balance and in HTLCs it offers.
Held(k, c) == k.balance[c] + Cardinality(k.htlcs[c])

\* As many elements on both sides of a map that is one to one.
LEMMA OneToOne ==
    ASSUME NEW S, IsFiniteSet(S), NEW T, NEW g \in [S -> T],
           \A t \in T : \E x \in S : g[x] = t,
           \A x, y \in S : g[x] = g[y] => x = y
    PROVE  IsFiniteSet(T) /\ Cardinality(T) = Cardinality(S)
<1>1. g \in Injection(S, T)
  BY DEF Injection, IsInjective
<1>2. g \in Surjection(S, T)
  BY DEF Surjection
<1>3. ExistsBijection(S, T)
  BY <1>1, <1>2 DEF Bijection, ExistsBijection
<1> QED
  BY <1>3, FS_Bijection

\* As many elements as there are ids.
LEMMA SameIds ==
    ASSUME NEW S, IsFiniteSet(S), NEW T,
           \A x \in S : \E t \in T : t.id = x.id,
           \A t \in T : \E x \in S : x.id = t.id,
           \A x, y \in S : x.id = y.id => x = y,
           \A t, u \in T : t.id = u.id => t = u
    PROVE  IsFiniteSet(T) /\ Cardinality(T) = Cardinality(S)
<1> DEFINE f(x) == CHOOSE t \in T : t.id = x.id
           g == [x \in S |-> f(x)]
<1>1. \A x \in S : f(x) \in T /\ f(x).id = x.id
  OBVIOUS
<1> HIDE DEF f
<1>2. g \in [S -> T] /\ \A x \in S : g[x] = f(x)
  BY <1>1
<1>3. \A t \in T : \E x \in S : g[x] = t
  BY <1>1, <1>2
<1>4. \A x, y \in S : g[x] = g[y] => x = y
  BY <1>1, <1>2
<1> HIDE DEF g
<1> QED
  BY <1>2, <1>3, <1>4, OneToOne

\* Disjoint sets are counted one after the other.
LEMMA DisjointSize ==
    ASSUME NEW S, IsFiniteSet(S), NEW T, IsFiniteSet(T), S \cap T = {}
    PROVE  /\ IsFiniteSet(S \cup T)
           /\ Cardinality(S) \in Nat /\ Cardinality(T) \in Nat
           /\ Cardinality(S \cup T) = Cardinality(S) + Cardinality(T)
<1>1. Cardinality(S) \in Nat /\ Cardinality(T) \in Nat /\ Cardinality(S \cap T) = 0
  BY FS_EmptySet, FS_CardinalityType
<1>2. /\ IsFiniteSet(S \cup T)
      /\ Cardinality(S \cup T) = Cardinality(S) + Cardinality(T) - Cardinality(S \cap T)
  BY FS_Union
<1> QED
  BY <1>1, <1>2

\* The HTLCs of the next commitment: the ones before, those that were added
\* and not those that were settled or failed.
LEMMA HtlcsNext ==
    ASSUME NEW d \in DiskType, NEW l \in LogsType, LogInv(d, l), NEW ch \in Chain,
           NEW upto \in Heights,
           \A x \in Chain : Tip(d, ch).messageIndex[x] <= upto[x],
           ParentsFetched(l, fetchHTLCView(l, upto), ch),
           NEW W, W = [x \in Chain |-> Window(l, Tip(d, ch), upto, x)],
           NEW n, Follows(Tip(d, ch), W, n), NEW c \in Chain
    PROVE  Cardinality(n.htlcs[c]) =
              Cardinality(Tip(d, ch).htlcs[c]) + Count(W[c], "Add")
                - Count(W[Opposite(c)], "Settle") - Count(W[Opposite(c)], "Fail")
<1> DEFINE k == Tip(d, ch)
           o == Opposite(c)
           A == k.htlcs[c]
           add == OfType(W[c], "Add")
           B == {Htlc(u) : u \in add}
           S == {r \in W[o] : r.type = "Settle"}
           F == {r \in W[o] : r.type = "Fail"}
           R == S \cup F
           G == {h \in A : Resolves(W[o], h.id)}
<1>1. /\ o \in Chain /\ Opposite(o) = c /\ Distinct(l) /\ Stamped(d, l) /\ Parents(d, l)
      /\ k \in Commitments(d) /\ k \in CommitmentType /\ FiniteCommit(k)
      /\ IsFiniteSet(A)
  <2>1. o \in Chain /\ Opposite(o) = c
    BY DEF Opposite, Chain
  <2>2. k \in Commitments(d) /\ k \in CommitmentType /\ FiniteCommit(k)
    BY DiskParts DEF Tip, Commitments, Chain, RemoteTip, HasUnacked
  <2> QED
    BY <2>1, <2>2 DEF LogInv, FiniteCommit
<1>2. \A x \in Chain : /\ W[x] \in SUBSET UpdatesOf(l, x) /\ IsFiniteSet(W[x])
                       /\ \A u \in W[x] : k.messageIndex[x] <= u.logIndex /\ u.logIndex < upto[x]
  <2> SUFFICES ASSUME NEW x \in Chain
               PROVE  /\ W[x] \in SUBSET UpdatesOf(l, x) /\ IsFiniteSet(W[x])
                      /\ \A u \in W[x] : k.messageIndex[x] <= u.logIndex /\ u.logIndex < upto[x]
    OBVIOUS
  <2>1. W[x] \in SUBSET UpdatesOf(l, x)
    BY DEF Window
  <2>2. IsFiniteSet(UpdatesOf(l, x))
    BY UpdateParts
  <2>3. \A u \in W[x] : k.messageIndex[x] <= u.logIndex /\ u.logIndex < upto[x]
    BY DEF Window
  <2> QED
    BY <2>1, <2>2, <2>3, FS_Subset
<1>3. n.htlcs[c] = {h \in A \cup B : ~ Resolves(W[o], h.id)}
  BY DEF Follows
<1>4. /\ \A h \in A : \E a \in OpenAt(l, k, c) : h = Htlc(a)
      /\ \A a \in OpenAt(l, k, c) :
            /\ Htlc(a) \in A /\ a \in l[c].entries /\ a.type = "Add" /\ On(a, k, c)
            /\ ~ ResolvedAt(l, k, c, a.id)
  BY <1>1, StoredHtlcs
<1>5. \A x \in Chain : /\ k.messageIndex[x] \in Nat /\ upto[x] \in Nat
                       /\ \A e \in l[x].entries : e.logIndex \in Nat
  BY <1>1, CommitParts, EntriesOf, EntryParts DEF Heights
<1>6. /\ \A u \in add : \E a \in l[c].entries :
            a.type = "Add" /\ a.id = u.id /\ Htlc(a) = Htlc(u) /\ ~ On(a, k, c)
            /\ a.logIndex = u.logIndex /\ u = LogUpdate(a)
      /\ \A r \in R : \E x \in l[o].entries :
            IsRemoval(x) /\ x.id = r.id /\ ~ On(x, k, o) /\ x.logIndex < upto[o]
            /\ r = LogUpdate(x)
  <2>1. ASSUME NEW u \in add
        PROVE  \E a \in l[c].entries :
                  a.type = "Add" /\ a.id = u.id /\ Htlc(a) = Htlc(u) /\ ~ On(a, k, c)
                  /\ a.logIndex = u.logIndex /\ u = LogUpdate(a)
    <3>1. u \in W[c] /\ u.type = "Add" /\ u \in UpdatesOf(l, c) /\ k.messageIndex[c] <= u.logIndex
      BY <1>2 DEF OfType
    <3>2. PICK a \in l[c].entries : /\ u = LogUpdate(a) /\ u.type = a.type /\ u.logIndex = a.logIndex
                                    /\ u.id = a.id /\ Htlc(u) = Htlc(a)
      BY <3>1, UpdateParts
    <3> HIDE DEF k
    <3> QED
      BY <1>5, <3>1, <3>2 DEF On
  <2>2. ASSUME NEW r \in R
        PROVE  \E x \in l[o].entries :
                  IsRemoval(x) /\ x.id = r.id /\ ~ On(x, k, o) /\ x.logIndex < upto[o]
                  /\ r = LogUpdate(x)
    <3>1. r \in W[o] /\ IsRemoval(r) /\ r \in UpdatesOf(l, o)
          /\ k.messageIndex[o] <= r.logIndex /\ r.logIndex < upto[o]
      BY <1>1, <1>2 DEF IsRemoval
    <3>2. PICK x \in l[o].entries : /\ r = LogUpdate(x) /\ r.logIndex = x.logIndex /\ r.id = x.id
                                    /\ IsRemoval(r) <=> IsRemoval(x)
      BY <1>1, <3>1, UpdateParts
    <3> HIDE DEF k, o
    <3> QED
      BY <1>1, <1>5, <3>1, <3>2 DEF On
  <2> QED
    BY <2>1, <2>2
<1>7. IsFiniteSet(B) /\ Cardinality(B) = Count(W[c], "Add")
  <2>1. IsFiniteSet(add) /\ Count(W[c], "Add") = Cardinality(add)
    <3>1. add \in SUBSET W[c] /\ Count(W[c], "Add") = Cardinality(add)
      BY DEF OfType, Count
    <3> QED
      BY <1>2, <3>1, FS_Subset
  <2>2. \A u, v \in add : u.id = v.id => u = v
    <3> SUFFICES ASSUME NEW u \in add, NEW v \in add, u.id = v.id
                 PROVE  u = v
      OBVIOUS
    <3>1. PICK a \in l[c].entries : a.type = "Add" /\ a.id = u.id /\ u = LogUpdate(a)
      BY <1>6
    <3>2. PICK b \in l[c].entries : b.type = "Add" /\ b.id = v.id /\ v = LogUpdate(b)
      BY <1>6
    <3> QED
      BY <1>1, <3>1, <3>2 DEF Distinct
  <2>3. \A u : Htlc(u).id = u.id
    BY DEF Htlc
  <2> HIDE DEF add
  <2>4. /\ \A x \in add : \E t \in B : t.id = x.id
        /\ \A t \in B : \E x \in add : x.id = t.id
        /\ \A t, u \in B : t.id = u.id => t = u
    BY <2>2, <2>3
  <2> HIDE DEF B
  <2> QED
    BY <2>1, <2>2, <2>4, SameIds
<1>8. A \cap B = {}
  <2> SUFFICES ASSUME NEW h \in A, NEW u \in add, h = Htlc(u)
               PROVE  FALSE
    OBVIOUS
  <2>1. PICK a \in l[c].entries : h = Htlc(a) /\ On(a, k, c)
    BY <1>4
  <2>2. PICK b \in l[c].entries : Htlc(b) = Htlc(u) /\ ~ On(b, k, c)
    BY <1>6
  <2>3. a.logIndex = b.logIndex
    BY <2>1, <2>2 DEF Htlc
  <2> QED
    BY <2>1, <2>2, <2>3 DEF On
<1>9. \A id : Resolves(W[o], id) <=> \E r \in R : r.id = id
  BY DEF Resolves, IsRemoval
<1>10. \A h \in B : ~ Resolves(W[o], h.id)
  <2>1. ASSUME NEW h \in B, NEW r \in R, r.id = h.id
        PROVE  FALSE
    <3>1. PICK u \in add : h = Htlc(u)
      OBVIOUS
    <3>2. PICK a \in l[c].entries : a.type = "Add" /\ a.id = u.id /\ ~ On(a, k, c)
      BY <1>6
    <3>3. PICK x \in l[o].entries : IsRemoval(x) /\ x.id = r.id /\ x.logIndex < upto[o]
      BY <1>6
    <3>4. x \in fetchHTLCView(l, upto)[o] /\ x.id = a.id /\ a \in AddsOf(l[c])
      BY <1>1, <2>1, <3>1, <3>2, <3>3 DEF fetchHTLCView, Htlc, AddsOf
    <3> QED
      BY <1>1, <3>2, <3>3, <3>4, FreshIs
  <2> HIDE DEF B, R, o
  <2> QED
    BY <1>9, <2>1
<1>11. \A r \in R : \E h \in A : h.id = r.id
  <2> SUFFICES ASSUME NEW r \in R
               PROVE  \E h \in A : h.id = r.id
    OBVIOUS
  <2>1. PICK x \in l[o].entries : IsRemoval(x) /\ x.id = r.id /\ x.logIndex < upto[o] /\ ~ On(x, k, o)
    BY <1>6
  <2>2. x \in fetchHTLCView(l, upto)[o]
    BY <1>1, <2>1 DEF fetchHTLCView
  <2>3. PICK a \in AddsOf(l[c]) : a.id = x.id /\ a.added[ch] # 0
    BY <1>1, <2>1, <2>2 DEF ParentsFetched
  <2>4. a \in l[c].entries /\ a.type = "Add" /\ On(a, k, c)
    BY <1>1, <2>3 DEF AddsOf, Stamped, StampedOn, StampOf
  <2>5. ~ ResolvedAt(l, k, c, a.id)
    <3> SUFFICES ASSUME NEW y \in l[o].entries, IsRemoval(y), y.id = a.id, On(y, k, o)
                 PROVE  FALSE
      BY DEF ResolvedAt
    <3> QED
      BY <1>1, <2>1, <2>3 DEF Distinct
  <2>6. Htlc(a) \in A /\ Htlc(a).id = r.id
    BY <1>4, <2>1, <2>3, <2>4, <2>5 DEF OpenAt, Htlc
  <2> QED
    BY <2>6
<1>12. \A g, h \in A : g.id = h.id => g = h
  <2> SUFFICES ASSUME NEW g \in A, NEW h \in A, g.id = h.id
               PROVE  g = h
    OBVIOUS
  <2>1. PICK a \in l[c].entries : a.type = "Add" /\ g = Htlc(a)
    BY <1>4
  <2>2. PICK b \in l[c].entries : b.type = "Add" /\ h = Htlc(b)
    BY <1>4
  <2> QED
    BY <1>1, <2>1, <2>2 DEF Distinct, Htlc
<1>13. \A r, q \in R : r.id = q.id => r = q
  <2> SUFFICES ASSUME NEW r \in R, NEW q \in R, r.id = q.id
               PROVE  r = q
    OBVIOUS
  <2>1. PICK x \in l[o].entries : IsRemoval(x) /\ x.id = r.id /\ r = LogUpdate(x)
    BY <1>6
  <2>2. PICK y \in l[o].entries : IsRemoval(y) /\ y.id = q.id /\ q = LogUpdate(y)
    BY <1>6
  <2> QED
    BY <1>1, <2>1, <2>2 DEF Distinct
<1>14. /\ IsFiniteSet(R) /\ Count(W[o], "Settle") \in Nat /\ Count(W[o], "Fail") \in Nat
       /\ Cardinality(R) = Count(W[o], "Settle") + Count(W[o], "Fail")
  <2>1. IsFiniteSet(S) /\ IsFiniteSet(F)
    <3>1. S \in SUBSET W[o] /\ F \in SUBSET W[o]
      OBVIOUS
    <3> HIDE DEF S, F
    <3> QED
      BY <1>1, <1>2, <3>1, FS_Subset
  <2>2. S \cap F = {}
    OBVIOUS
  <2>3. Count(W[o], "Settle") = Cardinality(S) /\ Count(W[o], "Fail") = Cardinality(F)
    BY DEF Count
  <2> HIDE DEF S, F
  <2> QED
    BY <2>1, <2>2, <2>3, DisjointSize
<1>15. Cardinality(G) = Cardinality(R)
  <2>1. /\ \A r \in R : \E h \in G : h.id = r.id
        /\ \A h \in G : \E r \in R : r.id = h.id
    BY <1>9, <1>11
  <2>2. \A g, h \in G : g.id = h.id => g = h
    BY <1>12
  <2> HIDE DEF G, R
  <2> QED
    BY <1>13, <1>14, <2>1, <2>2, SameIds
<1>16. n.htlcs[c] = (A \ G) \cup B
  <2> HIDE DEF B, A
  <2> QED
    BY <1>3, <1>10
<1>17. A \cap G = G /\ (A \ G) \cap B = {}
  <2> HIDE DEF B, A
  <2> QED
    BY <1>8
<1> HIDE DEF A, B, G, R, k, o
<1>18. IsFiniteSet(A \ G) /\ Cardinality(A \ G) = Cardinality(A) - Cardinality(G)
  BY <1>1, <1>17, FS_Difference
<1>19. Cardinality((A \ G) \cup B) = Cardinality(A \ G) + Cardinality(B)
  BY <1>7, <1>17, <1>18, DisjointSize
<1>20. Cardinality(A) \in Nat /\ Cardinality(B) \in Nat
  BY <1>1, <1>7, FS_CardinalityType
<1>21. Cardinality(n.htlcs[c]) = Cardinality(A) + Count(W[c], "Add") - Count(W[o], "Settle") - Count(W[o], "Fail")
  BY <1>7, <1>14, <1>15, <1>16, <1>18, <1>19, <1>20
<1> QED
  BY <1>21 DEF A, o, k

\* What a side has in the next commitment: what it settles is added, what the
\* other side settles is taken away.
LEMMA HeldNext ==
    ASSUME NEW d \in DiskType, NEW l \in LogsType, LogInv(d, l), NEW ch \in Chain,
           NEW upto \in Heights,
           \A x \in Chain : Tip(d, ch).messageIndex[x] <= upto[x],
           ParentsFetched(l, fetchHTLCView(l, upto), ch),
           NEW W, W = [x \in Chain |-> Window(l, Tip(d, ch), upto, x)],
           NEW n, Follows(Tip(d, ch), W, n)
    PROVE  /\ \A c \in Chain :
                 /\ Held(n, c) = Held(Tip(d, ch), c) + Count(W[c], "Settle")
                                    - Count(W[Opposite(c)], "Settle")
                 /\ Held(n, c) \in Int /\ Held(Tip(d, ch), c) \in Int
                 /\ Count(W[c], "Settle") \in Nat
           /\ Held(n, "local") + Held(n, "remote")
                 = Held(Tip(d, ch), "local") + Held(Tip(d, ch), "remote")
<1> DEFINE k == Tip(d, ch)
<1>1. k \in CommitmentType /\ FiniteCommit(k)
  BY DiskParts DEF Tip, Chain, RemoteTip, HasUnacked
<1>2. ASSUME NEW c \in Chain, NEW type
      PROVE  Count(W[c], type) \in Nat
  <2>1. W[c] \in SUBSET UpdatesOf(l, c) /\ IsFiniteSet(UpdatesOf(l, c))
    BY UpdateParts DEF Window
  <2>2. IsFiniteSet(W[c])
    BY <2>1, FS_Subset
  <2> QED
    BY <2>2, CountType
<1>3. ASSUME NEW c \in Chain
      PROVE  /\ Held(n, c) = Held(k, c) + Count(W[c], "Settle") - Count(W[Opposite(c)], "Settle")
             /\ Held(n, c) \in Int /\ Held(k, c) \in Int
  <2>1. Cardinality(n.htlcs[c]) = Cardinality(k.htlcs[c]) + Count(W[c], "Add")
                - Count(W[Opposite(c)], "Settle") - Count(W[Opposite(c)], "Fail")
    BY HtlcsNext
  <2>2. n.balance[c] = k.balance[c] - Count(W[c], "Add") + Count(W[c], "Settle")
                                + Count(W[Opposite(c)], "Fail")
    BY DEF Follows
  <2>3. Cardinality(k.htlcs[c]) \in Nat /\ k.balance[c] \in Int
    BY <1>1, CommitParts, FS_CardinalityType DEF FiniteCommit
  <2>4. Opposite(c) \in Chain
    BY DEF Opposite, Chain
  <2> HIDE DEF k
  <2> QED
    BY <1>2, <2>1, <2>2, <2>3, <2>4 DEF Held
<1>4. /\ "local" \in Chain /\ "remote" \in Chain
      /\ Opposite("local") = "remote" /\ Opposite("remote") = "local"
  BY DEF Chain, Opposite
<1>5. Held(n, "local") + Held(n, "remote") = Held(k, "local") + Held(k, "remote")
  <2> HIDE DEF k
  <2> QED
    BY <1>2, <1>3, <1>4
<1> QED
  BY <1>2, <1>3, <1>5

-----------------------------------------------------------------------------
(* The settles a side was told of.                                         *)

\* HTLCs that the settles in its forwarding packages name, and those that the
\* settles in the log of the peer name, up to index n.
SettledOf(d) ==
    UNION {{u.id : u \in {v \in p.updates : v.type \in {"Settle"}}} : p \in d.fwdPkgs}
SettlesIn(l, a, b) ==
    {u \in UpdatesOf(l, "remote") : u.type = "Settle" /\ a <= u.logIndex /\ u.logIndex < b}
Settled(d, l, n) ==
    SettledOf(d) \cup
        {u.id : u \in SettlesIn(l, d.commit["remote"].messageIndex["remote"], n)}

\* Updates in a window, and the settles among them.
LEMMA SettlesAre ==
    ASSUME NEW l \in LogsType, NEW a, NEW b
    PROVE  /\ SettlesIn(l, a, b) \in SUBSET UpdatesOf(l, "remote")
           /\ IsFiniteSet(SettlesIn(l, a, b))
           /\ SettlesIn(l, a, b) =
                {u \in {v \in UpdatesOf(l, "remote") : a <= v.logIndex /\ v.logIndex < b} :
                    u.type = "Settle"}
           /\ \A u \in SettlesIn(l, a, b) : u.id \in Nat /\ u.logIndex \in Nat
<1>1. "remote" \in Chain
  BY DEF Chain
<1>2. SettlesIn(l, a, b) \in SUBSET UpdatesOf(l, "remote")
  BY DEF SettlesIn
<1>3. IsFiniteSet(SettlesIn(l, a, b))
  BY <1>1, <1>2, UpdateParts, FS_Subset
<1>4. \A u \in SettlesIn(l, a, b) : u.id \in Nat /\ u.logIndex \in Nat
  BY <1>1, <1>2, UpdateParts
<1> QED
  BY <1>2, <1>3, <1>4 DEF SettlesIn

\* The same window has the same settles.
LEMMA SameSettles ==
    ASSUME NEW l, NEW n, NEW a, NEW b,
           {u \in UpdatesOf(l, "remote") : a <= u.logIndex /\ u.logIndex < b}
              = {u \in UpdatesOf(n, "remote") : a <= u.logIndex /\ u.logIndex < b}
    PROVE  SettlesIn(n, a, b) = SettlesIn(l, a, b)
<1> DEFINE V(g) == {u \in UpdatesOf(g, "remote") : a <= u.logIndex /\ u.logIndex < b}
<1>1. \A g, u : u \in SettlesIn(g, a, b) <=> u \in V(g) /\ u.type = "Settle"
  BY DEF SettlesIn
<1>2. V(l) = V(n)
  OBVIOUS
<1> HIDE DEF V
<1> QED
  BY <1>1, <1>2

\* HTLCs in the packages are gone.
LEMMA SettledGone ==
    ASSUME NEW d, NEW l, Fits(d, l)
    PROVE  /\ \A id \in SettledOf(d) : id \in Nat /\ Gone(d.commit["remote"], id)
           /\ IsFiniteSet(SettledOf(d))
<1>1. d \in DiskType /\ Packages(d)
  BY DEF Fits, LogInv
<1>2. d.fwdPkgs \in SUBSET [height : Nat, updates : SUBSET LogUpdateType]
  BY <1>1, DiskFields
<1>3. ASSUME NEW id \in SettledOf(d)
      PROVE  id \in Nat /\ Gone(d.commit["remote"], id)
  <2>1. PICK p \in d.fwdPkgs : \E u \in p.updates : u.type = "Settle" /\ u.id = id
    BY DEF SettledOf
  <2>2. PICK u \in p.updates : u.type = "Settle" /\ u.id = id
    BY <2>1
  <2>3. u \in LogUpdateType
    BY <1>2
  <2>4. id \in Nat
    BY <2>2, <2>3 DEF LogUpdateType
  <2>5. HandedOver(d, {"Settle", "Fail"}, id)
    BY <2>2 DEF HandedOver
  <2> QED
    BY <1>1, <2>4, <2>5 DEF Packages
<1>4. IsFiniteSet(SettledOf(d))
  <2>1. d.commit["remote"].htlcIndex["local"] \in Nat
    BY <1>1, DiskParts, CommitParts DEF Chain
  <2>2. /\ SettledOf(d) \in SUBSET Nat
        /\ \A id \in SettledOf(d) : id <= d.commit["remote"].htlcIndex["local"]
    BY <1>3, <2>1 DEF Gone
  <2> QED
    BY <2>1, <2>2, FS_BoundedSetOfNaturals
<1> QED
  BY <1>3, <1>4

\* A window more, and what its settles name.
LEMMA SettledNext ==
    ASSUME NEW d, NEW l, Fits(d, l), NEW x \in Nat, NEW y \in Nat,
           d.commit["remote"].messageIndex["remote"] <= x, x <= y,
           NEW V, V = {u \in UpdatesOf(l, "remote") : x <= u.logIndex /\ u.logIndex < y}
    PROVE  /\ Cardinality(Settled(d, l, x)) \in Nat
           /\ Count(V, "Settle") \in Nat
           /\ Cardinality(Settled(d, l, y)) = Cardinality(Settled(d, l, x)) + Count(V, "Settle")
<1> DEFINE a == d.commit["remote"].messageIndex["remote"]
           S == SettlesIn(l, a, x)
           T == SettlesIn(l, x, y)
           P == {u.id : u \in S}
           Q == {u.id : u \in T}
<1>1. /\ d \in DiskType /\ l \in LogsType /\ LogInv(d, l) /\ a \in Nat /\ a <= x
      /\ "remote" \in Chain /\ "local" \in Chain
      /\ Opposite("local") = "remote" /\ Opposite("remote") = "local"
      /\ Distinct(l) /\ Parents(d, l) /\ d.commit["remote"] \in Commitments(d)
  <2>1. d \in DiskType /\ l \in LogsType /\ LogInv(d, l)
    BY DEF Fits
  <2>2. "remote" \in Chain /\ "local" \in Chain
    BY DEF Chain
  <2> QED
    BY <2>1, <2>2, DiskParts, CommitParts DEF Opposite, LogInv, Commitments
<1>2. SettlesIn(l, a, y) = S \cup T
  <2>1. \A u \in UpdatesOf(l, "remote") : u.logIndex \in Nat
    BY <1>1, UpdateParts
  <2>2. \A u \in UpdatesOf(l, "remote") :
            (a <= u.logIndex /\ u.logIndex < y) <=>
               (a <= u.logIndex /\ u.logIndex < x) \/ (x <= u.logIndex /\ u.logIndex < y)
    <3> HIDE DEF a
    <3> QED
      BY <1>1, <2>1
  <2> HIDE DEF a
  <2> QED
    BY <2>2 DEF SettlesIn
<1>3. /\ IsFiniteSet(S) /\ IsFiniteSet(T)
      /\ S \in SUBSET UpdatesOf(l, "remote") /\ T \in SUBSET UpdatesOf(l, "remote")
      /\ T = {u \in V : u.type = "Settle"}
  <2> HIDE DEF a
  <2> QED
    BY <1>1, SettlesAre
<1>4. \A u \in S \cup T : /\ IsRemoval(u) /\ u \in UpdatesOf(l, "remote")
                          /\ a <= u.logIndex /\ u.logIndex \in Nat
  <2>1. \A u \in S \cup T : u.type = "Settle" /\ u \in UpdatesOf(l, "remote")
    BY DEF SettlesIn
  <2>2. \A u \in S \cup T : u.logIndex \in Nat
    BY <1>1, <2>1, UpdateParts
  <2>3. \A u \in S : a <= u.logIndex
    BY DEF SettlesIn
  <2>4. \A u \in T : x <= u.logIndex
    BY DEF SettlesIn
  <2> HIDE DEF a, S, T
  <2> QED
    BY <1>1, <2>1, <2>2, <2>3, <2>4 DEF IsRemoval
<1>5. \A u, v \in S \cup T : u.id = v.id => u = v
  <2> HIDE DEF a, S, T
  <2> QED
    BY <1>1, <1>4, UpdateAt
<1>6. S \cap T = {}
  <2>1. \A u \in S : u.logIndex < x
    BY DEF SettlesIn
  <2>2. \A u \in T : x <= u.logIndex
    BY DEF SettlesIn
  <2> HIDE DEF S, T
  <2> QED
    BY <1>4, <2>1, <2>2
<1>7. IsFiniteSet(P) /\ IsFiniteSet(Q) /\ Cardinality(Q) = Cardinality(T)
  <2>1. ASSUME NEW Z, Z = S \/ Z = T, NEW I, I = {u.id : u \in Z}
        PROVE  IsFiniteSet(I) /\ Cardinality(I) = Cardinality(Z)
    <3> DEFINE g == [u \in Z |-> u.id]
    <3>1. IsFiniteSet(Z) /\ \A u, v \in Z : u.id = v.id => u = v
      <4> HIDE DEF S, T
      <4> QED
        BY <1>3, <1>5, <2>1
    <3> HIDE DEF S, T
    <3>2. g \in [Z -> I]
      BY <2>1
    <3>3. \A t \in I : \E u \in Z : g[u] = t
      BY <2>1
    <3>4. \A u, v \in Z : g[u] = g[v] => u = v
      BY <3>1
    <3> HIDE DEF g
    <3> QED
      BY <3>1, <3>2, <3>3, <3>4, OneToOne
  <2> HIDE DEF S, T
  <2> QED
    BY <2>1
<1>8. IsFiniteSet(SettledOf(d)) /\ \A id \in SettledOf(d) : Gone(d.commit["remote"], id) /\ id \in Nat
  BY SettledGone
<1>9. SettledOf(d) \cap Q = {}
  <2> SUFFICES ASSUME NEW u \in T, u.id \in SettledOf(d)
               PROVE  FALSE
    OBVIOUS
  <2>1. IsRemoval(u) /\ u \in UpdatesOf(l, "remote") /\ a <= u.logIndex
    BY <1>4
  <2>2. PICK r \in l["remote"].entries : r.id = u.id /\ r.logIndex = u.logIndex /\ IsRemoval(r)
    BY <1>1, <2>1, UpdateParts
  <2>3. PICK h \in AddsOf(l["local"]) : h.id = r.id
    BY <1>1, <2>2 DEF Parents, ParentOf
  <2>4. Gone(d.commit["remote"], h.id)
    BY <1>8, <2>2, <2>3
  <2>5. ResolvedAt(l, d.commit["remote"], "local", h.id)
    BY <1>1, <2>3, <2>4, GoneIs
  <2>6. PICK q \in l["remote"].entries : IsRemoval(q) /\ q.id = r.id /\ On(q, d.commit["remote"], "remote")
    BY <1>1, <2>3, <2>5 DEF ResolvedAt
  <2>7. q = r
    BY <1>1, <2>2, <2>6 DEF Distinct
  <2>8. r.logIndex < a /\ r.logIndex \in Nat
    BY <1>4, <2>2, <2>6, <2>7 DEF On
  <2> HIDE DEF a
  <2> QED
    BY <1>1, <2>1, <2>2, <2>8
<1>10. P \cap Q = {}
  <2> HIDE DEF S, T
  <2> QED
    BY <1>5, <1>6
<1>11. Settled(d, l, x) = SettledOf(d) \cup P
  BY DEF Settled
<1>12. Settled(d, l, y) = (SettledOf(d) \cup P) \cup Q
  <2>1. Settled(d, l, y) = SettledOf(d) \cup {u.id : u \in S \cup T}
    BY <1>2 DEF Settled
  <2> HIDE DEF S, T
  <2> QED
    BY <2>1
<1>13. Count(V, "Settle") = Cardinality(T)
  <2> HIDE DEF T
  <2> QED
    BY <1>3 DEF Count
<1> HIDE DEF P, Q, S, T, a
<1>14. IsFiniteSet(SettledOf(d) \cup P) /\ (SettledOf(d) \cup P) \cap Q = {}
  BY <1>7, <1>8, <1>9, <1>10, FS_Union
<1>15. /\ Cardinality(SettledOf(d) \cup P) \in Nat /\ Cardinality(Q) \in Nat
       /\ Cardinality((SettledOf(d) \cup P) \cup Q) = Cardinality(SettledOf(d) \cup P) + Cardinality(Q)
  BY <1>7, <1>14, DisjointSize
<1> QED
  BY <1>7, <1>11, <1>12, <1>13, <1>15

\* What a log was told by index i stays when the log changes above it or sheds
\* what both sides have.
SameBelow(l, n) ==
    \A u \in UpdatesOf(l, "remote"), v \in UpdatesOf(n, "remote") :
        u.logIndex = v.logIndex => u = v

\* The settles told by index i are the same in both.
LEMMA SettledKept ==
    ASSUME NEW d, NEW l, NEW f, NEW n, Fits(d, l), Fits(f, n), SameBelow(l, n),
           f.commit["remote"] = d.commit["remote"], f.fwdPkgs = d.fwdPkgs,
           NEW i \in Nat, i <= l["remote"].logIndex, i <= n["remote"].logIndex
    PROVE  Settled(f, n, i) = Settled(d, l, i)
<1> DEFINE a == d.commit["remote"].messageIndex["remote"]
<1>1. a \in Nat /\ l \in LogsType /\ n \in LogsType /\ "remote" \in Chain /\ a <= a
  <2>1. d \in DiskType /\ "remote" \in Chain
    BY DEF Fits, Chain
  <2>2. a \in Nat
    BY <2>1, DiskParts, CommitParts
  <2> HIDE DEF a
  <2> QED
    BY <2>1, <2>2 DEF Fits
<1>2. {u \in UpdatesOf(l, "remote") : a <= u.logIndex /\ u.logIndex < i}
        = {u \in UpdatesOf(n, "remote") : a <= u.logIndex /\ u.logIndex < i}
  BY <1>1, WindowKept DEF SameBelow
<1>3. SettlesIn(n, a, i) = SettlesIn(l, a, i)
  <2> HIDE DEF a
  <2> QED
    BY <1>2, SameSettles
<1>4. SettledOf(f) = SettledOf(d)
  BY DEF SettledOf
<1> QED
  BY <1>3, <1>4 DEF Settled

\* A revocation puts the settles it locks in into a package.
LEMMA SettledRevoked ==
    ASSUME NEW d, NEW l, Fits(d, l), HasUnacked(d), NEW f, NEW n,
           f = RevokedDisk(d, l), n = RevokedLogs(d, l),
           NEW i \in Nat, RemoteTip(d).messageIndex["remote"] <= i,
           i <= d.commit["local"].messageIndex["remote"]
    PROVE  Settled(f, n, i) = Settled(d, l, i)
<1> DEFINE a == d.commit["remote"].messageIndex["remote"]
           b == RemoteTip(d).messageIndex["remote"]
           L == NewlyLocked(d, l)
           new == {u.id : u \in {v \in LogUpdates(L) : v.type \in {"Settle"}}}
<1>1. /\ d \in DiskType /\ l \in LogsType /\ LogInv(d, l) /\ Ordered(d) /\ Bounded(d, l)
      /\ "remote" \in Chain /\ "local" \in Chain
  BY DEF Fits, Chain, LogInv
<1>2. a \in Nat /\ b \in Nat /\ a <= b /\ b <= b
  <2>1. a \in Nat /\ b \in Nat /\ a <= b
    BY <1>1, OrderedParts
  <2> HIDE DEF a, b
  <2> QED
    BY <2>1
<1>3. Fits(f, n)
  BY <1>1, Revoked DEF Fits
<1>4. /\ f.commit["remote"] = RemoteTip(d)
      /\ f.fwdPkgs = d.fwdPkgs \cup
            {[height |-> d.commit["remote"].height + 1, updates |-> LogUpdates(L)]}
      /\ L \in SUBSET l["remote"].entries
  BY <1>1, RevokedType
<1>5. SettledOf(f) = SettledOf(d) \cup new
  <2> DEFINE p == [height |-> d.commit["remote"].height + 1, updates |-> LogUpdates(L)]
             settles(x) == {u.id : u \in {v \in x.updates : v.type \in {"Settle"}}}
  <2>1. settles(p) = new
    <3> HIDE DEF L
    <3> QED
      OBVIOUS
  <2>2. /\ SettledOf(d) = UNION {settles(x) : x \in d.fwdPkgs}
        /\ SettledOf(f) = UNION {settles(x) : x \in f.fwdPkgs}
    BY DEF SettledOf
  <2>3. f.fwdPkgs = d.fwdPkgs \cup {p}
    BY <1>4
  <2> HIDE DEF settles, p, new, L
  <2> QED
    BY <2>1, <2>2, <2>3
<1>6. {v \in LogUpdates(L) : v.type \in {"Settle"}} = SettlesIn(l, a, b)
  <2>1. \A e \in l["remote"].entries : /\ LogUpdate(e).type = e.type
                                       /\ LogUpdate(e).logIndex = e.logIndex
                                       /\ e.logIndex \in Nat
                                       /\ LogUpdate(e) \in UpdatesOf(l, "remote")
    BY <1>1, UpdateParts, EntryParts
  <2>2. \A e \in l["remote"].entries : e.type = "Settle" =>
            (e \in L <=> a <= e.logIndex /\ e.logIndex < b)
    <3> SUFFICES ASSUME NEW e \in l["remote"].entries, e.type = "Settle"
                 PROVE  e \in L <=> a <= e.logIndex /\ e.logIndex < b
      OBVIOUS
    <3>1. e \in L <=> On(e, RemoteTip(d), "remote") /\ ~ On(e, d.commit["remote"], "remote")
      BY <1>1, LockedInAre
    <3>2. (On(e, RemoteTip(d), "remote") <=> e.logIndex < b)
          /\ (On(e, d.commit["remote"], "remote") <=> e.logIndex < a)
      BY DEF On
    <3> HIDE DEF a, b, L
    <3> QED
      BY <1>2, <2>1, <3>1, <3>2
  <2> HIDE DEF L, a, b
  <2>3. ASSUME NEW v \in LogUpdates(L), v.type = "Settle"
        PROVE  v \in SettlesIn(l, a, b)
    <3>1. PICK e \in L : v = LogUpdate(e)
      BY DEF LogUpdates
    <3> QED
      BY <1>4, <2>1, <2>2, <2>3, <3>1 DEF SettlesIn
  <2>4. ASSUME NEW v \in SettlesIn(l, a, b)
        PROVE  v \in LogUpdates(L) /\ v.type = "Settle"
    <3>1. v \in UpdatesOf(l, "remote") /\ v.type = "Settle" /\ a <= v.logIndex /\ v.logIndex < b
      BY DEF SettlesIn
    <3>2. PICK e \in l["remote"].entries : v = LogUpdate(e) /\ v.type = e.type /\ v.logIndex = e.logIndex
      BY <1>1, <3>1, UpdateParts
    <3>3. e \in L
      BY <2>2, <3>1, <3>2
    <3> QED
      BY <3>1, <3>2, <3>3 DEF LogUpdates
  <2> QED
    BY <2>3, <2>4
<1>7. SettlesIn(n, b, i) = SettlesIn(l, b, i)
  <2>1. /\ i <= l["remote"].logIndex /\ i <= n["remote"].logIndex
        /\ \A u \in UpdatesOf(l, "remote"), v \in UpdatesOf(n, "remote") :
              u.logIndex = v.logIndex => u = v
    <3>1. Sheds(l, n) /\ SameEnds(l, n)
      BY <1>1, RevokedSheds
    <3>2. d.commit["local"].messageIndex["remote"] <= l["remote"].logIndex
      BY <1>1 DEF Bounded
    <3>3. d.commit["local"].messageIndex["remote"] \in Nat /\ l["remote"].logIndex \in Nat
      BY <1>1, OrderedParts, EntriesOf
    <3>4. \A u, v \in UpdatesOf(l, "remote") : u.logIndex = v.logIndex => u = v
      BY <1>1, UpdateAt
    <3> QED
      BY <1>1, <3>1, <3>2, <3>3, <3>4 DEF Sheds, SameEnds
  <2>2. {u \in UpdatesOf(l, "remote") : b <= u.logIndex /\ u.logIndex < i}
          = {u \in UpdatesOf(n, "remote") : b <= u.logIndex /\ u.logIndex < i}
    <3>1. d.commit["remote"].messageIndex["remote"] <= b /\ f.commit["remote"].messageIndex["remote"] <= b
      BY <1>2, <1>4
    <3> HIDE DEF b
    <3> QED
      BY <1>1, <1>2, <1>3, <2>1, <3>1, WindowKept
  <2> HIDE DEF b
  <2> QED
    BY <2>2, SameSettles
<1>8. SettlesIn(l, a, i) = SettlesIn(l, a, b) \cup SettlesIn(l, b, i)
  <2>1. \A u \in UpdatesOf(l, "remote") : u.logIndex \in Nat
    BY <1>1, UpdateParts
  <2>2. b <= i
    OBVIOUS
  <2> HIDE DEF a, b
  <2>3. \A u \in UpdatesOf(l, "remote") :
            (a <= u.logIndex /\ u.logIndex < i) <=>
               (a <= u.logIndex /\ u.logIndex < b) \/ (b <= u.logIndex /\ u.logIndex < i)
    BY <1>2, <2>1, <2>2
  <2> QED
    BY <2>3 DEF SettlesIn
<1>9. Settled(f, n, i) = (SettledOf(d) \cup new) \cup {u.id : u \in SettlesIn(l, b, i)}
  BY <1>4, <1>5, <1>7 DEF Settled
<1>10. Settled(d, l, i) = SettledOf(d) \cup {u.id : u \in SettlesIn(l, a, i)}
  BY DEF Settled
<1>11. new = {u.id : u \in SettlesIn(l, a, b)}
  BY <1>6
<1> HIDE DEF new, a, b
<1> QED
  BY <1>8, <1>9, <1>10, <1>11

-----------------------------------------------------------------------------
(* What a side has follows from the settles that both were told of.        *)

\* Nothing is created or lost in a commitment.
Balanced(d) ==
    \A k \in Commitments(d) : Held(k, "local") + Held(k, "remote") = 2 * Balance

\* What a side has in its commitment: what it began with, and the settles that
\* the commitment includes, its own and those of the peer.
Earned(d, l, e, m) ==
    Held(d.commit["local"], "local")
        = Balance + Cardinality(Settled(e, m, d.commit["local"].messageIndex["local"]))
                  - Cardinality(Settled(d, l, d.commit["local"].messageIndex["remote"]))

\* The invariant for money, with AgreeInv, ChannelInv and WaitInv.
MoneyInv ==
    \A s \in Side : /\ Balanced(bucket[s])
                    /\ Earned(bucket[s], log[s], bucket[Peer(s)], log[Peer(s)])

\* Both sides at a step.
LEMMA MoneyParts ==
    ASSUME ChannelInv, WaitInv, AgreeInv, NEW s \in Side
    PROVE  /\ Peer(s) \in Side /\ Peer(s) # s /\ Peer(Peer(s)) = s
           /\ Fits(bucket[s], log[s]) /\ Fits(bucket[Peer(s)], log[Peer(s)])
           /\ Agree(bucket[s], log[s], bucket[Peer(s)], log[Peer(s)])
           /\ Agree(bucket[Peer(s)], log[Peer(s)], bucket[s], log[s])
           /\ OneSideFees(log[s])
           /\ NextOnDisk(bucket[s], log[s]) /\ NextOnDisk(bucket[Peer(s)], log[Peer(s)])
<1> DEFINE p == Peer(s)
<1>1. /\ p \in Side /\ p # s /\ Peer(p) = s
      /\ Known(bucket[s], log[s], bucket[p], log[p], pc[s], wire[p])
      /\ Half(s, bucket[s], log[s], bucket[p], log[p], pc[s], wire[p])
  BY AgreeParts
<1>2. /\ Known(bucket[p], log[p], bucket[s], log[s], pc[p], wire[s])
      /\ Half(p, bucket[p], log[p], bucket[s], log[s], pc[p], wire[s])
  BY <1>1, AgreeParts
<1> HIDE DEF p
<1>3. OneSideFees(log[s])
  BY <1>1, FeesOneSide DEF Half
<1> QED
  BY <1>1, <1>2, <1>3 DEF p, Known, Half, Agree

\* What a commitment includes of the updates of its owner, its peer has on its
\* own commitment.
LEMMA Told ==
    ASSUME NEW d, NEW l, NEW e, NEW m, Fits(d, l), Fits(e, m), Agree(d, l, e, m)
    PROVE  /\ e.commit["local"].messageIndex["local"] \in Nat
           /\ d.commit["local"].messageIndex["remote"] \in Nat
           /\ e.commit["local"].messageIndex["local"] <= d.commit["local"].messageIndex["remote"]
           /\ d.commit["remote"].messageIndex["remote"] <= e.commit["local"].messageIndex["local"]
           /\ d.commit["local"].messageIndex["remote"] <= l["remote"].logIndex
           /\ l["remote"].logIndex \in Nat
<1>1. /\ d \in DiskType /\ l \in LogsType /\ Ordered(d) /\ Bounded(d, l) /\ e \in DiskType
      /\ "local" \in Chain /\ "remote" \in Chain
  BY DEF Fits, LogInv, Chain
<1>2. e.commit["local"].messageIndex["local"] = Counterpart(d, e).messageIndex["remote"]
  BY Reached
<1>3. Counterpart(d, e) = d.commit["remote"] \/ Counterpart(d, e) = RemoteTip(d)
  BY DEF Counterpart
<1>4. /\ d.commit["remote"].messageIndex["remote"] \in Nat
      /\ RemoteTip(d).messageIndex["remote"] \in Nat
      /\ d.commit["local"].messageIndex["remote"] \in Nat
      /\ d.commit["remote"].messageIndex["remote"] <= RemoteTip(d).messageIndex["remote"]
      /\ RemoteTip(d).messageIndex["remote"] <= d.commit["local"].messageIndex["remote"]
      /\ l["remote"].logIndex \in Nat
  BY <1>1, OrderedParts, EntriesOf
<1>5. d.commit["local"].messageIndex["remote"] <= l["remote"].logIndex
  BY <1>1 DEF Bounded
<1> QED
  BY <1>2, <1>3, <1>4, <1>5

\* A step that changes no commitment, except for one that is signed.
LEMMA QuietMoney ==
    ASSUME ChannelInv, WaitInv, AgreeInv, MoneyInv, ChannelInv',
           \A q \in Side : /\ bucket'[q].commit = bucket[q].commit
                           /\ bucket'[q].fwdPkgs = bucket[q].fwdPkgs
                           /\ SameBelow(log[q], log'[q])
                           /\ Balanced(bucket'[q])
    PROVE  MoneyInv'
<1> SUFFICES ASSUME NEW q \in Side
             PROVE  Earned(bucket'[q], log'[q], bucket'[Peer(q)], log'[Peer(q)])
  BY DEF MoneyInv
<1> DEFINE p == Peer(q)
           d == bucket[q]
           l == log[q]
           e == bucket[p]
           m == log[p]
           f == bucket'[q]
           n == log'[q]
           g == bucket'[p]
           o == log'[p]
           i == d.commit["local"].messageIndex["local"]
           j == d.commit["local"].messageIndex["remote"]
<1>1. /\ p \in Side /\ Fits(d, l) /\ Fits(e, m) /\ Agree(d, l, e, m) /\ Agree(e, m, d, l)
  BY MoneyParts
<1>2. Fits(f, n) /\ Fits(g, o)
  BY <1>1, FitsAfter
<1>3. /\ f.commit = d.commit /\ f.fwdPkgs = d.fwdPkgs /\ SameBelow(l, n)
      /\ g.commit = e.commit /\ g.fwdPkgs = e.fwdPkgs /\ SameBelow(m, o)
      /\ Earned(d, l, e, m)
  BY <1>1 DEF MoneyInv
<1> HIDE DEF d, l, e, m, f, n, g, o, p
<1>4. /\ i \in Nat /\ j \in Nat /\ j <= l["remote"].logIndex
      /\ i <= e.commit["local"].messageIndex["remote"]
      /\ e.commit["local"].messageIndex["remote"] <= m["remote"].logIndex
      /\ e.commit["local"].messageIndex["remote"] \in Nat
      /\ m["remote"].logIndex \in Nat
  BY <1>1, Told
<1>5. /\ j <= n["remote"].logIndex /\ e.commit["local"].messageIndex["remote"] <= o["remote"].logIndex
      /\ o["remote"].logIndex \in Nat
  BY <1>2, <1>3, EntriesOf DEF Fits, LogInv, Bounded, Chain
<1>6. Settled(f, n, j) = Settled(d, l, j)
  <2> HIDE DEF j
  <2> QED
    BY <1>1, <1>2, <1>3, <1>4, <1>5, SettledKept
<1>7. Settled(g, o, i) = Settled(e, m, i)
  <2>1. i <= m["remote"].logIndex /\ i <= o["remote"].logIndex
    <3> HIDE DEF i
    <3> QED
      BY <1>4, <1>5
  <2> HIDE DEF i
  <2> QED
    BY <1>1, <1>2, <1>3, <1>4, <2>1, SettledKept
<1>8. Earned(f, n, g, o)
  BY <1>3, <1>6, <1>7 DEF Earned
<1> QED
  BY <1>8 DEF f, n, g, o, p

\* The logs of a side do not change below their end.
LEMMA SameBelowIs ==
    ASSUME NEW d, NEW l, NEW n, Fits(d, l),
           \/ UpdatesOf(n, "remote") \subseteq UpdatesOf(l, "remote")
           \/ \E u : Grows(l, n, "remote", u)
    PROVE  SameBelow(l, n)
<1>1. d \in DiskType /\ l \in LogsType /\ LogInv(d, l) /\ "remote" \in Chain
  BY DEF Fits, Chain
<1>2. /\ \A u, v \in UpdatesOf(l, "remote") : u.logIndex = v.logIndex => u = v
      /\ \A u \in UpdatesOf(l, "remote") : u.logIndex < l["remote"].logIndex /\ u.logIndex \in Nat
      /\ l["remote"].logIndex \in Nat
  BY <1>1, UpdateAt, UpdateParts, EntriesOf
<1>3. CASE UpdatesOf(n, "remote") \subseteq UpdatesOf(l, "remote")
  BY <1>2, <1>3 DEF SameBelow
<1>4. CASE \E u : Grows(l, n, "remote", u)
  <2>1. PICK u : UpdatesOf(n, "remote") = UpdatesOf(l, "remote") \cup {u} /\ u.logIndex = l["remote"].logIndex
    BY <1>4 DEF Grows
  <2> QED
    BY <1>2, <2>1 DEF SameBelow
<1> QED
  BY <1>3, <1>4

\* What is signed for the peer.
LEMMA SignedBalanced ==
    ASSUME NEW d, NEW l, Fits(d, l), ~ HasUnacked(d), OneSideFees(l), Balanced(d)
    PROVE  Balanced(SignedDisk(d, l))
<1> DEFINE f == SignedDisk(d, l)
           k == d.commit["remote"]
           n == createCommitDiff(d, l).commit
           upto == SignIndexes(d, l)
           W == [c \in Chain |-> Window(l, k, upto, c)]
<1>1. /\ d \in DiskType /\ l \in LogsType /\ LogInv(d, l) /\ Ordered(d) /\ Bounded(d, l)
      /\ "local" \in Chain /\ "remote" \in Chain /\ \A c \in Chain : c = "local" \/ c = "remote"
  BY DEF Fits, LogInv, Chain
<1>2. Tip(d, "remote") = k
  BY DEF Tip, RemoteTip
<1>3. /\ upto \in Heights /\ upto = [local |-> l["local"].logIndex,
                                     remote |-> d.commit["local"].messageIndex["remote"]]
      /\ n = fetchCommitmentView(l, k, "remote", upto, n.htlcIndex)
  BY <1>1, DiffType DEF SignIndexes
<1>4. \A c \in Chain : k.messageIndex[c] <= upto[c]
  <2>1. /\ k.messageIndex["local"] \in Nat /\ k.messageIndex["remote"] \in Nat
        /\ RemoteTip(d) = k /\ d.commit["local"].messageIndex["remote"] \in Nat
        /\ l["local"].logIndex \in Nat
        /\ k.messageIndex["remote"] <= d.commit["local"].messageIndex["remote"]
    BY <1>1, OrderedParts, EntriesOf DEF RemoteTip
  <2>2. k.messageIndex["local"] <= l["local"].logIndex
    BY <1>1, <2>1 DEF Bounded
  <2> HIDE DEF upto, k
  <2> QED
    BY <1>1, <1>3, <2>1, <2>2
<1>5. ParentsFetched(l, fetchHTLCView(l, upto), "remote")
  BY <1>1, AlwaysSigns DEF CanSign
<1> HIDE DEF k, n, upto
<1>6. Follows(k, W, n)
  <2>1. Follows(Tip(d, "remote"), [c \in Chain |-> Window(l, Tip(d, "remote"), upto, c)],
                fetchCommitmentView(l, Tip(d, "remote"), "remote", upto, n.htlcIndex))
    BY <1>1, <1>2, <1>3, <1>4, <1>5, ViewFollows
  <2> QED
    BY <1>2, <1>3, <2>1
<1>7. Held(n, "local") + Held(n, "remote") = Held(k, "local") + Held(k, "remote")
  <2>1. Follows(Tip(d, "remote"), W, n) /\ W = [c \in Chain |-> Window(l, Tip(d, "remote"), upto, c)]
    BY <1>2, <1>6
  <2> HIDE DEF W
  <2> QED
    BY <1>1, <1>2, <1>3, <1>4, <1>5, <2>1, HeldNext
<1>8. k \in Commitments(d) /\ d.commit["local"] \in Commitments(d)
  BY DEF Commitments, k
<1>9. \A x \in Commitments(f) : x \in Commitments(d) \/ x = n
  BY <1>1, SignedType DEF Commitments, RemoteTip, HasUnacked, n
<1> HIDE DEF f
<1>10. Balanced(f)
  BY <1>7, <1>8, <1>9 DEF Balanced
<1> QED
  BY <1>10 DEF f

\* A signature is taken: the settles of both sides that are new to our
\* commitment are in both logs.
LEMMA ReceivedMoney ==
    ASSUME NEW d, NEW l, NEW e, NEW m, Fits(d, l), Fits(e, m), Receiving(e, m, d, l),
           OneSideFees(l), Balanced(d), Earned(d, l, e, m), Earned(e, m, d, l),
           NEW f, NEW n, f = ReceivedDisk(d, l), n = ReceivedLogs(d, l)
    PROVE  Balanced(f) /\ Earned(f, n, e, m) /\ Earned(e, m, f, n)
<1> DEFINE k == d.commit["local"]
           o == ReceivedCommit(d, l)
           upto == ReceiveIndexes(d, l)
           W == [c \in Chain |-> Window(l, k, upto, c)]
<1>1. /\ d \in DiskType /\ l \in LogsType /\ LogInv(d, l) /\ Ordered(d)
      /\ Distinct(l) /\ Stamped(d, l)
      /\ e \in DiskType /\ m \in LogsType /\ LogInv(e, m)
      /\ "local" \in Chain /\ "remote" \in Chain /\ \A c \in Chain : c = "local" \/ c = "remote"
      /\ Opposite("local") = "remote" /\ Opposite("remote") = "local"
  BY DEF Fits, LogInv, Chain, Opposite
<1>2. Tip(d, "local") = k
  BY DEF Tip
<1>3. /\ upto \in Heights /\ o.messageIndex = upto
      /\ o = fetchCommitmentView(l, k, "local", upto, o.htlcIndex)
      /\ f.commit = [local |-> o, remote |-> d.commit["remote"]]
      /\ f.diff = d.diff /\ f.fwdPkgs = d.fwdPkgs /\ k \in CommitmentType
  BY <1>1, ReceivedType, DiskParts
<1>4. ParentsFetched(l, fetchHTLCView(l, upto), "local")
  BY ParentsReceived
<1>5. \A c \in Chain :
          /\ Window(l, k, upto, c)
                = Window(m, e.commit["remote"], e.diff.commit.messageIndex, Opposite(c))
          /\ upto[c] = e.diff.commit.messageIndex[Opposite(c)]
          /\ k.messageIndex[c] <= upto[c]
  BY WindowsAgree
<1>6. /\ k.messageIndex["local"] = e.commit["remote"].messageIndex["remote"]
      /\ SigDue(e, d) /\ Agree(e, m, d, l)
  <2>1. SigDue(e, d) /\ Agree(e, m, d, l)
    BY DEF Receiving
  <2>2. Counterpart(e, d) = e.commit["remote"]
    BY <2>1 DEF Counterpart
  <2>3. k.messageIndex["local"] = Counterpart(e, d).messageIndex["remote"]
    BY <2>1, Reached
  <2> QED
    BY <2>1, <2>2, <2>3
<1>7. \A c \in Chain : UpdatesOf(n, c) = UpdatesOf(l, c)
  <2>1. Alike(l, n)
    BY <1>1, <1>3, <1>4, EvaluatedAlike DEF ReceivedLogs
  <2> QED
    BY <2>1, AlikeUpdates
<1>8. /\ d.commit["remote"].messageIndex["remote"] <= k.messageIndex["remote"]
      /\ \A c \in Chain : k.messageIndex[c] \in Nat /\ upto[c] \in Nat
  <2>1. /\ d.commit["remote"].messageIndex["remote"] \in Nat
        /\ RemoteTip(d).messageIndex["remote"] \in Nat
        /\ \A c \in Chain : k.messageIndex[c] \in Nat
        /\ d.commit["remote"].messageIndex["remote"] <= RemoteTip(d).messageIndex["remote"]
        /\ RemoteTip(d).messageIndex["remote"] <= k.messageIndex["remote"]
    BY <1>1, OrderedParts
  <2>2. \A c \in Chain : upto[c] \in Nat
    BY <1>3 DEF Heights
  <2> HIDE DEF k, upto
  <2> QED
    BY <1>1, <2>1, <2>2
<1> HIDE DEF k, o, upto
<1>9. Follows(k, W, o)
  <2>1. Follows(Tip(d, "local"), [c \in Chain |-> Window(l, Tip(d, "local"), upto, c)],
                fetchCommitmentView(l, Tip(d, "local"), "local", upto, o.htlcIndex))
    BY <1>1, <1>2, <1>3, <1>4, <1>5, ViewFollows
  <2> QED
    BY <1>2, <1>3, <2>1
<1>10. /\ Held(o, "local") = Held(k, "local") + Count(W["local"], "Settle")
                                 - Count(W["remote"], "Settle")
       /\ Held(o, "local") \in Int /\ Held(k, "local") \in Int
       /\ Held(o, "local") + Held(o, "remote") = Held(k, "local") + Held(k, "remote")
  <2>1. Follows(Tip(d, "local"), W, o) /\ W = [c \in Chain |-> Window(l, Tip(d, "local"), upto, c)]
    BY <1>2, <1>9
  <2> HIDE DEF W
  <2>2. /\ \A c \in Chain :
              /\ Held(o, c) = Held(Tip(d, "local"), c) + Count(W[c], "Settle")
                                 - Count(W[Opposite(c)], "Settle")
              /\ Held(o, c) \in Int /\ Held(Tip(d, "local"), c) \in Int
        /\ Held(o, "local") + Held(o, "remote")
              = Held(Tip(d, "local"), "local") + Held(Tip(d, "local"), "remote")
    BY <1>1, <1>2, <1>3, <1>4, <1>5, <2>1, HeldNext
  <2> QED
    BY <1>1, <1>2, <2>2
<1>11. /\ Cardinality(Settled(d, l, k.messageIndex["remote"])) \in Nat
       /\ Count(W["remote"], "Settle") \in Nat
       /\ Cardinality(Settled(d, l, upto["remote"]))
            = Cardinality(Settled(d, l, k.messageIndex["remote"])) + Count(W["remote"], "Settle")
  <2>1. W["remote"] = {u \in UpdatesOf(l, "remote") :
                          k.messageIndex["remote"] <= u.logIndex /\ u.logIndex < upto["remote"]}
    BY <1>1 DEF Window
  <2>2. /\ d.commit["remote"].messageIndex["remote"] <= k.messageIndex["remote"]
        /\ k.messageIndex["remote"] <= upto["remote"]
        /\ k.messageIndex["remote"] \in Nat /\ upto["remote"] \in Nat
    BY <1>1, <1>5, <1>8
  <2> HIDE DEF W
  <2>3. PICK x \in Nat, y \in Nat : x = k.messageIndex["remote"] /\ y = upto["remote"]
    BY <2>2
  <2>4. PICK V : V = W["remote"]
    OBVIOUS
  <2>5. /\ d.commit["remote"].messageIndex["remote"] <= x /\ x <= y
        /\ V = {u \in UpdatesOf(l, "remote") : x <= u.logIndex /\ u.logIndex < y}
    BY <2>1, <2>2, <2>3, <2>4
  <2>6. /\ Cardinality(Settled(d, l, x)) \in Nat /\ Count(V, "Settle") \in Nat
        /\ Cardinality(Settled(d, l, y)) = Cardinality(Settled(d, l, x)) + Count(V, "Settle")
    BY <2>5, SettledNext
  <2> QED
    BY <2>3, <2>4, <2>6
<1>12. /\ Cardinality(Settled(e, m, k.messageIndex["local"])) \in Nat
       /\ Count(W["local"], "Settle") \in Nat
       /\ Cardinality(Settled(e, m, upto["local"]))
            = Cardinality(Settled(e, m, k.messageIndex["local"])) + Count(W["local"], "Settle")
  <2>1. W["local"] = {u \in UpdatesOf(m, "remote") :
                          k.messageIndex["local"] <= u.logIndex /\ u.logIndex < upto["local"]}
    BY <1>1, <1>5, <1>6 DEF Window
  <2>2. /\ e.commit["remote"].messageIndex["remote"] <= k.messageIndex["local"]
        /\ k.messageIndex["local"] <= upto["local"]
        /\ k.messageIndex["local"] \in Nat /\ upto["local"] \in Nat
    BY <1>1, <1>5, <1>6, <1>8
  <2> HIDE DEF W
  <2>3. PICK x \in Nat, y \in Nat : x = k.messageIndex["local"] /\ y = upto["local"]
    BY <2>2
  <2>4. PICK V : V = W["local"]
    OBVIOUS
  <2>5. /\ e.commit["remote"].messageIndex["remote"] <= x /\ x <= y
        /\ V = {u \in UpdatesOf(m, "remote") : x <= u.logIndex /\ u.logIndex < y}
    BY <2>1, <2>2, <2>3, <2>4
  <2>6. /\ Cardinality(Settled(e, m, x)) \in Nat /\ Count(V, "Settle") \in Nat
        /\ Cardinality(Settled(e, m, y)) = Cardinality(Settled(e, m, x)) + Count(V, "Settle")
    BY <2>5, SettledNext
  <2> QED
    BY <2>3, <2>4, <2>6
<1> HIDE DEF W
<1>13. \A i : Settled(f, n, i) = Settled(d, l, i)
  BY <1>1, <1>3, <1>7 DEF Settled, SettledOf, SettlesIn
<1>14. /\ f.commit["local"] = o /\ f.commit["remote"] = d.commit["remote"]
       /\ RemoteTip(f) = RemoteTip(d)
  BY <1>3 DEF RemoteTip, HasUnacked
<1>15. Balanced(f)
  <2>1. k \in Commitments(d) /\ \A x \in Commitments(f) : x \in Commitments(d) \/ x = o
    BY <1>14 DEF Commitments, k
  <2> QED
    BY <1>10, <2>1 DEF Balanced
<1>16. Earned(f, n, e, m)
  <2>1. Held(k, "local") = Balance + Cardinality(Settled(e, m, k.messageIndex["local"]))
                             - Cardinality(Settled(d, l, k.messageIndex["remote"]))
    BY DEF Earned, k
  <2>2. Balance \in Nat
    BY CommitmentChannelAssumption
  <2>3. Held(o, "local") = Balance + Cardinality(Settled(e, m, upto["local"]))
                             - Cardinality(Settled(d, l, upto["remote"]))
    BY <1>10, <1>11, <1>12, <2>1, <2>2
  <2> QED
    BY <1>3, <1>13, <1>14, <2>3 DEF Earned
<1>17. Earned(e, m, f, n)
  BY <1>13 DEF Earned
<1> QED
  BY <1>15, <1>16, <1>17

\* A revocation is taken: what a side has stays, and the settles that were new
\* to the commitment of the peer are handed over.
LEMMA RevokedMoney ==
    ASSUME NEW d, NEW l, NEW e, NEW m, Fits(d, l), Fits(e, m), Agree(d, l, e, m),
           HasUnacked(d), ~ SigDue(d, e), Balanced(d), Earned(d, l, e, m), Earned(e, m, d, l),
           NEW f, NEW n, f = RevokedDisk(d, l), n = RevokedLogs(d, l)
    PROVE  Balanced(f) /\ Earned(f, n, e, m) /\ Earned(e, m, f, n)
<1> DEFINE i == e.commit["local"].messageIndex["local"]
           j == d.commit["local"].messageIndex["remote"]
<1>1. d \in DiskType /\ l \in LogsType /\ Ordered(d) /\ "remote" \in Chain
  BY DEF Fits, LogInv, Chain
<1>2. i \in Nat /\ j \in Nat /\ i <= j /\ RemoteTip(d).messageIndex["remote"] = i
  <2>1. Counterpart(d, e) = RemoteTip(d)
    BY DEF Counterpart
  <2> QED
    BY <2>1, Told, Reached
<1>3. Settled(f, n, i) = Settled(d, l, i) /\ Settled(f, n, j) = Settled(d, l, j)
  <2> HIDE DEF i, j
  <2>1. i <= i /\ j <= j /\ j = d.commit["local"].messageIndex["remote"]
    BY <1>2 DEF j
  <2>2. RemoteTip(d).messageIndex["remote"] <= i /\ RemoteTip(d).messageIndex["remote"] <= j
    BY <1>2, <2>1
  <2> QED
    BY <1>2, <2>1, <2>2, SettledRevoked
<1>4. /\ f.commit["local"] = d.commit["local"] /\ f.commit["remote"] = RemoteTip(d)
      /\ RemoteTip(f) = RemoteTip(d)
  BY <1>1, RevokedType
<1>5. Balanced(f)
  <2>1. \A x \in Commitments(f) : x \in Commitments(d)
    BY <1>4 DEF Commitments
  <2> QED
    BY <2>1 DEF Balanced
<1> QED
  BY <1>3, <1>4, <1>5 DEF Earned

\* Nothing changes but the messages and the links.
LEMMA StillMoney ==
    ASSUME MoneyInv, bucket' = bucket, log' = log
    PROVE  MoneyInv'
BY DEF MoneyInv

\* One side moves without a new commitment of its own.
LEMMA QuietSide ==
    ASSUME ChannelInv, WaitInv, AgreeInv, MoneyInv, ChannelInv', NEW s \in Side, NEW f, NEW n,
           bucket' = [bucket EXCEPT ![s] = f], log' = [log EXCEPT ![s] = n],
           f.commit = bucket[s].commit, f.fwdPkgs = bucket[s].fwdPkgs, Balanced(f),
           \/ UpdatesOf(n, "remote") \subseteq UpdatesOf(log[s], "remote")
           \/ \E u : Grows(log[s], n, "remote", u)
    PROVE  MoneyInv'
<1>1. /\ Peer(s) \in Side /\ Peer(s) # s /\ \A x \in Side : x = s \/ x = Peer(s)
  BY Sides
<1>2. /\ bucket'[s] = f /\ log'[s] = n
      /\ bucket'[Peer(s)] = bucket[Peer(s)] /\ log'[Peer(s)] = log[Peer(s)]
  BY <1>1 DEF ChannelInv, ChannelTypeOK
<1>3. Fits(bucket[s], log[s]) /\ Fits(bucket[Peer(s)], log[Peer(s)])
  BY MoneyParts
<1>4. SameBelow(log[s], n) /\ SameBelow(log[Peer(s)], log[Peer(s)])
  BY <1>3, SameBelowIs
<1>5. Balanced(bucket[Peer(s)])
  BY <1>1 DEF MoneyInv
<1>6. \A q \in Side : /\ bucket'[q].commit = bucket[q].commit
                      /\ bucket'[q].fwdPkgs = bucket[q].fwdPkgs
                      /\ SameBelow(log[q], log'[q])
                      /\ Balanced(bucket'[q])
  BY <1>1, <1>2, <1>4, <1>5
<1> QED
  BY <1>6, QuietMoney

\* Only the logs of one side change.
LEMMA QuietLogs ==
    ASSUME ChannelInv, WaitInv, AgreeInv, MoneyInv, ChannelInv', NEW s \in Side, NEW n,
           bucket' = bucket, log' = [log EXCEPT ![s] = n],
           \/ UpdatesOf(n, "remote") = UpdatesOf(log[s], "remote")
           \/ \E u : Grows(log[s], n, "remote", u)
    PROVE  MoneyInv'
<1>1. bucket' = [bucket EXCEPT ![s] = bucket[s]]
  BY SideParts
<1>2. Balanced(bucket[s])
  BY DEF MoneyInv
<1> QED
  BY <1>1, <1>2, QuietSide

\* One side moves, with a commitment of its own or of the peer.
LEMMA MoneyStep ==
    ASSUME ChannelInv, MoneyInv, NEW s \in Side, NEW f, NEW n,
           bucket' = [bucket EXCEPT ![s] = f], log' = [log EXCEPT ![s] = n],
           Balanced(f), Earned(f, n, bucket[Peer(s)], log[Peer(s)]),
           Earned(bucket[Peer(s)], log[Peer(s)], f, n)
    PROVE  MoneyInv'
<1>1. /\ Peer(s) \in Side /\ Peer(s) # s /\ Peer(Peer(s)) = s /\ \A x \in Side : x = s \/ x = Peer(s)
  BY Sides
<1>2. /\ bucket'[s] = f /\ log'[s] = n
      /\ bucket'[Peer(s)] = bucket[Peer(s)] /\ log'[Peer(s)] = log[Peer(s)]
  BY <1>1 DEF ChannelInv, ChannelTypeOK
<1>3. Balanced(bucket[Peer(s)])
  BY <1>1 DEF MoneyInv
<1> QED
  BY <1>1, <1>2, <1>3 DEF MoneyInv

\* An HTLC is offered.
LEMMA AddMoney ==
    ASSUME ChannelInv, WaitInv, AgreeInv, MoneyInv, ChannelInv', NEW s \in Side, AddHTLC(s)
    PROVE  MoneyInv'
<1> DEFINE l == log[s]
           n == [l EXCEPT !["local"] = appendHtlc(@)]
<1>1. l \in LogsType /\ l = [x \in Chain |-> l[x]]
  BY SideParts
<1>2. log' = [log EXCEPT ![s] = n] /\ bucket' = bucket
  BY DEF AddHTLC
<1>3. n["remote"] = l["remote"]
  BY <1>1 DEF Chain
<1>4. UpdatesOf(n, "remote") = UpdatesOf(log[s], "remote")
  BY <1>3 DEF UpdatesOf
<1> HIDE DEF n
<1> QED
  BY <1>2, <1>4, QuietLogs

\* An HTLC of the peer is settled or failed.
LEMMA ResolveMoney ==
    ASSUME ChannelInv, WaitInv, AgreeInv, MoneyInv, ChannelInv', NEW s \in Side,
           NEW id \in Nat, NEW type \in {"Settle", "Fail"}, ResolveHTLC(s, id, type)
    PROVE  MoneyInv'
<1> DEFINE l == log[s]
           n == [local |-> appendUpdate(l["local"], type, id),
                 remote |-> markHtlcModified(l["remote"], id)]
<1>1. l["remote"] \in LogType
  BY SideParts, EntriesOf DEF Chain
<1>2. log' = [log EXCEPT ![s] = n] /\ bucket' = bucket
  BY DEF ResolveHTLC
<1>3. n["remote"] = markHtlcModified(l["remote"], id)
  OBVIOUS
<1> HIDE DEF n
<1>4. n["remote"].entries = l["remote"].entries
  BY <1>1, <1>3, MarkedType
<1>5. UpdatesOf(n, "remote") = UpdatesOf(log[s], "remote")
  BY <1>4 DEF UpdatesOf
<1> QED
  BY <1>2, <1>5, QuietLogs

\* The fee rate is changed.
LEMMA FeeMoney ==
    ASSUME ChannelInv, WaitInv, AgreeInv, MoneyInv, ChannelInv', NEW s \in Side,
           NEW rate \in Nat, UpdateFee(s, rate)
    PROVE  MoneyInv'
<1> DEFINE l == log[s]
           n == [l EXCEPT !["local"] = appendUpdate(@, "FeeUpdate", rate)]
<1>1. l \in LogsType /\ l = [x \in Chain |-> l[x]]
  BY SideParts
<1>2. log' = [log EXCEPT ![s] = n] /\ bucket' = bucket
  BY DEF UpdateFee
<1>3. n["remote"] = l["remote"]
  BY <1>1 DEF Chain
<1>4. UpdatesOf(n, "remote") = UpdatesOf(log[s], "remote")
  BY <1>3 DEF UpdatesOf
<1> HIDE DEF n
<1> QED
  BY <1>2, <1>4, QuietLogs

\* An update of the peer is taken.
LEMMA TakenMoney ==
    ASSUME ChannelInv, WaitInv, AgreeInv, MoneyInv, ChannelInv', NEW s \in Side, ReceiveUpdate(s)
    PROVE  MoneyInv'
<1> DEFINE l == log[s]
           x == Head(wire[s])
           n == [local |-> IF x.type \in {"Add", "FeeUpdate"} THEN l["local"]
                           ELSE markHtlcModified(l["local"], x.id),
                 remote |-> IF x.type = "Add" THEN appendHtlc(l["remote"])
                            ELSE appendUpdate(l["remote"], x.type, x.id)]
<1>1. /\ l \in LogsType /\ "local" \in Chain /\ "remote" \in Chain /\ Opposite("remote") = "local"
      /\ l["remote"].htlcCounter \in Nat
  BY SideParts, EntriesOf DEF Chain, Opposite
<1>2. x.type \in UpdateKind /\ x.id \in Nat
  <2>1. wire[s] # << >> /\ x.kind = "update"
    BY DEF ReceiveUpdate, Receive
  <2>2. x \in Msgs(wire[s])
    BY <2>1, SideParts, SeqTail
  <2> QED
    BY <2>1, <2>2 DEF ChannelInv, UpdatesTyped
<1>3. CASE Acceptable(s, x)
  <2>1. log' = [log EXCEPT ![s] = n] /\ bucket' = bucket
    BY <1>3 DEF ReceiveUpdate
  <2>2. /\ n["local"] = IF x.type \in {"Add", "FeeUpdate"} THEN l["local"]
                        ELSE markHtlcModified(l["local"], x.id)
        /\ n["remote"] = IF x.type = "Add" THEN appendHtlc(l["remote"])
                         ELSE appendUpdate(l["remote"], x.type, x.id)
    OBVIOUS
  <2> HIDE DEF n, x, l
  <2>3. PICK type \in UpdateKind, id \in Nat :
            type = x.type /\ id = IF x.type = "Add" THEN l["remote"].htlcCounter ELSE x.id
    BY <1>1, <1>2
  <2>4. \/ /\ type = "Add" /\ id = l["remote"].htlcCounter /\ n["remote"] = appendHtlc(l["remote"])
        \/ /\ type # "Add" /\ n["remote"] = appendUpdate(l["remote"], type, id)
    BY <2>2, <2>3
  <2>5. \/ n["local"] = l["local"]
        \/ \E i \in Nat : n["local"] = markHtlcModified(l["local"], i)
    BY <1>2, <2>2
  <2>6. Grows(l, n, "remote", [type |-> type, logIndex |-> l["remote"].logIndex, id |-> id])
    BY <1>1, <2>4, <2>5, GrowsIs
  <2>7. \E u : Grows(log[s], n, "remote", u)
    BY <2>6 DEF l
  <2> QED
    BY <2>1, <2>7, QuietLogs
<1>4. CASE ~ Acceptable(s, x)
  <2>1. bucket' = bucket /\ log' = log
    BY <1>4 DEF ReceiveUpdate, Fail
  <2> QED
    BY <2>1, StillMoney
<1> QED
  BY <1>3, <1>4

\* A signature for the peer.
LEMMA SignMoney ==
    ASSUME ChannelInv, WaitInv, AgreeInv, MoneyInv, ChannelInv', NEW s \in Side,
           ~ HasUnacked(bucket[s]), bucket' = [bucket EXCEPT ![s] = SignedDisk(bucket[s], log[s])],
           log' = [log EXCEPT ![s] = SignedLogs(bucket[s], log[s])]
    PROVE  MoneyInv'
<1> DEFINE d == bucket[s]
           l == log[s]
           f == SignedDisk(d, l)
           n == SignedLogs(d, l)
<1>1. /\ d \in DiskType /\ l \in LogsType /\ LogInv(d, l) /\ Fits(d, l)
      /\ OneSideFees(l) /\ Balanced(d) /\ "remote" \in Chain
      /\ bucket' = [bucket EXCEPT ![s] = f] /\ log' = [log EXCEPT ![s] = n]
  BY MoneyParts DEF Fits, MoneyInv, Chain
<1>2. UpdatesOf(n, "remote") = UpdatesOf(l, "remote")
  <2>1. /\ d.commit["remote"] \in CommitmentType /\ SignIndexes(d, l) \in Heights
        /\ Distinct(l) /\ Stamped(d, l)
        /\ ParentsFetched(l, fetchHTLCView(l, SignIndexes(d, l)), "remote")
    BY <1>1, DiskParts, DiffType, AlwaysSigns DEF LogInv, CanSign
  <2>2. Alike(l, n)
    BY <1>1, <2>1, EvaluatedAlike DEF SignedLogs
  <2> QED
    BY <1>1, <2>2, AlikeUpdates
<1>3. f.commit = d.commit /\ f.fwdPkgs = d.fwdPkgs
  BY <1>1, SignedType
<1>4. Balanced(f)
  BY <1>1, SignedBalanced
<1> HIDE DEF f, n
<1> QED
  BY <1>1, <1>2, <1>3, <1>4, QuietSide

\* The link signs.
LEMMA SigningMoney ==
    ASSUME ChannelInv, WaitInv, AgreeInv, MoneyInv, ChannelInv', NEW s \in Side, UpdateCommitTx(s)
    PROVE  MoneyInv'
<1>1. CASE HasUnacked(bucket[s]) \/ ~ CanSign(bucket[s], log[s])
  <2>1. bucket' = bucket /\ log' = log
    BY <1>1 DEF UpdateCommitTx, Fail
  <2> QED
    BY <2>1, StillMoney
<1>2. CASE ~ HasUnacked(bucket[s]) /\ CanSign(bucket[s], log[s])
  <2>1. /\ bucket' = [bucket EXCEPT ![s] = SignedDisk(bucket[s], log[s])]
        /\ log' = [log EXCEPT ![s] = SignedLogs(bucket[s], log[s])]
    BY <1>2 DEF UpdateCommitTx
  <2> QED
    BY <1>2, <2>1, SignMoney
<1> QED
  BY <1>1, <1>2

\* ChannelReestablish of the peer is answered.
LEMMA ChanSyncMoney ==
    ASSUME ChannelInv, WaitInv, AgreeInv, MoneyInv, ChannelInv', NEW s \in Side,
           ProcessChanSyncMsg(s)
    PROVE  MoneyInv'
<1> DEFINE x == Head(wire[s])
<1>1. CASE SignsOnSync(bucket[s], log[s], x) /\ Syncable(bucket[s], x) /\ CanSign(bucket[s], log[s])
  <2>1. /\ bucket' = [bucket EXCEPT ![s] = SignedDisk(bucket[s], log[s])]
        /\ log' = [log EXCEPT ![s] = SignedLogs(bucket[s], log[s])]
    BY <1>1 DEF ProcessChanSyncMsg
  <2>2. ~ HasUnacked(bucket[s])
    BY <1>1 DEF SignsOnSync
  <2> QED
    BY <2>1, <2>2, SignMoney
<1>2. CASE ~ (SignsOnSync(bucket[s], log[s], x) /\ Syncable(bucket[s], x) /\ CanSign(bucket[s], log[s]))
  <2>1. bucket' = bucket /\ log' = log
    BY <1>2 DEF ProcessChanSyncMsg, Fail
  <2> QED
    BY <2>1, StillMoney
<1> QED
  BY <1>1, <1>2

\* The connection breaks.
LEMMA DisconnectMoney ==
    ASSUME ChannelInv, WaitInv, AgreeInv, MoneyInv, ChannelInv', Disconnect
    PROVE  MoneyInv'
<1>1. bucket' = bucket /\ \A q \in Side : log'[q] = restoreCommitState(bucket[q])
  BY DEF Disconnect
<1>2. ASSUME NEW q \in Side
      PROVE  SameBelow(log[q], log'[q]) /\ Balanced(bucket[q])
  <2>1. Fits(bucket[q], log[q])
    BY MoneyParts
  <2>2. UpdatesOf(log'[q], "remote") \subseteq UpdatesOf(log[q], "remote")
    BY <1>1, <2>1, RestoredSheds DEF Sheds, Chain
  <2> QED
    BY <2>1, <2>2, SameBelowIs DEF MoneyInv
<1> QED
  BY <1>1, <1>2, QuietMoney

\* What a signature tells of the side that gave it.
LEMMA AboutSignature ==
    ASSUME NEW s \in Side, NEW d, NEW l, NEW e, NEW m, NEW a, NEW b, NEW w, NEW v,
           Known(d, l, e, m, a, w), Known(e, m, d, l, b, v),
           Half(s, d, l, e, m, a, w), Half(Peer(s), e, m, d, l, b, v),
           b # "syncing", v # << >>, Head(v).kind = "sig"
    PROVE  Receiving(e, m, d, l)
<1>1. /\ IsSeq(v) /\ ChainsAgree(d, e) /\ LogsAgree(l, m)
      /\ ChainsAgree(e, d) /\ LogsAgree(m, l) /\ Conveys(Peer(s), e, m, d, l, v)
      /\ RevDue(e, d) => Kinds(v, "revoke") # {}
  BY DEF Half, Known
<1>2. Agree(d, l, e, m) /\ Agree(e, m, d, l)
  BY <1>1 DEF Agree, Known
<1>3. /\ Head(v) \in Sigs(Peer(s), e, d) /\ l["remote"].logIndex = RemoteTip(e).messageIndex["local"]
      /\ Kinds(v, "revoke") # {} => e.lastWasRevoke
  BY <1>1, Taken DEF Conveys
<1>4. SigDue(e, d)
  BY <1>3 DEF Sigs
<1>5. Base(e, d) = d.commit["remote"] /\ RemoteTip(e) = e.diff.commit
  BY <1>1, <1>3, <1>4 DEF Base, SigDue, RemoteTip
<1> QED
  BY <1>1, <1>2, <1>3, <1>4, <1>5 DEF Receiving, ChainsAgree

\* What a revocation tells of the side that gave it.
LEMMA AboutRevocation ==
    ASSUME NEW s \in Side, NEW d, NEW l, NEW e, NEW m, NEW a, NEW b, NEW w, NEW v,
           Known(d, l, e, m, a, w), Known(e, m, d, l, b, v),
           Half(s, d, l, e, m, a, w), Half(Peer(s), e, m, d, l, b, v),
           b # "syncing", v # << >>, Head(v).kind = "revoke"
    PROVE  Agree(d, l, e, m) /\ HasUnacked(d) /\ ~ SigDue(d, e)
<1>1. /\ IsSeq(v) /\ ChainsAgree(d, e) /\ LogsAgree(l, m) /\ Conveys(Peer(s), e, m, d, l, v)
      /\ d \in DiskType /\ "remote" \in Chain
  BY DEF Half, Known, Fits, Chain
<1>2. Agree(d, l, e, m)
  BY <1>1 DEF Agree, Known
<1>3. Head(v) \in Revs(e, d)
  BY <1>1, Taken DEF Conveys
<1>4. HasUnacked(d) /\ e.commit["local"].height = d.commit["remote"].height + 1
  BY <1>3 DEF Revs, RevDue
<1>5. d.commit["remote"].height \in Nat
  BY <1>1, DiskParts, CommitParts
<1> QED
  BY <1>2, <1>4, <1>5 DEF SigDue

\* A signature of the peer is taken.
LEMMA CommitSigMoney ==
    ASSUME ChannelInv, WaitInv, AgreeInv, MoneyInv, NEW s \in Side, ReceiveCommitSig(s)
    PROVE  MoneyInv'
<1> DEFINE p == Peer(s)
           d == bucket[s]
           l == log[s]
           e == bucket[p]
           m == log[p]
           v == wire[s]
           f == ReceivedDisk(d, l)
           n == ReceivedLogs(d, l)
<1>1. CASE /\ ParentsFetched(l, fetchHTLCView(l, ReceiveIndexes(d, l)), "local")
           /\ Tx(s, ReceivedCommit(d, l)) = Head(v).tx
  <2>1. bucket' = [bucket EXCEPT ![s] = f] /\ log' = [log EXCEPT ![s] = n]
    BY <1>1 DEF ReceiveCommitSig
  <2>2. /\ p \in Side /\ Peer(p) = s
        /\ Known(d, l, e, m, pc[s], wire[p]) /\ Half(s, d, l, e, m, pc[s], wire[p])
    BY AgreeParts
  <2>3. Known(e, m, d, l, pc[p], v) /\ Half(p, e, m, d, l, pc[p], v)
    BY <2>2, AgreeParts
  <2>4. v # << >> /\ Head(v).kind = "sig"
    BY DEF ReceiveCommitSig, Receive
  <2>5. pc[p] # "syncing"
    BY <2>4, Awake
  <2>6. /\ Fits(d, l) /\ Fits(e, m) /\ OneSideFees(l)
        /\ Balanced(d) /\ Earned(d, l, e, m) /\ Earned(e, m, d, l)
    BY <2>2, MoneyParts DEF MoneyInv
  <2>7. f = ReceivedDisk(d, l) /\ n = ReceivedLogs(d, l)
    OBVIOUS
  <2> HIDE DEF d, l, e, m, v, p, f, n
  <2>8. Receiving(e, m, d, l)
    BY <2>2, <2>3, <2>4, <2>5, AboutSignature DEF p
  <2>9. Balanced(f) /\ Earned(f, n, e, m) /\ Earned(e, m, f, n)
    BY <2>6, <2>7, <2>8, ReceivedMoney
  <2> QED
    BY <2>1, <2>9, MoneyStep DEF p, e, m
<1>2. CASE ~ (/\ ParentsFetched(l, fetchHTLCView(l, ReceiveIndexes(d, l)), "local")
              /\ Tx(s, ReceivedCommit(d, l)) = Head(v).tx)
  <2>1. bucket' = bucket /\ log' = log
    BY <1>2 DEF ReceiveCommitSig, Fail
  <2> QED
    BY <2>1, StillMoney
<1> QED
  BY <1>1, <1>2

\* A revocation of the peer is taken.
LEMMA RevocationMoney ==
    ASSUME ChannelInv, WaitInv, AgreeInv, MoneyInv, NEW s \in Side, ReceiveRevocation(s)
    PROVE  MoneyInv'
<1> DEFINE p == Peer(s)
           d == bucket[s]
           l == log[s]
           e == bucket[p]
           m == log[p]
           v == wire[s]
           f == RevokedDisk(d, l)
           n == RevokedLogs(d, l)
<1>1. CASE HasUnacked(d) /\ Head(v).height = d.commit["remote"].height
  <2>1. bucket' = [bucket EXCEPT ![s] = f] /\ log' = [log EXCEPT ![s] = n]
    BY <1>1 DEF ReceiveRevocation
  <2>2. /\ p \in Side /\ Peer(p) = s
        /\ Known(d, l, e, m, pc[s], wire[p]) /\ Half(s, d, l, e, m, pc[s], wire[p])
    BY AgreeParts
  <2>3. Known(e, m, d, l, pc[p], v) /\ Half(p, e, m, d, l, pc[p], v)
    BY <2>2, AgreeParts
  <2>4. v # << >> /\ Head(v).kind = "revoke"
    BY DEF ReceiveRevocation, Receive
  <2>5. pc[p] # "syncing"
    BY <2>4, Awake
  <2>6. /\ Fits(d, l) /\ Fits(e, m)
        /\ Balanced(d) /\ Earned(d, l, e, m) /\ Earned(e, m, d, l)
    BY <2>2, MoneyParts DEF MoneyInv
  <2>7. f = RevokedDisk(d, l) /\ n = RevokedLogs(d, l)
    OBVIOUS
  <2> HIDE DEF d, l, e, m, v, p, f, n
  <2>8. Agree(d, l, e, m) /\ HasUnacked(d) /\ ~ SigDue(d, e)
    BY <2>2, <2>3, <2>4, <2>5, AboutRevocation DEF p
  <2>9. Balanced(f) /\ Earned(f, n, e, m) /\ Earned(e, m, f, n)
    BY <2>6, <2>7, <2>8, RevokedMoney
  <2> QED
    BY <2>1, <2>9, MoneyStep DEF p, e, m
<1>2. CASE ~ (HasUnacked(d) /\ Head(v).height = d.commit["remote"].height)
  <2>1. bucket' = bucket /\ log' = log
    BY <1>2 DEF ReceiveRevocation, Fail
  <2> QED
    BY <2>1, StillMoney
<1> QED
  BY <1>1, <1>2

\* In the beginning each side has what it brought.
LEMMA BeginsBalanced ==
    ASSUME ChannelInit
    PROVE  MoneyInv
<1>1. ASSUME NEW q \in Side
      PROVE  /\ bucket[q].commit = [c \in Chain |-> NewCommit(q)] /\ bucket[q].diff = NoDiff
             /\ bucket[q].fwdPkgs = {}
             /\ log[q] = [c \in Chain |-> newUpdateLog(NewCommit(q).messageIndex[c], 0)]
  BY DEF ChannelInit
<1>2. ASSUME NEW q \in Side
      PROVE  /\ \A k \in Commitments(bucket[q]) : k = NewCommit(q)
             /\ bucket[q].commit["local"] = NewCommit(q)
             /\ \A i : Settled(bucket[q], log[q], i) = {}
  <2> DEFINE j == NewCommit(q)
  <2>7. /\ bucket[q].commit = [c \in Chain |-> j] /\ bucket[q].diff = NoDiff
        /\ log[q] = [c \in Chain |-> newUpdateLog(j.messageIndex[c], 0)]
        /\ "local" \in Chain /\ "remote" \in Chain
    BY <1>1 DEF Chain
  <2> HIDE DEF j
  <2>8. bucket[q].commit["local"] = j /\ bucket[q].commit["remote"] = j /\ ~ HasUnacked(bucket[q])
    BY <2>7 DEF HasUnacked
  <2>1. /\ bucket[q].commit["local"] = NewCommit(q) /\ bucket[q].commit["remote"] = NewCommit(q)
        /\ ~ HasUnacked(bucket[q])
    BY <2>8 DEF j
  <2>2. log[q]["remote"].entries = {}
    BY <2>7 DEF newUpdateLog
  <2>3. UpdatesOf(log[q], "remote") = {}
    BY <2>2 DEF UpdatesOf, LogUpdates
  <2>4. \A x, y : SettlesIn(log[q], x, y) = {}
    BY <2>3 DEF SettlesIn
  <2>5. SettledOf(bucket[q]) = {}
    BY <1>1 DEF SettledOf
  <2>6. \A i : Settled(bucket[q], log[q], i) = {}
    BY <2>4, <2>5 DEF Settled
  <2> QED
    BY <2>1, <2>6 DEF Commitments, RemoteTip
<1>3. Balance \in Nat /\ Cardinality({}) = 0
  BY CommitmentChannelAssumption, FS_EmptySet
<1>4. ASSUME NEW q \in Side, NEW c \in Chain
      PROVE  Held(NewCommit(q), c) = Balance
  <2>1. NewCommit(q).balance[c] = Balance /\ NewCommit(q).htlcs[c] = {}
    BY DEF NewCommit
  <2> QED
    BY <1>3, <2>1 DEF Held
<1> SUFFICES ASSUME NEW q \in Side
             PROVE  /\ Balanced(bucket[q])
                    /\ Earned(bucket[q], log[q], bucket[Peer(q)], log[Peer(q)])
  BY DEF MoneyInv
<1>5. Peer(q) \in Side /\ "local" \in Chain /\ "remote" \in Chain
  BY Sides DEF Chain
<1>6. Held(NewCommit(q), "local") = Balance /\ Held(NewCommit(q), "remote") = Balance
  BY <1>4, <1>5
<1>7. Balanced(bucket[q])
  BY <1>2, <1>3, <1>6 DEF Balanced
<1>8. Earned(bucket[q], log[q], bucket[Peer(q)], log[Peer(q)])
  <2>1. /\ Settled(bucket[q], log[q], bucket[q].commit["local"].messageIndex["remote"]) = {}
        /\ Settled(bucket[Peer(q)], log[Peer(q)], bucket[q].commit["local"].messageIndex["local"]) = {}
    BY <1>2, <1>5
  <2> QED
    BY <1>2, <1>3, <1>6, <2>1 DEF Earned
<1> QED
  BY <1>7, <1>8

\* MoneyInv is inductive, with the other invariants.
THEOREM MoneyInductive ==
    ASSUME FeeRatesKnown
    PROVE  ChannelSpec => []MoneyInv
<1>1. ChannelInit => MoneyInv
  BY BeginsBalanced
<1>2. ChannelInv /\ WaitInv /\ AgreeInv /\ MoneyInv /\ [ChannelNext]_channelVars /\ ChannelInv'
        => MoneyInv'
  <2> SUFFICES ASSUME ChannelInv, WaitInv, AgreeInv, MoneyInv, [ChannelNext]_channelVars, ChannelInv'
               PROVE  MoneyInv'
    OBVIOUS
  <2>1. CASE UNCHANGED channelVars
    BY <2>1, StillMoney DEF channelVars
  <2>2. ASSUME NEW s \in Side, Resolve(s)
        PROVE  MoneyInv'
    <3>1. PICK id \in 0 .. (MaxHtlcs - 1), type \in {"Settle", "Fail"} : ResolveHTLC(s, id, type)
      BY <2>2 DEF Resolve
    <3> QED
      BY <3>1, ResolveMoney
  <2>3. ASSUME NEW s \in Side, ChangeFee(s)
        PROVE  MoneyInv'
    <3>1. PICK rate \in FeeRates : UpdateFee(s, rate)
      BY <2>3 DEF ChangeFee
    <3>2. rate \in Nat
      BY CommitmentChannelAssumption
    <3> QED
      BY <3>1, <3>2, FeeMoney
  <2>4. ASSUME NEW s \in Side, Link(s)
        PROVE  MoneyInv'
    BY <2>4, SigningMoney, TakenMoney, CommitSigMoney, RevocationMoney, ChanSyncMoney
       DEF Link
  <2>5. CASE Disconnect
    BY <2>5, DisconnectMoney
  <2> QED
    BY <2>1, <2>2, <2>3, <2>4, <2>5, AddMoney DEF ChannelNext
<1> QED
  BY <1>1, <1>2, ChannelInductive, WaitInductive, AgreeInductive, PTL DEF ChannelSpec

\* With nothing left to sign or to be revoked, the packages of a side name all
\* settles of the peer that a commitment includes.
LEMMA AllSettled ==
    ASSUME NEW d, NEW l, NEW e, NEW m, Fits(d, l), Fits(e, m), Agree(d, l, e, m),
           ~ HasUnacked(d), ~ OweCommitment(d, l)
    PROVE  /\ Settled(d, l, d.commit["local"].messageIndex["remote"]) = SettledOf(d)
           /\ Settled(d, l, e.commit["local"].messageIndex["local"]) = SettledOf(d)
           /\ Mirrors(d.commit["remote"], e.commit["local"])
           /\ Cardinality(SettledOf(d)) \in Nat
<1> DEFINE k == d.commit["remote"].messageIndex["remote"]
<1>1. RemoteTip(d) = d.commit["remote"] /\ d.commit["local"].messageIndex["remote"] = k
  BY DEF RemoteTip, OweCommitment
<1>2. Counterpart(d, e) = d.commit["remote"]
  BY <1>1 DEF Counterpart
<1>3. Mirrors(d.commit["remote"], e.commit["local"])
  BY <1>2 DEF Agree, ChainsAgree
<1>4. e.commit["local"].messageIndex["local"] = k
  BY <1>2, Reached
<1>5. k \in Nat
  BY <1>1, Told
<1>6. SettlesIn(l, k, k) = {}
  <2>1. l \in LogsType
    BY DEF Fits
  <2> HIDE DEF k
  <2>2. \A u \in SettlesIn(l, k, k) : u.logIndex \in Nat
    BY <2>1, SettlesAre
  <2>3. \A u \in SettlesIn(l, k, k) : k <= u.logIndex /\ u.logIndex < k
    BY DEF SettlesIn
  <2> QED
    BY <1>5, <2>2, <2>3
<1>7. Settled(d, l, k) = SettledOf(d)
  BY <1>6 DEF Settled
<1>8. Cardinality(SettledOf(d)) \in Nat
  BY SettledGone, FS_CardinalityType
<1> QED
  BY <1>1, <1>3, <1>4, <1>7, <1>8

\* What a side has in a commitment is a number.
LEMMA HeldType ==
    ASSUME NEW d \in DiskType, NEW ch \in Chain, NEW c \in Chain
    PROVE  Held(d.commit[ch], c) \in Int
<1>1. d.commit[ch].balance[c] \in Int /\ IsFiniteSet(d.commit[ch].htlcs[c])
  BY DiskParts, CommitParts DEF FiniteCommit
<1>2. Cardinality(d.commit[ch].htlcs[c]) \in Nat
  BY <1>1, FS_CardinalityType
<1> QED
  BY <1>1, <1>2 DEF Held

\* Nothing is created or lost in a commitment, and with nothing left to sign or
\* to be revoked what a side has follows from the settles both were told of.
THEOREM MoneySafety ==
    ASSUME FeeRatesKnown
    PROVE  ChannelSpec => []MoneyFollowsSettles
<1>1. ChannelInv /\ WaitInv /\ AgreeInv /\ MoneyInv => MoneyFollowsSettles
  <2> SUFFICES ASSUME ChannelInv, WaitInv, AgreeInv, MoneyInv, NEW s \in Side, NEW c \in Chain
               PROVE  /\ Held(bucket[s].commit[c], "local") + Held(bucket[s].commit[c], "remote")
                             = 2 * Balance
                      /\ Quiet => Held(bucket[s].commit[c], "local")
                                    = Balance - Cardinality(SettledIds(s))
                                              + Cardinality(SettledIds(Peer(s)))
    BY DEF MoneyFollowsSettles, Held
  <2> DEFINE p == Peer(s)
             d == bucket[s]
             l == log[s]
             e == bucket[p]
             m == log[p]
             x == d.commit["remote"]
             y == e.commit["local"]
             S == Cardinality(SettledOf(d))
             T == Cardinality(SettledOf(e))
  <2>1. /\ p \in Side /\ Peer(p) = s /\ Fits(d, l) /\ Fits(e, m)
        /\ Agree(d, l, e, m) /\ Agree(e, m, d, l)
    BY MoneyParts
  <2>2. /\ Balanced(d) /\ Balanced(e) /\ Earned(d, l, e, m) /\ Earned(e, m, d, l)
    BY <2>1 DEF MoneyInv
  <2>3. d.commit[c] \in Commitments(d) /\ e.commit["local"] \in Commitments(e)
    BY DEF Commitments, Chain
  <2>4. Held(d.commit[c], "local") + Held(d.commit[c], "remote") = 2 * Balance
    BY <2>2, <2>3 DEF Balanced
  <2>5. SettledIds(s) = SettledOf(d) /\ SettledIds(p) = SettledOf(e)
    BY DEF SettledIds, Forwarded, SettledOf
  <2>6. ASSUME Quiet
        PROVE  Held(d.commit[c], "local") = Balance - S + T
    <3>1. /\ ~ HasUnacked(d) /\ ~ OweCommitment(d, l)
          /\ ~ HasUnacked(e) /\ ~ OweCommitment(e, m)
      BY <2>1, <2>6 DEF Quiet
    <3> HIDE DEF d, l, e, m, p
    <3>2. /\ Settled(d, l, d.commit["local"].messageIndex["remote"]) = SettledOf(d)
          /\ Settled(d, l, e.commit["local"].messageIndex["local"]) = SettledOf(d)
          /\ Mirrors(x, y) /\ S \in Nat
      BY <2>1, <3>1, AllSettled
    <3>3. /\ Settled(e, m, e.commit["local"].messageIndex["remote"]) = SettledOf(e)
          /\ Settled(e, m, d.commit["local"].messageIndex["local"]) = SettledOf(e)
          /\ T \in Nat
      BY <2>1, <3>1, AllSettled
    <3>4. /\ Held(d.commit["local"], "local") = Balance + T - S
          /\ Held(y, "local") = Balance + S - T
      BY <2>2, <3>2, <3>3 DEF Earned
    <3>5. /\ Balance \in Nat /\ "local" \in Chain /\ "remote" \in Chain
          /\ Opposite("local") = "remote" /\ Opposite("remote") = "local"
          /\ c = "local" \/ c = "remote"
      BY CommitmentChannelAssumption DEF Chain, Opposite
    <3>6. Held(y, "local") \in Int /\ Held(y, "remote") \in Int
      BY <2>1, <3>5, HeldType DEF Fits
    <3>7. Held(y, "local") + Held(y, "remote") = 2 * Balance
      BY <2>2, <2>3 DEF Balanced
    <3>8. Held(x, "local") = Held(y, "remote")
      BY <3>2, <3>5 DEF Mirrors, Held
    <3> HIDE DEF x, y, S, T
    <3>9. Held(x, "local") = Balance - S + T
      BY <3>2, <3>3, <3>4, <3>5, <3>6, <3>7, <3>8
    <3>10. Held(d.commit["local"], "local") = Balance - S + T
      BY <3>2, <3>3, <3>4, <3>5
    <3> QED
      BY <3>5, <3>9, <3>10 DEF x
  <2> QED
    BY <2>4, <2>5, <2>6
<1> QED
  BY <1>1, ChannelInductive, WaitInductive, AgreeInductive, MoneyInductive, PTL
=============================================================================
