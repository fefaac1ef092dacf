--------------------------- MODULE EventBus_proofs ---------------------------
(* Theorems about EventBus, for any events, subscriptions and bounds.        *)
EXTENDS EventBus, TLAPS, SequenceTheorems, FiniteSetTheorems

----------------------------------------------------------------------------
(* The two ways a step changes pubs: it appends an envelope or it replaces   *)
(* one publication by another of the same event.                             *)

LEMMA EnvelopeType ==
  ASSUME NEW e \in Events, NEW i \in Invocations \cup {Outside}, NEW awaited \in BOOLEAN,
         NEW ph \in Phases, NEW m \in SUBSET Subs
  PROVE  Envelope(e, i, awaited, ph, m) \in Publication
  BY DEF Envelope, Publication

LEMMA Appended ==
  ASSUME NEW T, NEW s \in Seq(T), NEW r \in T
  PROVE  /\ Append(s, r) \in Seq(T)
         /\ Len(Append(s, r)) = Len(s) + 1
         /\ DOMAIN Append(s, r) = DOMAIN s \cup {Len(s) + 1}
         /\ Len(s) + 1 \notin DOMAIN s
         /\ Append(s, r)[Len(s) + 1] = r
         /\ \A k \in DOMAIN s : Append(s, r)[k] = s[k]
  OBVIOUS

LEMMA Replaced ==
  ASSUME NEW T, NEW s \in Seq(T), NEW p \in DOMAIN s, NEW r \in T
  PROVE  /\ [s EXCEPT ![p] = r] \in Seq(T)
         /\ Len([s EXCEPT ![p] = r]) = Len(s)
         /\ DOMAIN [s EXCEPT ![p] = r] = DOMAIN s
         /\ [s EXCEPT ![p] = r][p] = r
         /\ \A k \in DOMAIN s \ {p} : [s EXCEPT ![p] = r][k] = s[k]
  BY ExceptSeq, LenProperties

\* How a step may change the publications; every action is one of the cases.
Adds(ph) ==
  \E e \in Events, i \in Invocations \cup {Outside}, awaited \in BOOLEAN, m \in SUBSET Subs :
    /\ Len(pubs) < MaxPub
    /\ (ph = "dispatching" \/ ph = "circular") <=> e \in SyncEvents
    /\ pubs' = Append(pubs, Envelope(e, i, awaited, ph, m))

Changes(p, ph) ==
  /\ p \in Ids
  /\ \E r \in Publication :
       /\ r.event = pubs[p].event /\ r.phase = ph
       /\ pubs' = [pubs EXCEPT ![p] = r]

LEMMA AddsType ==
  ASSUME pubs \in Seq(Publication), MaxPub \in Nat, NEW ph \in Phases, Adds(ph)
  PROVE  /\ pubs' \in Seq(Publication) /\ Len(pubs') <= MaxPub
         /\ Ids' = Ids \cup {Len(pubs) + 1} /\ Len(pubs) + 1 \notin Ids
         /\ pubs'[Len(pubs) + 1].phase = ph
         /\ (ph = "dispatching" \/ ph = "circular") <=> pubs'[Len(pubs) + 1].event \in SyncEvents
         /\ \A k \in Ids : pubs'[k] = pubs[k]
  <1>1. PICK e \in Events, i \in Invocations \cup {Outside}, awaited \in BOOLEAN, m \in SUBSET Subs :
          /\ Len(pubs) < MaxPub
          /\ (ph = "dispatching" \/ ph = "circular") <=> e \in SyncEvents
          /\ pubs' = Append(pubs, Envelope(e, i, awaited, ph, m))
    BY DEF Adds
  <1>2. Envelope(e, i, awaited, ph, m) \in Publication
    BY EnvelopeType
  <1>3. Envelope(e, i, awaited, ph, m).phase = ph /\ Envelope(e, i, awaited, ph, m).event = e
    BY DEF Envelope
  <1> HIDE DEF Envelope
  <1>4. Len(pubs) \in Nat
    BY LenProperties
  <1> QED
    BY <1>1, <1>2, <1>3, <1>4, Appended DEF Ids

LEMMA ChangesType ==
  ASSUME pubs \in Seq(Publication), NEW p, NEW ph, Changes(p, ph)
  PROVE  /\ pubs' \in Seq(Publication) /\ Len(pubs') = Len(pubs)
         /\ Ids' = Ids /\ p \in Ids
         /\ pubs'[p].phase = ph /\ pubs'[p].event = pubs[p].event
         /\ \A k \in Ids \ {p} : pubs'[k] = pubs[k]
  BY Replaced DEF Changes, Ids

LEMMA PublishShape ==
  ASSUME NEW e \in Events, NEW i \in Invocations \cup {Outside}, NEW awaited \in BOOLEAN
  PROVE  /\ PublishCircular(e, i, awaited) => Adds("circular")
         /\ PublishSync(e, i, awaited) => Adds("dispatching")
         /\ PublishOverflow(e, i, awaited) => Adds("overflow")
         /\ PublishAsync(e, i, awaited) => Adds("queued")
  <1>1. Matches(e) \in SUBSET Subs /\ {} \in SUBSET Subs
    BY DEF Matches
  <1> QED
    BY <1>1 DEF PublishCircular, PublishSync, PublishOverflow, PublishAsync, Accepts, Adds

LEMMA SettleShape ==
  ASSUME pubs \in Seq(Publication), NEW p \in 1..MaxPub, NEW s \in Subs, HandlerSettles(p, s)
  PROVE  Changes(p, "dispatching") /\ pubs[p].phase = "dispatching"
  <1>1. p \in Ids /\ pubs[p].phase = "dispatching"
    BY DEF HandlerSettles, HandlerSucceeds, HandlerFails, Running
  <1>2. pubs[p] \in Publication
    BY <1>1, LenProperties, ElementOfSeq DEF Ids
  <1>3. CASE HandlerSucceeds(p, s)
    <2> DEFINE r == [pubs[p] EXCEPT !.pending = @ \ {s}]
    <2>1. r \in Publication /\ r.event = pubs[p].event /\ r.phase = pubs[p].phase
      BY <1>2 DEF Publication
    <2>2. pubs' = [pubs EXCEPT ![p] = r]
      BY <1>3 DEF HandlerSucceeds, Settle
    <2> QED
      BY <1>1, <2>1, <2>2 DEF Changes
  <1>4. CASE HandlerFails(p, s)
    <2> DEFINE r == [[pubs[p] EXCEPT !.pending = @ \ {s}] EXCEPT !.failed = @ \cup {s}]
    <2>1. r \in Publication /\ r.event = pubs[p].event /\ r.phase = pubs[p].phase
      BY <1>2 DEF Publication
    <2>2. pubs' = [pubs EXCEPT ![p] = r]
      BY <1>1, <1>4, LenProperties DEF HandlerFails, Settle, Ids
    <2> QED
      BY <1>1, <2>1, <2>2 DEF Changes
  <1> QED
    BY <1>3, <1>4 DEF HandlerSettles

LEMMA FinishShape ==
  ASSUME pubs \in Seq(Publication), NEW p \in 1..MaxPub, FinishDispatch(p)
  PROVE  /\ pubs[p].phase = "dispatching" /\ pubs[p] \in Publication
         /\ Changes(p, "audited") \/ Changes(p, "thrown")
  <1>1. p \in Ids /\ pubs[p].phase = "dispatching"
    BY DEF FinishDispatch
  <1>2. pubs[p] \in Publication
    BY <1>1, LenProperties, ElementOfSeq DEF Ids
  <1>3. \A ph \in Phases : /\ [pubs[p] EXCEPT !.phase = ph] \in Publication
                           /\ [pubs[p] EXCEPT !.phase = ph].event = pubs[p].event
                           /\ [pubs[p] EXCEPT !.phase = ph].phase = ph
    BY <1>2 DEF Publication
  <1>4. \/ pubs' = [pubs EXCEPT ![p] = [pubs[p] EXCEPT !.phase = "audited"]]
        \/ pubs' = [pubs EXCEPT ![p] = [pubs[p] EXCEPT !.phase = "thrown"]]
    BY DEF FinishDispatch
  <1>5. CASE pubs' = [pubs EXCEPT ![p] = [pubs[p] EXCEPT !.phase = "audited"]]
    <2>1. "audited" \in Phases
      BY DEF Phases
    <2>2. Changes(p, "audited")
      BY <1>1, <1>3, <1>5, <2>1 DEF Changes
    <2> QED
      BY <1>1, <1>2, <2>2
  <1>6. CASE pubs' = [pubs EXCEPT ![p] = [pubs[p] EXCEPT !.phase = "thrown"]]
    <2>1. "thrown" \in Phases
      BY DEF Phases
    <2>2. Changes(p, "thrown")
      BY <1>1, <1>3, <1>6, <2>1 DEF Changes
    <2> QED
      BY <1>1, <1>2, <2>2
  <1> QED
    BY <1>4, <1>5, <1>6

LEMMA ReturnShape ==
  ASSUME pubs \in Seq(Publication), NEW p \in 1..MaxPub, ReturnSync(p)
  PROVE  /\ IsSync(p) /\ InDispatch(p)
         /\ Changes(p, "resolved") \/ Changes(p, "rejected")
  <1>1. p \in Ids /\ IsSync(p) /\ pubs[p].phase \in {"audited", "thrown"}
    BY DEF ReturnSync
  <1>2. pubs[p] \in Publication
    BY <1>1, LenProperties, ElementOfSeq DEF Ids
  <1>3. \A ph \in Phases : /\ [pubs[p] EXCEPT !.phase = ph] \in Publication
                           /\ [pubs[p] EXCEPT !.phase = ph].event = pubs[p].event
                           /\ [pubs[p] EXCEPT !.phase = ph].phase = ph
    BY <1>2 DEF Publication
  <1>4. \/ pubs' = [pubs EXCEPT ![p] = [pubs[p] EXCEPT !.phase = "resolved"]]
        \/ pubs' = [pubs EXCEPT ![p] = [pubs[p] EXCEPT !.phase = "rejected"]]
    BY DEF ReturnSync
  <1>5. IsSync(p) /\ InDispatch(p)
    BY <1>1 DEF InDispatch
  <1>6. CASE pubs' = [pubs EXCEPT ![p] = [pubs[p] EXCEPT !.phase = "resolved"]]
    <2>1. "resolved" \in Phases
      BY DEF Phases
    <2>2. Changes(p, "resolved")
      BY <1>1, <1>3, <1>6, <2>1 DEF Changes
    <2> QED
      BY <1>5, <2>2
  <1>7. CASE pubs' = [pubs EXCEPT ![p] = [pubs[p] EXCEPT !.phase = "rejected"]]
    <2>1. "rejected" \in Phases
      BY DEF Phases
    <2>2. Changes(p, "rejected")
      BY <1>1, <1>3, <1>7, <2>1 DEF Changes
    <2> QED
      BY <1>5, <2>2
  <1> QED
    BY <1>4, <1>6, <1>7

LEMMA ResolvedType ==
  ASSUME pubs \in Seq(Publication), drainAwaits = 0 \/ drainAwaits \in Ids
  PROVE  /\ Resolved \in Seq(Publication) /\ Len(Resolved) = Len(pubs) /\ DOMAIN Resolved = Ids
         /\ \A k \in Ids : Resolved[k].event = pubs[k].event
         /\ \A k \in Ids : k # drainAwaits => Resolved[k] = pubs[k]
         /\ drainAwaits # 0 => Resolved[drainAwaits].phase = "resolved"
  <1>1. CASE drainAwaits = 0
    BY <1>1, LenProperties DEF Resolved, Ids
  <1>2. CASE drainAwaits # 0
    <2> DEFINE r == [pubs[drainAwaits] EXCEPT !.phase = "resolved"]
    <2>1. pubs[drainAwaits] \in Publication
      BY <1>2, LenProperties, ElementOfSeq DEF Ids
    <2>2. r \in Publication /\ r.event = pubs[drainAwaits].event /\ r.phase = "resolved"
      BY <2>1 DEF Publication, Phases
    <2>3. Resolved = [pubs EXCEPT ![drainAwaits] = r]
      BY <1>2 DEF Resolved
    <2> QED
      BY <1>2, <2>2, <2>3, Replaced DEF Ids
  <1> QED
    BY <1>1, <1>2

LEMMA DrainNextType ==
  ASSUME pubs \in Seq(Publication), drainAwaits = 0 \/ drainAwaits \in Ids,
         NEW q \in 1..MaxPub, DrainNext(q)
  PROVE  /\ pubs' \in Seq(Publication) /\ Len(pubs') = Len(pubs) /\ Ids' = Ids
         /\ q \in Queue /\ pubs'[q].phase = "dispatching"
         /\ \A k \in Ids : pubs'[k].event = pubs[k].event
         /\ \A k \in Ids : k # drainAwaits /\ k # q => pubs'[k] = pubs[k]
         /\ drainAwaits # 0 /\ drainAwaits # q => pubs'[drainAwaits].phase = "resolved"
  <1> DEFINE m == Matches(pubs[q].event)
             r == [[[Resolved[q] EXCEPT !.phase = "dispatching"] EXCEPT !.matched = m] EXCEPT !.pending = m]
  <1>1. q \in Queue /\ q \in Ids /\ m \in SUBSET Subs
    BY DEF DrainNext, IsNext, Queue, Matches
  <1>2. Resolved \in Seq(Publication) /\ q \in DOMAIN Resolved /\ Resolved[q] \in Publication
    BY <1>1, ResolvedType, LenProperties, ElementOfSeq DEF Ids
  <1>3. r \in Publication /\ r.event = Resolved[q].event /\ r.phase = "dispatching"
    BY <1>1, <1>2 DEF Publication, Phases
  <1>4. pubs' = [Resolved EXCEPT ![q] = r]
    BY <1>2, LenProperties DEF DrainNext
  <1> HIDE DEF r
  <1>5. pubs' \in Seq(Publication) /\ Len(pubs') = Len(Resolved) /\ DOMAIN pubs' = DOMAIN Resolved
        /\ pubs'[q] = r /\ \A k \in DOMAIN Resolved \ {q} : pubs'[k] = Resolved[k]
    BY <1>2, <1>3, <1>4, Replaced
  <1> QED
    BY <1>1, <1>3, <1>5, ResolvedType DEF Ids

LEMMA DrainEndsType ==
  ASSUME pubs \in Seq(Publication), drainAwaits = 0 \/ drainAwaits \in Ids, DrainEnds
  PROVE  /\ pubs' \in Seq(Publication) /\ Len(pubs') = Len(pubs) /\ Ids' = Ids
         /\ \A k \in Ids : pubs'[k].event = pubs[k].event
         /\ \A k \in Ids : k # drainAwaits => pubs'[k] = pubs[k]
         /\ drainAwaits # 0 => pubs'[drainAwaits].phase = "resolved"
  BY ResolvedType DEF DrainEnds, Ids
----------------------------------------------------------------------------
(* The inductive invariant.  The type of pubs needs drainAwaits to name a    *)
(* publication, and the stack is balanced only because what the drain loop   *)
(* dispatches and resolves is never a sync publication.                      *)

QueuedAreAsync == \A p \in Queue : ~IsSync(p)

SyncInDispatch == {p \in Ids : IsSync(p) /\ InDispatch(p)}

IInv == TypeOK /\ StackBalanced /\ SingleDrain /\ QueuedAreAsync

\* Popping or pushing keeps the names distinct and the count equal.
LEMMA PushName ==
  ASSUME NEW T, NEW s \in Seq(T), NEW x \in T,
         \A j, k \in DOMAIN s : s[j] = s[k] => j = k,
         ~ \E k \in DOMAIN s : s[k] = x
  PROVE  \A j, k \in DOMAIN Append(s, x) : Append(s, x)[j] = Append(s, x)[k] => j = k
  BY Appended

LEMMA PopName ==
  ASSUME NEW T, NEW s \in Seq(T), Len(s) > 0,
         \A j, k \in DOMAIN s : s[j] = s[k] => j = k
  PROVE  LET t == SubSeq(s, 1, Len(s) - 1)
         IN  /\ t \in Seq(T) /\ Len(t) = Len(s) - 1
             /\ \A j, k \in DOMAIN t : t[j] = t[k] => j = k
  <1> DEFINE t == SubSeq(s, 1, Len(s) - 1)
  <1>1. Len(s) \in Nat /\ DOMAIN s = 1..Len(s) /\ \A k \in 1..Len(s) : s[k] \in T
    BY LenProperties, ElementOfSeq
  <1>2. t \in Seq(T) /\ Len(t) = Len(s) - 1 /\ \A k \in 1..(Len(s) - 1) : t[k] = s[k]
    BY <1>1, SubSeqProperties
  <1>3. DOMAIN t = 1..(Len(s) - 1)
    BY <1>2, LenProperties
  <1> QED
    BY <1>1, <1>2, <1>3

LEMMA FiniteIds ==
  ASSUME pubs \in Seq(Publication)
  PROVE  IsFiniteSet(Ids) /\ IsFiniteSet(SyncInDispatch)
  <1>1. IsFiniteSet(1..Len(pubs)) /\ Ids = 1..Len(pubs)
    BY LenProperties, FS_Interval DEF Ids
  <1> QED
    BY <1>1, FS_Subset DEF SyncInDispatch

LEMMA RegisterPreserves ==
  ASSUME IInv, UNCHANGED <<pubs, dispatchStack, drainVars, auditVars>>,
         registry' \subseteq Events, status' \in [Subs -> {"absent", "live", "dead", "removed"}],
         consecutiveFailures' \in [Subs -> Nat]
  PROVE  IInv'
  BY DEF IInv, TypeOK, StackBalanced, SingleDrain, QueuedAreAsync, Queue, Ids, IsSync, InDispatch,
         drainVars, auditVars

LEMMA PublishPreserves ==
  ASSUME BusAssumption, IInv,
         NEW e \in Events, NEW i \in Invocations \cup {Outside}, NEW awaited \in BOOLEAN,
         PublishCircular(e, i, awaited) \/ PublishSync(e, i, awaited)
           \/ PublishOverflow(e, i, awaited) \/ PublishAsync(e, i, awaited)
  PROVE  IInv'
<1> DEFINE n == Len(pubs) + 1
<1>0. /\ pubs \in Seq(Publication) /\ MaxPub \in Nat /\ dispatchStack \in Seq(SyncEvents)
      /\ draining \in BOOLEAN /\ UNCHANGED <<registry, subVars, drainAwaits, auditVars>>
  BY DEF IInv, TypeOK, BusAssumption, PublishCircular, PublishSync, PublishOverflow, PublishAsync, drainVars
<1>1. PICK ph \in {"circular", "dispatching", "overflow", "queued"} :
        /\ Adds(ph)
        /\ ph = "dispatching" => PublishSync(e, i, awaited)
        /\ ph = "queued" => draining'
        /\ ph # "queued" => draining' = draining
        /\ ph # "dispatching" => dispatchStack' = dispatchStack
  BY PublishShape DEF PublishCircular, PublishSync, PublishOverflow, PublishAsync, drainVars
<1>2. /\ pubs' \in Seq(Publication) /\ Len(pubs') <= MaxPub
      /\ Ids' = Ids \cup {n} /\ n \notin Ids
      /\ pubs'[n].phase = ph
      /\ (ph = "dispatching" \/ ph = "circular") <=> pubs'[n].event \in SyncEvents
      /\ \A k \in Ids : pubs'[k] = pubs[k]
  BY <1>0, <1>1, AddsType DEF Phases
<1>3. /\ ph = "dispatching" => SyncInDispatch' = SyncInDispatch \cup {n} /\ n \notin SyncInDispatch
      /\ ph # "dispatching" => SyncInDispatch' = SyncInDispatch
  BY <1>2 DEF SyncInDispatch, IsSync, InDispatch
<1>4. StackBalanced' /\ dispatchStack' \in Seq(SyncEvents)
  <2>1. /\ \A j, k \in DOMAIN dispatchStack : dispatchStack[j] = dispatchStack[k] => j = k
        /\ Len(dispatchStack) = Cardinality(SyncInDispatch)
    BY DEF IInv, StackBalanced, SyncInDispatch
  <2>2. CASE ph # "dispatching"
    BY <1>0, <1>1, <1>3, <2>1, <2>2 DEF StackBalanced, SyncInDispatch
  <2>3. CASE ph = "dispatching"
    <3>1. /\ dispatchStack' = Append(dispatchStack, e) /\ e \in SyncEvents
          /\ ~ \E k \in DOMAIN dispatchStack : dispatchStack[k] = e
      BY <1>1, <2>3 DEF PublishSync, InFlight
    <3>2. Cardinality(SyncInDispatch') = Cardinality(SyncInDispatch) + 1
      BY <1>0, <1>3, <2>3, FiniteIds, FS_AddElement
    <3>3. dispatchStack' \in Seq(SyncEvents) /\ Len(dispatchStack') = Len(dispatchStack) + 1
      BY <1>0, <3>1, Appended
    <3>4. \A j, k \in DOMAIN dispatchStack' : dispatchStack'[j] = dispatchStack'[k] => j = k
      BY <1>0, <2>1, <3>1, PushName
    <3> QED
      BY <2>1, <3>2, <3>3, <3>4 DEF StackBalanced, SyncInDispatch
  <2> QED
    BY <2>2, <2>3
<1>5. SingleDrain'
  <2>1. /\ Queue # {} => draining
        /\ drainAwaits # 0 => draining /\ drainAwaits \in Ids /\ ~IsSync(drainAwaits)
        /\ \A p \in Ids : ~IsSync(p) /\ InDispatch(p) => draining /\ drainAwaits = p
    BY DEF IInv, SingleDrain
  <2>2. draining => draining'
    BY <1>0, <1>1
  <2>3. Queue' # {} => draining'
    BY <1>1, <1>2, <2>1, <2>2 DEF Queue
  <2>4. drainAwaits' # 0 => draining' /\ drainAwaits' \in Ids' /\ ~IsSync(drainAwaits)'
    BY <1>0, <1>2, <2>1, <2>2 DEF IsSync
  <2>5. ASSUME NEW p \in Ids', ~IsSync(p)', InDispatch(p)' PROVE draining' /\ drainAwaits' = p
    <3>1. p # n
      BY <1>1, <1>2, <2>5 DEF IsSync, InDispatch
    <3>2. p \in Ids /\ ~IsSync(p) /\ InDispatch(p)
      BY <1>2, <2>5, <3>1 DEF IsSync, InDispatch
    <3> QED
      BY <1>0, <2>1, <2>2, <3>2
  <2> QED
    BY <2>3, <2>4, <2>5 DEF SingleDrain
<1>6. QueuedAreAsync'
  BY <1>1, <1>2 DEF IInv, QueuedAreAsync, Queue, IsSync
<1>7. TypeOK'
  BY <1>0, <1>1, <1>2, <1>4 DEF IInv, TypeOK, subVars, auditVars
<1> QED
  BY <1>4, <1>5, <1>6, <1>7 DEF IInv
\* A publication that stays in dispatch: its handlers settle, its audit is recorded.
LEMMA StaysInDispatch ==
  ASSUME IInv, NEW p, NEW ph \in {"dispatching", "audited", "thrown"}, Changes(p, ph), InDispatch(p),
         UNCHANGED <<dispatchStack, drainVars>>
  PROVE  /\ pubs' \in Seq(Publication) /\ Len(pubs') <= MaxPub
         /\ StackBalanced' /\ SingleDrain' /\ QueuedAreAsync'
<1>1. pubs \in Seq(Publication) /\ Len(pubs) <= MaxPub
  BY DEF IInv, TypeOK
<1>2. /\ pubs' \in Seq(Publication) /\ Len(pubs') = Len(pubs) /\ Ids' = Ids /\ p \in Ids
      /\ pubs'[p].phase = ph /\ pubs'[p].event = pubs[p].event
      /\ \A k \in Ids \ {p} : pubs'[k] = pubs[k]
  BY <1>1, ChangesType
<1>3. \A k \in Ids : (IsSync(k)' <=> IsSync(k)) /\ (InDispatch(k)' <=> InDispatch(k))
  BY <1>2 DEF IsSync, InDispatch
<1>4. Queue' = Queue
  BY <1>2 DEF Queue, InDispatch
<1>5. SyncInDispatch' = SyncInDispatch
  BY <1>2, <1>3 DEF SyncInDispatch
<1>6. StackBalanced'
  BY <1>5 DEF IInv, StackBalanced, SyncInDispatch
<1>7. SingleDrain'
  BY <1>2, <1>3, <1>4 DEF IInv, SingleDrain, drainVars
<1>8. QueuedAreAsync'
  BY <1>2, <1>3, <1>4 DEF IInv, QueuedAreAsync, Queue
<1> QED
  BY <1>1, <1>2, <1>6, <1>7, <1>8

LEMMA SettlePreserves ==
  ASSUME BusAssumption, IInv, NEW p \in 1..MaxPub, NEW s \in Subs, HandlerSettles(p, s)
  PROVE  IInv'
<1>1. pubs \in Seq(Publication)
  BY DEF IInv, TypeOK
<1>2. Changes(p, "dispatching") /\ InDispatch(p)
  BY <1>1, SettleShape DEF InDispatch
<1>3. UNCHANGED <<registry, dispatchStack, drainVars, auditVars>>
  BY DEF HandlerSettles, HandlerSucceeds, HandlerFails
<1>4. /\ status' \in [Subs -> {"absent", "live", "dead", "removed"}]
      /\ consecutiveFailures' \in [Subs -> Nat]
  <2>1. /\ status \in [Subs -> {"absent", "live", "dead", "removed"}]
        /\ consecutiveFailures \in [Subs -> Nat]
    BY DEF IInv, TypeOK
  <2>2. CASE HandlerSucceeds(p, s)
    BY <2>1, <2>2 DEF HandlerSucceeds
  <2>3. CASE HandlerFails(p, s)
    BY <2>1, <2>3 DEF HandlerFails, RecordFailure, subVars
  <2> QED
    BY <2>2, <2>3 DEF HandlerSettles
<1>5. /\ pubs' \in Seq(Publication) /\ Len(pubs') <= MaxPub
      /\ StackBalanced' /\ SingleDrain' /\ QueuedAreAsync'
  BY <1>2, <1>3, StaysInDispatch
<1> QED
  BY <1>3, <1>4, <1>5 DEF IInv, TypeOK, drainVars, auditVars

LEMMA FinishPreserves ==
  ASSUME BusAssumption, IInv, NEW p \in 1..MaxPub, FinishDispatch(p)
  PROVE  IInv'
<1>1. pubs \in Seq(Publication) /\ totalDispatched \in Nat /\ totalFailedDeliveries \in Nat
      /\ history \in Seq(1..MaxPub)
  BY DEF IInv, TypeOK
<1>2. InDispatch(p) /\ pubs[p] \in Publication /\ (Changes(p, "audited") \/ Changes(p, "thrown"))
  BY <1>1, FinishShape DEF InDispatch
<1>3. UNCHANGED <<registry, subVars, dispatchStack, drainVars>>
  BY DEF FinishDispatch
<1>4. totalDispatched' \in Nat /\ totalFailedDeliveries' \in Nat
  <2>1. pubs[p].failed \in SUBSET Subs
    BY <1>2 DEF Publication
  <2>2. Cardinality(pubs[p].failed) \in Nat
    BY <2>1, FS_Subset, FS_CardinalityType DEF BusAssumption
  <2> QED
    BY <1>1, <2>2 DEF FinishDispatch
<1>5. history' \in Seq(1..MaxPub)
  <2>1. Append(history, p) \in Seq(1..MaxPub) /\ Append(history, p) # <<>>
    BY <1>1, Appended, EmptySeq, LenProperties
  <2>2. Recorded(p) \in Seq(1..MaxPub)
    BY <2>1, HeadTailProperties DEF Recorded
  <2> QED
    BY <1>1, <2>2 DEF FinishDispatch
<1>6. /\ pubs' \in Seq(Publication) /\ Len(pubs') <= MaxPub
      /\ StackBalanced' /\ SingleDrain' /\ QueuedAreAsync'
  BY <1>2, <1>3, StaysInDispatch
<1> QED
  BY <1>3, <1>4, <1>5, <1>6 DEF IInv, TypeOK, subVars, drainVars

\* The entry popped need not be p's, but exactly one of each leaves.
LEMMA ReturnPreserves ==
  ASSUME BusAssumption, IInv, NEW p \in 1..MaxPub, ReturnSync(p)
  PROVE  IInv'
<1>1. pubs \in Seq(Publication) /\ Len(pubs) <= MaxPub /\ dispatchStack \in Seq(SyncEvents)
  BY DEF IInv, TypeOK
<1>2. UNCHANGED <<registry, subVars, drainVars, auditVars>>
  BY DEF ReturnSync
<1>3. PICK ph \in {"resolved", "rejected"} : Changes(p, ph)
  BY <1>1, ReturnShape
<1>4. p \in Ids /\ IsSync(p) /\ InDispatch(p)
  BY <1>1, <1>3, ReturnShape, ChangesType
<1>5. /\ pubs' \in Seq(Publication) /\ Len(pubs') = Len(pubs) /\ Ids' = Ids
      /\ pubs'[p].phase = ph /\ pubs'[p].event = pubs[p].event
      /\ \A k \in Ids \ {p} : pubs'[k] = pubs[k]
  BY <1>1, <1>3, ChangesType
<1>6. SyncInDispatch' = SyncInDispatch \ {p} /\ p \in SyncInDispatch
  BY <1>4, <1>5 DEF SyncInDispatch, IsSync, InDispatch
<1>7. Queue' = Queue
  BY <1>4, <1>5 DEF Queue, InDispatch
<1>8. StackBalanced' /\ dispatchStack' \in Seq(SyncEvents)
  <2>1. /\ \A j, k \in DOMAIN dispatchStack : dispatchStack[j] = dispatchStack[k] => j = k
        /\ Len(dispatchStack) = Cardinality(SyncInDispatch)
    BY DEF IInv, StackBalanced, SyncInDispatch
  <2>2. /\ Cardinality(SyncInDispatch') = Cardinality(SyncInDispatch) - 1
        /\ Cardinality(SyncInDispatch) > 0
    <3>1. IsFiniteSet(SyncInDispatch) /\ SyncInDispatch # {}
      BY <1>1, <1>6, FiniteIds
    <3>2. Cardinality(SyncInDispatch) \in Nat /\ Cardinality(SyncInDispatch) # 0
      BY <3>1, FS_EmptySet, FS_CardinalityType
    <3>3. Cardinality(SyncInDispatch \ {p}) = Cardinality(SyncInDispatch) - 1
      BY <1>6, <3>1, FS_RemoveElement
    <3> QED
      BY <1>6, <3>2, <3>3
  <2>3. dispatchStack' = SubSeq(dispatchStack, 1, Len(dispatchStack) - 1)
    BY DEF ReturnSync
  <2>4. /\ dispatchStack' \in Seq(SyncEvents) /\ Len(dispatchStack') = Len(dispatchStack) - 1
        /\ \A j, k \in DOMAIN dispatchStack' : dispatchStack'[j] = dispatchStack'[k] => j = k
    BY <1>1, <2>1, <2>2, <2>3, PopName
  <2> QED
    BY <2>1, <2>2, <2>4 DEF StackBalanced, SyncInDispatch
<1>9. SingleDrain' /\ QueuedAreAsync'
  <2>1. \A k \in Ids : (IsSync(k)' <=> IsSync(k)) /\ (~IsSync(k) /\ InDispatch(k)' => InDispatch(k))
    BY <1>4, <1>5 DEF IsSync, InDispatch
  <2> QED
    BY <1>2, <1>5, <1>7, <2>1 DEF IInv, SingleDrain, QueuedAreAsync, Queue, drainVars
<1> QED
  BY <1>1, <1>2, <1>5, <1>8, <1>9 DEF IInv, TypeOK, subVars, drainVars, auditVars
LEMMA DrainNextPreserves ==
  ASSUME BusAssumption, IInv, NEW q \in 1..MaxPub, DrainNext(q)
  PROVE  IInv'
<1>1. /\ pubs \in Seq(Publication) /\ Len(pubs) <= MaxPub
      /\ Queue # {} => draining
      /\ drainAwaits # 0 => draining /\ drainAwaits \in Ids /\ ~IsSync(drainAwaits)
      /\ \A p \in Ids : ~IsSync(p) /\ InDispatch(p) => drainAwaits = p
      /\ \A p \in Queue : ~IsSync(p)
  BY DEF IInv, TypeOK, SingleDrain, QueuedAreAsync
<1>2. /\ draining /\ drainAwaits' = q
      /\ drainAwaits # 0 => pubs[drainAwaits].phase = "audited"
      /\ UNCHANGED <<registry, subVars, dispatchStack, draining, auditVars>>
  BY DEF DrainNext, DrainResumes
<1>3. /\ pubs' \in Seq(Publication) /\ Len(pubs') = Len(pubs) /\ Ids' = Ids
      /\ q \in Queue /\ pubs'[q].phase = "dispatching"
      /\ \A k \in Ids : pubs'[k].event = pubs[k].event
      /\ \A k \in Ids : k # drainAwaits /\ k # q => pubs'[k] = pubs[k]
      /\ drainAwaits # 0 /\ drainAwaits # q => pubs'[drainAwaits].phase = "resolved"
  BY <1>1, DrainNextType
<1>4. q \in Ids /\ ~IsSync(q) /\ drainAwaits # q
  BY <1>1, <1>2, <1>3 DEF Queue
<1>5. \A k \in Ids : IsSync(k)' <=> IsSync(k)
  BY <1>3 DEF IsSync
<1>0. 0 \notin Ids
  BY <1>1, LenProperties DEF Ids
<1>6. \A k \in Ids : IsSync(k) => pubs'[k] = pubs[k]
  BY <1>0, <1>1, <1>3, <1>4
<1>7. SyncInDispatch' = SyncInDispatch
  BY <1>3, <1>5, <1>6 DEF SyncInDispatch, InDispatch
<1>8. StackBalanced'
  BY <1>2, <1>7 DEF IInv, StackBalanced, SyncInDispatch
<1>9. ASSUME NEW p \in Ids, ~IsSync(p)', InDispatch(p)' PROVE p = q
  BY <1>0, <1>1, <1>3, <1>5, <1>9 DEF InDispatch
<1>10. SingleDrain'
  BY <1>2, <1>3, <1>4, <1>5, <1>9 DEF SingleDrain
<1>11. QueuedAreAsync'
  BY <1>1, <1>3, <1>5, <1>6 DEF QueuedAreAsync, Queue
<1>12. drainAwaits' \in 0..MaxPub
  BY <1>2
<1> QED
  BY <1>1, <1>2, <1>3, <1>8, <1>10, <1>11, <1>12 DEF IInv, TypeOK, subVars, auditVars

LEMMA DrainEndsPreserves ==
  ASSUME BusAssumption, IInv, DrainEnds
  PROVE  IInv'
<1>1. /\ pubs \in Seq(Publication) /\ Len(pubs) <= MaxPub
      /\ drainAwaits # 0 => drainAwaits \in Ids /\ ~IsSync(drainAwaits)
      /\ \A p \in Ids : ~IsSync(p) /\ InDispatch(p) => drainAwaits = p
  BY DEF IInv, TypeOK, SingleDrain
<1>2. /\ Queue = {} /\ draining' = FALSE /\ drainAwaits' = 0
      /\ UNCHANGED <<registry, subVars, dispatchStack, auditVars>>
  BY DEF DrainEnds
<1>3. /\ pubs' \in Seq(Publication) /\ Len(pubs') = Len(pubs) /\ Ids' = Ids
      /\ \A k \in Ids : pubs'[k].event = pubs[k].event
      /\ \A k \in Ids : k # drainAwaits => pubs'[k] = pubs[k]
      /\ drainAwaits # 0 => pubs'[drainAwaits].phase = "resolved"
  BY <1>1, DrainEndsType
<1>4. \A k \in Ids : /\ IsSync(k)' <=> IsSync(k)
                     /\ IsSync(k) => pubs'[k] = pubs[k]
  BY <1>1, <1>3, LenProperties DEF IsSync, Ids
<1>5. SyncInDispatch' = SyncInDispatch
  BY <1>3, <1>4 DEF SyncInDispatch, InDispatch
<1>6. StackBalanced'
  BY <1>2, <1>5 DEF IInv, StackBalanced, SyncInDispatch
<1>7. 0 \notin Ids
  BY <1>1, LenProperties DEF Ids
<1>8. Queue' = {}
  BY <1>2, <1>3, <1>7 DEF Queue
<1>9. ASSUME NEW p \in Ids, ~IsSync(p)', InDispatch(p)' PROVE FALSE
  BY <1>1, <1>3, <1>4, <1>7, <1>9 DEF InDispatch
<1>10. SingleDrain' /\ QueuedAreAsync'
  <2>1. \A p \in Ids' : ~(~IsSync(p)' /\ InDispatch(p)')
    BY <1>3, <1>9
  <2> QED
    BY <1>2, <1>8, <2>1 DEF SingleDrain, QueuedAreAsync
<1>11. 0 \in 0..MaxPub /\ FALSE \in BOOLEAN
  BY DEF BusAssumption
<1>12. drainAwaits' \in 0..MaxPub
  BY <1>2, <1>11
<1>13. draining' \in BOOLEAN
  BY <1>2
<1> QED
  BY <1>1, <1>2, <1>3, <1>6, <1>10, <1>12, <1>13 DEF IInv, TypeOK, subVars, auditVars

----------------------------------------------------------------------------
LEMMA InitInvariant == ASSUME BusAssumption PROVE Init => IInv
<1> SUFFICES ASSUME Init PROVE IInv
  OBVIOUS
<1>1. pubs = <<>> /\ Ids = {} /\ Len(pubs) = 0 /\ pubs \in Seq(Publication)
      /\ dispatchStack = <<>> /\ DOMAIN dispatchStack = {} /\ Len(dispatchStack) = 0
      /\ dispatchStack \in Seq(SyncEvents) /\ history \in Seq(1..MaxPub)
  BY DEF Init, Ids
<1>2. TypeOK
  <2>0. MaxPub \in Nat
    BY DEF BusAssumption
  <2>1. /\ registry \subseteq Events /\ drainAwaits \in 0..MaxPub
        /\ totalDispatched \in Nat /\ totalFailedDeliveries \in Nat
    BY <2>0, SMT DEF Init
  <2>4. draining \in BOOLEAN
    BY Zenon DEF Init
  <2>2. /\ status \in [Subs -> {"absent", "live", "dead", "removed"}]
        /\ consecutiveFailures \in [Subs -> Nat]
    BY DEF Init
  <2>3. Len(pubs) <= MaxPub
    BY <1>1, <2>0
  <2> QED
    BY <1>1, <2>1, <2>2, <2>3, <2>4 DEF TypeOK
<1>3. SyncInDispatch = {} /\ Queue = {}
  BY <1>1 DEF SyncInDispatch, Queue
<1>4. StackBalanced
  BY <1>1, <1>3, FS_EmptySet DEF StackBalanced, SyncInDispatch
<1>5. SingleDrain /\ QueuedAreAsync
  BY <1>1, <1>3 DEF Init, SingleDrain, QueuedAreAsync
<1> QED
  BY <1>2, <1>4, <1>5 DEF IInv

LEMMA StepInvariant == ASSUME BusAssumption, IInv, [Next]_vars PROVE IInv'
<1>0. TypeOK
  BY DEF IInv
<1>1. ASSUME NEW e \in Events, RegisterEventType(e) PROVE IInv'
  <2>1. registry' \subseteq Events /\ UNCHANGED <<subVars, pubs, dispatchStack, drainVars, auditVars>>
    BY <1>0, <1>1 DEF RegisterEventType, TypeOK
  <2> QED
    BY <1>0, <2>1, RegisterPreserves DEF TypeOK, subVars
<1>2. ASSUME NEW s \in Subs, Subscribe(s) \/ Unsubscribe(s) PROVE IInv'
  <2>1. /\ status' \in [Subs -> {"absent", "live", "dead", "removed"}]
        /\ UNCHANGED <<registry, consecutiveFailures, pubs, dispatchStack, drainVars, auditVars>>
    BY <1>0, <1>2 DEF Subscribe, Unsubscribe, TypeOK
  <2> QED
    BY <1>0, <2>1, RegisterPreserves DEF TypeOK
<1>3. CASE Publish
  BY <1>3, PublishPreserves DEF Publish
<1>4. ASSUME NEW p \in 1..MaxPub, NEW s \in Subs, HandlerSettles(p, s) PROVE IInv'
  BY <1>4, SettlePreserves
<1>5. ASSUME NEW p \in 1..MaxPub, FinishDispatch(p) \/ ReturnSync(p) PROVE IInv'
  BY <1>5, FinishPreserves, ReturnPreserves
<1>6. CASE Drain
  BY <1>6, DrainNextPreserves, DrainEndsPreserves DEF Drain
<1>7. CASE UNCHANGED vars
  <2>1. UNCHANGED <<registry, status, consecutiveFailures, pubs, dispatchStack, drainVars, auditVars>>
    BY <1>7 DEF vars, subVars
  <2> QED
    BY <1>0, <2>1, RegisterPreserves DEF TypeOK
<1> QED
  BY <1>1, <1>2, <1>3, <1>4, <1>5, <1>6, <1>7 DEF Next

THEOREM Invariant == Spec => []IInv
<1>1. Init => IInv
  BY BusAssumption, InitInvariant
<1>2. IInv /\ [Next]_vars => IInv'
  BY BusAssumption, StepInvariant
<1> QED
  BY <1>1, <1>2, PTL DEF Spec

\* Every variable of the bus keeps its type.
THEOREM TypeCorrect == Spec => []TypeOK
  BY Invariant, PTL DEF IInv

\* However many unrelated callers publish at once, the shared dispatch stack has
\* one entry per outstanding sync publication and no name twice.
THEOREM StackIsBalanced == Spec => []StackBalanced
  BY Invariant, PTL DEF IInv

\* No wake-up is lost and no second drain loop ever runs.
THEOREM DrainIsSingle == Spec => []SingleDrain
  BY Invariant, PTL DEF IInv

----------------------------------------------------------------------------
(* The order of the audits, the nesting of awaited publications, the metrics   *)
(* and dead-subscriber detection rest on the invariant above.  First what each *)
(* kind of step does to the publications, field by field.                      *)

LEMMA Elements ==
  ASSUME IInv
  PROVE  /\ pubs \in Seq(Publication) /\ Len(pubs) \in Nat /\ Ids = 1..Len(pubs) /\ Ids \subseteq 1..MaxPub
         /\ \A k \in Ids : /\ pubs[k] \in Publication
                           /\ pubs[k].event \in Events /\ pubs[k].caller \in Invocations \cup {Outside}
                           /\ pubs[k].awaited \in BOOLEAN /\ pubs[k].phase \in Phases
                           /\ pubs[k].pending \subseteq Subs /\ pubs[k].failed \subseteq Subs
  <1>1. pubs \in Seq(Publication) /\ Len(pubs) <= MaxPub /\ MaxPub \in Nat
    BY BusAssumption DEF IInv, TypeOK
  <1>2. Len(pubs) \in Nat /\ Ids = 1..Len(pubs)
    BY <1>1, LenProperties DEF Ids
  <1>3. \A k \in Ids : pubs[k] \in Publication
    BY <1>1, <1>2, ElementOfSeq
  <1>4. Ids \subseteq 1..MaxPub
    BY <1>1, <1>2
  <1> QED
    BY <1>1, <1>2, <1>3, <1>4 DEF Publication

\* Everything about publication k but its phase and its handlers.
Keeps(k) ==
  /\ pubs'[k].event = pubs[k].event /\ pubs'[k].caller = pubs[k].caller
  /\ pubs'[k].awaited = pubs[k].awaited

LEMMA Change ==
  ASSUME IInv, NEW p \in Ids, NEW r \in Publication, pubs' = [pubs EXCEPT ![p] = r]
  PROVE  Ids' = Ids /\ pubs'[p] = r /\ \A k \in Ids \ {p} : pubs'[k] = pubs[k]
  BY Elements, Replaced DEF Ids

Accepted(n, ph, e, i, awaited) ==
  /\ n = Len(pubs) + 1 /\ n \notin Ids /\ Ids' = Ids \cup {n} /\ \A k \in Ids : k < n /\ pubs'[k] = pubs[k]
  /\ pubs'[n].event = e /\ pubs'[n].caller = i /\ pubs'[n].awaited = awaited /\ pubs'[n].phase = ph
  /\ pubs'[n].failed = {} /\ pubs'[n].pending \subseteq Subs
  /\ ph = "dispatching" => e \in SyncEvents
  /\ MayPublish(i) /\ (awaited => i # Outside)
  /\ UNCHANGED <<status, consecutiveFailures, totalDispatched, totalFailedDeliveries, history>>

LEMMA PublishStep ==
  ASSUME IInv, Publish
  PROVE  \E n \in Nat, ph \in {"circular", "dispatching", "overflow", "queued"}, e \in Events,
            i \in Invocations \cup {Outside}, awaited \in BOOLEAN : Accepted(n, ph, e, i, awaited)
  <1>1. PICK e \in Events, i \in Invocations \cup {Outside}, awaited \in BOOLEAN :
          \/ PublishCircular(e, i, awaited) \/ PublishSync(e, i, awaited)
          \/ PublishOverflow(e, i, awaited) \/ PublishAsync(e, i, awaited)
    BY DEF Publish
  <1>2. /\ MayPublish(i) /\ (awaited => i # Outside)
        /\ UNCHANGED <<status, consecutiveFailures, totalDispatched, totalFailedDeliveries, history>>
    BY <1>1 DEF PublishCircular, PublishSync, PublishOverflow, PublishAsync, Accepts, subVars, auditVars
  <1>3. PICK ph \in {"circular", "dispatching", "overflow", "queued"}, m \in SUBSET Subs :
          pubs' = Append(pubs, Envelope(e, i, awaited, ph, m)) /\ (ph = "dispatching" => e \in SyncEvents)
    <2>1. Matches(e) \in SUBSET Subs /\ {} \in SUBSET Subs
      BY DEF Matches
    <2> QED
      BY <1>1, <2>1 DEF PublishCircular, PublishSync, PublishOverflow, PublishAsync
  <1> DEFINE r == Envelope(e, i, awaited, ph, m)
             n == Len(pubs) + 1
  <1>4. r \in Publication
    BY EnvelopeType DEF Phases
  <1>5. /\ r.event = e /\ r.caller = i /\ r.awaited = awaited /\ r.phase = ph /\ r.failed = {}
        /\ r.pending \subseteq Subs
    BY DEF Envelope
  <1>6. pubs' = Append(pubs, r)
    BY <1>3
  <1> HIDE DEF r
  <1>7. Ids' = Ids \cup {n} /\ n \notin Ids /\ pubs'[n] = r /\ \A k \in Ids : pubs'[k] = pubs[k]
    BY <1>4, <1>6, Elements, Appended DEF Ids
  <1>8. n \in Nat /\ \A k \in Ids : k < n
    BY Elements
  <1>9. Accepted(n, ph, e, i, awaited)
    BY <1>2, <1>3, <1>5, <1>7, <1>8 DEF Accepted
  <1> QED
    BY <1>8, <1>9

Settled(p, s) ==
  /\ Ids' = Ids /\ p \in Ids /\ s \in pubs[p].pending /\ ~Blocked(<<p, s>>)
  /\ pubs[p].phase = "dispatching" /\ pubs'[p].phase = "dispatching" /\ Keeps(p)
  /\ pubs'[p].pending = pubs[p].pending \ {s}
  /\ \/ HandlerSucceeds(p, s) /\ pubs'[p].failed = pubs[p].failed
     \/ HandlerFails(p, s) /\ pubs'[p].failed = pubs[p].failed \cup {s}
  /\ \A k \in Ids \ {p} : pubs'[k] = pubs[k]
  /\ UNCHANGED <<totalDispatched, totalFailedDeliveries, history>>

LEMMA SettleStep ==
  ASSUME IInv, NEW p \in 1..MaxPub, NEW s \in Subs, HandlerSettles(p, s)
  PROVE  Settled(p, s)
  <1>1. /\ p \in Ids /\ pubs[p].phase = "dispatching" /\ s \in pubs[p].pending /\ ~Blocked(<<p, s>>)
        /\ UNCHANGED <<totalDispatched, totalFailedDeliveries, history>>
    BY DEF HandlerSettles, HandlerSucceeds, HandlerFails, Running, auditVars
  <1>2. pubs[p] \in Publication
    BY <1>1, Elements
  <1>3. CASE HandlerSucceeds(p, s)
    <2> DEFINE r == [pubs[p] EXCEPT !.pending = @ \ {s}]
    <2>1. /\ r \in Publication /\ r.event = pubs[p].event /\ r.caller = pubs[p].caller
          /\ r.awaited = pubs[p].awaited /\ r.phase = pubs[p].phase /\ r.failed = pubs[p].failed
          /\ r.pending = pubs[p].pending \ {s}
      BY <1>2 DEF Publication
    <2>2. pubs' = [pubs EXCEPT ![p] = r]
      BY <1>3 DEF HandlerSucceeds, Settle
    <2> HIDE DEF r
    <2>3. Ids' = Ids /\ pubs'[p] = r /\ \A k \in Ids \ {p} : pubs'[k] = pubs[k]
      BY <1>1, <2>1, <2>2, Change
    <2> QED
      BY <1>1, <1>3, <2>1, <2>3 DEF Settled, Keeps
  <1>4. CASE HandlerFails(p, s)
    <2> DEFINE r == [[pubs[p] EXCEPT !.pending = @ \ {s}] EXCEPT !.failed = @ \cup {s}]
    <2>1. /\ r \in Publication /\ r.event = pubs[p].event /\ r.caller = pubs[p].caller
          /\ r.awaited = pubs[p].awaited /\ r.phase = pubs[p].phase /\ r.failed = pubs[p].failed \cup {s}
          /\ r.pending = pubs[p].pending \ {s}
      BY <1>2 DEF Publication
    <2>2. pubs' = [pubs EXCEPT ![p] = r]
      BY <1>1, <1>4, Elements DEF HandlerFails, Settle, Ids
    <2> HIDE DEF r
    <2>3. Ids' = Ids /\ pubs'[p] = r /\ \A k \in Ids \ {p} : pubs'[k] = pubs[k]
      BY <1>1, <2>1, <2>2, Change
    <2> QED
      BY <1>1, <1>4, <2>1, <2>3 DEF Settled, Keeps
  <1> QED
    BY <1>3, <1>4 DEF HandlerSettles

\* Publication p goes from one phase to another and nothing else of it changes.
Moves(p, from, to) ==
  /\ Ids' = Ids /\ p \in Ids /\ pubs[p].phase = from /\ pubs'[p].phase = to
  /\ Keeps(p) /\ pubs'[p].pending = pubs[p].pending /\ pubs'[p].failed = pubs[p].failed
  /\ \A k \in Ids \ {p} : pubs'[k] = pubs[k]

LEMMA MoveStep ==
  ASSUME IInv, NEW p \in Ids, NEW to \in Phases, pubs' = [pubs EXCEPT ![p].phase = to]
  PROVE  Moves(p, pubs[p].phase, to)
  <1> DEFINE r == [pubs[p] EXCEPT !.phase = to]
  <1>1. pubs[p] \in Publication
    BY Elements
  <1>2. /\ r \in Publication /\ r.event = pubs[p].event /\ r.caller = pubs[p].caller
        /\ r.awaited = pubs[p].awaited /\ r.phase = to /\ r.failed = pubs[p].failed /\ r.pending = pubs[p].pending
    BY <1>1 DEF Publication
  <1>3. pubs' = [pubs EXCEPT ![p] = r]
    OBVIOUS
  <1> HIDE DEF r
  <1>4. Ids' = Ids /\ pubs'[p] = r /\ \A k \in Ids \ {p} : pubs'[k] = pubs[k]
    BY <1>2, <1>3, Change
  <1> QED
    BY <1>2, <1>4 DEF Moves, Keeps

LEMMA FinishStep ==
  ASSUME IInv, NEW p \in 1..MaxPub, FinishDispatch(p)
  PROVE  /\ pubs[p].pending = {}
         /\ \/ Moves(p, "dispatching", "audited") /\ history' = Recorded(p)
            \/ Moves(p, "dispatching", "thrown") /\ history' = history
         /\ totalDispatched' = totalDispatched + 1
         /\ totalFailedDeliveries' = totalFailedDeliveries + Cardinality(pubs[p].failed)
         /\ UNCHANGED <<status, consecutiveFailures>>
  <1>1. /\ p \in Ids /\ pubs[p].phase = "dispatching" /\ pubs[p].pending = {}
        /\ totalDispatched' = totalDispatched + 1
        /\ totalFailedDeliveries' = totalFailedDeliveries + Cardinality(pubs[p].failed)
        /\ UNCHANGED <<status, consecutiveFailures>>
    BY DEF FinishDispatch, subVars
  <1>2. \/ pubs' = [pubs EXCEPT ![p].phase = "audited"] /\ history' = Recorded(p)
        \/ pubs' = [pubs EXCEPT ![p].phase = "thrown"] /\ history' = history
    BY DEF FinishDispatch
  <1>3. "audited" \in Phases /\ "thrown" \in Phases
    BY DEF Phases
  <1>4. CASE pubs' = [pubs EXCEPT ![p].phase = "audited"] /\ history' = Recorded(p)
    BY <1>1, <1>3, <1>4, MoveStep
  <1>5. CASE pubs' = [pubs EXCEPT ![p].phase = "thrown"] /\ history' = history
    BY <1>1, <1>3, <1>5, MoveStep
  <1> QED
    BY <1>1, <1>2, <1>4, <1>5

LEMMA ReturnStep ==
  ASSUME IInv, NEW p \in 1..MaxPub, ReturnSync(p)
  PROVE  /\ IsSync(p)
         /\ Moves(p, "audited", "resolved") \/ Moves(p, "thrown", "rejected")
         /\ UNCHANGED <<status, consecutiveFailures, totalDispatched, totalFailedDeliveries, history>>
  <1>1. /\ p \in Ids /\ IsSync(p) /\ pubs[p].phase \in {"audited", "thrown"}
        /\ UNCHANGED <<status, consecutiveFailures, totalDispatched, totalFailedDeliveries, history>>
    BY DEF ReturnSync, subVars, auditVars
  <1>2. "resolved" \in Phases /\ "rejected" \in Phases
    BY DEF Phases
  <1>3. CASE pubs[p].phase = "audited"
    <2>1. pubs' = [pubs EXCEPT ![p].phase = "resolved"]
      BY <1>3 DEF ReturnSync
    <2> QED
      BY <1>1, <1>2, <1>3, <2>1, MoveStep
  <1>4. CASE pubs[p].phase = "thrown"
    <2>1. pubs' = [pubs EXCEPT ![p].phase = "rejected"]
      BY <1>4 DEF ReturnSync
    <2> QED
      BY <1>1, <1>2, <1>4, <2>1, MoveStep
  <1> QED
    BY <1>1, <1>3, <1>4

\* The drain loop resolves what it awaited and dispatches q, or ends (q = 0).
Drained(q) ==
  /\ Ids' = Ids /\ \A k \in Ids : Keeps(k) /\ pubs'[k].failed = pubs[k].failed
  /\ drainAwaits # 0 =>
       drainAwaits \in Ids /\ pubs[drainAwaits].phase = "audited" /\ pubs'[drainAwaits].phase = "resolved"
  /\ q # 0 => IsNext(q) /\ q \in Ids /\ pubs[q].phase = "queued" /\ pubs'[q].phase = "dispatching"
  /\ q # 0 => pubs'[q].pending \subseteq Subs
  /\ \A k \in Ids : k # drainAwaits /\ k # q => pubs'[k] = pubs[k]
  /\ UNCHANGED <<status, consecutiveFailures, totalDispatched, totalFailedDeliveries, history>>

LEMMA ResolvedFields ==
  ASSUME IInv
  PROVE  /\ Resolved \in Seq(Publication) /\ DOMAIN Resolved = Ids
         /\ \A k \in Ids : /\ Resolved[k].event = pubs[k].event /\ Resolved[k].caller = pubs[k].caller
                           /\ Resolved[k].awaited = pubs[k].awaited /\ Resolved[k].failed = pubs[k].failed
         /\ \A k \in Ids : k # drainAwaits => Resolved[k] = pubs[k]
         /\ drainAwaits # 0 => drainAwaits \in Ids /\ Resolved[drainAwaits].phase = "resolved"
  <1>1. drainAwaits # 0 => drainAwaits \in Ids
    BY DEF IInv, SingleDrain
  <1>2. CASE drainAwaits = 0
    BY <1>2, Elements DEF Resolved, Ids
  <1>3. CASE drainAwaits # 0
    <2> DEFINE r == [pubs[drainAwaits] EXCEPT !.phase = "resolved"]
    <2>1. pubs[drainAwaits] \in Publication
      BY <1>1, <1>3, Elements
    <2>2. /\ r \in Publication /\ r.event = pubs[drainAwaits].event /\ r.phase = "resolved"
          /\ r.caller = pubs[drainAwaits].caller /\ r.awaited = pubs[drainAwaits].awaited
          /\ r.failed = pubs[drainAwaits].failed
      BY <2>1 DEF Publication, Phases
    <2>3. Resolved = [pubs EXCEPT ![drainAwaits] = r]
      BY <1>3 DEF Resolved
    <2> HIDE DEF r
    <2> QED
      BY <1>1, <1>3, <2>2, <2>3, Elements, Replaced DEF Ids
  <1> QED
    BY <1>2, <1>3

LEMMA DrainStep ==
  ASSUME IInv, Drain
  PROVE  \E q \in Nat : Drained(q)
  <1>1. ASSUME NEW q \in 1..MaxPub, DrainNext(q) PROVE Drained(q)
    <2> DEFINE m == Matches(pubs[q].event)
               r == [[[Resolved[q] EXCEPT !.phase = "dispatching"] EXCEPT !.matched = m] EXCEPT !.pending = m]
    <2>1. /\ IsNext(q) /\ q \in Ids /\ pubs[q].phase = "queued" /\ m \in SUBSET Subs
          /\ drainAwaits # 0 => pubs[drainAwaits].phase = "audited"
          /\ UNCHANGED <<status, consecutiveFailures, totalDispatched, totalFailedDeliveries, history>>
      BY <1>1 DEF DrainNext, DrainResumes, IsNext, Queue, Matches, subVars, auditVars
    <2>2. Resolved \in Seq(Publication) /\ q \in DOMAIN Resolved /\ Resolved[q] \in Publication
      BY <2>1, ResolvedFields, LenProperties, ElementOfSeq
    <2>3. /\ r \in Publication /\ r.event = Resolved[q].event /\ r.phase = "dispatching"
          /\ r.caller = Resolved[q].caller /\ r.awaited = Resolved[q].awaited /\ r.failed = Resolved[q].failed
          /\ r.pending \subseteq Subs
      BY <2>1, <2>2 DEF Publication, Phases
    <2>4. pubs' = [Resolved EXCEPT ![q] = r]
      BY <1>1, <2>2, LenProperties DEF DrainNext
    <2> HIDE DEF r
    <2>5. Ids' = Ids /\ pubs'[q] = r /\ \A k \in Ids \ {q} : pubs'[k] = Resolved[k]
      BY <2>2, <2>3, <2>4, ResolvedFields, Replaced DEF Ids
    <2>6. drainAwaits # q
      BY <2>1, Elements
    <2> QED
      BY <2>1, <2>3, <2>5, <2>6, ResolvedFields DEF Drained, Keeps
  <1>2. ASSUME DrainEnds PROVE Drained(0)
    <2>1. /\ pubs' = Resolved /\ (drainAwaits # 0 => pubs[drainAwaits].phase = "audited")
          /\ UNCHANGED <<status, consecutiveFailures, totalDispatched, totalFailedDeliveries, history>>
      BY <1>2 DEF DrainEnds, DrainResumes, subVars, auditVars
    <2>2. Ids' = Ids
      BY <2>1, ResolvedFields DEF Ids
    <2> QED
      BY <2>1, <2>2, ResolvedFields DEF Drained, Keeps
  <1>3. \A q \in 1..MaxPub : q \in Nat
    BY BusAssumption
  <1> QED
    BY <1>1, <1>2, <1>3 DEF Drain

----------------------------------------------------------------------------
(* Awaited publications nest.                                                 *)

CallersKnown == \A k \in Ids : pubs[k].awaited => pubs[k].caller \in Invocations
Nests == AwaitedPublicationsNest /\ CallersKnown

LEMMA RunningParts ==
  ASSUME NEW i \in Invocations
  PROVE  i[1] \in 1..MaxPub /\ i[2] \in Subs /\ i = <<i[1], i[2]>>
  BY DEF Invocations

LEMMA NestInit == Init => Nests
  BY DEF Init, Nests, AwaitedPublicationsNest, CallersKnown, Ids

\* The steps that leave alone what runs, and make nothing outstanding.
LEMMA NestKept ==
  ASSUME IInv, Nests, Ids' = Ids, \A k \in Ids : Keeps(k) /\ (Outstanding(k)' => Outstanding(k)),
         \A i \in Invocations : Running(i) /\ (\E k \in Ids : pubs[k].caller = i /\ pubs[k].awaited /\ Outstanding(k))
                                  => Running(i)'
  PROVE  Nests'
  <1>1. CallersKnown'
    BY DEF Nests, CallersKnown, Keeps
  <1>2. ASSUME NEW p \in Ids', (pubs[p].awaited /\ Outstanding(p))' PROVE Running(pubs[p].caller)'
    <2> PICK i : i = pubs[p].caller
      OBVIOUS
    <2>1. p \in Ids /\ pubs[p].awaited /\ Outstanding(p) /\ i \in Invocations /\ pubs'[p].caller = i
      BY <1>2 DEF Nests, CallersKnown, Keeps
    <2>2. Running(i)
      BY <2>1 DEF Nests, AwaitedPublicationsNest
    <2>3. Running(i)'
      BY <2>1, <2>2
    <2> QED
      BY <2>1, <2>3 DEF Running
  <1> QED
    BY <1>1, <1>2 DEF Nests, AwaitedPublicationsNest

LEMMA NestPublished ==
  ASSUME IInv, Nests, NEW n \in Nat, NEW ph \in {"circular", "dispatching", "overflow", "queued"},
         NEW e \in Events, NEW i \in Invocations \cup {Outside}, NEW awaited \in BOOLEAN,
         Accepted(n, ph, e, i, awaited)
  PROVE  Nests'
  <1>1. \A j \in Invocations : Running(j) => Running(j)'
    BY DEF Accepted, Running
  <1>2. awaited => i \in Invocations /\ Running(i)
    BY DEF Accepted, MayPublish
  <1>3. CallersKnown'
    BY <1>2 DEF Accepted, Nests, CallersKnown
  <1>4. ASSUME NEW p \in Ids', (pubs[p].awaited /\ Outstanding(p))' PROVE Running(pubs[p].caller)'
    <2>1. CASE p = n
      BY <1>1, <1>2, <1>4, <2>1 DEF Accepted, Running
    <2>2. CASE p # n
      <3> PICK j : j = pubs[p].caller
        OBVIOUS
      <3>1. p \in Ids /\ pubs'[p] = pubs[p] /\ pubs[p].awaited /\ Outstanding(p)
        BY <1>4, <2>2 DEF Accepted, Outstanding
      <3>2. j \in Invocations /\ Running(j)
        BY <3>1 DEF Nests, CallersKnown, AwaitedPublicationsNest
      <3>3. Running(j)'
        BY <1>1, <3>2
      <3> QED
        BY <3>1, <3>3 DEF Running
    <2> QED
      BY <2>1, <2>2
  <1> QED
    BY <1>3, <1>4 DEF Nests, AwaitedPublicationsNest

LEMMA NestSettled ==
  ASSUME IInv, Nests, NEW p \in 1..MaxPub, NEW s \in Subs, Settled(p, s)
  PROVE  Nests'
  <1>1. \A k \in Ids : Keeps(k) /\ (Outstanding(k)' => Outstanding(k))
    BY DEF Settled, Keeps, Outstanding
  <1>2. ASSUME NEW i \in Invocations, Running(i), NEW k \in Ids, pubs[k].caller = i, pubs[k].awaited, Outstanding(k)
        PROVE  Running(i)'
    <2>1. i # <<p, s>>
      BY <1>2 DEF Settled, Blocked
    <2>2. i[1] = p => i[2] # s
      BY <2>1, RunningParts
    <2> QED
      BY <1>2, <2>2 DEF Running, Settled
  <1>3. Ids' = Ids
    BY DEF Settled
  <1> QED
    BY <1>1, <1>2, <1>3, NestKept

\* A publication that moves on was not running a handler.
LEMMA NestMoved ==
  ASSUME IInv, Nests, NEW p, NEW from, NEW to, Moves(p, from, to),
         from = "dispatching" => pubs[p].pending = {}, to \in {"audited", "thrown", "resolved", "rejected"},
         from \in {"dispatching", "audited", "thrown"}
  PROVE  Nests'
  <1>1. \A k \in Ids : Keeps(k) /\ (Outstanding(k)' => Outstanding(k))
    BY DEF Moves, Keeps, Outstanding
  <1>2. \A i \in Invocations : Running(i) => Running(i)'
    BY DEF Moves, Running
  <1>3. Ids' = Ids
    BY DEF Moves
  <1> QED
    BY <1>1, <1>2, <1>3, NestKept

LEMMA NestDrained ==
  ASSUME IInv, Nests, NEW q \in Nat, Drained(q)
  PROVE  Nests'
  <1>1. \A k \in Ids : Keeps(k) /\ (Outstanding(k)' => Outstanding(k))
    <2> SUFFICES ASSUME NEW k \in Ids PROVE Keeps(k) /\ (Outstanding(k)' => Outstanding(k))
      OBVIOUS
    <2>1. Keeps(k) /\ k # 0
      BY Elements DEF Drained
    <2>2. CASE k = drainAwaits \/ k = q
      BY <2>1, <2>2 DEF Drained, Outstanding
    <2>3. CASE k # drainAwaits /\ k # q
      BY <2>1, <2>3 DEF Drained, Outstanding
    <2> QED
      BY <2>2, <2>3
  <1>2. \A i \in Invocations : Running(i) => Running(i)'
    BY Elements DEF Drained, Running
  <1>3. Ids' = Ids
    BY DEF Drained
  <1> QED
    BY <1>1, <1>2, <1>3, NestKept

----------------------------------------------------------------------------
(* The order of the audits.  Async publications of one rank leave the queue   *)
(* one after another: when one of them is past its turn, no earlier one is    *)
(* still queued or in dispatch.                                               *)

Peers(p, q) == ~IsSync(p) /\ ~IsSync(q) /\ Rank[pubs[p].event] = Rank[pubs[q].event]
Past(p) == pubs[p].phase \in {"dispatching", "audited", "thrown", "resolved"}
Done(p) == pubs[p].phase \in {"audited", "resolved"}

InTurn == \A p, q \in Ids : Peers(p, q) /\ p < q /\ Past(q) => pubs[p].phase \notin {"queued", "dispatching"}
Audited == \A k \in DOMAIN history : history[k] \in Ids /\ Done(history[k])

LEMMA TurnInit == Init => InTurn /\ Audited /\ AuditedInOrder
  BY DEF Init, InTurn, Audited, AuditedInOrder, Ids

LEMMA TurnPublished ==
  ASSUME IInv, InTurn, NEW n \in Nat, NEW ph \in {"circular", "dispatching", "overflow", "queued"},
         NEW e \in Events, NEW i \in Invocations \cup {Outside}, NEW awaited \in BOOLEAN,
         Accepted(n, ph, e, i, awaited)
  PROVE  InTurn'
  <1>1. \A p \in Ids : pubs'[p] = pubs[p] /\ p < n
    BY DEF Accepted
  <1>2. ~(~IsSync(n) /\ Past(n))'
    BY DEF Accepted, Past, IsSync
  <1>3. ASSUME NEW p \in Ids', NEW q \in Ids', (Peers(p, q) /\ p < q /\ Past(q))'
        PROVE  pubs'[p].phase \notin {"queued", "dispatching"}
    <2>1. q # n
      BY <1>2, <1>3 DEF Peers
    <2>2. q \in Ids /\ p # n /\ p \in Ids
      BY <1>1, <1>3, <2>1, Elements DEF Accepted
    <2> QED
      BY <1>1, <1>3, <2>2 DEF InTurn, Peers, Past, IsSync
  <1> QED
    BY <1>3 DEF InTurn

\* Nothing enters the queue or a dispatch.
LEMMA TurnKept ==
  ASSUME InTurn, Ids' = Ids, \A k \in Ids : pubs'[k].event = pubs[k].event,
         \A k \in Ids : Past(k)' => Past(k) \/ IsSync(k),
         \A k \in Ids : pubs'[k].phase \in {"queued", "dispatching"} => pubs[k].phase \in {"queued", "dispatching"}
  PROVE  InTurn'
  BY DEF InTurn, Peers, IsSync

LEMMA TurnSettled ==
  ASSUME IInv, InTurn, NEW p \in 1..MaxPub, NEW s \in Subs, Settled(p, s)
  PROVE  InTurn'
  <1>1. Ids' = Ids /\ \A k \in Ids : pubs'[k].event = pubs[k].event /\ pubs'[k].phase = pubs[k].phase
    BY DEF Settled, Keeps
  <1> QED
    BY <1>1, TurnKept DEF Past

LEMMA TurnMoved ==
  ASSUME IInv, InTurn, NEW p, NEW from, NEW to, Moves(p, from, to),
         from \in {"dispatching", "audited", "thrown"}, to \in {"audited", "thrown", "resolved", "rejected"}
  PROVE  InTurn'
  <1>1. Ids' = Ids /\ \A k \in Ids : pubs'[k].event = pubs[k].event
    BY DEF Moves, Keeps
  <1>2. \A k \in Ids : Past(k)' => Past(k)
    BY DEF Moves, Past
  <1>3. \A k \in Ids : pubs'[k].phase \in {"queued", "dispatching"} => pubs[k].phase \in {"queued", "dispatching"}
    BY DEF Moves
  <1> QED
    BY <1>1, <1>2, <1>3, TurnKept

\* Only what the loop awaits is in dispatch, and that is done.
LEMMA TurnDrained ==
  ASSUME IInv, InTurn, NEW q \in Nat, Drained(q)
  PROVE  InTurn'
  <1>1. Ids' = Ids /\ \A k \in Ids : pubs'[k].event = pubs[k].event
    BY DEF Drained, Keeps
  <1>2. ASSUME NEW k \in Ids, ~IsSync(k) PROVE pubs[k].phase # "dispatching"
    <2>1. InDispatch(k) => drainAwaits = k
      BY <1>2 DEF IInv, SingleDrain
    <2>2. 0 \notin Ids
      BY Elements
    <2> QED
      BY <2>1, <2>2 DEF Drained, InDispatch
  <1>3. ASSUME NEW p \in Ids, NEW r \in Ids, Peers(p, r)', p < r, Past(r)'
        PROVE  pubs'[p].phase \notin {"queued", "dispatching"}
    <2>1. Peers(p, r) /\ ~IsSync(p) /\ ~IsSync(r)
      BY <1>1, <1>3 DEF Peers, IsSync
    <2>2. CASE r = q /\ q # 0
      <3>1. p \notin Queue
        <4>1. \A k \in Queue \ {q} : Before(q, k)
          BY <2>2 DEF Drained, IsNext
        <4>2. ~Before(q, p)
          BY <1>3, <2>1, <2>2, Elements, BusAssumption DEF Before, Peers
        <4> QED
          BY <1>3, <2>2, <4>1, <4>2, Elements
      <3>2. pubs[p].phase \notin {"queued", "dispatching"}
        BY <1>2, <2>1, <3>1 DEF Queue
      <3> QED
        BY <1>3, <2>2, <3>2, Elements DEF Drained
    <2>3. CASE r # q \/ q = 0
      <3>1. Past(r)
        BY <1>3, <2>3, Elements DEF Drained, Past
      <3>2. pubs[p].phase \notin {"queued", "dispatching"}
        BY <1>3, <2>1, <3>1 DEF InTurn
      <3> QED
        BY <3>2, Elements DEF Drained
    <2> QED
      BY <2>2, <2>3
  <1> QED
    BY <1>1, <1>3 DEF InTurn

LEMMA AuditsKept ==
  ASSUME Audited, AuditedInOrder, history' = history, Ids \subseteq Ids',
         \A k \in Ids : pubs'[k].event = pubs[k].event /\ (Done(k) => Done(k)')
  PROVE  Audited' /\ AuditedInOrder'
  BY DEF Audited, AuditedInOrder, IsSync

\* p is audited after all of its peers that went before it, and before the others.
LEMMA AuditsFinished ==
  ASSUME IInv, InTurn, Audited, AuditedInOrder, NEW p \in 1..MaxPub, Moves(p, "dispatching", "audited"),
         history' = Recorded(p)
  PROVE  Audited' /\ AuditedInOrder'
  <1> PICK h : h = Append(history, p)
    OBVIOUS
  <1> PICK g : g = history'
    OBVIOUS
  <1>1. history \in Seq(1..MaxPub) /\ Len(history) \in Nat /\ DOMAIN history = 1..Len(history)
    BY LenProperties DEF IInv, TypeOK
  <1>2. /\ h \in Seq(1..MaxPub) /\ Len(h) = Len(history) + 1 /\ DOMAIN h = DOMAIN history \cup {Len(history) + 1}
        /\ h[Len(history) + 1] = p /\ \A k \in DOMAIN history : h[k] = history[k]
    BY <1>1, Appended
  <1>3. /\ p \in Ids /\ Ids' = Ids /\ pubs[p].phase = "dispatching"
        /\ \A k \in Ids : pubs'[k].event = pubs[k].event /\ (Done(k) => Done(k)')
        /\ Done(p)'
    BY DEF Moves, Keeps, Done
  <1>4. \A k \in DOMAIN h : h[k] \in Ids /\ Done(h[k])'
    BY <1>2, <1>3 DEF Audited
  <1>5. ASSUME NEW k \in DOMAIN history, Peers(history[k], p) PROVE history[k] < p
    <2>1. history[k] \in Ids /\ Done(history[k])
      BY DEF Audited
    <2>2. ~(p < history[k]) /\ history[k] # p
      BY <1>3, <1>5, <2>1 DEF InTurn, Past, Done, Peers
    <2> QED
      BY <1>3, <2>1, <2>2, Elements
  <1>6. ASSUME NEW j \in DOMAIN h, NEW k \in DOMAIN h, j < k, Peers(h[j], h[k]) PROVE h[j] < h[k]
    <2>1. j \in DOMAIN history
      BY <1>1, <1>2, <1>6
    <2>2. CASE k = Len(history) + 1
      BY <1>2, <1>5, <1>6, <2>1, <2>2
    <2>3. CASE k # Len(history) + 1
      BY <1>2, <1>6, <2>1, <2>3 DEF AuditedInOrder, Peers
    <2> QED
      BY <2>2, <2>3
  <1>7. \A x, y \in Ids : Peers(x, y)' <=> Peers(x, y)
    BY <1>3 DEF Peers, IsSync
  <1>8. CASE g = h
    <2>1. \A k \in DOMAIN g : g[k] \in Ids' /\ Done(g[k])'
      BY <1>3, <1>4, <1>8
    <2>2. \A j, k \in DOMAIN g : j < k /\ Peers(g[j], g[k])' => g[j] < g[k]
      BY <1>4, <1>6, <1>7, <1>8
    <2> QED
      BY <2>1, <2>2 DEF Audited, AuditedInOrder, Peers, IsSync, Done
  <1>9. CASE g = Tail(h)
    <2>1. h # <<>>
      BY <1>1, <1>2, EmptySeq, LenProperties
    <2>2. /\ Len(Tail(h)) = Len(h) - 1 /\ Tail(h) \in Seq(1..MaxPub)
          /\ \A k \in 1..Len(Tail(h)) : Tail(h)[k] = h[k + 1]
      BY <1>2, <2>1, HeadTailProperties
    <2>3. DOMAIN Tail(h) = 1..Len(history) /\ \A k \in 1..Len(history) : k + 1 \in DOMAIN h
      BY <1>1, <1>2, <2>2, LenProperties
    <2>4. \A k \in DOMAIN g : k \in Nat /\ g[k] = h[k + 1] /\ k + 1 \in DOMAIN h
      BY <1>9, <2>2, <2>3, <1>1, <1>2
    <2>5. \A k \in DOMAIN g : g[k] \in Ids' /\ Done(g[k])'
      BY <1>3, <1>4, <2>4
    <2>6. \A j, k \in DOMAIN g : j < k /\ Peers(g[j], g[k])' => g[j] < g[k]
      BY <1>4, <1>6, <1>7, <2>4
    <2> QED
      BY <2>5, <2>6 DEF Audited, AuditedInOrder, Peers, IsSync, Done
  <1>10. g = h \/ g = Tail(h)
    BY DEF Recorded
  <1> QED
    BY <1>8, <1>9, <1>10

----------------------------------------------------------------------------
(* Every step is one of these.                                                *)

Finishes(p) ==
  /\ pubs[p].pending = {}
  /\ \/ Moves(p, "dispatching", "audited") /\ history' = Recorded(p)
     \/ Moves(p, "dispatching", "thrown") /\ history' = history
  /\ totalDispatched' = totalDispatched + 1
  /\ totalFailedDeliveries' = totalFailedDeliveries + Cardinality(pubs[p].failed)
  /\ UNCHANGED <<status, consecutiveFailures>>

Returns(p) ==
  /\ IsSync(p)
  /\ Moves(p, "audited", "resolved") \/ Moves(p, "thrown", "rejected")
  /\ UNCHANGED <<status, consecutiveFailures, totalDispatched, totalFailedDeliveries, history>>

\* Subscriptions come and go; nothing is published.
Quiet ==
  /\ UNCHANGED <<pubs, consecutiveFailures, totalDispatched, totalFailedDeliveries, history>>
  /\ \A s \in Subs : /\ status'[s] = "live" => status[s] \in {"absent", "live"}
                     /\ status'[s] \in {"absent", "dead"} => status'[s] = status[s]

LEMMA QuietStep ==
  ASSUME IInv, \/ \E e \in Events : RegisterEventType(e)
               \/ \E s \in Subs : Subscribe(s) \/ Unsubscribe(s)
               \/ UNCHANGED vars
  PROVE  Quiet
  <1>1. status \in [Subs -> {"absent", "live", "dead", "removed"}]
    BY DEF IInv, TypeOK
  <1>2. CASE (\E e \in Events : RegisterEventType(e)) \/ UNCHANGED vars
    BY <1>2 DEF RegisterEventType, vars, subVars, auditVars, Quiet
  <1>3. CASE \E s \in Subs : Subscribe(s) \/ Unsubscribe(s)
    <2>1. UNCHANGED <<pubs, consecutiveFailures, totalDispatched, totalFailedDeliveries, history>>
      BY <1>3 DEF Subscribe, Unsubscribe, auditVars
    <2>2. PICK s \in Subs : \/ status[s] = "absent" /\ status' = [status EXCEPT ![s] = "live"]
                            \/ status' = [status EXCEPT ![s] = "removed"]
      BY <1>3 DEF Subscribe, Unsubscribe
    <2> QED
      BY <1>1, <2>1, <2>2 DEF Quiet
  <1> QED
    BY <1>2, <1>3

LEMMA Steps ==
  ASSUME IInv, [Next]_vars
  PROVE  \/ Quiet
         \/ \E n \in Nat, ph \in {"circular", "dispatching", "overflow", "queued"}, e \in Events,
               i \in Invocations \cup {Outside}, awaited \in BOOLEAN : Accepted(n, ph, e, i, awaited)
         \/ \E p \in 1..MaxPub, s \in Subs : Settled(p, s)
         \/ \E p \in 1..MaxPub : Finishes(p) \/ Returns(p)
         \/ \E q \in Nat : Drained(q)
  <1>1. ASSUME NEW p \in 1..MaxPub, FinishDispatch(p) \/ ReturnSync(p) PROVE Finishes(p) \/ Returns(p)
    BY <1>1, FinishStep, ReturnStep DEF Finishes, Returns
  <1> QED
    BY <1>1, QuietStep, PublishStep, SettleStep, DrainStep DEF Next

----------------------------------------------------------------------------
(* The invariants of the nesting and of the order, kept by every step.        *)

Ordered == Nests /\ InTurn /\ Audited /\ AuditedInOrder

LEMMA OrderedStep ==
  ASSUME IInv, Ordered, [Next]_vars
  PROVE  Ordered'
  <1>0. Nests /\ InTurn /\ Audited /\ AuditedInOrder
    BY DEF Ordered
  <1>1. CASE Quiet
    BY <1>0, <1>1 DEF Quiet, Ordered, Nests, AwaitedPublicationsNest, CallersKnown, Running, Outstanding,
       InTurn, Peers, Past, Audited, Done, AuditedInOrder, IsSync, Ids
  <1>2. ASSUME NEW n \in Nat, NEW ph \in {"circular", "dispatching", "overflow", "queued"}, NEW e \in Events,
               NEW i \in Invocations \cup {Outside}, NEW awaited \in BOOLEAN, Accepted(n, ph, e, i, awaited)
        PROVE  Ordered'
    <2>1. /\ history' = history /\ Ids \subseteq Ids'
          /\ \A k \in Ids : pubs'[k].event = pubs[k].event /\ (Done(k) => Done(k)')
      BY <1>2 DEF Accepted, Done
    <2> QED
      BY <1>0, <1>2, <2>1, NestPublished, TurnPublished, AuditsKept DEF Ordered
  <1>3. ASSUME NEW p \in 1..MaxPub, NEW s \in Subs, Settled(p, s) PROVE Ordered'
    <2>1. /\ history' = history /\ Ids \subseteq Ids'
          /\ \A k \in Ids : pubs'[k].event = pubs[k].event /\ (Done(k) => Done(k)')
      BY <1>3 DEF Settled, Keeps, Done
    <2> QED
      BY <1>0, <1>3, <2>1, NestSettled, TurnSettled, AuditsKept DEF Ordered
  <1>4. ASSUME NEW p \in 1..MaxPub, Finishes(p) PROVE Ordered'
    <2>1. CASE Moves(p, "dispatching", "audited") /\ history' = Recorded(p)
      BY <1>0, <1>4, <2>1, NestMoved, TurnMoved, AuditsFinished DEF Ordered, Finishes
    <2>2. CASE Moves(p, "dispatching", "thrown") /\ history' = history
      <3>1. Ids \subseteq Ids' /\ \A k \in Ids : pubs'[k].event = pubs[k].event /\ (Done(k) => Done(k)')
        BY <2>2 DEF Moves, Keeps, Done
      <3> QED
        BY <1>0, <1>4, <2>2, <3>1, NestMoved, TurnMoved, AuditsKept DEF Ordered, Finishes
    <2> QED
      BY <1>4, <2>1, <2>2 DEF Finishes
  <1>5. ASSUME NEW p \in 1..MaxPub, Returns(p) PROVE Ordered'
    <2>1. PICK from \in {"audited", "thrown"}, to \in {"resolved", "rejected"} :
            Moves(p, from, to) /\ (from = "audited" => to = "resolved")
      BY <1>5 DEF Returns
    <2>2. /\ history' = history /\ Ids \subseteq Ids'
          /\ \A k \in Ids : pubs'[k].event = pubs[k].event /\ (Done(k) => Done(k)')
      BY <1>5, <2>1 DEF Returns, Moves, Keeps, Done
    <2> QED
      BY <1>0, <2>1, <2>2, NestMoved, TurnMoved, AuditsKept DEF Ordered
  <1>6. ASSUME NEW q \in Nat, Drained(q) PROVE Ordered'
    <2>1. history' = history /\ Ids \subseteq Ids'
      BY <1>6 DEF Drained
    <2>2. ASSUME NEW k \in Ids PROVE pubs'[k].event = pubs[k].event /\ (Done(k) => Done(k)')
      BY <1>6, <2>2, Elements DEF Drained, Keeps, Done
    <2> QED
      BY <1>0, <1>6, <2>1, <2>2, NestDrained, TurnDrained, AuditsKept DEF Ordered
  <1> QED
    BY <1>1, <1>2, <1>3, <1>4, <1>5, <1>6, Steps

THEOREM OrderInvariant == Spec => []Ordered
  <1>1. Init => Ordered
    BY NestInit, TurnInit DEF Ordered
  <1>2. IInv /\ Ordered /\ [Next]_vars => Ordered'
    BY OrderedStep
  <1> QED
    BY <1>1, <1>2, Invariant, PTL DEF Spec

\* While a handler awaits a publication of its own, the event it handles is
\* still being dispatched: no publish() returns under a suspended handler.
THEOREM AwaitedNest == Spec => []AwaitedPublicationsNest
  BY OrderInvariant, PTL DEF Ordered, Nests

\* Async events of one priority are audited in the order of their publish()
\* calls, whatever sync dispatches, failures and record() errors come between.
THEOREM AuditsAreInOrder == Spec => []AuditedInOrder
  BY OrderInvariant, PTL DEF Ordered

----------------------------------------------------------------------------
(* Dead-subscriber detection.  The failures counted for a subscription are    *)
(* never more than its failed deliveries, which only grow.                    *)

NoneFailedYet(k) == pubs[k].phase = "queued" => pubs[k].failed = {}
FailedOnce(k) == pubs[k].phase = "dispatching" => pubs[k].pending \cap pubs[k].failed = {}
Handled == \A k \in Ids : NoneFailedYet(k) /\ FailedOnce(k)

Tally == \A s \in Subs : consecutiveFailures[s] <= Cardinality(FailedDeliveries(s))
Standing ==
  \A s \in Subs : /\ status[s] = "absent" => consecutiveFailures[s] = 0
                  /\ status[s] = "live" => consecutiveFailures[s] < DeadThreshold
                  /\ status[s] = "dead" => Cardinality(FailedDeliveries(s)) >= DeadThreshold

Counting == Handled /\ Tally /\ Standing

LEMMA FiniteDeliveries ==
  ASSUME IInv
  PROVE  /\ IsFiniteSet(Ids)
         /\ \A s \in Subs : IsFiniteSet(FailedDeliveries(s)) /\ Cardinality(FailedDeliveries(s)) \in Nat
  <1>1. IsFiniteSet(Ids)
    BY FiniteIds DEF IInv, TypeOK
  <1>2. \A s \in Subs : FailedDeliveries(s) \in SUBSET Ids
    BY DEF FailedDeliveries
  <1> QED
    BY <1>1, <1>2, FS_Subset, FS_CardinalityType

LEMMA CountingInit == Init => Counting
  <1> SUFFICES ASSUME Init PROVE Counting
    OBVIOUS
  <1>1. Ids = {}
    BY DEF Init, Ids
  <1>2. \A s \in Subs : /\ status[s] = "absent" /\ consecutiveFailures[s] = 0
                        /\ FailedDeliveries(s) = {}
    BY <1>1 DEF Init, FailedDeliveries
  <1>3. Cardinality({}) = 0
    BY FS_EmptySet
  <1> QED
    BY <1>1, <1>2, <1>3 DEF Counting, Handled, Tally, Standing

\* The steps by which no delivery fails.
LEMMA CountingKept ==
  ASSUME IInv, Counting, Handled', \A s \in Subs : FailedDeliveries(s)' = FailedDeliveries(s),
         UNCHANGED <<status, consecutiveFailures>>
  PROVE  Counting'
  BY DEF Counting, Tally, Standing

LEMMA HandledStep ==
  ASSUME IInv, Handled, [Next]_vars
  PROVE  Handled'
  <1>1. CASE Quiet
    BY <1>1 DEF Quiet, Handled, NoneFailedYet, FailedOnce, Ids
  <1>2. ASSUME NEW n \in Nat, NEW ph \in {"circular", "dispatching", "overflow", "queued"}, NEW e \in Events,
               NEW i \in Invocations \cup {Outside}, NEW awaited \in BOOLEAN, Accepted(n, ph, e, i, awaited)
        PROVE  Handled'
    BY <1>2 DEF Accepted, Handled, NoneFailedYet, FailedOnce
  <1>3. ASSUME NEW p \in 1..MaxPub, NEW s \in Subs, Settled(p, s) PROVE Handled'
    BY <1>3 DEF Settled, Handled, NoneFailedYet, FailedOnce
  <1>4. ASSUME NEW p \in 1..MaxPub, Finishes(p) \/ Returns(p) PROVE Handled'
    BY <1>4 DEF Finishes, Returns, Moves, Handled, NoneFailedYet, FailedOnce
  <1>5. ASSUME NEW q \in Nat, Drained(q) PROVE Handled'
    <2> SUFFICES ASSUME NEW k \in Ids PROVE NoneFailedYet(k)' /\ FailedOnce(k)'
      BY <1>5 DEF Handled, Drained
    <2>1. NoneFailedYet(k) /\ FailedOnce(k) /\ k # 0
      BY Elements DEF Handled
    <2>2. CASE k = q
      BY <1>5, <2>1, <2>2 DEF Drained, NoneFailedYet, FailedOnce
    <2>3. CASE k = drainAwaits
      BY <1>5, <2>1, <2>3 DEF Drained, NoneFailedYet, FailedOnce
    <2>4. CASE k # q /\ k # drainAwaits
      BY <1>5, <2>1, <2>4 DEF Drained, NoneFailedYet, FailedOnce
    <2> QED
      BY <2>2, <2>3, <2>4
  <1> QED
    BY <1>1, <1>2, <1>3, <1>4, <1>5, Steps

LEMMA SettledCounts ==
  ASSUME IInv, Counting, NEW p \in 1..MaxPub, NEW s \in Subs, Settled(p, s)
  PROVE  Tally' /\ Standing'
  <1>1. /\ status \in [Subs -> {"absent", "live", "dead", "removed"}]
        /\ consecutiveFailures \in [Subs -> Nat] /\ DeadThreshold \in Nat \ {0}
    BY BusAssumption DEF IInv, TypeOK
  <1>2. CASE HandlerSucceeds(p, s) /\ pubs'[p].failed = pubs[p].failed
    <2>1. \A t \in Subs : FailedDeliveries(t)' = FailedDeliveries(t)
      BY <1>2 DEF Settled, FailedDeliveries
    <2>2. \A t \in Subs : /\ status'[t] = status[t]
                          /\ consecutiveFailures'[t] = consecutiveFailures[t] \/ consecutiveFailures'[t] = 0
      BY <1>1, <1>2 DEF HandlerSucceeds
    <2> QED
      BY <1>1, <2>1, <2>2, FiniteDeliveries DEF Counting, Tally, Standing
  <1>3. CASE HandlerFails(p, s) /\ pubs'[p].failed = pubs[p].failed \cup {s}
    <2>1. FailedDeliveries(s)' = FailedDeliveries(s) \cup {p} /\ p \notin FailedDeliveries(s)
      BY <1>3 DEF Settled, FailedDeliveries, Counting, Handled, FailedOnce
    <2>2. \A t \in Subs \ {s} : FailedDeliveries(t)' = FailedDeliveries(t)
      BY <1>3 DEF Settled, FailedDeliveries
    <2>3. Cardinality(FailedDeliveries(s)') = Cardinality(FailedDeliveries(s)) + 1
      BY <2>1, FiniteDeliveries, FS_AddElement
    <2>4. \A t \in Subs \ {s} : status'[t] = status[t] /\ consecutiveFailures'[t] = consecutiveFailures[t]
      BY <1>1, <1>3 DEF HandlerFails, RecordFailure, subVars
    <2>5. CASE status[s] \in {"live", "dead"}
      <3>1. /\ consecutiveFailures'[s] = consecutiveFailures[s] + 1
            /\ status'[s] = IF consecutiveFailures[s] + 1 >= DeadThreshold THEN "dead" ELSE status[s]
        BY <1>1, <1>3, <2>5 DEF HandlerFails, RecordFailure
      <3>2. consecutiveFailures[s] <= Cardinality(FailedDeliveries(s))
        BY DEF Counting, Tally
      <3>3. consecutiveFailures'[s] <= Cardinality(FailedDeliveries(s)')
        BY <1>1, <2>3, <3>1, <3>2, FiniteDeliveries
      <3>4. /\ status'[s] # "absent"
            /\ status'[s] = "live" => consecutiveFailures'[s] < DeadThreshold
            /\ status'[s] = "dead" => Cardinality(FailedDeliveries(s)') >= DeadThreshold
        BY <1>1, <2>3, <2>5, <3>1, <3>2, FiniteDeliveries DEF Counting, Standing
      <3> QED
        BY <2>2, <2>4, <3>3, <3>4 DEF Counting, Tally, Standing
    <2>6. CASE status[s] \notin {"live", "dead"}
      <3>1. status'[s] = status[s] /\ consecutiveFailures'[s] = consecutiveFailures[s]
        BY <1>3, <2>6 DEF HandlerFails, RecordFailure, subVars
      <3> QED
        BY <1>1, <2>2, <2>3, <2>4, <2>6, <3>1, FiniteDeliveries DEF Counting, Tally, Standing
    <2> QED
      BY <2>5, <2>6
  <1> QED
    BY <1>2, <1>3 DEF Settled

LEMMA CountingStep ==
  ASSUME IInv, Counting, [Next]_vars
  PROVE  Counting'
  <1>0. Handled'
    BY HandledStep DEF Counting
  <1>1. CASE Quiet
    <2>1. /\ \A s \in Subs : FailedDeliveries(s)' = FailedDeliveries(s)
          /\ consecutiveFailures' = consecutiveFailures
      BY <1>1 DEF Quiet, FailedDeliveries, Ids
    <2>2. Tally'
      BY <2>1 DEF Counting, Tally
    <2>3. Standing'
      BY <1>1, <2>1, BusAssumption DEF Counting, Standing, Quiet
    <2> QED
      BY <1>0, <2>2, <2>3 DEF Counting
  <1>2. ASSUME NEW n \in Nat, NEW ph \in {"circular", "dispatching", "overflow", "queued"}, NEW e \in Events,
               NEW i \in Invocations \cup {Outside}, NEW awaited \in BOOLEAN, Accepted(n, ph, e, i, awaited)
        PROVE  Counting'
    <2>1. \A s \in Subs : FailedDeliveries(s)' = FailedDeliveries(s)
      BY <1>2 DEF Accepted, FailedDeliveries
    <2> QED
      BY <1>0, <1>2, <2>1, CountingKept DEF Accepted
  <1>3. ASSUME NEW p \in 1..MaxPub, NEW s \in Subs, Settled(p, s) PROVE Counting'
    BY <1>0, <1>3, SettledCounts DEF Counting
  <1>4. ASSUME NEW p \in 1..MaxPub, Finishes(p) \/ Returns(p) PROVE Counting'
    <2>1. \A s \in Subs : FailedDeliveries(s)' = FailedDeliveries(s)
      BY <1>4 DEF Finishes, Returns, Moves, FailedDeliveries
    <2> QED
      BY <1>0, <1>4, <2>1, CountingKept DEF Finishes, Returns
  <1>5. ASSUME NEW q \in Nat, Drained(q) PROVE Counting'
    <2>1. \A s \in Subs : FailedDeliveries(s)' = FailedDeliveries(s)
      BY <1>5 DEF Drained, FailedDeliveries
    <2> QED
      BY <1>0, <1>5, <2>1, CountingKept DEF Drained
  <1> QED
    BY <1>1, <1>2, <1>3, <1>4, <1>5, Steps

THEOREM CountingInvariant == Spec => []Counting
  <1>1. Init => Counting
    BY CountingInit
  <1>2. IInv /\ Counting /\ [Next]_vars => Counting'
    BY CountingStep
  <1> QED
    BY <1>1, <1>2, Invariant, PTL DEF Spec

\* A subscription is dead only after DeadThreshold failed deliveries, and is
\* never left live at the threshold, however its deliveries overlap.
THEOREM DeadAreDetected == Spec => []DeadDetection
  <1>1. Counting => DeadDetection
    BY DEF Counting, Standing, DeadDetection
  <1> QED
    BY <1>1, CountingInvariant, PTL

----------------------------------------------------------------------------
(* The metrics.  One dispatch finishes at a time, and what it adds to the     *)
(* counters is what it adds to the publications finished.                     *)

Ended == {p \in Ids : Finished(p)}
Lost == {i \in Invocations : i[1] \in Ids /\ Finished(i[1]) /\ i[2] \in pubs[i[1]].failed}

LEMMA MetricsInit == Init => MetricsAddUp
  <1> SUFFICES ASSUME Init PROVE MetricsAddUp
    OBVIOUS
  <1>1. Ended = {} /\ Lost = {} /\ totalDispatched = 0 /\ totalFailedDeliveries = 0
    BY DEF Init, Ids, Ended, Lost
  <1> QED
    BY <1>1, FS_EmptySet DEF MetricsAddUp, Ended, Lost

LEMMA FiniteMetrics ==
  ASSUME IInv
  PROVE  IsFiniteSet(Ended) /\ IsFiniteSet(Lost)
  <1>1. Ended \in SUBSET Ids /\ Lost \in SUBSET Invocations
    BY DEF Ended, Lost
  <1>2. IsFiniteSet(1..MaxPub) /\ IsFiniteSet(Subs)
    BY BusAssumption, FS_Interval
  <1>3. IsFiniteSet(Invocations)
    BY <1>2, FS_Product DEF Invocations
  <1> QED
    BY <1>1, <1>3, FiniteDeliveries, FS_Subset

LEMMA MetricsKept ==
  ASSUME MetricsAddUp, Ended' = Ended, Lost' = Lost, UNCHANGED <<totalDispatched, totalFailedDeliveries>>
  PROVE  MetricsAddUp'
  BY DEF MetricsAddUp, Ended, Lost

LEMMA LostKept ==
  ASSUME Ids \subseteq Ids', \A k \in Ids : Finished(k)' <=> Finished(k),
         \A k \in Ids' \ Ids : ~Finished(k)',
         \A k \in Ids : Finished(k) => pubs'[k].failed = pubs[k].failed
  PROVE  Ended' = Ended /\ Lost' = Lost
  <1>1. \A i \in Invocations :
          i[1] \in Ids' /\ Finished(i[1])' /\ i[2] \in pubs'[i[1]].failed
            <=> i[1] \in Ids /\ Finished(i[1]) /\ i[2] \in pubs[i[1]].failed
    OBVIOUS
  <1>2. Lost' = Lost
    BY <1>1 DEF Lost, Finished
  <1> QED
    BY <1>2 DEF Ended

LEMMA MetricsFinished ==
  ASSUME IInv, MetricsAddUp, NEW p \in 1..MaxPub, Finishes(p)
  PROVE  MetricsAddUp'
  <1> DEFINE new == {p} \X pubs[p].failed
  <1>1. /\ p \in Ids /\ Ids' = Ids /\ pubs[p].phase = "dispatching" /\ pubs'[p].phase \in {"audited", "thrown"}
        /\ pubs'[p].failed = pubs[p].failed /\ \A k \in Ids \ {p} : pubs'[k] = pubs[k]
        /\ totalDispatched' = totalDispatched + 1
        /\ totalFailedDeliveries' = totalFailedDeliveries + Cardinality(pubs[p].failed)
    BY DEF Finishes, Moves
  <1>2. pubs[p].failed \in SUBSET Subs
    BY <1>1, Elements
  <1>3. IsFiniteSet(pubs[p].failed) /\ Cardinality(pubs[p].failed) \in Nat
    BY <1>2, BusAssumption, FS_Subset, FS_CardinalityType
  <1>4. Ended' = Ended \cup {p} /\ p \notin Ended
    BY <1>1 DEF Ended, Finished
  <1>5. Lost' = Lost \cup new /\ Lost \cap new = {}
    <2>1. \A i \in Invocations : i \in new <=> i[1] = p /\ i[2] \in pubs[p].failed
      BY <1>1 DEF Invocations
    <2>2. new \subseteq Invocations
      BY <1>2 DEF Invocations
    <2> HIDE DEF new
    <2>3. \A k \in Ids : Finished(k)' <=> Finished(k) \/ k = p
      BY <1>1 DEF Finished
    <2>4. \A i \in Invocations :
            i[1] \in Ids' /\ Finished(i[1])' /\ i[2] \in pubs'[i[1]].failed <=> i \in Lost \/ i \in new
      BY <1>1, <2>1, <2>3 DEF Lost
    <2>5. ~Finished(p)
      BY <1>1 DEF Finished
    <2>6. Lost \cap new = {}
      BY <2>1, <2>2, <2>5 DEF Lost
    <2>7. Lost' = {i \in Invocations : i[1] \in Ids' /\ Finished(i[1])' /\ i[2] \in pubs'[i[1]].failed}
      BY DEF Lost, Finished
    <2>8. Lost \subseteq Invocations
      BY DEF Lost
    <2> QED
      BY <2>2, <2>4, <2>6, <2>7, <2>8
  <1>6. IsFiniteSet({p}) /\ Cardinality({p}) = 1
    BY FS_Singleton
  <1>7. IsFiniteSet(new) /\ Cardinality(new) = Cardinality(pubs[p].failed)
    <2>1. IsFiniteSet(new) /\ Cardinality(new) = Cardinality({p}) * Cardinality(pubs[p].failed)
      BY <1>3, <1>6, FS_Product
    <2>2. Cardinality({p}) * Cardinality(pubs[p].failed) = 1 * Cardinality(pubs[p].failed)
      BY <1>6
    <2>3. \A c \in Nat : 1 * c = c
      OBVIOUS
    <2> QED
      BY <1>3, <2>1, <2>2, <2>3
  <1>8. Cardinality(Lost') = Cardinality(Lost) + Cardinality(pubs[p].failed)
    <2>1. Cardinality(Lost \cup new) = Cardinality(Lost) + Cardinality(new) - Cardinality({})
      BY <1>5, <1>7, FiniteMetrics, FS_Union
    <2>2. Cardinality({}) = 0 /\ Cardinality(Lost) \in Nat
      BY FiniteMetrics, FS_EmptySet, FS_CardinalityType
    <2> QED
      BY <1>3, <1>5, <1>7, <2>1, <2>2
  <1>9. Cardinality(Ended') = Cardinality(Ended) + 1
    BY <1>4, FiniteMetrics, FS_AddElement
  <1> QED
    BY <1>1, <1>8, <1>9 DEF MetricsAddUp, Ended, Lost

LEMMA MetricsStep ==
  ASSUME IInv, MetricsAddUp, [Next]_vars
  PROVE  MetricsAddUp'
  <1>1. CASE Quiet
    BY <1>1 DEF Quiet, MetricsAddUp, Finished, Ids
  <1>2. ASSUME NEW n \in Nat, NEW ph \in {"circular", "dispatching", "overflow", "queued"}, NEW e \in Events,
               NEW i \in Invocations \cup {Outside}, NEW awaited \in BOOLEAN, Accepted(n, ph, e, i, awaited)
        PROVE  MetricsAddUp'
    <2>1. Ended' = Ended /\ Lost' = Lost
      BY <1>2, LostKept DEF Accepted, Finished
    <2> QED
      BY <1>2, <2>1, MetricsKept DEF Accepted
  <1>3. ASSUME NEW p \in 1..MaxPub, NEW s \in Subs, Settled(p, s) PROVE MetricsAddUp'
    <2>1. Ended' = Ended /\ Lost' = Lost
      BY <1>3, LostKept DEF Settled, Finished
    <2> QED
      BY <1>3, <2>1, MetricsKept DEF Settled
  <1>4. ASSUME NEW p \in 1..MaxPub, Returns(p) PROVE MetricsAddUp'
    <2>1. Ended' = Ended /\ Lost' = Lost
      BY <1>4, LostKept DEF Returns, Moves, Finished
    <2> QED
      BY <1>4, <2>1, MetricsKept DEF Returns
  <1>5. ASSUME NEW q \in Nat, Drained(q) PROVE MetricsAddUp'
    <2>1. \A k \in Ids : k # 0 /\ pubs'[k].failed = pubs[k].failed
      BY <1>5, Elements DEF Drained
    <2>2. \A k \in Ids : Finished(k)' <=> Finished(k)
      BY <1>5, <2>1 DEF Drained, Finished
    <2>3. Ended' = Ended /\ Lost' = Lost
      BY <1>5, <2>1, <2>2, LostKept DEF Drained
    <2> QED
      BY <1>5, <2>3, MetricsKept DEF Drained
  <1> QED
    BY <1>1, <1>2, <1>3, <1>4, <1>5, MetricsFinished, Steps

\* getMetrics() agrees with what happened: every finished dispatch counted once,
\* also when record() threw, and every failed delivery of it once.
THEOREM MetricsAgree == Spec => []MetricsAddUp
  <1>1. Init => MetricsAddUp
    BY MetricsInit
  <1>2. IInv /\ MetricsAddUp /\ [Next]_vars => MetricsAddUp'
    BY MetricsStep
  <1> QED
    BY <1>1, <1>2, Invariant, PTL DEF Spec
=============================================================================
