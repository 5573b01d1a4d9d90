----------------------------- MODULE AlertsProofs -----------------------------
(***************************************************************************)
(* With one content write in flight at a time, whatever fails, is trimmed  *)
(* or dies, and however many drains overlap: the feed is the newest part   *)
(* of what was stored, and no cursor passes a change nobody looked at.     *)
(***************************************************************************)
EXTENDS Alerts, FiniteSetTheorems, WellFoundedInduction, TLAPS

-----------------------------------------------------------------------------
(* Rows by their number.                                                   *)

(* Rows have one number each, and there are finitely many.                 *)
Rows(rows) ==
  /\ IsFiniteSet(rows)
  /\ \A r \in rows : r.seq \in Nat
  /\ \A r, q \in rows : r.seq = q.seq => r = q

LEMMA RowsSubset ==
  ASSUME NEW rows, Rows(rows), NEW some \in SUBSET rows
  PROVE  Rows(some)
BY FS_Subset DEF Rows

(* There is a newest row: the one with the fewest newer ones.              *)
LEMMA NewestRow ==
  ASSUME NEW rows, Rows(rows), rows # {}
  PROVE  \E r \in rows : \A q \in rows : q.seq <= r.seq
<1> DEFINE Newer(r) == {q \in rows : r.seq < q.seq}
           T == {Newer(r) : r \in rows}
<1>1. IsWellFoundedOn(StrictSubsetOrdering(rows), FiniteSubsetsOf(rows))
  BY FS_StrictSubsetOrderingWellFounded
<1>2. T \subseteq FiniteSubsetsOf(rows) /\ T # {}
  <2>1. \A r \in rows : Newer(r) \in SUBSET rows
    OBVIOUS
  <2>2. \A r \in rows : Newer(r) \in FiniteSubsetsOf(rows)
    <3> HIDE DEF Newer
    <3> QED BY <2>1, FS_Subset DEF FiniteSubsetsOf, Rows
  <2> HIDE DEF Newer
  <2> QED BY <2>2
<1>3. PICK t \in T : \A u \in T : ~ (<<u, t>> \in StrictSubsetOrdering(rows))
  <2> HIDE DEF T
  <2> QED BY <1>1, <1>2, WFMin
<1>4. PICK r \in rows : t = Newer(r)
  OBVIOUS
<1>5. ASSUME NEW q \in rows, r.seq < q.seq PROVE FALSE
  <2>1. Newer(q) \subseteq Newer(r) /\ q \in Newer(r) /\ q \notin Newer(q)
    BY <1>5 DEF Rows
  <2>2. <<Newer(q), t>> \in StrictSubsetOrdering(rows) /\ Newer(q) \in T
    BY <1>4, <2>1 DEF StrictSubsetOrdering
  <2> QED BY <1>3, <2>2
<1> QED BY <1>5 DEF Rows

(* What Oldest takes is older than what it leaves, and not too much.       *)
LEMMA OldestRows ==
  ASSUME NEW rows, Rows(rows), NEW n \in Nat
  PROVE  /\ Oldest(rows, n) \subseteq rows
         /\ \A r \in Oldest(rows, n), q \in rows \ Oldest(rows, n) : r.seq < q.seq
         /\ IsFiniteSet(Oldest(rows, n)) /\ Cardinality(Oldest(rows, n)) \in Nat
         /\ Cardinality(Oldest(rows, n)) <= n
<1> DEFINE Older(r) == {q \in rows : q.seq < r.seq}
           some == Oldest(rows, n)
<1>1. some = {r \in rows : Cardinality(Older(r)) < n}
  BY DEF Oldest
<1>2. \A r \in rows : Older(r) \subseteq rows /\ IsFiniteSet(Older(r)) /\ Cardinality(Older(r)) \in Nat
  <2>1. \A r \in rows : Older(r) \subseteq rows
    OBVIOUS
  <2> HIDE DEF Older
  <2> QED BY <2>1, FS_Subset, FS_CardinalityType DEF Rows
<1> HIDE DEF Older, some
<1>3. ASSUME NEW r \in some, NEW q \in rows \ some PROVE r.seq < q.seq
  <2>1. CASE q.seq <= r.seq
    <3>1. Older(q) \subseteq Older(r)
      BY <1>1, <2>1 DEF Rows, Older
    <3>2. Cardinality(Older(q)) <= Cardinality(Older(r))
      BY <1>1, <1>2, <3>1, FS_Subset
    <3> QED BY <1>1, <1>2, <3>2
  <2> QED BY <1>1, <2>1 DEF Rows
<1>4. Rows(some) /\ IsFiniteSet(some) /\ Cardinality(some) \in Nat
  BY <1>1, RowsSubset, FS_CardinalityType DEF Rows
<1>5. Cardinality(some) <= n
  <2>1. CASE some = {}
    BY <2>1, FS_EmptySet
  <2>2. CASE some # {}
    <3>1. PICK m \in some : \A q \in some : q.seq <= m.seq
      BY <1>4, <2>2, NewestRow
    <3>2. some \ {m} \subseteq Older(m)
      BY <1>1, <1>4, <3>1 DEF Rows, Older
    <3>3. Cardinality(some \ {m}) <= Cardinality(Older(m))
      BY <1>1, <1>2, <3>2, FS_Subset
    <3>4. Cardinality(some \ {m}) = Cardinality(some) - 1
      BY <1>4, FS_RemoveElement
    <3> QED BY <1>1, <1>2, <1>4, <3>3, <3>4
  <2> QED BY <2>1, <2>2
<1> QED BY <1>1, <1>3, <1>4, <1>5 DEF some

LEMMA TopSeqIsNewest ==
  ASSUME Rows(changes)
  PROVE  \/ changes = {} /\ TopSeq = 0
         \/ \E r \in changes : TopSeq = r.seq /\ \A q \in changes : q.seq <= r.seq
BY NewestRow DEF TopSeq

-----------------------------------------------------------------------------
(* The feed, one write at a time.                                          *)

Seqs(rows) == {r.seq : r \in rows}

(* What the table holds of what was ever stored.                           *)
TableInv ==
  /\ Rows(changes) /\ Seqs(changes) \subseteq stored
  /\ \A n \in stored : n <= counter
  /\ \A r \in changes, n \in stored : n < r.seq \/ n \in Seqs(changes)
  /\ stored = Seqs(changes) \/ Cardinality(changes) >= Retain

(* What a hook is about to do fits the table (its rows, the counter, and   *)
(* all numbers ever stored), for it is alone.                              *)
HookInv(h, rows, n, all) ==
  /\ h.step = "committed" => n < MaxSeq /\ h.change \in [doc: Docs, event: Events]
  /\ h.step = "numbered" => h.change \in Change /\ h.change.seq = n /\ n \notin all
  /\ h.step = "counted" => Cardinality(rows) - h.excess >= Retain
  /\ h.step = "trimming" =>
       /\ h.victims \subseteq rows
       /\ \A r \in h.victims, q \in rows \ h.victims : r.seq < q.seq
       /\ Cardinality(rows) - Cardinality(h.victims) >= Retain

FeedInv ==
  /\ FeedTypeOK /\ TableInv
  /\ \A v, w \in Busy : v = w
  /\ \A w \in Writers : HookInv(writer[w], changes, counter, stored)

LEMMA FeedInitInv == FeedInit => FeedInv
<1> SUFFICES ASSUME FeedInit PROVE FeedInv
  OBVIOUS
<1>1. Idle \in Hook
  BY DEF Idle, Hook, HookSteps
<1>2. FeedTypeOK
  BY <1>1, ChangeFeedAssumption DEF FeedInit, FeedTypeOK, Verdicts
<1>3. TableInv
  BY FS_EmptySet DEF FeedInit, TableInv, Rows, Seqs
<1> QED BY <1>2, <1>3 DEF FeedInit, FeedInv, Busy, HookInv, Idle

(* The one hook at work moves; the others are idle.                        *)
LEMMA HookMoves ==
  ASSUME FeedInv, NEW w \in Writers, \A v \in Busy : v = w, NEW h \in Hook,
         writer' = [writer EXCEPT ![w] = h], HookInv(h, changes', counter', stored')
  PROVE  /\ writer' \in [Writers -> Hook] /\ (\A v, u \in Busy' : v = u)
         /\ \A v \in Writers : HookInv(writer'[v], changes', counter', stored')
<1>1. writer \in [Writers -> Hook]
  BY DEF FeedInv, FeedTypeOK
<1>2. \A v \in Writers \ {w} : writer'[v].step = "idle"
  BY <1>1 DEF Busy
<1> QED BY <1>1, <1>2 DEF Busy, HookInv

LEMMA BusyAlone ==
  ASSUME FeedInv, NEW w \in Writers, writer[w].step # "idle"
  PROVE  \A v \in Busy : v = w
BY DEF FeedInv, Busy

LEMMA WriteDocInv ==
  ASSUME MaxWriters <= 1, FeedInv, NEW w \in Writers, WriteDoc(w)
  PROVE  FeedInv'
<1>1. Busy = {} /\ Cardinality(Busy) = 0
  <2>1. IsFiniteSet(Busy) /\ Cardinality(Busy) \in Nat
    BY ChangeFeedAssumption, FS_Subset, FS_CardinalityType DEF Busy
  <2>2. Cardinality(Busy) = 0
    BY <2>1, ChangeFeedAssumption DEF WriteDoc
  <2> QED BY <2>1, <2>2, FS_EmptySet
<1>2. PICK d \in Docs, verdict \in {"match", "other", "gone"} :
        /\ docs' = [docs EXCEPT ![d] = verdict]
        /\ writer' = [writer EXCEPT ![w] = [Idle EXCEPT
             !.step = "committed", !.change = [doc |-> d, event |-> EventOf(d, verdict)]]]
  BY DEF WriteDoc
<1> DEFINE h == [Idle EXCEPT !.step = "committed", !.change = [doc |-> d, event |-> EventOf(d, verdict)]]
<1>3. counter < MaxSeq /\ UNCHANGED <<changes, counter, stored, crashes>>
  BY <1>1, ChangeFeedAssumption DEF WriteDoc, FeedInv, FeedTypeOK
<1>4. h \in Hook /\ h.step = "committed" /\ h.change \in [doc: Docs, event: Events]
  BY DEF Idle, Hook, HookSteps, EventOf, Events
<1>5. docs' \in [Docs -> Verdicts]
  BY <1>2 DEF FeedInv, FeedTypeOK, Verdicts
<1> HIDE DEF h
<1>6. HookInv(h, changes', counter', stored')
  BY <1>3, <1>4 DEF HookInv
<1>7. writer' = [writer EXCEPT ![w] = h]
  BY <1>2 DEF h
<1>8. /\ writer' \in [Writers -> Hook] /\ (\A v, u \in Busy' : v = u)
      /\ \A v \in Writers : HookInv(writer'[v], changes', counter', stored')
  BY <1>1, <1>4, <1>6, <1>7, HookMoves
<1> QED BY <1>3, <1>5, <1>8 DEF FeedInv, FeedTypeOK, TableInv

LEMMA NumberInv ==
  ASSUME FeedInv, NEW w \in Writers, Number(w)
  PROVE  FeedInv'
<1> DEFINE h == [writer[w] EXCEPT !.step = "numbered",
                   !.change = [seq |-> counter + 1, doc |-> @.doc, event |-> @.event]]
<1>1. /\ writer[w] \in Hook /\ HookInv(writer[w], changes, counter, stored) /\ writer[w].step = "committed"
      /\ \A v \in Busy : v = w
  BY BusyAlone DEF Number, FeedInv, FeedTypeOK
<1>2. counter \in 0..MaxSeq /\ counter < MaxSeq /\ MaxSeq \in Nat /\ writer[w].change \in [doc: Docs, event: Events]
  BY <1>1, ChangeFeedAssumption DEF HookInv, FeedInv, FeedTypeOK
<1>3. h \in Hook /\ h.step = "numbered" /\ h.change \in Change /\ h.change.seq = counter + 1
  <2>1. [seq |-> counter + 1, doc |-> writer[w].change.doc, event |-> writer[w].change.event] \in Change
    BY <1>2 DEF Change
  <2> QED BY <1>1, <2>1 DEF Hook, HookSteps
<1>4. writer' = [writer EXCEPT ![w] = h] /\ counter' = counter + 1 /\ UNCHANGED <<docs, changes, stored, crashes>>
  BY DEF Number, FeedInv, FeedTypeOK
<1> HIDE DEF h
<1>5. TableInv' /\ counter' \notin stored'
  <2>1. stored \subseteq Nat /\ \A n \in stored : n <= counter
    BY DEF FeedInv, FeedTypeOK, TableInv
  <2> QED BY <1>2, <1>4, <2>1 DEF FeedInv, TableInv
<1>6. HookInv(h, changes', counter', stored')
  BY <1>3, <1>4, <1>5 DEF HookInv
<1>7. /\ writer' \in [Writers -> Hook] /\ (\A v, u \in Busy' : v = u)
      /\ \A v \in Writers : HookInv(writer'[v], changes', counter', stored')
  BY <1>1, <1>3, <1>4, <1>6, HookMoves
<1> QED BY <1>2, <1>4, <1>5, <1>7 DEF FeedInv, FeedTypeOK

LEMMA StoreChangeInv ==
  ASSUME FeedInv, NEW w \in Writers, StoreChange(w)
  PROVE  FeedInv' /\ \A n \in stored : n < counter
<1> DEFINE new == writer[w].change
           h == [writer[w] EXCEPT !.step = "stored"]
<1>1. /\ writer[w] \in Hook /\ HookInv(writer[w], changes, counter, stored) /\ writer[w].step = "numbered"
      /\ \A v \in Busy : v = w
  BY BusyAlone DEF StoreChange, FeedInv, FeedTypeOK
<1>2. /\ new \in Change /\ new.seq = counter /\ counter \notin stored /\ new.seq \in 1..MaxSeq
      /\ stored \subseteq Nat /\ counter \in Nat /\ Retain \in Nat /\ MaxSeq \in Nat
  BY <1>1, ChangeFeedAssumption DEF HookInv, Change, FeedInv, FeedTypeOK
<1>3. /\ changes' = changes \union {new} /\ stored' = stored \union {new.seq}
      /\ writer' = [writer EXCEPT ![w] = h] /\ UNCHANGED <<docs, counter, crashes>>
  BY DEF StoreChange, FeedInv, FeedTypeOK
<1>4. h \in Hook /\ h.step = "stored"
  BY <1>1 DEF Hook, HookSteps
<1> HIDE DEF h
<1>5. \A n \in stored : n < counter
  <2>1. \A n \in stored : n <= counter
    BY DEF FeedInv, TableInv
  <2> QED BY <1>2, <2>1
<1>6. \A r \in changes : r.seq < new.seq
  BY <1>2, <1>5 DEF FeedInv, TableInv, Seqs
<1>7. TableInv'
  <2>1. Rows(changes') /\ new \notin changes /\ Seqs(changes') = Seqs(changes) \union {new.seq}
    <3>1. IsFiniteSet(changes')
      BY <1>3, FS_AddElement DEF FeedInv, TableInv, Rows
    <3> QED BY <1>2, <1>3, <1>6, <3>1 DEF FeedInv, TableInv, Rows, Seqs
  <2>2. Cardinality(changes') = Cardinality(changes) + 1 /\ Cardinality(changes) \in Nat
    BY <1>3, <2>1, FS_AddElement, FS_CardinalityType DEF FeedInv, TableInv, Rows
  <2>3. stored' = Seqs(changes') \/ Cardinality(changes') >= Retain
    BY <1>2, <1>3, <2>1, <2>2 DEF FeedInv, TableInv
  <2>4. ASSUME NEW r \in changes', NEW n \in stored' PROVE n < r.seq \/ n \in Seqs(changes')
    BY <1>2, <1>3, <1>5, <2>1, <2>4 DEF FeedInv, TableInv
  <2>5. Seqs(changes') \subseteq stored' /\ (\A n \in stored' : n <= counter')
    BY <1>2, <1>3, <1>5, <2>1 DEF FeedInv, TableInv
  <2> QED BY <2>1, <2>3, <2>4, <2>5 DEF TableInv
<1>8. HookInv(h, changes', counter', stored')
  BY <1>4 DEF HookInv
<1>9. /\ writer' \in [Writers -> Hook] /\ (\A v, u \in Busy' : v = u)
      /\ \A v \in Writers : HookInv(writer'[v], changes', counter', stored')
  BY <1>1, <1>3, <1>4, <1>8, HookMoves
<1> QED BY <1>2, <1>3, <1>5, <1>7, <1>9 DEF FeedInv, FeedTypeOK

(* Steps of a hook that leave the table as it is.                          *)
LEMMA HookStepInv ==
  ASSUME FeedInv, NEW w \in Writers, StoreFails(w) \/ TrimCount(w) \/ TrimFind(w)
  PROVE  FeedInv'
<1>1. /\ writer[w] \in Hook /\ HookInv(writer[w], changes, counter, stored) /\ \A v \in Busy : v = w
      /\ Rows(changes) /\ Cardinality(changes) \in Nat /\ Retain \in Nat /\ changes \subseteq Change
  BY BusyAlone, FS_CardinalityType, ChangeFeedAssumption
     DEF StoreFails, TrimCount, TrimFind, FeedInv, FeedTypeOK, TableInv, Rows
<1>2. UNCHANGED <<docs, changes, counter, stored, crashes>>
  BY DEF StoreFails, TrimCount, TrimFind
<1>3. Idle \in Hook /\ HookInv(Idle, changes', counter', stored')
  BY DEF Idle, Hook, HookSteps, HookInv
<1>4. \E h \in Hook : writer' = [writer EXCEPT ![w] = h] /\ HookInv(h, changes', counter', stored')
  <2>1. CASE StoreFails(w)
    BY <1>3, <2>1 DEF StoreFails
  <2>2. CASE TrimCount(w)
    <3> DEFINE excess == Excess(Cardinality(changes))
               h == [writer[w] EXCEPT !.step = "counted", !.excess = excess]
    <3>1. excess \in Nat /\ (excess # 0 => Cardinality(changes) - excess >= Retain)
      BY <1>1 DEF Excess
    <3>2. h \in Hook /\ h.step = "counted" /\ h.excess = excess
      BY <1>1, <3>1 DEF Hook, HookSteps
    <3>3. writer' = [writer EXCEPT ![w] = IF excess = 0 THEN Idle ELSE h]
      BY <2>2 DEF TrimCount, FeedInv, FeedTypeOK
    <3> HIDE DEF h, excess
    <3>4. excess # 0 => HookInv(h, changes', counter', stored')
      BY <1>2, <3>1, <3>2 DEF HookInv
    <3> QED BY <1>3, <3>2, <3>3, <3>4
  <2>3. CASE TrimFind(w)
    <3> DEFINE some == Oldest(changes, writer[w].excess)
               h == [writer[w] EXCEPT !.step = "trimming", !.victims = some]
    <3>1. /\ some \subseteq changes /\ Cardinality(some) \in Nat /\ Cardinality(some) <= writer[w].excess
          /\ \A r \in some, q \in changes \ some : r.seq < q.seq
          /\ writer[w].excess \in Nat
      BY <1>1, OldestRows DEF Hook
    <3>2. h \in Hook /\ h.step = "trimming" /\ h.victims = some
      BY <1>1, <3>1 DEF Hook, HookSteps
    <3>3. writer' = [writer EXCEPT ![w] = h]
      BY <2>3 DEF TrimFind, Victims, FeedInv, FeedTypeOK
    <3>4. Cardinality(changes) - Cardinality(some) >= Retain
      BY <1>1, <2>3, <3>1 DEF TrimFind, HookInv
    <3> HIDE DEF h, some
    <3> QED BY <1>2, <3>1, <3>2, <3>3, <3>4 DEF HookInv
  <2> QED BY <2>1, <2>2, <2>3
<1>5. PICK h \in Hook : writer' = [writer EXCEPT ![w] = h] /\ HookInv(h, changes', counter', stored')
  BY <1>4
<1>6. /\ writer' \in [Writers -> Hook] /\ (\A v, u \in Busy' : v = u)
      /\ \A v \in Writers : HookInv(writer'[v], changes', counter', stored')
  BY <1>1, <1>5, HookMoves
<1> QED BY <1>2, <1>6 DEF FeedInv, FeedTypeOK, TableInv

LEMMA TrimDeleteInv ==
  ASSUME FeedInv, NEW w \in Writers, TrimDelete(w)
  PROVE  FeedInv'
<1> DEFINE Without(r) == [writer[w] EXCEPT !.victims = @ \ {r}]
<1>1. PICK r \in writer[w].victims :
        /\ \A q \in writer[w].victims : r.seq <= q.seq
        /\ changes' = changes \ {r}
        /\ writer' = [writer EXCEPT ![w] = IF writer[w].victims = {r} THEN Idle ELSE Without(r)]
  BY DEF TrimDelete
<1> DEFINE u == Without(r)
           h == IF writer[w].victims = {r} THEN Idle ELSE u
<1>2. /\ writer[w] \in Hook /\ HookInv(writer[w], changes, counter, stored) /\ writer[w].step = "trimming" /\ (\A v \in Busy : v = w)
      /\ Rows(changes) /\ Retain \in Nat /\ changes \subseteq Change /\ stored \subseteq Nat
      /\ UNCHANGED <<docs, counter, stored, crashes>>
  BY BusyAlone, ChangeFeedAssumption DEF TrimDelete, FeedInv, FeedTypeOK, TableInv
<1>3. /\ writer[w].victims \subseteq changes /\ r \in changes
      /\ \A v \in writer[w].victims, q \in changes \ writer[w].victims : v.seq < q.seq
      /\ Cardinality(changes) - Cardinality(writer[w].victims) >= Retain
  BY <1>2 DEF HookInv
<1>4. /\ IsFiniteSet(changes) /\ Cardinality(changes) \in Nat /\ IsFiniteSet(writer[w].victims)
      /\ Cardinality(writer[w].victims) \in Nat /\ Cardinality(writer[w].victims) >= 1
      /\ Cardinality(changes') = Cardinality(changes) - 1
      /\ Cardinality(writer[w].victims \ {r}) = Cardinality(writer[w].victims) - 1
      /\ Rows(changes')
  <2>1. IsFiniteSet(changes) /\ IsFiniteSet(writer[w].victims)
    BY <1>2, <1>3, FS_Subset DEF Rows
  <2>2. Cardinality(writer[w].victims) # 0
    BY <1>1, <2>1, FS_EmptySet
  <2>3. Cardinality(changes) \in Nat /\ Cardinality(writer[w].victims) \in Nat
    BY <2>1, FS_CardinalityType
  <2>4. /\ Cardinality(changes \ {r}) = Cardinality(changes) - 1
        /\ Cardinality(writer[w].victims \ {r}) = Cardinality(writer[w].victims) - 1
    BY <1>1, <1>3, <2>1, FS_RemoveElement
  <2>5. Rows(changes \ {r})
    BY <1>2, RowsSubset
  <2> QED BY <1>1, <2>1, <2>2, <2>3, <2>4, <2>5
<1>5. h \in Hook /\ (h # Idle => h.step = "trimming" /\ h.victims = writer[w].victims \ {r})
  <2>1. Idle \in Hook
    BY DEF Idle, Hook, HookSteps
  <2>2. u \in Hook /\ u.step = "trimming" /\ u.victims = writer[w].victims \ {r}
    BY <1>2 DEF Hook
  <2> QED BY <2>1, <2>2
<1>6. writer' = [writer EXCEPT ![w] = h]
  <2> HIDE DEF Without
  <2> QED BY <1>1
<1>7. HookInv(h, changes', counter', stored')
  <2>1. HookInv(Idle, changes', counter', stored')
    BY DEF Idle, HookInv
  <2> HIDE DEF h
  <2>2. CASE h # Idle
    <3>1. h.victims \subseteq changes'
      BY <1>1, <1>3, <1>5, <2>2
    <3>2. \A v \in h.victims, q \in changes' \ h.victims : v.seq < q.seq
      BY <1>1, <1>3, <1>5, <2>2
    <3>3. Cardinality(changes') - Cardinality(h.victims) >= Retain
      <4>1. h.victims = writer[w].victims \ {r}
        BY <1>5, <2>2
      <4> QED BY <1>2, <1>3, <1>4, <4>1
    <3> QED BY <1>5, <2>2, <3>1, <3>2, <3>3 DEF HookInv
  <2> QED BY <2>1, <2>2
<1>8. TableInv'
  <2>1. \A q \in changes' : r.seq < q.seq
    <3>1. \A q \in changes' : r.seq <= q.seq /\ r.seq # q.seq
      BY <1>1, <1>2, <1>3 DEF Rows
    <3> QED BY <1>2, <1>3, <3>1, <1>1 DEF Rows
  <2>2. Seqs(changes') \subseteq stored /\ (\A n \in Seqs(changes) : n \in Seqs(changes') \/ n = r.seq)
    BY <1>1 DEF FeedInv, TableInv, Seqs
  <2>3. \A q \in changes', n \in stored : n < q.seq \/ n \in Seqs(changes')
    BY <1>1, <2>1, <2>2 DEF FeedInv, TableInv
  <2>4. Cardinality(changes') >= Retain
    BY <1>2, <1>3, <1>4
  <2> QED BY <1>2, <1>4, <2>2, <2>3, <2>4 DEF FeedInv, TableInv
<1>9. /\ writer' \in [Writers -> Hook] /\ (\A v, b \in Busy' : v = b)
      /\ \A v \in Writers : HookInv(writer'[v], changes', counter', stored')
  <2> HIDE DEF h
  <2> QED BY <1>2, <1>5, <1>6, <1>7, HookMoves
<1> QED BY <1>1, <1>2, <1>8, <1>9 DEF FeedInv, FeedTypeOK

(* The counter starts again from the newest row: nothing newer was stored. *)
LEMMA FeedCrashInv ==
  ASSUME FeedInv, FeedCrash
  PROVE  FeedInv'
<1>1. /\ Rows(changes) /\ stored \subseteq 1..MaxSeq /\ changes \subseteq Change /\ MaxSeq \in Nat /\ Retain \in Nat \ {0}
      /\ counter' = TopSeq /\ crashes' \in Nat /\ UNCHANGED <<docs, changes, stored>>
  BY ChangeFeedAssumption DEF FeedInv, FeedTypeOK, TableInv, FeedCrash
<1>2. TopSeq \in 0..MaxSeq /\ \A n \in stored : n <= TopSeq
  <2>1. CASE changes = {} /\ TopSeq = 0
    <3>1. Seqs(changes) = {} /\ Cardinality(changes) = 0
      BY <2>1, FS_EmptySet DEF Seqs
    <3> QED BY <1>1, <2>1, <3>1 DEF FeedInv, TableInv
  <2>2. CASE \E r \in changes : TopSeq = r.seq /\ \A q \in changes : q.seq <= r.seq
    <3>1. PICK r \in changes : TopSeq = r.seq /\ \A q \in changes : q.seq <= r.seq
      BY <2>2
    <3>2. r.seq \in 1..MaxSeq
      BY <1>1 DEF Change
    <3> QED BY <1>1, <3>1, <3>2 DEF FeedInv, TableInv, Seqs
  <2> QED BY <1>1, <2>1, <2>2, TopSeqIsNewest
<1>3. /\ Idle \in Hook /\ \A w \in Writers : writer'[w] = Idle
      /\ writer' \in [Writers -> Hook]
  BY DEF FeedCrash, Idle, Hook, HookSteps
<1>4. Busy' = {} /\ \A w \in Writers : HookInv(writer'[w], changes', counter', stored')
  BY <1>3 DEF Busy, HookInv, Idle
<1> QED BY <1>1, <1>2, <1>3, <1>4 DEF FeedInv, FeedTypeOK, TableInv

LEMMA FeedStepInv ==
  ASSUME FeedInv, NEW w \in Writers, FeedStep(w)
  PROVE  FeedInv'
BY NumberInv, StoreChangeInv, HookStepInv, TrimDeleteInv DEF FeedStep

(* A change that shows in the table was stored just now and is newer than  *)
(* all that ever were.                                                     *)
LEMMA NewRowsAreNewest ==
  ASSUME FeedInv, NEW w \in Writers, FeedStep(w)
  PROVE  stored \subseteq stored' /\ \A r \in changes' \ changes, n \in stored : n < r.seq
<1>1. CASE StoreChange(w)
  <2>1. \A n \in stored : n < counter
    BY <1>1, StoreChangeInv
  <2>2. changes' = changes \union {writer[w].change} /\ stored' = stored \union {writer[w].change.seq}
    BY <1>1 DEF StoreChange
  <2>3. writer[w].change.seq = counter
    BY <1>1 DEF StoreChange, FeedInv, HookInv
  <2> QED BY <2>1, <2>2, <2>3
<1>2. CASE ~ StoreChange(w)
  BY <1>2 DEF FeedStep, Number, StoreFails, TrimCount, TrimFind, TrimDelete
<1> QED BY <1>1, <1>2

LEMMA FeedShape ==
  FeedInv => /\ FeedIsNewest
             /\ (Rows(changes) /\ changes \subseteq Change /\ Seqs(changes) \subseteq stored /\ stored \subseteq 1..MaxSeq)
<1> SUFFICES ASSUME FeedInv PROVE FeedIsNewest
  BY DEF FeedInv, FeedTypeOK, TableInv
<1>1. \A r \in changes, n \in stored \ {q.seq : q \in changes} : n < r.seq
  BY DEF FeedInv, TableInv, Seqs
<1>2. IsFiniteSet(changes) /\ Cardinality(changes) \in Nat /\ Retain \in Nat
  BY FS_CardinalityType, ChangeFeedAssumption DEF FeedInv, TableInv, Rows
<1>3. IsFiniteSet(stored) /\ Cardinality(stored) \in Nat
  <2>1. IsFiniteSet(1..MaxSeq) /\ stored \in SUBSET (1..MaxSeq)
    BY FS_Interval, ChangeFeedAssumption DEF FeedInv, FeedTypeOK
  <2> QED BY <2>1, FS_Subset, FS_CardinalityType
<1>4. stored = Seqs(changes) => Cardinality(stored) <= Cardinality(changes)
  <2> SUFFICES ASSUME stored = Seqs(changes) PROVE Cardinality(stored) <= Cardinality(changes)
    OBVIOUS
  <2>1. [r \in changes |-> r.seq] \in Surjection(changes, stored)
    BY DEF Seqs, Surjection
  <2> QED BY <1>2, <2>1, FS_Surjection
<1>5. stored = Seqs(changes) \/ Cardinality(changes) >= Retain
  BY DEF FeedInv, TableInv
<1>6. Cardinality(changes) >= AtMost(Cardinality(stored), Retain)
  BY <1>2, <1>3, <1>4, <1>5 DEF AtMost
<1> QED BY <1>1, <1>6 DEF FeedIsNewest

-----------------------------------------------------------------------------
(* Subscriptions and drains.                                               *)

(* Up to n, the changes the table has for a subscription were looked at.   *)
Covered(s, n) == \A r \in changes : since[s] < r.seq /\ r.seq <= n => r.seq \in looked[s]

(* Numbers a cursor may have.                                              *)
Known(n) == n = 0 \/ n \in stored

Sound(copy) == Known(copy.lastSeq) /\ Covered(copy.sub, copy.lastSeq)

(* The page of a drain has every change from where it got to, up to each   *)
(* that it has.                                                            *)
DrainInv(d) ==
  /\ \A copy \in d.copies : Sound(copy)
  /\ d.sub # None =>
       /\ Known(d.top) /\ Covered(d.sub.sub, d.top)
       /\ \A r \in d.page : r.seq \in stored /\ d.top <= r.seq
       /\ \A r \in d.page, q \in changes : d.top < q.seq /\ q.seq < r.seq => \E p \in d.page : p.seq = q.seq

CursorInv ==
  /\ TypeOK /\ FeedInv
  /\ \A s \in Subs : subs[s] # None => Known(subs[s]) /\ Covered(s, subs[s])
  /\ \A c \in Drains : DrainInv(drain[c])

LEMMA CursorInit == Init => CursorInv
<1> SUFFICES ASSUME Init PROVE CursorInv
  OBVIOUS
<1>1. FeedInv
  BY FeedInitInv DEF Init
<1>2. NoDrain \in Drain /\ 0 \in 0..MaxSeq
  BY ChangeFeedAssumption DEF NoDrain, Drain
<1>3. TypeOK
  BY <1>1, <1>2 DEF Init, TypeOK, FeedInv
<1> QED BY <1>1, <1>3 DEF Init, CursorInv, DrainInv, NoDrain

(* What was known and covered stays so while the feed goes on.             *)
LEMMA FeedKeepsCursors ==
  ASSUME CursorInv, FeedInv', UNCHANGED alertVars, stored \subseteq stored',
         \A r \in changes' \ changes, n \in stored : n < r.seq
  PROVE  CursorInv'
<1>0. UNCHANGED <<subs, since, alerts, looked, drain>>
  BY DEF alertVars
<1>1. FeedInv /\ FeedInv' /\ stored \subseteq 1..MaxSeq /\ \A r \in changes' : r.seq \in 1..MaxSeq
  BY DEF CursorInv, FeedInv, FeedTypeOK, Change
<1>2. TypeOK'
  BY <1>0 DEF CursorInv, FeedInv, TypeOK
<1>3. \A n : Known(n) => Known(n)'
  BY DEF Known
<1>4. \A s, n : Known(n) /\ Covered(s, n) => Covered(s, n)'
  <2> SUFFICES ASSUME NEW s, NEW n, Known(n), Covered(s, n), NEW q \in changes', since[s] < q.seq, q.seq <= n
               PROVE  q.seq \in looked[s]
    BY <1>0 DEF Covered
  <2>1. q.seq \in 1..MaxSeq /\ (n = 0 \/ n \in 1..MaxSeq) /\ MaxSeq \in Nat
    BY <1>1, ChangeFeedAssumption DEF Known
  <2>2. q \in changes
    BY <1>1, <2>1 DEF Known
  <2> QED BY <2>2 DEF Covered
<1>5. \A copy : Sound(copy) => Sound(copy)'
  BY <1>3, <1>4 DEF Sound
<1>6. ASSUME NEW c \in Drains PROVE DrainInv(drain[c])'
  <2>1. DrainInv(drain[c])
    BY DEF CursorInv
  <2>2. \A r \in drain[c].page, q \in changes' :
          drain[c].sub # None /\ drain[c].top < q.seq /\ q.seq < r.seq => \E p \in drain[c].page : p.seq = q.seq
    <3>1. ASSUME NEW r \in drain[c].page, NEW q \in changes', drain[c].sub # None, q.seq < r.seq PROVE q \in changes
      BY <1>1, <2>1, <3>1 DEF DrainInv
    <3> QED BY <2>1, <3>1 DEF DrainInv
  <2> QED BY <1>0, <1>3, <1>4, <1>5, <2>1, <2>2 DEF DrainInv
<1>7. \A s \in Subs : (subs[s] # None => Known(subs[s]) /\ Covered(s, subs[s]))'
  BY <1>0, <1>3, <1>4 DEF CursorInv
<1> QED BY <1>0, <1>2, <1>6, <1>7 DEF CursorInv

(* A subscription begins at the newest change, and ends for good: what is  *)
(* covered can only become less to cover.                                  *)
LEMMA SubsInv ==
  ASSUME CursorInv, NEW s \in Subs, Subscribe(s) \/ Unsubscribe(s)
  PROVE  CursorInv'
<1>0. /\ UNCHANGED <<alerts, looked, drain>> /\ UNCHANGED feedVars
      /\ changes' = changes /\ stored' = stored
  BY DEF Subscribe, Unsubscribe, feedVars
<1>1. /\ TypeOK /\ FeedInv /\ FeedInv' /\ subs \in [Subs -> 0..MaxSeq \union {None}] /\ since \in [Subs -> 0..MaxSeq]
      /\ MaxSeq \in Nat /\ Rows(changes) /\ Seqs(changes) \subseteq stored
      /\ stored \subseteq 1..MaxSeq /\ \A r \in changes : r.seq \in 1..MaxSeq
  <2>1. FeedInv'
    BY <1>0 DEF CursorInv, FeedInv, FeedTypeOK, TableInv, Busy, feedVars
  <2> QED BY <2>1, ChangeFeedAssumption, FeedShape DEF CursorInv, TypeOK, Change
<1>2. TopSeq \in 0..MaxSeq /\ Known(TopSeq) /\ \A r \in changes : r.seq <= TopSeq
  BY <1>1, TopSeqIsNewest DEF Known, Seqs, Rows
<1>3. /\ since' \in [Subs -> 0..MaxSeq] /\ subs' \in [Subs -> 0..MaxSeq \union {None}]
      /\ \A t \in Subs \ {s} : since'[t] = since[t] /\ subs'[t] = subs[t]
      /\ subs'[s] # None => subs'[s] = since'[s] /\ Known(subs'[s])
      /\ since[s] <= since'[s] \/ \A r \in changes : r.seq <= since'[s]
  BY <1>1, <1>2 DEF Subscribe, Unsubscribe
<1>4. \A t \in Subs : \A n : Covered(t, n) => Covered(t, n)'
  <2>1. ASSUME NEW t \in Subs, NEW r \in changes, since'[t] < r.seq PROVE since[t] < r.seq
    BY <1>1, <1>3, <2>1
  <2> QED BY <1>0, <2>1 DEF Covered
<1>5. \A t \in Subs : (subs[t] # None => Known(subs[t]) /\ Covered(t, subs[t]))'
  <2>1. (subs[s] # None => Covered(s, subs[s]))'
    <3>1. subs'[s] # None => \A r \in changes' : ~ (since'[s] < r.seq /\ r.seq <= subs'[s])
      BY <1>0, <1>1, <1>3
    <3> QED BY <3>1 DEF Covered
  <2> QED BY <1>0, <1>3, <1>4, <2>1 DEF CursorInv, Known
<1>6. ASSUME NEW c \in Drains PROVE DrainInv(drain[c])'
  <2>1. drain[c] \in Drain /\ DrainInv(drain[c])
    BY DEF CursorInv, TypeOK
  <2>2. (\A copy \in drain[c].copies : copy.sub \in Subs) /\ (drain[c].sub # None => drain[c].sub.sub \in Subs)
    BY <2>1 DEF Drain, Copy
  <2> QED BY <1>0, <1>4, <2>1, <2>2 DEF DrainInv, Sound, Known
<1>7. TypeOK'
  BY <1>0, <1>1, <1>3 DEF TypeOK, FeedInv
<1> QED BY <1>1, <1>5, <1>6, <1>7 DEF CursorInv

(* What a drain that moves must have at its next step, having looked at    *)
(* what seen says.                                                         *)
Drained(d, seen) ==
  /\ \A copy \in d.copies : Sound(copy)
  /\ d.sub # None =>
       /\ Known(d.top)
       /\ \A r \in changes : since[d.sub.sub] < r.seq /\ r.seq <= d.top => r.seq \in seen[d.sub.sub]
       /\ \A r \in d.page : r.seq \in stored /\ d.top <= r.seq
       /\ \A r \in d.page, q \in changes : d.top < q.seq /\ q.seq < r.seq => \E p \in d.page : p.seq = q.seq

LEMMA DrainedNow ==
  ASSUME NEW d, NEW seen, seen = looked
  PROVE  Drained(d, seen) <=> DrainInv(d)
BY DEF Drained, DrainInv, Covered

LEMMA DrainMoves ==
  ASSUME CursorInv, NEW c \in Drains, NEW d \in Drain, drain' = [drain EXCEPT ![c] = d],
         UNCHANGED <<since, feedVars>>, alerts' \subseteq [sub: Subs, seq: 1..MaxSeq],
         looked' \in [Subs -> SUBSET (1..MaxSeq)], \A s \in Subs : looked[s] \subseteq looked'[s],
         subs' \in [Subs -> 0..MaxSeq \union {None}],
         \A s \in Subs : subs'[s] # subs[s] => Known(subs'[s]) /\ Covered(s, subs'[s]),
         Drained(d, looked')
  PROVE  CursorInv'
<1>0. changes' = changes /\ stored' = stored /\ since' = since
  BY DEF feedVars
<1>1. FeedInv' /\ FeedTypeOK'
  BY DEF CursorInv, FeedInv, FeedTypeOK, TableInv, Busy, feedVars
<1>2. TypeOK' /\ drain \in [Drains -> Drain]
  BY <1>0, <1>1 DEF CursorInv, TypeOK
<1>3. \A s \in Subs : \A n : Covered(s, n) => Covered(s, n)'
  BY <1>0 DEF Covered
<1>4. \A copy \in Copy : Sound(copy) => Sound(copy)'
  BY <1>0, <1>3 DEF Sound, Known, Copy
<1>5. ASSUME NEW s \in Subs PROVE (subs[s] # None => Known(subs[s]) /\ Covered(s, subs[s]))'
  <2>1. subs'[s] # None => Known(subs'[s]) /\ Covered(s, subs'[s])
    BY DEF CursorInv
  <2> QED BY <1>0, <2>1 DEF Known, Covered
<1>6. ASSUME NEW b \in Drains PROVE DrainInv(drain[b])'
  <2>1. drain'[b] \in Drain /\ Drained(drain'[b], looked')
    <3>1. CASE b = c
      BY <1>2, <3>1
    <3>2. CASE b # c
      <4>1. drain'[b] = drain[b] /\ drain[b] \in Drain /\ DrainInv(drain[b])
        BY <1>2, <3>2 DEF CursorInv
      <4>2. drain[b].sub # None => drain[b].sub.sub \in Subs
        BY <4>1 DEF Drain, Copy
      <4> QED BY <4>1, <4>2 DEF DrainInv, Drained, Covered
    <3> QED BY <3>1, <3>2
  <2>2. drain'[b].copies \subseteq Copy
    BY <2>1 DEF Drain
  <2> QED BY <1>0, <1>4, <2>1, <2>2 DEF Drained, DrainInv, Covered, Known
<1> QED BY <1>1, <1>2, <1>5, <1>6 DEF CursorInv

LEMMA DrainReadsInv ==
  ASSUME CursorInv, NEW c \in Drains, ReadSubs(c) \/ ReadChanges(c)
  PROVE  CursorInv'
<1>0. /\ drain[c] \in Drain /\ DrainInv(drain[c]) /\ subs \in [Subs -> 0..MaxSeq \union {None}]
      /\ Rows(changes) /\ changes \subseteq Change /\ Seqs(changes) \subseteq stored /\ MaxSeq \in Nat /\ Limit \in Nat
      /\ UNCHANGED <<subs, since, alerts, looked, feedVars>>
      /\ None \notin Copy \union Nat
  BY FeedShape, ChangeFeedAssumption, AlertsAssumption DEF CursorInv, TypeOK, ReadSubs, ReadChanges
<1>1. \E d \in Drain : drain' = [drain EXCEPT ![c] = d] /\ DrainInv(d)
  <2>1. CASE ReadSubs(c)
    <3> DEFINE copies == {CopyOf(s) : s \in {t \in Subs : subs[t] # None}}
               d == [drain[c] EXCEPT !.copies = copies]
    <3>1. ASSUME NEW copy \in copies PROVE copy \in Copy /\ Sound(copy)
      BY <1>0, <3>1 DEF CopyOf, Copy, Sound, CursorInv
    <3>2. d \in Drain /\ d.copies = copies /\ d.sub = None
      <4>1. copies \subseteq Copy
        BY <3>1
      <4>2. drain[c].sub = None
        BY <2>1 DEF ReadSubs, Free
      <4> HIDE DEF copies
      <4> QED BY <1>0, <4>1, <4>2 DEF Drain
    <3>3. drain' = [drain EXCEPT ![c] = d]
      BY <2>1 DEF ReadSubs, CursorInv, TypeOK
    <3> HIDE DEF copies, d
    <3> QED BY <3>1, <3>2, <3>3 DEF DrainInv
  <2>2. CASE ReadChanges(c)
    <3>1. PICK copy \in drain[c].copies :
            drain' = [drain EXCEPT ![c] =
              [copies |-> drain[c].copies \ {copy}, sub |-> copy,
               page |-> Page({r \in changes : r.seq > copy.lastSeq}), top |-> copy.lastSeq]]
      BY <2>2 DEF ReadChanges
    <3> DEFINE rows == {r \in changes : r.seq > copy.lastSeq}
               page == Page(rows)
               d == [copies |-> drain[c].copies \ {copy}, sub |-> copy, page |-> page, top |-> copy.lastSeq]
    <3>2. copy \in Copy /\ Sound(copy) /\ copy.lastSeq \in 0..MaxSeq /\ drain[c].copies \subseteq Copy
      BY <1>0 DEF Drain, DrainInv, Copy
    <3>3. Rows(rows) /\ rows \subseteq changes
      BY <1>0, RowsSubset
    <3>4. page \subseteq rows /\ \A r \in page, q \in rows \ page : r.seq < q.seq
      <4> HIDE DEF rows
      <4> QED BY <1>0, <3>3, OldestRows DEF Page
    <3>5. \A r \in changes : r.seq \in Nat /\ r.seq \in stored /\ (r \in rows <=> copy.lastSeq < r.seq)
      BY <1>0, <3>2 DEF Rows, Seqs
    <3> HIDE DEF rows, page
    <3>6. d \in Drain
      BY <1>0, <3>2, <3>3, <3>4 DEF Drain
    <3>7. DrainInv(d)
      <4>1. Known(copy.lastSeq) /\ Covered(copy.sub, copy.lastSeq) /\ \A k \in drain[c].copies : Sound(k)
        BY <1>0, <3>2 DEF DrainInv, Sound
      <4>2. \A r \in page : r.seq \in stored /\ copy.lastSeq <= r.seq
        BY <3>2, <3>3, <3>4, <3>5
      <4>3. ASSUME NEW r \in page, NEW q \in changes, copy.lastSeq < q.seq, q.seq < r.seq PROVE q \in page
        BY <3>2, <3>3, <3>4, <3>5, <4>3
      <4> QED BY <4>1, <4>2, <4>3 DEF DrainInv
    <3> QED BY <3>1, <3>6, <3>7 DEF rows, page
  <2> QED BY <2>1, <2>2
<1>2. PICK d \in Drain : drain' = [drain EXCEPT ![c] = d] /\ DrainInv(d)
  BY <1>1
<1>3. Drained(d, looked')
  BY <1>0, <1>2, DrainedNow
<1> QED BY <1>0, <1>2, <1>3, DrainMoves DEF CursorInv, TypeOK

LEMMA LookAtInv ==
  ASSUME CursorInv, NEW c \in Drains, LookAt(c)
  PROVE  CursorInv'
<1> DEFINE s == drain[c].sub.sub
<1>1. PICK r \in drain[c].page :
        /\ drain[c].sub # None /\ \A q \in drain[c].page : r.seq <= q.seq
        /\ alerts' = IF IsAlert(r) THEN alerts \union {[sub |-> s, seq |-> r.seq]} ELSE alerts
        /\ looked' = [looked EXCEPT ![s] = @ \union {r.seq}]
        /\ drain' = [drain EXCEPT ![c].page = @ \ {r}, ![c].top = r.seq]
        /\ UNCHANGED <<subs, since, feedVars>>
  BY DEF LookAt
<1> DEFINE d == [drain[c] EXCEPT !.page = @ \ {r}, !.top = r.seq]
<1>2. /\ drain \in [Drains -> Drain] /\ drain[c] \in Drain /\ DrainInv(drain[c]) /\ r \in Change
      /\ s \in Subs /\ r.seq \in 1..MaxSeq /\ drain[c].top \in 0..MaxSeq /\ drain[c].page \subseteq Change
      /\ looked \in [Subs -> SUBSET (1..MaxSeq)] /\ MaxSeq \in Nat
  BY <1>1, ChangeFeedAssumption DEF CursorInv, TypeOK, Drain, Copy, Change
<1>3. /\ d \in Drain /\ d.page = drain[c].page \ {r} /\ d.top = r.seq /\ d.sub = drain[c].sub
      /\ d.copies = drain[c].copies
  <2>1. r.seq \in 0..MaxSeq /\ drain[c].page \ {r} \in SUBSET Change
    BY <1>2
  <2>2. drain[c] = [copies |-> drain[c].copies, sub |-> drain[c].sub, page |-> drain[c].page, top |-> drain[c].top]
    BY <1>2 DEF Drain
  <2> QED BY <1>2, <2>1, <2>2 DEF Drain
<1>4. drain' = [drain EXCEPT ![c] = d]
  BY <1>1, <1>2
<1>5. alerts' \subseteq [sub: Subs, seq: 1..MaxSeq]
  BY <1>1, <1>2 DEF CursorInv, TypeOK
<1>6. /\ looked' \in [Subs -> SUBSET (1..MaxSeq)] /\ looked'[s] = looked[s] \union {r.seq}
      /\ \A t \in Subs : looked[t] \subseteq looked'[t]
  BY <1>1, <1>2
<1>7. \A q \in changes \union drain[c].page : q.seq \in Nat
  BY <1>2 DEF CursorInv, FeedInv, FeedTypeOK, Change
<1> HIDE DEF d
<1>8. Drained(d, looked')
  <2>1. /\ Known(drain[c].top) /\ Covered(s, drain[c].top)
        /\ \A p \in drain[c].page : p.seq \in stored /\ drain[c].top <= p.seq
        /\ \A p \in drain[c].page, q \in changes :
             drain[c].top < q.seq /\ q.seq < p.seq => \E o \in drain[c].page : o.seq = q.seq
    BY <1>1, <1>2 DEF DrainInv
  <2>2. ASSUME NEW q \in changes, since[s] < q.seq, q.seq <= r.seq PROVE q.seq \in looked'[s]
    <3>1. CASE q.seq <= drain[c].top
      BY <1>6, <2>1, <2>2, <3>1 DEF Covered
    <3>2. CASE q.seq = r.seq
      BY <1>6, <3>2
    <3>3. CASE drain[c].top < q.seq /\ q.seq < r.seq
      BY <1>1, <1>2, <1>7, <2>1, <3>3
    <3> QED BY <1>2, <1>7, <2>2, <3>1, <3>2, <3>3
  <2>3. ASSUME NEW p \in d.page, NEW q \in changes, d.top < q.seq, q.seq < p.seq
        PROVE  \E o \in d.page : o.seq = q.seq
    <3>1. drain[c].top < q.seq
      BY <1>2, <1>3, <1>7, <2>1, <2>3
    <3>2. PICK o \in drain[c].page : o.seq = q.seq
      BY <1>3, <2>1, <2>3, <3>1
    <3>3. o # r
      BY <1>2, <1>3, <1>7, <2>3, <3>2
    <3> QED BY <1>3, <3>2, <3>3
  <2> QED BY <1>1, <1>2, <1>3, <2>1, <2>2, <2>3 DEF Drained, DrainInv, Known
<1> QED BY <1>1, <1>2, <1>3, <1>4, <1>5, <1>6, <1>8, DrainMoves DEF CursorInv, TypeOK

LEMMA AdvanceInv ==
  ASSUME CursorInv, NEW c \in Drains, Advance(c)
  PROVE  CursorInv'
<1> DEFINE s == drain[c].sub.sub
           d == [NoDrain EXCEPT !.copies = drain[c].copies]
<1>1. /\ drain[c].sub # None
      /\ subs' = IF drain[c].top > drain[c].sub.lastSeq /\ subs[s] # None
                 THEN [subs EXCEPT ![s] = drain[c].top] ELSE subs
      /\ drain' = [drain EXCEPT ![c] = d]
      /\ UNCHANGED <<since, alerts, looked, feedVars>>
  BY DEF Advance, Advanced
<1>2. /\ drain[c] \in Drain /\ DrainInv(drain[c]) /\ s \in Subs /\ drain[c].top \in 0..MaxSeq
      /\ Known(drain[c].top) /\ Covered(s, drain[c].top)
      /\ subs \in [Subs -> 0..MaxSeq \union {None}] /\ 0 \in 0..MaxSeq
  BY <1>1, ChangeFeedAssumption DEF CursorInv, TypeOK, Drain, Copy, DrainInv
<1>3. d \in Drain /\ d.copies = drain[c].copies /\ d.sub = None
  BY <1>2 DEF NoDrain, Drain
<1> HIDE DEF d
<1>4. Drained(d, looked')
  BY <1>2, <1>3 DEF Drained, DrainInv
<1>5. subs' \in [Subs -> 0..MaxSeq \union {None}]
  BY <1>1, <1>2
<1>6. \A t \in Subs : subs'[t] # subs[t] => Known(subs'[t]) /\ Covered(t, subs'[t])
  BY <1>1, <1>2
<1> QED BY <1>1, <1>3, <1>4, <1>5, <1>6, DrainMoves DEF CursorInv, TypeOK

LEMMA CrashInv ==
  ASSUME CursorInv, Crash
  PROVE  CursorInv'
<1>0. /\ UNCHANGED <<subs, since, alerts, looked>> /\ changes' = changes /\ stored' = stored
      /\ drain' = [c \in Drains |-> NoDrain] /\ FeedInv'
  BY FeedCrashInv DEF Crash, FeedCrash, CursorInv
<1>1. NoDrain \in Drain
  BY ChangeFeedAssumption DEF NoDrain, Drain
<1>2. TypeOK'
  BY <1>0, <1>1 DEF CursorInv, TypeOK, FeedInv
<1>3. \A c \in Drains : DrainInv(drain[c])'
  BY <1>0 DEF DrainInv, NoDrain
<1>4. ASSUME NEW s \in Subs PROVE (subs[s] # None => Known(subs[s]) /\ Covered(s, subs[s]))'
  BY <1>0 DEF CursorInv, Known, Covered
<1> QED BY <1>0, <1>2, <1>3, <1>4 DEF CursorInv

LEMMA CursorInvariant ==
  ASSUME MaxWriters <= 1
  PROVE  Spec => []CursorInv
<1>1. CursorInv /\ [Next]_vars => CursorInv'
  <2> SUFFICES ASSUME CursorInv, [Next]_vars PROVE CursorInv'
    OBVIOUS
  <2>1. ASSUME NEW w \in Writers, WriteDoc(w), UNCHANGED alertVars PROVE CursorInv'
    <3>1. FeedInv' /\ changes' = changes /\ stored' = stored
      BY <2>1, WriteDocInv DEF CursorInv, WriteDoc
    <3> QED BY <2>1, <3>1, FeedKeepsCursors
  <2>2. ASSUME NEW w \in Writers, FeedStep(w), UNCHANGED alertVars PROVE CursorInv'
    <3>1. FeedInv
      BY DEF CursorInv
    <3> QED BY <2>2, <3>1, FeedStepInv, NewRowsAreNewest, FeedKeepsCursors
  <2>3. CASE UNCHANGED vars
    <3>1. FeedInv' /\ changes' = changes /\ stored' = stored /\ UNCHANGED alertVars
      BY <2>3 DEF vars, feedVars, CursorInv, FeedInv, FeedTypeOK, TableInv, Busy
    <3> QED BY <3>1, FeedKeepsCursors
  <2> QED BY <2>1, <2>2, <2>3, SubsInv, DrainReadsInv, LookAtInv, AdvanceInv, CrashInv DEF Next, DrainStep
<1> QED BY <1>1, CursorInit, PTL DEF Spec

(* The ring buffer of trimChanges never drops a row that is not the oldest *)
(* and never cuts below its size, through failed inserts, crashes in any   *)
(* of its steps and reseeded counters; one write in flight at a time.      *)
THEOREM FeedKeepsTheNewest ==
  ASSUME MaxWriters <= 1
  PROVE  Spec => []FeedIsNewest
<1>1. CursorInv => FeedIsNewest
  BY FeedShape DEF CursorInv
<1> QED BY <1>1, CursorInvariant, PTL

(* No cursor of processSubscriptions passes a change nobody looked at for  *)
(* its subscription, however many drains overlap and set it back; one      *)
(* write in flight at a time.                                              *)
THEOREM NothingIsSkipped ==
  ASSUME MaxWriters <= 1
  PROVE  Spec => []CursorSkipsNothing
<1>1. CursorInv => CursorSkipsNothing
  BY DEF CursorInv, CursorSkipsNothing, Covered
<1> QED BY <1>1, CursorInvariant, PTL
=============================================================================
