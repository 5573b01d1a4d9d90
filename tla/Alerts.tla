------------------------------- MODULE Alerts -------------------------------
(***************************************************************************)
(* Saved-search alerts on top of the change feed (operations.ts,           *)
(* createSubscription ... processSubscriptions): a drain reads the changes *)
(* past each subscription's cursor, loads each document as the owner, puts *)
(* an alert in the webhook outbox for those that match, and moves the      *)
(* cursor.                                                                 *)
(***************************************************************************)
EXTENDS ChangeFeed

CONSTANTS
  Subs,         (* subscriptions that may be made                          *)
  Drains,
  Limit,        (* changes a drain reads per subscription                  *)
  MaxDrains     (* bound: drains running at once                           *)

VARIABLES
  subs,         (* the _subscriptions rows' cursors; None when there is none *)
  since,        (* where each subscription started                         *)
  alerts,       (* alerts put in the outbox: subscription, change          *)
  looked,       (* changes a drain has looked at for each subscription     *)
  drain         (* what each drain has read and still has to do            *)

alertVars == <<subs, since, alerts, looked, drain>>
vars == <<feedVars, alertVars>>

Copy == [sub: Subs, lastSeq: 0..MaxSeq]
Drain == [copies: SUBSET Copy, sub: Copy \union {None}, page: SUBSET Change, top: 0..MaxSeq]
NoDrain == [copies |-> {}, sub |-> None, page |-> {}, top |-> 0]
CopyOf(s) == [sub |-> s, lastSeq |-> subs[s]]

ASSUME AlertsAssumption == Limit \in Nat \ {0} /\ MaxDrains \in Nat /\ None \notin Copy \union Nat

Init ==
  /\ FeedInit
  /\ subs = [s \in Subs |-> None] /\ since = [s \in Subs |-> 0]
  /\ alerts = {} /\ looked = [s \in Subs |-> {}]
  /\ drain = [c \in Drains |-> NoDrain]

(* createSubscription: from now on.                                        *)
Subscribe(s) ==
  /\ subs[s] = None /\ since[s] = 0
  /\ subs' = [subs EXCEPT ![s] = TopSeq]
  /\ since' = [since EXCEPT ![s] = TopSeq]
  /\ UNCHANGED <<alerts, looked, drain, feedVars>>

Unsubscribe(s) ==
  /\ subs[s] # None
  /\ subs' = [subs EXCEPT ![s] = None]
  /\ since' = [since EXCEPT ![s] = MaxSeq]
  /\ UNCHANGED <<alerts, looked, drain, feedVars>>

-----------------------------------------------------------------------------
(* processSubscriptions.                                                   *)

Free(c) == drain[c].copies = {} /\ drain[c].sub = None

ReadSubs(c) ==
  /\ Free(c) /\ Cardinality({b \in Drains : ~ Free(b)}) < MaxDrains
  /\ \E s \in Subs : subs[s] # None
  /\ drain' = [drain EXCEPT ![c].copies = {CopyOf(s) : s \in {t \in Subs : subs[t] # None}}]
  /\ UNCHANGED <<subs, since, alerts, looked, feedVars>>

(* Variant: the newest changes make the page.                              *)
NewestPage(rows) == {r \in rows : Cardinality({q \in rows : q.seq > r.seq}) < Limit}

(* The first Limit changes past the cursor.                                *)
Page(rows) == Oldest(rows, Limit)

ReadChanges(c) ==
  /\ drain[c].sub = None
  /\ \E copy \in drain[c].copies :
       drain' = [drain EXCEPT ![c] =
         [copies |-> @.copies \ {copy}, sub |-> copy,
          page |-> Page({r \in changes : r.seq > copy.lastSeq}), top |-> copy.lastSeq]]
  /\ UNCHANGED <<subs, since, alerts, looked, feedVars>>

(* Variant: only creates are alerted.                                      *)
AlertsOfCreates(r) == r.event = "create" /\ docs[r.doc] = "match"

(* Deletes have nothing to match; a document is judged as it is now.       *)
IsAlert(r) == r.event # "delete" /\ docs[r.doc] = "match"

LookAt(c) ==
  \E r \in drain[c].page :
    LET s == drain[c].sub.sub
    IN  /\ drain[c].sub # None /\ \A q \in drain[c].page : r.seq <= q.seq
        /\ alerts' = IF IsAlert(r) THEN alerts \union {[sub |-> s, seq |-> r.seq]} ELSE alerts
        /\ looked' = [looked EXCEPT ![s] = @ \union {r.seq}]
        /\ drain' = [drain EXCEPT ![c].page = @ \ {r}, ![c].top = r.seq]
        /\ UNCHANGED <<subs, since, feedVars>>

(* Variant: the cursor goes to the end of the feed.                        *)
AdvancedToEnd(d) == TopSeq

Advanced(d) == d.top

(* The cursor is written if the page moved it, whatever it is by now.      *)
Advance(c) ==
  LET s == drain[c].sub.sub
  IN  /\ drain[c].sub # None /\ drain[c].page = {}
      /\ subs' = IF drain[c].top > drain[c].sub.lastSeq /\ subs[s] # None
                 THEN [subs EXCEPT ![s] = Advanced(drain[c])] ELSE subs
      /\ drain' = [drain EXCEPT ![c] = [NoDrain EXCEPT !.copies = drain[c].copies]]
      /\ UNCHANGED <<since, alerts, looked, feedVars>>

(* With nothing in flight a crash loses nothing, and is left out.          *)
Crash ==
  /\ Busy # {} \/ counter # TopSeq \/ \E c \in Drains : ~ Free(c)
  /\ FeedCrash
  /\ drain' = [c \in Drains |-> NoDrain]
  /\ UNCHANGED <<subs, since, alerts, looked>>

DrainStep(c) == ReadChanges(c) \/ LookAt(c) \/ Advance(c)

Next ==
  \/ \E w \in Writers : (WriteDoc(w) \/ FeedStep(w)) /\ UNCHANGED alertVars
  \/ \E s \in Subs : Subscribe(s) \/ Unsubscribe(s)
  \/ \E c \in Drains : ReadSubs(c) \/ DrainStep(c)
  \/ Crash

Spec == Init /\ [][Next]_vars

(* Hooks finish, and the cron keeps draining.                              *)
FairSpec ==
  /\ Spec
  /\ \A w \in Writers : WF_vars(FeedStep(w) /\ UNCHANGED alertVars)
  /\ \A c \in Drains : SF_vars(ReadSubs(c)) /\ WF_vars(DrainStep(c))

-----------------------------------------------------------------------------
(* Properties.                                                             *)

TypeOK ==
  /\ FeedTypeOK
  /\ subs \in [Subs -> 0..MaxSeq \union {None}] /\ since \in [Subs -> 0..MaxSeq]
  /\ alerts \subseteq [sub: Subs, seq: 1..MaxSeq]
  /\ looked \in [Subs -> SUBSET (1..MaxSeq)]
  /\ drain \in [Drains -> Drain]

(* A cursor never passes a change no drain looked at for its subscription: *)
(* whatever was stored since it was made is considered, once at least,     *)
(* unless the feed dropped it first.                                       *)
CursorSkipsNothing ==
  \A s \in Subs : subs[s] # None =>
    \A r \in changes : since[s] < r.seq /\ r.seq <= subs[s] => r.seq \in looked[s]

MatchesNow(n) == \E r \in changes : r.seq = n /\ r.event # "delete" /\ docs[r.doc] = "match"

Owed(s, n) == subs[s] # None /\ since[s] < n /\ n \notin looked[s] /\ MatchesNow(n)

Settled(s, n) ==
  \/ [sub |-> s, seq |-> n] \in alerts
  \/ subs[s] = None \/ ~ MatchesNow(n)

(* A subscriber is alerted of every change not yet looked at whose         *)
(* document goes on matching, if the feed keeps the change long enough.    *)
EveryMatchAlerts == \A s \in Subs, n \in 1..MaxSeq : Owed(s, n) ~> Settled(s, n)
=============================================================================
