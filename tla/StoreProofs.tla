----------------------------- MODULE StoreProofs -----------------------------
(***************************************************************************)
(* What holds of the shared connection and its cache for any number of     *)
(* rows, requests, writes and crashes: a failed transaction leaves no      *)
(* trace, a transaction reads nothing older than its start, and a cache    *)
(* entry is out of date only if its read raced.                            *)
(***************************************************************************)
EXTENDS Store, TLAPS

Client == [step: {"idle", "missed", "found", "written", "queued", "inside", "committed"},
           row: Rows \union {None}, content: Content, wrote: [Rows -> Content],
           seen: [row: Rows \union {None}, content: Content]]

(* A client that has missed, or found, knows its row.                      *)
Placed(e) == e.step \in {"missed", "found"} => e.row \in Rows

Reading == \A c \in Clients : Placed(client[c])

Typed == TypeOK /\ Reading

LEMMA Zero == 0 \in Content /\ Content \subseteq Nat
BY StoreAssumption DEF Content

LEMMA IdleTyped == Idle \in Client /\ Unread \in [row: Rows \union {None}, content: Content]
BY Zero DEF Idle, Unread, Client

(* A request moves, and the others stay where they are.                    *)
LEMMA Moves ==
  ASSUME client \in [Clients -> Client], Reading, NEW c \in Clients, NEW e \in Client, Placed(e),
         client' = [client EXCEPT ![c] = e]
  PROVE  /\ client' \in [Clients -> Client] /\ Reading'
         /\ client'[c] = e /\ \A d \in Clients \ {c} : client'[d] = client[d]
BY DEF Reading

(* The three ways a request's record changes beside going idle.            *)
LEMMA Changed ==
  ASSUME NEW e \in Client, NEW r \in Rows, NEW n \in Content, NEW s \in {"found", "written", "queued", "inside", "committed"}
  PROVE  /\ [e EXCEPT !.step = s] \in Client
         /\ [e EXCEPT !.step = s, !.content = n] \in Client
         /\ [e EXCEPT !.step = s, !.seen = Unread] \in Client
         /\ [e EXCEPT !.seen = [row |-> r, content |-> n]] \in Client
         /\ [e EXCEPT !.wrote[r] = n, !.seen = Unread] \in Client
BY IdleTyped DEF Client

(* Every step keeps every variable's type.                                 *)
LEMMA StepTyped == Typed /\ [Next]_vars => Typed'
<1> SUFFICES ASSUME Typed, [Next]_vars PROVE Typed'
  OBVIOUS
<1> USE Zero, IdleTyped, StoreAssumption
<1>a. /\ client \in [Clients -> Client] /\ Reading
      /\ live \in [Rows -> Content] /\ saved \in [Rows -> Content] /\ open \in Clients \union {None}
      /\ waiting \in Seq(Clients) /\ cache \in [Rows -> Content \union {None}] /\ raced \subseteq Rows
      /\ writes \in Content /\ failed \subseteq Write /\ crashes \in 0..MaxCrashes
  BY DEF Typed, TypeOK, Client
<1>q. ASSUME client' \in [Clients -> Client], Reading',
             live' \in [Rows -> Content], saved' \in [Rows -> Content], open' \in Clients \union {None},
             waiting' \in Seq(Clients), cache' \in [Rows -> Content \union {None}], raced' \subseteq Rows,
             writes' \in Content, failed' \subseteq Write, crashes' \in 0..MaxCrashes
      PROVE  Typed'
  BY <1>q DEF Typed, TypeOK, Client
<1>i. Placed(Idle)
  BY DEF Placed, Idle
<1>w. ASSUME NEW c \in Clients PROVE WrittenBy(c) \subseteq Write
  <2>1. \A r \in Rows : client[c].wrote[r] \in Content
    BY <1>a DEF Client
  <2>2. \A n \in Content \ {0} : n \in Write
    BY DEF Write, Content
  <2> QED BY <2>1, <2>2 DEF WrittenBy
<1>1. ASSUME NEW c \in Clients, Miss(c) PROVE Typed'
  <2>1. PICK r \in Rows : client' = [client EXCEPT ![c] = [Idle EXCEPT !.step = "missed", !.row = r]]
    BY <1>1 DEF Miss
  <2>2. [Idle EXCEPT !.step = "missed", !.row = r] \in Client /\ Placed([Idle EXCEPT !.step = "missed", !.row = r])
    BY DEF Client, Placed, Idle
  <2>3. client' \in [Clients -> Client] /\ Reading'
    BY <1>a, <2>1, <2>2, Moves
  <2> QED BY <1>1, <1>a, <1>q, <2>3 DEF Miss, dbVars, cacheVars
<1>2. ASSUME NEW c \in Clients, Find(c) PROVE Typed'
  <2> DEFINE e == [client[c] EXCEPT !.step = "found", !.content = live[client[c].row]]
  <2>1. client[c] \in Client /\ client[c].row \in Rows /\ live[client[c].row] \in Content
    BY <1>2, <1>a DEF Find, Reading, Placed
  <2>2. e \in Client /\ Placed(e)
    BY <2>1, Changed DEF Placed, Client
  <2>3. client' = [client EXCEPT ![c] = e]
    BY <1>2, <1>a, <2>1 DEF Find, Client
  <2>4. client' \in [Clients -> Client] /\ Reading'
    BY <1>a, <2>2, <2>3, Moves
  <2> QED BY <1>2, <1>a, <1>q, <2>4 DEF Find, dbVars, cacheVars
<1>3. ASSUME NEW c \in Clients, Set(c) PROVE Typed'
  <2>1. client[c] \in Client /\ client[c].row \in Rows /\ client[c].content \in Content
    BY <1>3, <1>a DEF Set, Reading, Placed, Client
  <2>2. client' = [client EXCEPT ![c] = Idle]
    BY <1>3 DEF Set
  <2>3. client' \in [Clients -> Client] /\ Reading'
    BY <1>a, <1>i, <2>2, Moves
  <2>4. cache' \in [Rows -> Content \union {None}] /\ raced' \subseteq Rows
    BY <1>3, <1>a, <2>1 DEF Set
  <2> QED BY <1>3, <1>a, <1>q, <2>3, <2>4 DEF Set, dbVars
<1>4. ASSUME NEW c \in Clients, Put(c) PROVE Typed'
  <2>1. writes' \in Content /\ live' \in [Rows -> Content]
    BY <1>4, <1>a DEF Put, Content
  <2>2. [client[c] EXCEPT !.step = "written"] \in Client /\ Placed([client[c] EXCEPT !.step = "written"])
    BY <1>a DEF Client, Placed
  <2>3. client' = [client EXCEPT ![c] = [client[c] EXCEPT !.step = "written"]]
    BY <1>4 DEF Put
  <2>4. client' \in [Clients -> Client] /\ Reading'
    BY <1>a, <2>2, <2>3, Moves
  <2> QED BY <1>4, <1>a, <1>q, <2>1, <2>4 DEF Put, cacheVars
<1>5. ASSUME NEW c \in Clients, Finish(c) PROVE Typed'
  <2>1. client' = [client EXCEPT ![c] = Idle]
    BY <1>5 DEF Finish
  <2>2. client' \in [Clients -> Client] /\ Reading'
    BY <1>a, <1>i, <2>1, Moves
  <2>3. cache' \in [Rows -> Content \union {None}] /\ raced' \subseteq Rows
    BY <1>5, <1>a DEF Finish, cacheVars
  <2> QED BY <1>5, <1>a, <1>q, <2>2, <2>3 DEF Finish, dbVars
<1>6. ASSUME NEW c \in Clients, Ask(c) PROVE Typed'
  <2>1. [client[c] EXCEPT !.step = "queued"] \in Client /\ Placed([client[c] EXCEPT !.step = "queued"])
    BY <1>a DEF Client, Placed
  <2>2. client' = [client EXCEPT ![c] = [client[c] EXCEPT !.step = "queued"]]
    BY <1>6 DEF Ask
  <2>3. client' \in [Clients -> Client] /\ Reading'
    BY <1>a, <2>1, <2>2, Moves
  <2>4. waiting' \in Seq(Clients)
    BY <1>6, <1>a DEF Ask
  <2> QED BY <1>6, <1>a, <1>q, <2>3, <2>4 DEF Ask, cacheVars
<1>7. ASSUME NEW c \in Clients, Begin(c) PROVE Typed'
  <2>1. [client[c] EXCEPT !.step = "inside"] \in Client /\ Placed([client[c] EXCEPT !.step = "inside"])
    BY <1>a DEF Client, Placed
  <2>2. client' = [client EXCEPT ![c] = [client[c] EXCEPT !.step = "inside"]]
    BY <1>7 DEF Begin
  <2>3. client' \in [Clients -> Client] /\ Reading'
    BY <1>a, <2>1, <2>2, Moves
  <2>4. waiting' \in Seq(Clients)
    BY <1>7, <1>a DEF Begin, HasTurn
  <2> QED BY <1>7, <1>a, <1>q, <2>3, <2>4 DEF Begin, cacheVars
<1>8. ASSUME NEW c \in Clients, TxGet(c) PROVE Typed'
  <2>1. PICK r \in Rows : client' = [client EXCEPT ![c] = [client[c] EXCEPT !.seen = [row |-> r, content |-> live[r]]]]
    BY <1>8 DEF TxGet, TxRead
  <2> DEFINE e == [client[c] EXCEPT !.seen = [row |-> r, content |-> live[r]]]
  <2>2. e \in Client /\ Placed(e)
    BY <1>8, <1>a DEF Client, Placed, TxGet
  <2>3. client' \in [Clients -> Client] /\ Reading'
    BY <1>a, <2>1, <2>2, Moves
  <2> QED BY <1>8, <1>a, <1>q, <2>3 DEF TxGet, dbVars, cacheVars
<1>9. ASSUME NEW c \in Clients, TxPut(c) PROVE Typed'
  <2>1. PICK r \in Rows : /\ live' = [live EXCEPT ![r] = writes']
                          /\ client' = [client EXCEPT ![c].wrote[r] = writes', ![c].seen = Unread]
    BY <1>9 DEF TxPut
  <2> DEFINE e == [client[c] EXCEPT !.wrote[r] = writes', !.seen = Unread]
  <2>2. writes' \in Content /\ live' \in [Rows -> Content]
    BY <1>9, <1>a, <2>1 DEF TxPut, Content
  <2>3. e \in Client
    BY <1>a, <2>2, Changed
  <2>4. Placed(e)
    BY <1>9, <1>a, <2>2 DEF TxPut, Placed, Client
  <2>5. client' = [client EXCEPT ![c] = e]
    BY <2>1, <1>a DEF Client
  <2>6. client' \in [Clients -> Client] /\ Reading'
    BY <1>a, <2>3, <2>4, <2>5, Moves
  <2> QED BY <1>9, <1>a, <1>q, <2>2, <2>6 DEF TxPut, cacheVars
<1>10. ASSUME NEW c \in Clients, Commit(c) PROVE Typed'
  <2> DEFINE e == [client[c] EXCEPT !.step = "committed", !.seen = Unread]
  <2>1. client' = [client EXCEPT ![c] = e]
    BY <1>10, <1>a DEF Commit, Client
  <2>2. e \in Client /\ Placed(e)
    BY <1>a DEF Client, Placed
  <2>3. client' \in [Clients -> Client] /\ Reading'
    BY <1>a, <2>1, <2>2, Moves
  <2>4. saved' \in [Rows -> Content]
    BY <1>10 DEF Commit, Closed
  <2> QED BY <1>10, <1>a, <1>q, <2>3, <2>4 DEF Commit, cacheVars
<1>11. ASSUME NEW c \in Clients, Rollback(c) PROVE Typed'
  <2>1. client' = [client EXCEPT ![c] = Idle]
    BY <1>11 DEF Rollback
  <2>2. client' \in [Clients -> Client] /\ Reading'
    BY <1>a, <1>i, <2>1, Moves
  <2>3. saved' \in [Rows -> Content] /\ live' \in [Rows -> Content] /\ failed' \subseteq Write
    BY <1>11, <1>a, <1>w DEF Rollback, Closed, Restored
  <2> QED BY <1>11, <1>a, <1>q, <2>2, <2>3 DEF Rollback, cacheVars
<1>12. ASSUME NEW r \in Rows, Evict(r) PROVE Typed'
  BY <1>12, <1>a, <1>q DEF Evict, dbVars, Reading, Placed
<1>13. ASSUME Crash PROVE Typed'
  <2>1. client' \in [Clients -> Client] /\ Reading'
    BY <1>13, <1>i DEF Crash, Reading
  <2>2. live' \in [Rows -> Content] /\ saved' \in [Rows -> Content] /\ cache' \in [Rows -> Content \union {None}]
    BY <1>13, <1>a DEF Crash, Closed, Committed
  <2>3. failed' \subseteq Write
    BY <1>13, <1>a, <1>w DEF Crash
  <2>4. waiting' \in Seq(Clients) /\ crashes' \in 0..MaxCrashes
    BY <1>13, <1>a DEF Crash
  <2> QED BY <1>13, <1>a, <1>q, <2>1, <2>2, <2>3, <2>4 DEF Crash
<1>14. ASSUME UNCHANGED vars PROVE Typed'
  BY <1>14, <1>a, <1>q DEF vars, Reading, Placed
<1> QED
  BY <1>1, <1>2, <1>3, <1>4, <1>5, <1>6, <1>7, <1>8, <1>9, <1>10, <1>11, <1>12, <1>13, <1>14 DEF Next, Inside

LEMMA InitTyped == Init => Typed
BY Zero, IdleTyped, StoreAssumption DEF Init, Typed, TypeOK, Reading, Placed, Client, Closed, Idle, Unread, Write

(* Each variable keeps its type.                                           *)
THEOREM TypeCorrect == Spec => []TypeOK
<1>1. Typed => TypeOK
  BY DEF Typed
<1> QED
  BY InitTyped, StepTyped, <1>1, PTL DEF Spec

-----------------------------------------------------------------------------
(* What the transaction that is open, and the others, have done.  The      *)
(* writes are counted up, so what was written later is larger.             *)

Owner == \A c \in Clients : client[c].step = "inside" <=> open = c
Clean == \A c \in Clients, r \in Rows :
           client[c].step \notin {"inside", "committed"} => client[c].wrote[r] = 0
Counted ==
  /\ \A r \in Rows : live[r] <= writes /\ saved[r] <= writes
  /\ \A n \in failed : n <= writes
  /\ \A c \in Clients, r \in Rows : client[c].wrote[r] <= writes
Forgets == \A c \in Clients : client[c].step # "inside" => client[c].seen = Unread
Grows == \A r \in Rows : /\ open # None => live[r] >= saved[r]
                         /\ \A c \in Clients : open = c => live[r] >= client[c].wrote[r]
Traceless ==
  \A r \in Rows : /\ live[r] \notin failed
                  /\ open # None => saved[r] \notin failed
                  /\ \A c \in Clients : open = c => saved[r] \notin WrittenBy(c)

(* Whoever waits has asked, once.                                          *)
Queue == /\ \A i \in 1..Len(waiting) : client[waiting[i]].step = "queued"
         /\ \A i, j \in 1..Len(waiting) : waiting[i] = waiting[j] => i = j

IInv == Typed /\ Queue /\ Owner /\ Clean /\ Counted /\ Forgets /\ Grows /\ Traceless /\ TxReadsCurrent

(* Before anything is asked, no row has a number that a write would have.  *)
LEMMA InitIInv == Init => IInv
<1> SUFFICES ASSUME Init PROVE IInv
  OBVIOUS
<1>1. Typed
  BY InitTyped
<1>2. Queue /\ Owner /\ Clean /\ Forgets /\ TxReadsCurrent
  BY StoreAssumption DEF Init, Queue, Owner, Clean, Forgets, TxReadsCurrent, Idle
<1>3. Counted /\ Grows /\ Traceless
  BY StoreAssumption DEF Init, Counted, Grows, Traceless, Closed, Idle
<1> QED BY <1>1, <1>2, <1>3 DEF IInv

(* What a step of c leaves of the other requests, in the terms of IInv.    *)
Parts == Owner /\ Clean /\ Counted /\ Forgets /\ Grows /\ Traceless /\ TxReadsCurrent

(* The requests' records, as the steps of one of them leave them.          *)
Same(c) == \A d \in Clients \ {c} : client'[d] = client[d]

(* A request that was not inside moves to a step that is not, and neither  *)
(* the rows nor the transaction changes.                                   *)
LEMMA Outside ==
  ASSUME IInv, Typed', NEW c \in Clients, Same(c), client[c].step # "inside", client'[c].step # "inside",
         \A r \in Rows : client'[c].wrote[r] = 0, client'[c].seen = Unread,
         UNCHANGED <<live, saved, open, writes, failed>>
  PROVE  Parts'
<1> USE StoreAssumption
<1>1. Owner'
  BY DEF IInv, Owner, Same
<1>2. \A d \in Clients, r \in Rows : client'[d].wrote[r] \in {client[d].wrote[r], 0}
  BY DEF Same
<1>3. Clean'
  BY DEF IInv, Clean, Same
<1>4. Counted'
  <2>1. 0 <= writes
    BY DEF IInv, Typed, TypeOK, Content
  <2> QED BY <1>2, <2>1 DEF IInv, Counted
<1>5. Forgets'
  BY DEF IInv, Forgets, Same
<1>6. open # c
  BY DEF IInv, Owner
<1>7. Grows'
  BY <1>6 DEF IInv, Grows, Same
<1>8. \A d \in Clients \ {c} : WrittenBy(d)' = WrittenBy(d)
  BY DEF WrittenBy, Same
<1>9. Traceless'
  BY <1>6, <1>8 DEF IInv, Traceless
<1>10. TxReadsCurrent'
  BY DEF IInv, TxReadsCurrent, Same
<1> QED BY <1>1, <1>3, <1>4, <1>5, <1>7, <1>9, <1>10 DEF Parts

(* Only the request at the head leaves the queue, and only one that is     *)
(* idle enters it.                                                         *)
LEMMA StepQueue == Typed /\ Queue /\ [Next]_vars => Queue'
<1> SUFFICES ASSUME Typed, Queue, [Next]_vars PROVE Queue'
  OBVIOUS
<1>a. client \in [Clients -> Client] /\ waiting \in Seq(Clients)
  BY DEF Typed, TypeOK, Client
<1>o. ASSUME NEW c \in Clients, client[c].step # "queued", Same(c), waiting' = waiting PROVE Queue'
  BY <1>o, <1>a DEF Queue, Same
<1>1. ASSUME NEW c \in Clients, Ask(c) PROVE Queue'
  <2>1. /\ Same(c) /\ client[c].step = "idle" /\ client'[c].step = "queued" /\ waiting' = Append(waiting, c)
    BY <1>1, <1>a DEF Ask, Same, Client
  <2>2. /\ Len(waiting') = Len(waiting) + 1 /\ waiting'[Len(waiting) + 1] = c
        /\ \A i \in 1..Len(waiting) : waiting'[i] = waiting[i] /\ waiting[i] \in Clients \ {c}
    BY <2>1, <1>a DEF Queue
  <2>3. 1..Len(waiting') = 1..Len(waiting) \union {Len(waiting) + 1}
    BY <2>2, <1>a
  <2> QED BY <2>1, <2>2, <2>3, <1>a DEF Queue, Same
<1>2. ASSUME NEW c \in Clients, Begin(c) PROVE Queue'
  <2>1. Same(c) /\ waiting # <<>> /\ Head(waiting) = c /\ waiting' = Tail(waiting)
    BY <1>2, <1>a DEF Begin, HasTurn, Same
  <2>2. /\ Len(waiting) >= 1 /\ waiting[1] = c /\ Len(waiting') = Len(waiting) - 1
        /\ \A i \in 1..Len(waiting') : waiting'[i] = waiting[i + 1] /\ i + 1 \in 1..Len(waiting)
    BY <2>1, <1>a
  <2>3. \A i \in 1..Len(waiting') : waiting'[i] \in Clients \ {c}
    BY <2>2, <1>a DEF Queue
  <2>4. \A i \in 1..Len(waiting') : client'[waiting'[i]].step = "queued"
    BY <2>1, <2>2, <2>3 DEF Queue, Same
  <2>5. \A i, j \in 1..Len(waiting') : waiting'[i] = waiting'[j] => i = j
    <3> SUFFICES ASSUME NEW i \in 1..Len(waiting'), NEW j \in 1..Len(waiting'), waiting'[i] = waiting'[j] PROVE i = j
      OBVIOUS
    <3>1. i + 1 = j + 1
      BY <2>2 DEF Queue
    <3> QED BY <3>1
  <2> QED BY <2>4, <2>5 DEF Queue
<1>3. ASSUME NEW c \in Clients, Miss(c) \/ Find(c) \/ Set(c) \/ Put(c) \/ Finish(c) \/ Inside(c) PROVE Queue'
  <2>1. Same(c)
    BY <1>3, <1>a DEF Miss, Find, Set, Put, Finish, Inside, TxGet, TxPut, Commit, Rollback, Same
  <2>2. waiting' = waiting /\ client[c].step # "queued"
    BY <1>3 DEF Miss, Find, Set, Put, Finish, Inside, TxGet, TxPut, Commit, Rollback, dbVars
  <2> QED BY <2>1, <2>2, <1>o
<1>4. ASSUME NEW r \in Rows, Evict(r) PROVE Queue'
  BY <1>4 DEF Evict, dbVars, Queue
<1>5. CASE Crash
  BY <1>5 DEF Crash, Queue
<1>6. CASE UNCHANGED vars
  BY <1>6 DEF vars, Queue
<1> QED BY <1>1, <1>2, <1>3, <1>4, <1>5, <1>6 DEF Next

(* Every step keeps the invariant.                                         *)
LEMMA StepIInv == IInv /\ [Next]_vars => IInv'
<1> SUFFICES ASSUME IInv, [Next]_vars PROVE IInv'
  OBVIOUS
<1> USE StoreAssumption, Zero
<1>t. Typed'
  BY StepTyped DEF IInv
<1>a. /\ client \in [Clients -> Client] /\ Reading
      /\ live \in [Rows -> Content] /\ saved \in [Rows -> Content] /\ open \in Clients \union {None}
      /\ writes \in Nat /\ failed \subseteq Nat
  BY DEF IInv, Typed, TypeOK, Client, Content, Write
<1>q. Parts' => IInv'
  <2>1. Queue'
    BY StepQueue DEF IInv
  <2> QED BY <1>t, <2>1 DEF Parts, IInv
<1>z. ASSUME NEW c \in Clients, client[c].step \notin {"inside", "committed"}
      PROVE  client[c].seen = Unread /\ \A r \in Rows : client[c].wrote[r] = 0
  BY <1>z DEF IInv, Clean, Forgets
<1>i. Idle.step = "idle" /\ Idle.seen = Unread /\ \A r \in Rows : Idle.wrote[r] = 0
  BY DEF Idle
<1>w. ASSUME NEW c \in Clients PROVE \A n \in WrittenBy(c) : n <= writes /\ n # 0
  BY DEF WrittenBy, IInv, Counted
<1>n. ASSUME NEW c \in Clients, NEW r \in Rows
      PROVE  client[c].wrote[r] \in Nat /\ live[r] \in Nat /\ saved[r] \in Nat
  <2>1. client[c] \in Client /\ live[r] \in Content /\ saved[r] \in Content
    BY <1>a
  <2>2. client[c].wrote[r] \in Content
    BY <2>1 DEF Client
  <2> QED BY <2>1, <2>2
<1>o. ASSUME NEW c \in Clients, client[c].step \notin {"inside", "committed"}, Same(c),
             client'[c].step # "inside", client'[c].wrote = client[c].wrote, client'[c].seen = client[c].seen,
             UNCHANGED <<live, saved, open, writes, failed>>
      PROVE  Parts'
  BY <1>o, <1>t, <1>z, Outside
<1>p. ASSUME NEW c \in Clients, client[c].step # "inside", Same(c), client'[c] = Idle,
             UNCHANGED <<live, saved, open, writes, failed>>
      PROVE  Parts'
  BY <1>p, <1>t, <1>i, Outside
<1>1. ASSUME NEW c \in Clients, Miss(c) PROVE Parts'
  <2>1. Same(c) /\ UNCHANGED <<live, saved, open, writes, failed>> /\ client[c].step = "idle"
    BY <1>1, <1>a DEF Miss, dbVars, Same
  <2>2. client'[c].step = "missed" /\ client'[c].seen = Unread /\ \A r \in Rows : client'[c].wrote[r] = 0
    BY <1>1, <1>a DEF Miss, Idle
  <2> QED BY <1>t, <2>1, <2>2, Outside
<1>2. ASSUME NEW c \in Clients, Find(c) PROVE Parts'
  <2>1. Same(c) /\ UNCHANGED <<live, saved, open, writes, failed>> /\ client[c].step = "missed"
    BY <1>2, <1>a DEF Find, dbVars, Same
  <2>2. client'[c].step = "found" /\ client'[c].seen = client[c].seen /\ client'[c].wrote = client[c].wrote
    BY <1>2, <1>a DEF Find, Client
  <2> QED BY <2>1, <2>2, <1>o
<1>3. ASSUME NEW c \in Clients, Set(c) PROVE Parts'
  <2>1. /\ Same(c) /\ UNCHANGED <<live, saved, open, writes, failed>>
        /\ client[c].step = "found" /\ client'[c] = Idle
    BY <1>3, <1>a DEF Set, dbVars, Same
  <2> QED BY <2>1, <1>p
<1>4. ASSUME NEW c \in Clients, Ask(c) PROVE Parts'
  <2>1. Same(c) /\ UNCHANGED <<live, saved, open, writes, failed>> /\ client[c].step = "idle"
    BY <1>4, <1>a DEF Ask, Same
  <2>2. client'[c].step = "queued" /\ client'[c].seen = client[c].seen /\ client'[c].wrote = client[c].wrote
    BY <1>4, <1>a DEF Ask, Client
  <2> QED BY <2>1, <2>2, <1>o
<1>5. ASSUME NEW c \in Clients, Finish(c) PROVE Parts'
  <2>1. /\ Same(c) /\ UNCHANGED <<live, saved, open, writes, failed>>
        /\ client[c].step # "inside" /\ client'[c] = Idle
    BY <1>5, <1>a DEF Finish, dbVars, Same
  <2> QED BY <2>1, <1>p
<1>6. ASSUME NEW c \in Clients, Put(c) PROVE Parts'
  <2>1. PICK r \in Rows : live' = [live EXCEPT ![r] = writes + 1]
    BY <1>6 DEF Put
  <2>2. /\ Same(c) /\ UNCHANGED <<saved, open, failed>> /\ writes' = writes + 1
        /\ client[c].step = "idle" /\ client'[c].step = "written"
        /\ client'[c].seen = client[c].seen /\ client'[c].wrote = client[c].wrote
    BY <1>6, <1>a DEF Put, Same, Client
  <2>3. \A s \in Rows : live'[s] \in {live[s], writes + 1} /\ live'[s] >= live[s] /\ live'[s] <= writes'
    BY <2>1, <2>2, <1>a, <1>n DEF IInv, Counted
  <2>4. /\ \A d \in Clients : client'[d].wrote = client[d].wrote /\ client'[d].seen = client[d].seen
        /\ \A d \in Clients : client'[d].step = "inside" <=> client[d].step = "inside"
    BY <2>2 DEF Same
  <2>5. Owner' /\ Clean' /\ Forgets' /\ TxReadsCurrent'
    <3>1. Owner' /\ Forgets'
      BY <2>2, <2>4 DEF IInv, Owner, Forgets
    <3>2. Clean'
      BY <2>2, <1>z DEF IInv, Clean, Same
    <3>3. TxReadsCurrent'
      BY <2>2, <2>4 DEF IInv, TxReadsCurrent
    <3> QED BY <3>1, <3>2, <3>3
  <2>6. Counted'
    BY <2>2, <2>3, <2>4, <1>n, <1>a DEF IInv, Counted
  <2>7. Grows'
    <3>1. \A d \in Clients, s \in Rows : live'[s] \in Nat /\ live'[s] >= live[s] /\ client'[d].wrote[s] = client[d].wrote[s]
      BY <2>2, <2>3, <2>4, <1>n, <1>a
    <3> QED BY <2>2, <3>1, <1>n, <1>a DEF IInv, Grows
  <2>8. \A d \in Clients : WrittenBy(d)' = WrittenBy(d)
    BY <2>4 DEF WrittenBy
  <2>9. Traceless'
    <3>1. \A s \in Rows : live'[s] \notin failed
      BY <2>3, <1>a DEF IInv, Traceless, Counted
    <3> QED BY <2>2, <2>8, <3>1 DEF IInv, Traceless
  <2> QED BY <2>5, <2>6, <2>7, <2>9 DEF Parts
<1>7. ASSUME NEW c \in Clients, Begin(c) PROVE Parts'
  <2>1. /\ Same(c) /\ UNCHANGED <<live, writes, failed>> /\ open = None /\ open' = c /\ saved' = live
        /\ client'[c].step = "inside" /\ client'[c].seen = client[c].seen /\ client'[c].wrote = client[c].wrote
    BY <1>7, <1>a DEF Begin, HasTurn, Same, Client
  <2>2. client[c].step = "queued"
    <3>1. waiting \in Seq(Clients) /\ waiting # <<>> /\ c = Head(waiting)
      BY <1>7 DEF Begin, HasTurn, IInv, Typed, TypeOK
    <3>2. 1 \in 1..Len(waiting) /\ c = waiting[1]
      BY <3>1
    <3> QED BY <3>2 DEF IInv, Queue
  <2>3. /\ client[c].seen = Unread /\ \A r \in Rows : client[c].wrote[r] = 0
        /\ \A d \in Clients : client'[d].wrote = client[d].wrote /\ client'[d].seen = client[d].seen
        /\ \A d \in Clients : client[d].step # "inside"
        /\ \A d \in Clients : client'[d].step = "inside" <=> d = c
    BY <2>1, <2>2, <1>z DEF IInv, Owner, Same
  <2>4. Owner' /\ Forgets'
    BY <2>1, <2>3 DEF IInv, Owner, Forgets
  <2>5. Clean'
    BY <2>1, <2>3 DEF IInv, Clean, Same
  <2>6. TxReadsCurrent'
    BY <2>1, <2>3 DEF IInv, Forgets, TxReadsCurrent, Unread
  <2>7. Counted'
    BY <2>1, <2>3 DEF IInv, Counted
  <2>8. Grows'
    BY <2>1, <2>3, <1>n DEF IInv, Grows
  <2>9. WrittenBy(c)' = {}
    BY <2>3 DEF WrittenBy
  <2>10. Traceless'
    BY <2>1, <2>9 DEF IInv, Traceless
  <2> QED BY <2>4, <2>5, <2>6, <2>7, <2>8, <2>10 DEF Parts
<1>8. ASSUME NEW c \in Clients, TxGet(c) PROVE Parts'
  <2>1. PICK r \in Rows : client' = [client EXCEPT ![c].seen = [row |-> r, content |-> live[r]]]
    BY <1>8 DEF TxGet, TxRead
  <2>2. /\ Same(c) /\ UNCHANGED <<live, saved, open, writes, failed>> /\ client[c].step = "inside"
        /\ client'[c].step = "inside" /\ client'[c].wrote = client[c].wrote
        /\ client'[c].seen.row = r /\ client'[c].seen.content = live[r]
    BY <1>8, <1>a, <2>1 DEF TxGet, dbVars, Same, Client
  <2>3. \A d \in Clients : client'[d].wrote = client[d].wrote /\ client'[d].step = client[d].step
    BY <2>2 DEF Same
  <2>4. open = c
    BY <2>2 DEF IInv, Owner
  <2>5. Owner' /\ Clean' /\ Counted' /\ Grows'
    BY <2>2, <2>3 DEF IInv, Owner, Clean, Counted, Grows
  <2>6. Forgets'
    BY <2>2 DEF IInv, Forgets, Same
  <2>7. TxReadsCurrent'
    <3>1. live[r] >= saved[r] /\ live[r] >= client[c].wrote[r]
      BY <2>4 DEF IInv, Grows
    <3> QED BY <2>2, <2>3, <3>1 DEF IInv, TxReadsCurrent, Same
  <2>8. Traceless'
    <3>1. \A d \in Clients : WrittenBy(d)' = WrittenBy(d)
      BY <2>3 DEF WrittenBy
    <3> QED BY <2>2, <3>1 DEF IInv, Traceless
  <2> QED BY <2>5, <2>6, <2>7, <2>8 DEF Parts
<1>9. ASSUME NEW c \in Clients, TxPut(c) PROVE Parts'
  <2>1. PICK r \in Rows : /\ live' = [live EXCEPT ![r] = writes + 1]
                          /\ client' = [client EXCEPT ![c].wrote[r] = writes + 1, ![c].seen = Unread]
    BY <1>9 DEF TxPut
  <2>2. /\ Same(c) /\ UNCHANGED <<saved, open, failed>> /\ writes' = writes + 1
        /\ client[c].step = "inside" /\ client'[c].step = "inside" /\ client'[c].seen = Unread
        /\ client'[c].wrote = [client[c].wrote EXCEPT ![r] = writes + 1]
    BY <1>9, <1>a, <2>1 DEF TxPut, Same, Client
  <2>3. \A s \in Rows : client'[c].wrote[s] = IF s = r THEN writes + 1 ELSE client[c].wrote[s]
    <3>1. client[c].wrote \in [Rows -> Content]
      BY <1>a DEF Client
    <3> QED BY <2>2, <3>1
  <2>4. \A s \in Rows : live'[s] = IF s = r THEN writes + 1 ELSE live[s]
    BY <2>1, <1>a
  <2>5. open = c /\ \A d \in Clients : client'[d].step = client[d].step
    BY <2>2 DEF IInv, Owner, Same
  <2>6. \A s \in Rows : live[s] <= writes /\ saved[s] <= writes /\ client[c].wrote[s] <= writes
    BY DEF IInv, Counted
  <2>7. Owner' /\ Forgets'
    BY <2>2, <2>5 DEF IInv, Owner, Forgets, Same
  <2>8. Clean'
    BY <2>2, <2>5 DEF IInv, Clean, Same
  <2>9. Counted'
    <3>1. \A s \in Rows : live'[s] <= writes' /\ saved'[s] <= writes' /\ client'[c].wrote[s] <= writes'
      BY <2>2, <2>3, <2>4, <2>6, <1>n, <1>a
    <3>2. \A d \in Clients \ {c}, s \in Rows : client'[d].wrote[s] <= writes'
      BY <2>2, <1>n, <1>a DEF IInv, Counted, Same
    <3>3. \A n \in failed' : n <= writes'
      BY <2>2, <1>a DEF IInv, Counted
    <3> QED BY <3>1, <3>2, <3>3 DEF Counted
  <2>10. Grows'
    <3>1. \A s \in Rows : live'[s] >= saved[s] /\ live'[s] >= client'[c].wrote[s]
      BY <2>3, <2>4, <2>5, <2>6, <1>n, <1>a, StoreAssumption DEF IInv, Grows
    <3> QED BY <2>2, <2>5, <3>1 DEF Grows
  <2>11. TxReadsCurrent'
    BY <2>2, <2>5, StoreAssumption DEF IInv, TxReadsCurrent, Same, Unread
  <2>12. Traceless'
    <3>1. \A s \in Rows : live'[s] \notin failed
      <4>1. writes + 1 \notin failed
        BY <1>a DEF IInv, Counted
      <4> QED BY <2>4, <4>1 DEF IInv, Traceless
    <3>2. \A s \in Rows : saved[s] \notin failed /\ saved[s] \notin WrittenBy(c)
      BY <2>5, StoreAssumption DEF IInv, Traceless
    <3>3. WrittenBy(c)' \subseteq WrittenBy(c) \union {writes + 1}
      BY <2>3 DEF WrittenBy
    <3>4. \A s \in Rows : saved[s] # writes + 1
      BY <2>6, <1>n, <1>a
    <3>5. \A s \in Rows : saved[s] \notin WrittenBy(c)'
      BY <3>2, <3>3, <3>4
    <3> QED BY <2>2, <2>5, <3>1, <3>2, <3>5 DEF Traceless
  <2> QED BY <2>7, <2>8, <2>9, <2>10, <2>11, <2>12 DEF Parts
<1>10. ASSUME NEW c \in Clients, Commit(c) PROVE Parts'
  <2>1. /\ Same(c) /\ UNCHANGED <<live, writes, failed>> /\ open' = None /\ saved' = Closed
        /\ client[c].step = "inside" /\ client'[c].step = "committed" /\ client'[c].seen = Unread
        /\ client'[c].wrote = client[c].wrote
    BY <1>10, <1>a DEF Commit, Same, Client
  <2>2. open = c /\ \A d \in Clients : client'[d].step # "inside" /\ client'[d].wrote = client[d].wrote
    BY <2>1 DEF IInv, Owner, Same
  <2>3. Owner' /\ Forgets' /\ TxReadsCurrent'
    BY <2>1, <2>2 DEF IInv, Owner, Forgets, Same, TxReadsCurrent
  <2>4. Clean'
    BY <2>1 DEF IInv, Clean, Same
  <2>5. Counted'
    BY <2>1, <2>2, <1>n, <1>a DEF IInv, Counted, Closed
  <2>6. Grows' /\ Traceless'
    BY <2>1 DEF IInv, Grows, Traceless
  <2> QED BY <2>3, <2>4, <2>5, <2>6 DEF Parts
<1>11. ASSUME NEW c \in Clients, Rollback(c) PROVE Parts'
  <2>1. /\ Same(c) /\ writes' = writes /\ failed' = failed \union WrittenBy(c)
        /\ open' = None /\ live' = saved /\ saved' = Closed
        /\ client[c].step = "inside" /\ client'[c] = Idle
    BY <1>11, <1>a DEF Rollback, Restored, Same
  <2>2. open = c /\ \A d \in Clients : client'[d].step # "inside"
    BY <2>1, <1>i DEF IInv, Owner, Same
  <2>3. Owner' /\ Forgets' /\ TxReadsCurrent' /\ Clean'
    <3>1. Owner' /\ TxReadsCurrent'
      BY <2>1, <2>2 DEF Owner, TxReadsCurrent
    <3>2. Forgets' /\ Clean'
      BY <2>1, <1>i DEF IInv, Forgets, Clean, Same
    <3> QED BY <3>1, <3>2
  <2>4. Counted'
    <3>1. \A n \in failed' : n <= writes'
      BY <2>1, <1>w DEF IInv, Counted
    <3>2. \A r \in Rows : live'[r] <= writes' /\ saved'[r] <= writes'
      BY <2>1, <1>a DEF IInv, Counted, Closed
    <3>3. \A d \in Clients, r \in Rows : client'[d].wrote[r] <= writes'
      BY <2>1, <1>i, <1>a DEF IInv, Counted, Same
    <3> QED BY <3>1, <3>2, <3>3 DEF Counted
  <2>5. Grows'
    BY <2>1 DEF Grows
  <2>6. Traceless'
    BY <2>1, <2>2 DEF IInv, Traceless
  <2> QED BY <2>3, <2>4, <2>5, <2>6 DEF Parts
<1>12. ASSUME UNCHANGED <<live, saved, open, writes, failed, client>> PROVE Parts'
  BY <1>12 DEF IInv, Parts, Owner, Clean, Counted, Forgets, Grows, Traceless, TxReadsCurrent, WrittenBy
<1>13. ASSUME Crash PROVE Parts'
  <2>1. /\ open' = None /\ saved' = Closed /\ writes' = writes /\ client' = [c \in Clients |-> Idle]
        /\ live' = [r \in Rows |-> Committed(r)]
        /\ failed' = failed \union UNION {WrittenBy(c) : c \in Clients \intersect {open}}
    BY <1>13 DEF Crash
  <2>2. \A n \in failed' : n \in failed \/ (open \in Clients /\ n \in WrittenBy(open))
    BY <2>1
  <2>3. \A r \in Rows : /\ live'[r] = Committed(r) /\ Committed(r) <= writes
                        /\ open \in Clients => Committed(r) = saved[r]
    BY <2>1, StoreAssumption DEF Committed, IInv, Counted
  <2>4. Owner' /\ Forgets' /\ TxReadsCurrent' /\ Clean'
    BY <2>1, <1>i DEF Owner, Forgets, TxReadsCurrent, Clean
  <2>5. Counted'
    <3>1. \A n \in failed' : n <= writes'
      BY <2>1, <2>2, <1>w DEF IInv, Counted
    <3> QED BY <2>1, <2>3, <3>1, <1>i, <1>a DEF Counted, Closed
  <2>6. Grows'
    BY <2>1 DEF Grows
  <2>7. Traceless'
    <3>1. \A r \in Rows : Committed(r) \notin failed
      BY <1>a DEF Committed, IInv, Traceless
    <3>2. \A r \in Rows : open \in Clients => Committed(r) \notin WrittenBy(open)
      BY <2>3 DEF IInv, Traceless
    <3>3. \A r \in Rows : live'[r] \notin failed'
      BY <2>2, <2>3, <3>1, <3>2
    <3> QED BY <2>1, <3>3 DEF Traceless
  <2> QED BY <2>4, <2>5, <2>6, <2>7 DEF Parts
<1>14. ASSUME NEW r \in Rows, Evict(r) PROVE Parts'
  BY <1>12, <1>14 DEF Evict, dbVars
<1>15. CASE UNCHANGED vars
  BY <1>q, <1>12, <1>15 DEF vars
<1> QED
  BY <1>q, <1>1, <1>2, <1>3, <1>4, <1>5, <1>6, <1>7, <1>8, <1>9, <1>10, <1>11, <1>13, <1>14, <1>15 DEF Next, Inside

LEMMA Traced == IInv => NoTrace
BY StoreAssumption DEF IInv, Typed, TypeOK, Traceless, NoTrace, Committed

(* A transaction that failed, or was cut off, leaves no row of its own     *)
(* behind.  It needs that the restored rows are older than the             *)
(* transaction's first write, and that no two hold the connection's one    *)
(* transaction.                                                            *)
THEOREM FailedLeavesNoTrace == Spec => []NoTrace
BY InitIInv, StepIInv, Traced, PTL DEF Spec

(* A transaction reads its own writes, and nothing older than its start.   *)
THEOREM TransactionReadsCurrent == Spec => []TxReadsCurrent
<1>1. IInv => TxReadsCurrent
  BY DEF IInv
<1> QED
  BY InitIInv, StepIInv, <1>1, PTL DEF Spec

-----------------------------------------------------------------------------
(* The cache.                                                              *)

Wrote(c) == \E r \in Rows : client[c].wrote[r] # 0
Dirty == \E c \in Clients : Invalidates(c)
Changing == \E c \in Clients : open = c /\ Wrote(c)

(* An entry that did not race, and that no invalidation is on its way to   *)
(* clear, is the committed row; the connection sees the same one unless a  *)
(* transaction that wrote is still open.                                   *)
Fresh ==
  \A r \in Rows : \/ cache[r] = None \/ r \in raced \/ Dirty
                  \/ cache[r] = Committed(r) /\ (cache[r] = live[r] \/ Changing)

FInv == IInv /\ Fresh

LEMMA StepFresh == FInv /\ [Next]_vars => Fresh'
<1> SUFFICES ASSUME IInv, Fresh, [Next]_vars PROVE Fresh'
  BY DEF FInv
<1> USE StoreAssumption
<1>a. /\ client \in [Clients -> Client] /\ live \in [Rows -> Content] /\ saved \in [Rows -> Content]
      /\ cache \in [Rows -> Content \union {None}] /\ open \in Clients \union {None}
  BY DEF IInv, Typed, TypeOK, Client
<1>o. ASSUME NEW c \in Clients, Same(c), ~ Invalidates(c), open # c, UNCHANGED <<live, saved, open, cache, raced>>
      PROVE  Fresh'
  <2>1. Dirty => Dirty'
    BY <1>o DEF Dirty, Invalidates, Same
  <2>2. Changing => Changing'
    BY <1>o DEF Changing, Wrote, Same
  <2>3. \A r \in Rows : Committed(r)' = Committed(r)
    BY <1>o DEF Committed
  <2> QED BY <1>o, <2>1, <2>2, <2>3 DEF Fresh
<1>e. \A c \in Clients : open = c <=> client[c].step = "inside"
  BY DEF IInv, Owner
<1>1. ASSUME NEW c \in Clients, Miss(c) \/ Find(c) \/ Ask(c) PROVE Fresh'
  <2>1. Same(c) /\ UNCHANGED <<live, saved, open, cache, raced>> /\ client[c].step \in {"idle", "missed"}
    BY <1>1, <1>a DEF Miss, Find, Ask, dbVars, cacheVars, Same
  <2> QED BY <2>1, <1>e, <1>o DEF Invalidates
<1>2. ASSUME NEW c \in Clients, Set(c) PROVE Fresh'
  <2> DEFINE r == client[c].row
  <2>1. /\ Same(c) /\ UNCHANGED <<live, saved, open>> /\ client[c].step = "found"
        /\ r \in Rows /\ cache' = [cache EXCEPT ![r] = client[c].content]
        /\ r \notin raced' => client[c].content = live[r] /\ client[c].content = Committed(r)
        /\ \A s \in Rows \ {r} : s \in raced' <=> s \in raced
    BY <1>2, <1>a DEF Set, dbVars, Same, IInv, Typed, Reading, Placed
  <2>2. Dirty => Dirty'
    BY <2>1 DEF Dirty, Invalidates, Same
  <2>3. Changing => Changing'
    BY <2>1, <1>e DEF Changing, Wrote, Same
  <2>4. \A s \in Rows : Committed(s)' = Committed(s)
    BY <2>1 DEF Committed
  <2>5. cache'[r] = client[c].content /\ \A s \in Rows \ {r} : cache'[s] = cache[s]
    BY <2>1, <1>a
  <2> QED BY <2>1, <2>2, <2>3, <2>4, <2>5 DEF Fresh
<1>3. ASSUME NEW c \in Clients, Put(c) PROVE Fresh'
  <2>1. client'[c].step = "written"
    BY <1>3, <1>a DEF Put, Client
  <2> QED BY <2>1 DEF Fresh, Dirty, Invalidates
<1>4. ASSUME NEW c \in Clients, Finish(c) PROVE Fresh'
  <2>1. Same(c) /\ UNCHANGED <<live, saved, open>> /\ client[c].step \in {"written", "committed"}
    BY <1>4, <1>a DEF Finish, dbVars, Same
  <2>2. CASE Invalidates(c)
    BY <1>4, <2>2 DEF Finish, Fresh
  <2>3. CASE ~ Invalidates(c)
    <3>1. UNCHANGED <<cache, raced>>
      BY <1>4, <2>3 DEF Finish, cacheVars
    <3> QED BY <2>1, <2>3, <3>1, <1>e, <1>o
  <2> QED BY <2>2, <2>3
<1>5. ASSUME NEW c \in Clients, Begin(c) PROVE Fresh'
  <2>1. /\ Same(c) /\ UNCHANGED <<live, cache, raced>> /\ open = None /\ open' = c /\ saved' = live
        /\ HasTurn(c)
    BY <1>5, <1>a DEF Begin, HasTurn, cacheVars, Same
  <2>2. client[c].step = "queued"
    <3>1. waiting \in Seq(Clients) /\ waiting # <<>> /\ c = Head(waiting)
      BY <2>1 DEF HasTurn, IInv, Typed, TypeOK
    <3>2. 1 \in 1..Len(waiting) /\ c = waiting[1]
      BY <3>1
    <3> QED BY <3>2 DEF IInv, Queue
  <2>3. Dirty => Dirty'
    BY <2>1, <2>2 DEF Dirty, Invalidates, Same
  <2>4. ~ Changing
    BY <2>1 DEF Changing
  <2>5. \A r \in Rows : Committed(r) = live[r] /\ Committed(r)' = live[r]
    BY <2>1 DEF Committed
  <2> QED BY <2>1, <2>3, <2>4, <2>5 DEF Fresh
<1>6. ASSUME NEW c \in Clients, TxGet(c) PROVE Fresh'
  <2>1. /\ Same(c) /\ UNCHANGED <<live, saved, open, cache, raced>>
        /\ client'[c].step = client[c].step /\ client'[c].wrote = client[c].wrote
    BY <1>6, <1>a DEF TxGet, dbVars, cacheVars, Same, Client
  <2>2. \A d \in Clients : client'[d].step = client[d].step /\ client'[d].wrote = client[d].wrote
    BY <2>1 DEF Same
  <2>3. (Dirty => Dirty') /\ (Changing => Changing')
    BY <2>1, <2>2 DEF Dirty, Invalidates, Changing, Wrote
  <2>4. \A s \in Rows : Committed(s)' = Committed(s)
    BY <2>1 DEF Committed
  <2> QED BY <2>1, <2>3, <2>4 DEF Fresh
<1>7. ASSUME NEW c \in Clients, TxPut(c) PROVE Fresh'
  <2>1. PICK r \in Rows : client' = [client EXCEPT ![c].wrote[r] = writes + 1, ![c].seen = Unread]
    BY <1>7 DEF TxPut
  <2>2. /\ Same(c) /\ UNCHANGED <<saved, open, cache, raced>> /\ client[c].step = "inside"
        /\ client'[c].wrote = [client[c].wrote EXCEPT ![r] = writes + 1]
    BY <1>7, <1>a, <2>1 DEF TxPut, cacheVars, Same, Client
  <2>3. open = c /\ open' = c /\ writes + 1 # 0
    BY <2>2, <1>e, Zero DEF IInv, Typed, TypeOK
  <2>4. client[c].wrote \in [Rows -> Content]
    BY <1>a DEF Client
  <2>5. client'[c].wrote[r] # 0
    BY <2>2, <2>3, <2>4
  <2>6. Changing'
    BY <2>3, <2>5 DEF Changing, Wrote
  <2>7. Dirty => Dirty'
    BY <2>2 DEF Dirty, Invalidates, Same
  <2>8. \A s \in Rows : Committed(s)' = Committed(s)
    BY <2>2, <2>3 DEF Committed
  <2> QED BY <2>2, <2>6, <2>7, <2>8 DEF Fresh
<1>8. ASSUME NEW c \in Clients, Commit(c) PROVE Fresh'
  <2>1. /\ Same(c) /\ UNCHANGED <<live, cache, raced>> /\ open' = None
        /\ client[c].step = "inside" /\ client'[c].step = "committed" /\ client'[c].wrote = client[c].wrote
    BY <1>8, <1>a DEF Commit, cacheVars, Same, Client
  <2>2. open = c
    BY <2>1, <1>e
  <2>3. CASE Wrote(c)
    BY <2>1, <2>3 DEF Wrote, Dirty, Invalidates, Fresh
  <2>4. CASE ~ Wrote(c)
    <3>1. ~ Changing
      BY <2>2, <2>4 DEF Changing
    <3>2. Dirty => Dirty'
      BY <2>1 DEF Dirty, Invalidates, Same
    <3>3. \A r \in Rows : Committed(r)' = live[r]
      BY <2>1 DEF Committed
    <3> QED BY <2>1, <3>1, <3>2, <3>3 DEF Fresh
  <2> QED BY <2>3, <2>4
<1>9. ASSUME NEW c \in Clients, Rollback(c) PROVE Fresh'
  <2>1. /\ Same(c) /\ UNCHANGED <<cache, raced>> /\ open' = None /\ live' = saved /\ client[c].step = "inside"
    BY <1>9, <1>a DEF Rollback, Restored, cacheVars, Same
  <2>2. open = c
    BY <2>1, <1>e
  <2>3. Dirty => Dirty'
    BY <2>1 DEF Dirty, Invalidates, Same
  <2>4. \A r \in Rows : Committed(r)' = saved[r] /\ Committed(r) = saved[r]
    BY <2>1, <2>2 DEF Committed
  <2> QED BY <2>1, <2>3, <2>4 DEF Fresh
<1>10. ASSUME NEW r \in Rows, Evict(r) PROVE Fresh'
  <2>1. /\ UNCHANGED <<live, saved, open, client>> /\ cache' = [cache EXCEPT ![r] = None]
        /\ \A s \in Rows \ {r} : s \in raced' <=> s \in raced
    BY <1>10 DEF Evict, dbVars
  <2>2. cache'[r] = None /\ \A s \in Rows \ {r} : cache'[s] = cache[s]
    BY <2>1, <1>a
  <2>3. (Dirty' <=> Dirty) /\ (Changing' <=> Changing) /\ \A s \in Rows : Committed(s)' = Committed(s)
    BY <2>1 DEF Dirty, Invalidates, Changing, Wrote, Committed
  <2> QED BY <2>1, <2>2, <2>3 DEF Fresh
<1>11. CASE Crash
  BY <1>11 DEF Crash, Fresh
<1>12. CASE UNCHANGED vars
  BY <1>12 DEF vars, Fresh, Dirty, Invalidates, Changing, Wrote, Committed
<1> QED
  BY <1>1, <1>2, <1>3, <1>4, <1>5, <1>6, <1>7, <1>8, <1>9, <1>10, <1>11, <1>12 DEF Next, Inside

LEMMA FreshEnough == FInv => FreshUnlessRaced
<1> SUFFICES ASSUME FInv PROVE FreshUnlessRaced
  OBVIOUS
<1>1. Dirty => \E c \in Clients : client[c].step \in {"written", "committed"}
  BY DEF Dirty, Invalidates
<1> QED BY <1>1 DEF FInv, Fresh, FreshUnlessRaced

(* Unless its read raced, a cache entry is the committed row, once the     *)
(* write that replaced that row has invalidated.  It needs that the        *)
(* connection shows the committed rows as long as no transaction has       *)
(* written: an entry is filled from what the connection shows, and judged  *)
(* by what is committed.                                                   *)
THEOREM CacheIsFresh == Spec => []FreshUnlessRaced
<1>1. Init => FInv
  BY InitIInv DEF FInv, Init, Fresh
<1>2. FInv /\ [Next]_vars => FInv'
  BY StepIInv, StepFresh DEF FInv
<1> QED
  BY <1>1, <1>2, FreshEnough, PTL DEF Spec
=============================================================================
