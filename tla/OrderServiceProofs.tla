------------------------- MODULE OrderServiceProofs -------------------------
(***************************************************************************)
(* OrderService for any sets of attempts, pods and checkouts, any number   *)
(* of line items, any pool size and any number of crashes and shutdowns:   *)
(* the inductive invariant IInv holds, hence one order per key, answers    *)
(* and events that name durable orders, and the promise is kept.           *)
(***************************************************************************)
EXTENDS OrderService, TLAPS

LEMMA ConnectedType == Connected \subseteq BOOLEAN
  BY DEF Connected

\* No attempt has arrived, so every conjunct of the invariant is vacuous.
LEMMA InitIInv == Init => IInv
<1> SUFFICES ASSUME Init PROVE IInv
  OBVIOUS
<1> USE DEF Init
<1>1. TypeOK
  <2>1. answer \in [Requests -> [status : {0, 201, 200, 422, 500},
                                 order : Requests \cup {None},
                                 items : 0 .. NumItems]]
    BY NumItemsAssumption DEF NoAnswer
  <2>2. producer \in [Pods -> BOOLEAN]
    BY ConnectedType
  <2> QED
    BY <2>1, <2>2, NumItemsAssumption, MaxStopsAssumption DEF TypeOK
<1>2. KeyInv
  BY DEF KeyInv
<1>3. ASSUME NEW r \in Requests PROVE HandlerInv(r) /\ RowInv(r) /\ SavedInv(r)
  BY DEF HandlerInv, RowInv, SavedInv, InTx, NoAnswer
<1> QED BY <1>1, <1>2, <1>3 DEF IInv

\* One step per action; under it the three parts of the invariant.  The key
\* part is at stake where a row appears (InsertOrder), where an attempt gets
\* its checkout (Receive: it has no row yet) and nowhere else, because no
\* transaction ever leaves "aborted".
LEMMA StepIInv == IInv /\ [Next]_vars => IInv'
<1> SUFFICES ASSUME IInv, [Next]_vars PROVE IInv'
  OBVIOUS
<1> USE NumItemsAssumption, MaxStopsAssumption, NoneAssumption
    DEF Handling, InTx, NoAnswer, Goto, Rollback, InternalServerError,
        Committed, Matches, Holders, db, process
<1>1. ASSUME NEW r \in Requests, NEW c \in Checkouts, NEW p \in Pods, Receive(r, c, p)
     PROVE  IInv'
  <2> USE <1>1 DEF Receive
  <2>1. TypeOK'
    BY DEF IInv, TypeOK
  <2>2. KeyInv'
    BY DEF IInv, TypeOK, KeyInv, HandlerInv, RowInv, SameKey
  <2>3. ASSUME NEW q \in Requests
       PROVE  (HandlerInv(q) /\ RowInv(q) /\ SavedInv(q))'
    BY DEF IInv, TypeOK, HandlerInv, RowInv, SavedInv, SameKey
  <2> QED BY <2>1, <2>2, <2>3 DEF IInv
<1>2. ASSUME NEW r \in Requests, Reject(r)
     PROVE  IInv'
  <2> USE <1>2 DEF Reject
  <2>1. TypeOK'
    BY DEF IInv, TypeOK
  <2>2. KeyInv'
    BY DEF IInv, TypeOK, KeyInv, HandlerInv, RowInv, SameKey
  <2>3. ASSUME NEW q \in Requests
       PROVE  (HandlerInv(q) /\ RowInv(q) /\ SavedInv(q))'
    BY DEF IInv, TypeOK, HandlerInv, RowInv, SavedInv, SameKey
  <2> QED BY <2>1, <2>2, <2>3 DEF IInv
<1>3. ASSUME NEW r \in Requests, Begin(r)
     PROVE  IInv'
  <2> USE <1>3 DEF Begin
  <2>1. TypeOK'
    BY DEF IInv, TypeOK
  <2>2. KeyInv'
    BY DEF IInv, TypeOK, KeyInv, HandlerInv, RowInv, SameKey
  <2>3. ASSUME NEW q \in Requests
       PROVE  (HandlerInv(q) /\ RowInv(q) /\ SavedInv(q))'
    BY DEF IInv, TypeOK, HandlerInv, RowInv, SavedInv, SameKey
  <2> QED BY <2>1, <2>2, <2>3 DEF IInv
<1>4. ASSUME NEW r \in Requests, Replay(r)
     PROVE  IInv'
  <2> USE <1>4 DEF Replay
  <2>1. TypeOK'
    BY DEF IInv, TypeOK
  <2>2. KeyInv'
    BY DEF IInv, TypeOK, KeyInv, HandlerInv, RowInv, SameKey
  <2>3. ASSUME NEW q \in Requests
       PROVE  (HandlerInv(q) /\ RowInv(q) /\ SavedInv(q))'
    BY DEF IInv, TypeOK, HandlerInv, RowInv, SavedInv, SameKey
  <2> QED BY <2>1, <2>2, <2>3 DEF IInv
<1>5. ASSUME NEW r \in Requests, CheckMissing(r)
     PROVE  IInv'
  <2> USE <1>5 DEF CheckMissing
  <2>1. TypeOK'
    BY DEF IInv, TypeOK
  <2>2. KeyInv'
    BY DEF IInv, TypeOK, KeyInv, HandlerInv, RowInv, SameKey
  <2>3. ASSUME NEW q \in Requests
       PROVE  (HandlerInv(q) /\ RowInv(q) /\ SavedInv(q))'
    BY DEF IInv, TypeOK, HandlerInv, RowInv, SavedInv, SameKey
  <2> QED BY <2>1, <2>2, <2>3 DEF IInv
<1>6. ASSUME NEW r \in Requests, InsertOrder(r)
     PROVE  IInv'
  <2> USE <1>6 DEF InsertOrder
  <2>1. TypeOK'
    BY DEF IInv, TypeOK
  <2>2. KeyInv'
    BY DEF IInv, TypeOK, KeyInv, HandlerInv, RowInv, SameKey
  <2>3. ASSUME NEW q \in Requests
       PROVE  (HandlerInv(q) /\ RowInv(q) /\ SavedInv(q))'
    BY DEF IInv, TypeOK, HandlerInv, RowInv, SavedInv, SameKey
  <2> QED BY <2>1, <2>2, <2>3 DEF IInv
<1>7. ASSUME NEW r \in Requests, InsertConflict(r)
     PROVE  IInv'
  <2> USE <1>7 DEF InsertConflict
  <2>1. TypeOK'
    BY DEF IInv, TypeOK
  <2>2. KeyInv'
    BY DEF IInv, TypeOK, KeyInv, HandlerInv, RowInv, SameKey
  <2>3. ASSUME NEW q \in Requests
       PROVE  (HandlerInv(q) /\ RowInv(q) /\ SavedInv(q))'
    BY DEF IInv, TypeOK, HandlerInv, RowInv, SavedInv, SameKey
  <2> QED BY <2>1, <2>2, <2>3 DEF IInv
<1>8. ASSUME NEW r \in Requests, InsertItem(r)
     PROVE  IInv'
  <2> USE <1>8 DEF InsertItem
  <2>1. TypeOK'
    BY DEF IInv, TypeOK
  <2>2. KeyInv'
    BY DEF IInv, TypeOK, KeyInv, HandlerInv, RowInv, SameKey
  <2>3. ASSUME NEW q \in Requests
       PROVE  (HandlerInv(q) /\ RowInv(q) /\ SavedInv(q))'
    BY DEF IInv, TypeOK, HandlerInv, RowInv, SavedInv, SameKey
  <2> QED BY <2>1, <2>2, <2>3 DEF IInv
<1>9. ASSUME NEW r \in Requests, SendCommit(r)
     PROVE  IInv'
  <2> USE <1>9 DEF SendCommit
  <2>1. TypeOK'
    BY DEF IInv, TypeOK
  <2>2. KeyInv'
    BY DEF IInv, TypeOK, KeyInv, HandlerInv, RowInv, SameKey
  <2>3. ASSUME NEW q \in Requests
       PROVE  (HandlerInv(q) /\ RowInv(q) /\ SavedInv(q))'
    BY DEF IInv, TypeOK, HandlerInv, RowInv, SavedInv, SameKey
  <2> QED BY <2>1, <2>2, <2>3 DEF IInv
<1>10. ASSUME NEW r \in Requests, CommitDone(r)
      PROVE  IInv'
  <2> USE <1>10 DEF CommitDone
  <2>1. TypeOK'
    BY DEF IInv, TypeOK
  <2>2. KeyInv'
    BY DEF IInv, TypeOK, KeyInv, HandlerInv, RowInv, SameKey
  <2>3. ASSUME NEW q \in Requests
       PROVE  (HandlerInv(q) /\ RowInv(q) /\ SavedInv(q))'
    BY DEF IInv, TypeOK, HandlerInv, RowInv, SavedInv, SameKey
  <2> QED BY <2>1, <2>2, <2>3 DEF IInv
<1>11. ASSUME NEW r \in Requests, CommitFailed(r)
      PROVE  IInv'
  <2> USE <1>11 DEF CommitFailed
  <2>1. TypeOK'
    BY DEF IInv, TypeOK
  <2>2. KeyInv'
    BY DEF IInv, TypeOK, KeyInv, HandlerInv, RowInv, SameKey
  <2>3. ASSUME NEW q \in Requests
       PROVE  (HandlerInv(q) /\ RowInv(q) /\ SavedInv(q))'
    BY DEF IInv, TypeOK, HandlerInv, RowInv, SavedInv, SameKey
  <2> QED BY <2>1, <2>2, <2>3 DEF IInv
<1>12. ASSUME NEW r \in Requests, DbCallFails(r)
      PROVE  IInv'
  <2> USE <1>12 DEF DbCallFails
  <2>1. TypeOK'
    BY DEF IInv, TypeOK
  <2>2. KeyInv'
    BY DEF IInv, TypeOK, KeyInv, HandlerInv, RowInv, SameKey
  <2>3. ASSUME NEW q \in Requests
       PROVE  (HandlerInv(q) /\ RowInv(q) /\ SavedInv(q))'
    BY DEF IInv, TypeOK, HandlerInv, RowInv, SavedInv, SameKey
  <2> QED BY <2>1, <2>2, <2>3 DEF IInv
<1>13. ASSUME NEW r \in Requests, Announce(r)
      PROVE  IInv'
  <2> USE <1>13 DEF Announce
  <2>1. TypeOK'
    BY DEF IInv, TypeOK
  <2>2. KeyInv'
    BY DEF IInv, TypeOK, KeyInv, HandlerInv, RowInv, SameKey
  <2>3. ASSUME NEW q \in Requests
       PROVE  (HandlerInv(q) /\ RowInv(q) /\ SavedInv(q))'
    BY DEF IInv, TypeOK, HandlerInv, RowInv, SavedInv, SameKey
  <2> QED BY <2>1, <2>2, <2>3 DEF IInv
<1>14. ASSUME NEW r \in Requests, Respond(r)
      PROVE  IInv'
  <2> USE <1>14 DEF Respond
  <2>1. TypeOK'
    BY DEF IInv, TypeOK
  <2>2. KeyInv'
    BY DEF IInv, TypeOK, KeyInv, HandlerInv, RowInv, SameKey
  <2>3. ASSUME NEW q \in Requests
       PROVE  (HandlerInv(q) /\ RowInv(q) /\ SavedInv(q))'
    BY DEF IInv, TypeOK, HandlerInv, RowInv, SavedInv, SameKey
  <2> QED BY <2>1, <2>2, <2>3 DEF IInv
<1>15. ASSUME NEW r \in Requests, DbCommit(r)
      PROVE  IInv'
  <2> USE <1>15 DEF DbCommit
  <2>1. TypeOK'
    BY DEF IInv, TypeOK
  <2>2. KeyInv'
    BY DEF IInv, TypeOK, KeyInv, HandlerInv, RowInv, SameKey
  <2>3. ASSUME NEW q \in Requests
       PROVE  (HandlerInv(q) /\ RowInv(q) /\ SavedInv(q))'
    BY DEF IInv, TypeOK, HandlerInv, RowInv, SavedInv, SameKey
  <2> QED BY <2>1, <2>2, <2>3 DEF IInv
<1>16. ASSUME NEW r \in Requests, DbAbort(r)
      PROVE  IInv'
  <2> USE <1>16 DEF DbAbort
  <2>1. TypeOK'
    BY DEF IInv, TypeOK
  <2>2. KeyInv'
    BY DEF IInv, TypeOK, KeyInv, HandlerInv, RowInv, SameKey
  <2>3. ASSUME NEW q \in Requests
       PROVE  (HandlerInv(q) /\ RowInv(q) /\ SavedInv(q))'
    BY DEF IInv, TypeOK, HandlerInv, RowInv, SavedInv, SameKey
  <2> QED BY <2>1, <2>2, <2>3 DEF IInv
<1>17. ASSUME NEW r \in Requests, EmitSucceeds(r)
      PROVE  IInv'
  <2> USE <1>17 DEF EmitSucceeds
  <2>1. TypeOK'
    BY DEF IInv, TypeOK
  <2>2. KeyInv'
    BY DEF IInv, TypeOK, KeyInv, HandlerInv, RowInv, SameKey
  <2>3. ASSUME NEW q \in Requests
       PROVE  (HandlerInv(q) /\ RowInv(q) /\ SavedInv(q))'
    BY DEF IInv, TypeOK, HandlerInv, RowInv, SavedInv, SameKey
  <2> QED BY <2>1, <2>2, <2>3 DEF IInv
<1>18. ASSUME NEW r \in Requests, EmitFails(r)
      PROVE  IInv'
  <2> USE <1>18 DEF EmitFails
  <2>1. TypeOK'
    BY DEF IInv, TypeOK
  <2>2. KeyInv'
    BY DEF IInv, TypeOK, KeyInv, HandlerInv, RowInv, SameKey
  <2>3. ASSUME NEW q \in Requests
       PROVE  (HandlerInv(q) /\ RowInv(q) /\ SavedInv(q))'
    BY DEF IInv, TypeOK, HandlerInv, RowInv, SavedInv, SameKey
  <2> QED BY <2>1, <2>2, <2>3 DEF IInv
<1>19. ASSUME NEW p \in Pods, Terminate(p) PROVE IInv'
  <2> USE <1>19 DEF Terminate
  <2>1. TypeOK'
    BY DEF IInv, TypeOK
  <2>2. KeyInv'
    BY DEF IInv, KeyInv, SameKey
  <2>3. ASSUME NEW q \in Requests
       PROVE  (HandlerInv(q) /\ RowInv(q) /\ SavedInv(q))'
    BY DEF IInv, TypeOK, HandlerInv, RowInv, SavedInv, SameKey
  <2> QED BY <2>1, <2>2, <2>3 DEF IInv
<1>20. ASSUME NEW p \in Pods, Exit(p) PROVE IInv'
  <2> USE <1>20 DEF Vanish, On, Exit
  <2>1. TypeOK'
    BY DEF IInv, TypeOK
  <2>2. KeyInv'
    BY DEF IInv, KeyInv, SameKey
  <2>3. ASSUME NEW q \in Requests
       PROVE  (HandlerInv(q) /\ RowInv(q) /\ SavedInv(q))'
    BY DEF IInv, TypeOK, HandlerInv, RowInv, SavedInv, SameKey
  <2> QED BY <2>1, <2>2, <2>3 DEF IInv
<1>21. ASSUME NEW p \in Pods, Crash(p) PROVE IInv'
  <2> USE <1>21 DEF Vanish, On, Crash
  <2>1. TypeOK'
    BY DEF IInv, TypeOK
  <2>2. KeyInv'
    BY DEF IInv, KeyInv, SameKey
  <2>3. ASSUME NEW q \in Requests
       PROVE  (HandlerInv(q) /\ RowInv(q) /\ SavedInv(q))'
    BY DEF IInv, TypeOK, HandlerInv, RowInv, SavedInv, SameKey
  <2> QED BY <2>1, <2>2, <2>3 DEF IInv
<1>22. ASSUME NEW p \in Pods, Restart(p) PROVE IInv'
  <2> USE <1>22 DEF Restart
  <2>1. TypeOK'
    <3>1. producer' \in [Pods -> BOOLEAN]
      BY ConnectedType DEF IInv, TypeOK
    <3> QED BY <3>1 DEF IInv, TypeOK
  <2>2. KeyInv'
    BY DEF IInv, KeyInv, SameKey
  <2>3. ASSUME NEW q \in Requests
       PROVE  (HandlerInv(q) /\ RowInv(q) /\ SavedInv(q))'
    BY DEF IInv, TypeOK, HandlerInv, RowInv, SavedInv, SameKey
  <2> QED BY <2>1, <2>2, <2>3 DEF IInv
<1>23. CASE UNCHANGED vars
  BY <1>23 DEF vars, IInv, TypeOK, KeyInv, HandlerInv, RowInv, SavedInv, SameKey
<1> QED
  BY <1>1, <1>2, <1>3, <1>4, <1>5, <1>6, <1>7, <1>8, <1>9, <1>10, <1>11, <1>12, <1>13, <1>14, <1>15, <1>16, <1>17, <1>18, <1>19, <1>20, <1>21, <1>22, <1>23
  DEF Next, HandlerStep, DbStep

LEMMA Invariance == Spec => []IInv
  BY InitIInv, StepIInv, PTL DEF Spec

\* Every variable keeps its type: handlers, transactions, rows, answers.
THEOREM TypeCorrect == Spec => []TypeOK
<1>1. IInv => TypeOK
  BY DEF IInv
<1> QED BY <1>1, Invariance, PTL

\* At most one order is ever durable under one idempotency key, whatever
\* attempts, retries, crashes and ambiguous commits there are.
THEOREM OneOrderPerKeyCorrect == Spec => []OneOrderPerKey
<1>1. IInv => OneOrderPerKey
  BY DEF IInv, KeyInv, OneOrderPerKey, Committed
<1> QED BY <1>1, Invariance, PTL

\* A 200 or 201 names a durable, complete order of the attempt or its key.
THEOREM AnswersCorrect == Spec => []AnswersNameStoredOrders
<1>1. IInv => AnswersNameStoredOrders
  BY DEF IInv, TypeOK, SavedInv, RowInv, AnswersNameStoredOrders, Committed
<1> QED BY <1>1, Invariance, PTL

\* No event is published, or about to be, for an order that is not durable.
THEOREM EventsCorrect == Spec => []EventsNameStoredOrders
<1>1. IInv => EventsNameStoredOrders
  BY DEF IInv, TypeOK, SavedInv, RowInv, EventsNameStoredOrders, Committed
<1> QED BY <1>1, Invariance, PTL

-----------------------------------------------------------------------------
(* OrderService implements OrderPromise: every step of a handler, of the   *)
(* database or of a pod is one step of the promise or none.                *)

LEMMA InitPromise == Init => Promise!Init
  BY DEF Init, Promise!Init, Promise!Unanswered, Committed, NoAnswer, Told

LEMMA AnswerRefused ==
  ASSUME IInv, NEW r \in Requests, NEW s \in {422, 500},
         pc[r] \notin {"idle", "done"},
         answer' = [answer EXCEPT ![r] = [status |-> s, order |-> None, items |-> 0]],
         UNCHANGED <<keyed, checkout>>, Committed' = Committed
  PROVE  Promise!Refuse(r)
<1>1. checkout[r] # None
  BY NoneAssumption DEF IInv, HandlerInv
<1>2. answer[r] = NoAnswer
  BY DEF IInv, HandlerInv
<1> DEFINE Says(x) == Told' = [Told EXCEPT ![r] = [status |-> x, order |-> None]]
<1>3. Says(s)
  <2> DEFINE told(q) == IF q = r THEN [status |-> s, order |-> None] ELSE Told[q]
  <2>1. \A q \in Requests :
          [status |-> answer'[q].status, order |-> answer'[q].order] = told(q)
    BY DEF Told, IInv, TypeOK
  <2>2. Told' = [q \in Requests |-> told(q)]
    BY <2>1 DEF Told
  <2>3. Told = [q \in Requests |-> Told[q]]
    BY DEF Told
  <2> QED
    BY <2>2, <2>3
<1>4. Told[r] = Promise!Unanswered
  BY <1>2 DEF Told, NoAnswer, Promise!Unanswered
<1>5. \E x \in {422, 500} : Says(x)
  <2> HIDE DEF Says
  <2> QED
    BY <1>3
<1>6. UNCHANGED <<keyed, checkout, Committed>>
  OBVIOUS
<1> QED
  BY <1>1, <1>4, <1>5, <1>6 DEF Promise!Refuse

\* Every step of Next, by action.
LEMMA StepPromise ==
  IInv /\ [Next]_vars => [Promise!Next]_(Promise!promiseVars)
<1> SUFFICES ASSUME IInv, [Next]_vars
             PROVE  Promise!Next \/ UNCHANGED <<keyed, checkout, Committed, answer>>
  BY DEF Promise!promiseVars, Told
<1> USE DEF Goto, Rollback, InternalServerError, Committed, db, process
<1>1. ASSUME NEW r \in Requests, NEW c \in Checkouts, NEW p \in Pods, Receive(r, c, p)
      PROVE  Promise!Arrive(r, c)
  <2>1. UNCHANGED Committed
    BY <1>1 DEF Receive
  <2>2. UNCHANGED Told
    BY <1>1 DEF Receive, Told
  <2> QED
    BY <1>1, <2>1, <2>2 DEF Receive, Promise!Arrive, IInv, HandlerInv
<1>2. ASSUME NEW r \in Requests, Reject(r)
      PROVE  Promise!Refuse(r)
  BY <1>2, AnswerRefused DEF Reject
<1>3. ASSUME NEW r \in Requests, InsertConflict(r) \/ CommitFailed(r) \/ DbCallFails(r)
      PROVE  Promise!Refuse(r)
  <2>1. pc[r] \notin {"idle", "done"}
    BY <1>3 DEF InsertConflict, CommitFailed, DbCallFails, InTx
  <2>2. Committed' = Committed
    BY <1>3 DEF InsertConflict, CommitFailed, DbCallFails, IInv, TypeOK
  <2> QED
    BY <1>3, <2>1, <2>2, AnswerRefused DEF InsertConflict, CommitFailed, DbCallFails
<1>4. ASSUME NEW r \in Requests, Respond(r)
      PROVE  Promise!Confirm(r)
  <2>1. saved[r] \in Committed /\ (saved[r] = r \/ SameKey(r, saved[r]))
    BY <1>4 DEF Respond, IInv, SavedInv
  <2>2. answer[r] = NoAnswer
    BY <1>4 DEF Respond, IInv, HandlerInv
  <2>3. Told' = [Told EXCEPT ![r] =
                   [status |-> IF saved[r] = r THEN 201 ELSE 200, order |-> saved[r]]]
    BY <1>4 DEF Respond, Told, IInv, TypeOK
  <2>4. Told[r] = Promise!Unanswered
    BY <2>2 DEF Told, NoAnswer, Promise!Unanswered
  <2>5. UNCHANGED <<keyed, checkout, Committed>>
    BY <1>4 DEF Respond
  <2> QED
    BY <2>1, <2>3, <2>4, <2>5 DEF Promise!Confirm, Promise!SameKey, SameKey
<1>5. ASSUME NEW r \in Requests, DbCommit(r)
      PROVE  Promise!Store(r)
  <2>1. r \in orderRows /\ checkout[r] # None
    BY <1>5, NoneAssumption DEF DbCommit, IInv, RowInv, HandlerInv
  <2>2. Committed' = Committed \cup {r}
    BY <1>5, <2>1 DEF DbCommit, IInv, TypeOK
  <2>3. ~ \E q \in Committed : q = r \/ SameKey(r, q)
    BY <1>5, <2>1 DEF DbCommit, IInv, KeyInv
  <2>4. UNCHANGED Told
    BY <1>5 DEF DbCommit, Told
  <2> QED
    BY <1>5, <2>1, <2>2, <2>3, <2>4 DEF DbCommit, Promise!Store, Promise!SameKey, SameKey
<1>6. ASSUME NEW r \in Requests,
             \/ Begin(r) \/ Replay(r) \/ CheckMissing(r) \/ InsertOrder(r)
             \/ InsertItem(r) \/ SendCommit(r) \/ CommitDone(r) \/ Announce(r)
             \/ DbAbort(r) \/ EmitSucceeds(r) \/ EmitFails(r)
      PROVE  UNCHANGED <<keyed, checkout, Committed, answer>>
  BY <1>6 DEF Begin, Replay, CheckMissing, InsertOrder, InsertItem, SendCommit,
     CommitDone, Announce, DbAbort, EmitSucceeds, EmitFails,
     IInv, TypeOK, HandlerInv, InTx
<1>7. ASSUME NEW p \in Pods, Terminate(p) \/ Exit(p) \/ Crash(p) \/ Restart(p)
      PROVE  UNCHANGED <<keyed, checkout, Committed, answer>>
  BY <1>7 DEF Terminate, Exit, Crash, Restart, Vanish
<1>8. CASE UNCHANGED vars
  BY <1>8 DEF vars
<1> QED
  BY <1>1, <1>2, <1>3, <1>4, <1>5, <1>6, <1>7, <1>8
  DEF Next, HandlerStep, DbStep, Promise!Next

\* A durable order stays.
LEMMA CommittedStays == IInv /\ [Next]_vars => Committed \subseteq Committed'
<1>1. [Promise!Next]_(Promise!promiseVars) => Committed \subseteq Committed'
  BY DEF Promise!Next, Promise!Arrive, Promise!Store, Promise!Confirm, Promise!Refuse,
     Promise!promiseVars
<1> QED
  BY <1>1, StepPromise

\* The order service keeps its promise.
THEOREM Refinement == Spec => KeepsPromise
  BY InitPromise, StepPromise, Invariance, PTL
  DEF Spec, KeepsPromise, Promise!Spec
=============================================================================
