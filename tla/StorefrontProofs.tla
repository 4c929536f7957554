--------------------------- MODULE StorefrontProofs ---------------------------
(***************************************************************************)
(* The shop for any number of requests, pods, browsers, users, tokens and  *)
(* offers.  auth-service first, whose invariant knows nothing of its       *)
(* callers, then the carts, whose invariant speaks of the BFF as well.     *)
(***************************************************************************)
EXTENDS Storefront, FiniteSetTheorems, SequenceTheorems, TLAPS

-----------------------------------------------------------------------------
(* auth-service.                                                           *)

AuthStatus == {0, 200, 201, 401, 409, 502, 503}
AuthPcs == {"idle", "insert", "signed", "query", "issue", "lookup", "valid", "other",
        "revoked", "fallback", "done"}
AuthHandler == [pc : AuthPcs, pod : AuthPods \cup {None}, user : Users \cup {None},
            token : Tokens \cup {None}, status : AuthStatus]

LEMMA AuthHandlerType == Auth!TypeOK => auth \in [Requests -> AuthHandler]
  BY DEF Auth!TypeOK, AuthHandler, AuthPcs, AuthStatus

LEMMA AuthIdleType == /\ Auth!Idle \in AuthHandler
                      /\ Auth!Idle.pc = "idle" /\ Auth!Idle.status = 0
  BY DEF Auth!Idle, AuthHandler, AuthPcs, AuthStatus

\* What Answer leaves of a handler.
AuthDone(s) == [Auth!Idle EXCEPT !.pc = "done", !.status = s]

LEMMA AuthEndedType ==
    ASSUME NEW s \in AuthStatus
    PROVE  AuthDone(s) \in AuthHandler /\ AuthDone(s).pc = "done" /\ AuthDone(s).status = s
<1>1. Auth!Idle \in AuthHandler
  BY AuthIdleType
<1> QED BY <1>1 DEF AuthDone, AuthHandler, AuthPcs

LEMMA AuthInitIInv == Auth!Init => Auth!IInv
<1> SUFFICES ASSUME Auth!Init PROVE Auth!IInv
  OBVIOUS
<1>1. Auth!Idle \in AuthHandler /\ Auth!Idle.pc = "idle" /\ Auth!Idle.status = 0
  BY AuthIdleType
<1>2. Auth!TypeOK
  BY <1>1 DEF Auth!Init, Auth!TypeOK, AuthHandler, AuthPcs, AuthStatus
<1>3. Auth!AskedInv /\ Auth!AnswerInv /\ Auth!ClearedInv /\ Auth!LearnedInv
  BY <1>1 DEF Auth!Init, Auth!AskedInv, Auth!AnswerInv, Auth!ClearedInv, Auth!LearnedInv
<1> QED BY <1>2, <1>3 DEF Auth!IInv

-----------------------------------------------------------------------------
\* The frame of the steps in which handler q alone moves, without an answer of
\* Redis and without touching what is remembered.
LEMMA AuthOneMoves ==
    ASSUME Auth!IInv, NEW q \in Requests, NEW h \in AuthHandler,
           auth' = [auth EXCEPT ![q] = h],
           h.pc \notin {"valid", "other", "revoked"},
           h.pc \in {"lookup", "fallback"} => h.pod \in AuthPods /\ h.token \in Tokens,
           h.pc \in {"insert", "query", "issue"} => h.user \in Users,
           h.pc # "done" => h.status = 0,
           users' \in SUBSET Users,
           owner' \in [Tokens -> Users \cup {None}],
           Auth!Issued \subseteq Auth!Issued',
           UNCHANGED <<expired, blacklist, cache, Auth!history>>
    PROVE  Auth!IInv'
<1> USE DEF Auth!IInv, Auth!history
<1>1. auth \in [Requests -> AuthHandler] /\ auth' \in [Requests -> AuthHandler]
  BY AuthHandlerType
<1>2. \A r \in Requests : auth'[r] = IF r = q THEN h ELSE auth[r]
  BY <1>1
<1>3. Auth!TypeOK'
  BY <1>1 DEF Auth!TypeOK, AuthHandler, AuthPcs, AuthStatus
<1>4. Auth!AskedInv'
  BY <1>2 DEF Auth!AskedInv
<1>5. Auth!AnswerInv'
  BY <1>2 DEF Auth!AnswerInv
<1>6. Auth!ClearedInv'
  BY <1>2 DEF Auth!ClearedInv
<1>7. Auth!LearnedInv'
  BY <1>2 DEF Auth!LearnedInv, Auth!HoldsAcceptance
<1> QED BY <1>3, <1>4, <1>5, <1>6, <1>7

LEMMA AuthBeginIInv ==
    ASSUME Auth!IInv, NEW q \in Requests, NEW p \in AuthPods,
           NEW pc \in {"insert", "query", "lookup"},
           NEW u \in Users \cup {None}, NEW t \in Tokens \cup {None},
           pc = "lookup" => t \in Tokens, pc # "lookup" => u \in Users,
           Auth!Begin(q, p, pc, u, t)
    PROVE  Auth!IInv'
<1> DEFINE h == [pc |-> pc, pod |-> p, user |-> u, token |-> t, status |-> 0]
<1>1. h \in AuthHandler
  BY DEF AuthHandler, AuthPcs, AuthStatus
<1>2. /\ auth' = [auth EXCEPT ![q] = h]
      /\ UNCHANGED <<users, owner, expired, blacklist, cache, Auth!history>>
  BY DEF Auth!Begin, Auth!store
<1>3. /\ users' \in SUBSET Users /\ owner' \in [Tokens -> Users \cup {None}]
      /\ Auth!Issued' = Auth!Issued
  BY <1>2 DEF Auth!IInv, Auth!TypeOK, Auth!Issued
<1>4. h.pc = pc /\ h.pod = p /\ h.user = u /\ h.token = t /\ h.status = 0
  OBVIOUS
<1> HIDE DEF h
<1> QED BY <1>1, <1>2, <1>3, <1>4, AuthOneMoves

LEMMA AuthAnswerIInv ==
    ASSUME Auth!IInv, NEW q \in Requests, NEW s \in AuthStatus, Auth!Answer(q, s),
           users' \in SUBSET Users, owner' \in [Tokens -> Users \cup {None}],
           Auth!Issued \subseteq Auth!Issued',
           UNCHANGED <<expired, blacklist, cache, Auth!history>>
    PROVE  Auth!IInv'
<1>1. AuthDone(s) \in AuthHandler /\ AuthDone(s).pc = "done"
  BY AuthEndedType
<1>2. auth' = [auth EXCEPT ![q] = AuthDone(s)]
  BY DEF Auth!Answer, AuthDone
<1> QED BY <1>1, <1>2, AuthOneMoves

\* Handler q goes on to a step that knows nothing of Redis.
LEMMA AuthGotoIInv ==
    ASSUME Auth!IInv, NEW q \in Requests, NEW pc \in {"signed", "issue", "fallback"},
           Auth!Goto(q, pc),
           pc = "fallback" => auth[q].pc = "lookup",
           pc # "fallback" => auth[q].pc \in {"insert", "query"},
           users' \in SUBSET Users,
           UNCHANGED <<owner, expired, blacklist, cache, Auth!history>>
    PROVE  Auth!IInv'
<1> DEFINE h == [auth[q] EXCEPT !.pc = pc]
<1>1. auth[q] \in AuthHandler
  BY AuthHandlerType DEF Auth!IInv
<1>2. h \in AuthHandler /\ h.pc = pc /\ h.pod = auth[q].pod /\ h.user = auth[q].user
      /\ h.token = auth[q].token /\ h.status = auth[q].status
  BY <1>1 DEF AuthHandler, AuthPcs
<1>3. auth' = [auth EXCEPT ![q] = h]
  BY DEF Auth!Goto
<1>4. owner' \in [Tokens -> Users \cup {None}] /\ Auth!Issued' = Auth!Issued
  BY DEF Auth!IInv, Auth!TypeOK, Auth!Issued
<1>5. h.status = 0
  BY <1>2 DEF Auth!IInv, Auth!AnswerInv
<1>6. /\ h.pc = "fallback" => h.pod \in AuthPods /\ h.token \in Tokens
      /\ h.pc # "fallback" => h.user \in Users
  BY <1>2 DEF Auth!IInv, Auth!AskedInv
<1> HIDE DEF h
<1> QED BY <1>2, <1>3, <1>4, <1>5, <1>6, AuthOneMoves

\* Whatever callers ask for, the invariant is preserved.
LEMMA AuthCallerIInv ==
    ASSUME Auth!IInv, NEW q \in Requests, Auth!Caller(q)
    PROVE  Auth!IInv'
<1>1. users \in SUBSET Users /\ owner \in [Tokens -> Users \cup {None}]
  BY DEF Auth!IInv, Auth!TypeOK
<1>2. ASSUME NEW p \in AuthPods, NEW u \in Users, Auth!Signup(q, p, u) \/ Auth!Login(q, p, u)
      PROVE  Auth!IInv'
  BY <1>2, AuthBeginIInv DEF Auth!Signup, Auth!Login
<1>3. ASSUME NEW p \in AuthPods, NEW t \in Tokens, Auth!Validate(q, p, t)
      PROVE  Auth!IInv'
  BY <1>3, AuthBeginIInv DEF Auth!Validate
<1>4. ASSUME NEW t \in Tokens, Auth!RejectToken(q, t)
      PROVE  Auth!IInv'
  BY <1>1, <1>4, AuthAnswerIInv DEF Auth!RejectToken, Auth!store, Auth!Issued, AuthStatus
<1>5. CASE Auth!Collect(q) /\ UNCHANGED <<Auth!store, cache, Auth!history>>
  <2> DEFINE h == [Auth!Idle EXCEPT !.pc = "done"]
  <2>1. h \in AuthHandler /\ h.pc = "done"
    BY AuthIdleType DEF AuthHandler, AuthPcs
  <2>2. auth' = [auth EXCEPT ![q] = h]
    BY <1>5 DEF Auth!Collect
  <2> HIDE DEF h
  <2> QED BY <1>1, <1>5, <2>1, <2>2, AuthOneMoves DEF Auth!store, Auth!Issued
<1> QED BY <1>2, <1>3, <1>4, <1>5 DEF Auth!Caller

-----------------------------------------------------------------------------
\* The steps of Signup and Login.
LEMMA AuthAccountIInv ==
    ASSUME Auth!IInv, NEW q \in Requests,
           \/ Auth!InsertUser(q) \/ Auth!InsertFails(q) \/ Auth!SignupDone(q)
           \/ Auth!QueryFinds(q) \/ Auth!QueryFails(q) \/ Auth!IssueToken(q)
    PROVE  Auth!IInv'
<1>1. /\ auth[q] \in AuthHandler /\ users \in SUBSET Users
      /\ owner \in [Tokens -> Users \cup {None}]
  BY AuthHandlerType DEF Auth!IInv, Auth!TypeOK
<1>2. auth[q].pc \in {"insert", "query", "issue"} => auth[q].user \in Users
  BY DEF Auth!IInv, Auth!AskedInv
<1>3. CASE Auth!InsertUser(q)
  BY <1>1, <1>2, <1>3, AuthGotoIInv DEF Auth!InsertUser
<1>4. CASE Auth!InsertFails(q)
  BY <1>1, <1>2, <1>4, AuthAnswerIInv DEF Auth!InsertFails, Auth!Issued, AuthStatus
<1>5. CASE Auth!SignupDone(q) \/ Auth!QueryFails(q)
  BY <1>1, <1>5, AuthAnswerIInv
  DEF Auth!SignupDone, Auth!QueryFails, Auth!store, Auth!Issued, AuthStatus
<1>6. CASE Auth!QueryFinds(q)
  BY <1>1, <1>6, AuthGotoIInv DEF Auth!QueryFinds, Auth!store
<1>7. CASE Auth!IssueToken(q)
  <2>1. /\ Auth!Answer(q, 200)
        /\ UNCHANGED <<users, expired, blacklist, cache, Auth!history>>
        /\ auth[q].user \in Users
    BY <1>2, <1>7 DEF Auth!IssueToken
  <2>2. PICK t \in Tokens \ Auth!Issued : owner' = [owner EXCEPT ![t] = auth[q].user]
    BY <1>7 DEF Auth!IssueToken
  <2>3. owner' \in [Tokens -> Users \cup {None}]
    BY <1>1, <2>1, <2>2
  <2>4. Auth!Issued \subseteq Auth!Issued'
    BY <1>1, <2>2 DEF Auth!Issued
  <2> QED BY <1>1, <2>1, <2>3, <2>4, AuthAnswerIInv DEF AuthStatus
<1> QED BY <1>3, <1>4, <1>5, <1>6, <1>7
-----------------------------------------------------------------------------
\* Redis answers: the handler knows now what Redis said.
LEMMA AuthRedisGetIInv ==
    ASSUME Auth!IInv, NEW q \in Requests, Auth!RedisGet(q)
    PROVE  Auth!IInv'
<1> USE DEF Auth!IInv
<1> DEFINE p == auth[q].pod
           t == auth[q].token
           pc == IF blacklist[t] = "1" THEN "revoked"
                 ELSE IF blacklist[t] = "absent" THEN "valid" ELSE "other"
           h == [auth[q] EXCEPT !.pc = pc]
<1>1. /\ auth \in [Requests -> AuthHandler] /\ p \in AuthPods /\ t \in Tokens
      /\ auth[q].status = 0
  BY AuthHandlerType DEF Auth!RedisGet, Auth!AskedInv, Auth!AnswerInv
<1>2. h \in AuthHandler /\ h.pc = pc /\ h.pod = p /\ h.token = t /\ h.status = 0
  BY <1>1 DEF AuthHandler, AuthPcs
<1>3. /\ auth' = [auth EXCEPT ![q] = h]
      /\ cleared' = IF pc = "valid" THEN [cleared EXCEPT ![p] = @ \cup {t}] ELSE cleared
      /\ learned' = IF pc = "revoked" THEN learned ELSE [learned EXCEPT ![p] = @ \ {t}]
      /\ UNCHANGED <<users, owner, expired, blacklist, cache>>
  BY DEF Auth!RedisGet, Auth!Goto, Auth!store, Auth!history
<1>4. /\ auth' \in [Requests -> AuthHandler]
      /\ \A r \in Requests : auth'[r] = IF r = q THEN h ELSE auth[r]
  BY <1>1, <1>2, <1>3
<1>5. /\ cleared' \in [AuthPods -> SUBSET Tokens] /\ learned' \in [AuthPods -> SUBSET Tokens]
      /\ \A x \in AuthPods : cleared[x] \subseteq cleared'[x] /\ learned'[x] \subseteq learned[x]
      /\ pc = "valid" => t \in cleared'[p]
      /\ pc # "revoked" => t \notin learned'[p]
  BY <1>1, <1>3 DEF Auth!TypeOK
<1> HIDE DEF h
<1>6. Auth!TypeOK'
  BY <1>3, <1>4, <1>5 DEF Auth!TypeOK, AuthHandler, AuthPcs, AuthStatus, Auth!Issued
<1>7. Auth!AskedInv' /\ Auth!AnswerInv'
  BY <1>1, <1>2, <1>4 DEF Auth!AskedInv, Auth!AnswerInv
<1>8. Auth!ClearedInv'
  <2>1. \A r \in Requests : auth[r].pc = "valid" => auth[r].pod \in AuthPods
    BY DEF Auth!AskedInv
  <2> QED BY <1>2, <1>3, <1>4, <1>5, <2>1 DEF Auth!ClearedInv
<1>9. Auth!LearnedInv'
  BY <1>2, <1>3, <1>4, <1>5 DEF Auth!LearnedInv, Auth!HoldsAcceptance
<1> QED BY <1>6, <1>7, <1>8, <1>9

\* A handler answers and leaves in the cache what Redis said.
LEMMA AuthStoreIInv ==
    ASSUME Auth!IInv, NEW q \in Requests, Auth!StoreValid(q) \/ Auth!StoreRevoked(q)
    PROVE  Auth!IInv'
<1> USE DEF Auth!IInv
<1> DEFINE p == auth[q].pod
           t == auth[q].token
           s == IF auth[q].pc = "valid" THEN 200 ELSE 401
           h == AuthDone(s)
<1>1. auth \in [Requests -> AuthHandler] /\ p \in AuthPods /\ t \in Tokens
  BY AuthHandlerType DEF Auth!StoreValid, Auth!StoreRevoked, Auth!AskedInv
<1>2. h \in AuthHandler /\ h.pc = "done"
  BY AuthEndedType DEF AuthStatus
<1>3. auth' = [auth EXCEPT ![q] = h]
  <2>1. CASE Auth!StoreValid(q)
    <3>1. s = 200
      BY <2>1 DEF Auth!StoreValid
    <3> HIDE DEF s
    <3> QED BY <2>1, <3>1 DEF Auth!StoreValid, Auth!Answer, AuthDone
  <2>2. CASE Auth!StoreRevoked(q)
    <3>1. s = 401
      BY <2>2 DEF Auth!StoreRevoked
    <3> HIDE DEF s
    <3> QED BY <2>2, <3>1 DEF Auth!StoreRevoked, Auth!Answer, AuthDone
  <2> QED BY <2>1, <2>2
<1> HIDE DEF h
<1>4. auth' \in [Requests -> AuthHandler]
      /\ \A r \in Requests : auth'[r] = IF r = q THEN h ELSE auth[r]
  BY <1>1, <1>2, <1>3
<1>5. /\ auth[q].pc \in {"valid", "revoked"}
      /\ cache' = [cache EXCEPT ![p][t] = auth[q].pc]
      /\ UNCHANGED <<users, owner, expired, blacklist, cleared>>
  <2>1. CASE Auth!StoreValid(q)
    BY <2>1 DEF Auth!StoreValid, Auth!store, Auth!history
  <2>2. CASE Auth!StoreRevoked(q)
    BY <2>2 DEF Auth!StoreRevoked, Auth!store
  <2> QED BY <2>1, <2>2
<1>6. cache' \in [AuthPods -> [Tokens -> {"absent", "valid", "revoked"}]]
  BY <1>1, <1>5 DEF Auth!TypeOK
<1>7. \A x \in AuthPods, y \in Tokens :
        cache'[x][y] = IF x = p /\ y = t THEN auth[q].pc ELSE cache[x][y]
  BY <1>1, <1>5 DEF Auth!TypeOK
<1>8. /\ learned' \in [AuthPods -> SUBSET Tokens]
      /\ \A x \in AuthPods : \A y \in learned'[x] :
            \/ y \in learned[x] /\ (x = p /\ y = t => auth[q].pc = "revoked")
            \/ x = p /\ y = t /\ auth[q].pc = "revoked" /\ ~ Auth!HoldsAcceptance(p, t)
  <2>1. CASE Auth!StoreValid(q)
    BY <1>1, <2>1 DEF Auth!StoreValid, Auth!history, Auth!TypeOK, Auth!LearnedInv,
                      Auth!HoldsAcceptance
  <2>2. CASE Auth!StoreRevoked(q)
    BY <1>1, <2>2 DEF Auth!StoreRevoked, Auth!TypeOK
  <2> QED BY <2>1, <2>2
<1>9. Auth!TypeOK'
  BY <1>4, <1>5, <1>6, <1>8 DEF Auth!TypeOK, AuthHandler, AuthPcs, AuthStatus, Auth!Issued
<1>10. Auth!AskedInv' /\ Auth!AnswerInv'
  BY <1>2, <1>4 DEF Auth!AskedInv, Auth!AnswerInv
<1>11. Auth!ClearedInv'
  BY <1>2, <1>4, <1>5, <1>7 DEF Auth!ClearedInv
<1>12. Auth!LearnedInv'
  <2> SUFFICES ASSUME NEW x \in AuthPods, NEW y \in learned'[x]
               PROVE  cache'[x][y] = "revoked" /\ ~ Auth!HoldsAcceptance(x, y)'
    BY DEF Auth!LearnedInv
  <2>1. y \in Tokens
    BY <1>8
  <2>2. ~ Auth!HoldsAcceptance(x, y) => ~ Auth!HoldsAcceptance(x, y)'
    BY <1>2, <1>4 DEF Auth!HoldsAcceptance
  <2> QED BY <1>7, <1>8, <2>1, <2>2 DEF Auth!LearnedInv
<1> QED BY <1>9, <1>10, <1>11, <1>12

\* Redis does not answer, and the cache decides, or what it says is neither: the
\* cache is left alone.
LEMMA AuthFallbackIInv ==
    ASSUME Auth!IInv, NEW q \in Requests,
           Auth!RedisFails(q) \/ Auth!Fallback(q) \/ Auth!AcceptOther(q)
    PROVE  Auth!IInv'
<1>1. users \in SUBSET Users /\ owner \in [Tokens -> Users \cup {None}]
      /\ cache \in [AuthPods -> [Tokens -> {"absent", "valid", "revoked"}]]
  BY DEF Auth!IInv, Auth!TypeOK
<1>2. CASE Auth!RedisFails(q)
  BY <1>1, <1>2, AuthGotoIInv DEF Auth!RedisFails, Auth!store
<1>3. CASE Auth!Fallback(q)
  <2>1. auth[q].pod \in AuthPods /\ auth[q].token \in Tokens
    BY <1>3 DEF Auth!Fallback, Auth!IInv, Auth!AskedInv
  <2>2. Auth!FallbackStatus[cache[auth[q].pod][auth[q].token]] \in AuthStatus
    BY <1>1, <2>1 DEF Auth!FallbackStatus, AuthStatus
  <2> QED BY <1>1, <1>3, <2>2, AuthAnswerIInv DEF Auth!Fallback, Auth!store, Auth!Issued
<1>4. CASE Auth!AcceptOther(q)
  BY <1>1, <1>4, AuthAnswerIInv DEF Auth!AcceptOther, Auth!store, Auth!Issued, AuthStatus
<1> QED BY <1>2, <1>3, <1>4
-----------------------------------------------------------------------------
\* Entries come and go, tokens expire, pods die with what they remember.
LEMMA AuthEnvironmentIInv ==
    ASSUME Auth!IInv, Auth!Environment
    PROVE  Auth!IInv'
<1> USE DEF Auth!IInv
<1>1. ASSUME NEW t \in Tokens, Auth!Blacklist(t) \/ Auth!LoseEntry(t) PROVE Auth!IInv'
  <2>1. /\ blacklist \in [Tokens -> {"absent", "1", "other"}]
        /\ UNCHANGED <<users, owner, expired, cache, auth, cleared, learned>>
    BY <1>1 DEF Auth!Blacklist, Auth!LoseEntry, Auth!TypeOK, Auth!history
  <2>2. blacklist' \in [Tokens -> {"absent", "1", "other"}]
    BY <1>1, <2>1 DEF Auth!Blacklist, Auth!LoseEntry
  <2> QED BY <2>1, <2>2
          DEF Auth!TypeOK, Auth!AskedInv, Auth!AnswerInv, Auth!ClearedInv, Auth!LearnedInv,
              Auth!HoldsAcceptance, Auth!Issued
<1>2. ASSUME NEW t \in Tokens, Auth!Expire(t) PROVE Auth!IInv'
  BY <1>2 DEF Auth!Expire, Auth!TypeOK, Auth!AskedInv, Auth!AnswerInv, Auth!ClearedInv,
              Auth!LearnedInv, Auth!HoldsAcceptance, Auth!history, Auth!Issued
<1>3. ASSUME NEW p \in AuthPods, Auth!CrashAuth(p) PROVE Auth!IInv'
  <2> DEFINE h == AuthDone(502)
  <2>1. h \in AuthHandler /\ h.pc = "done"
    BY AuthEndedType DEF AuthStatus
  <2>2. auth' = [q \in Requests |->
                    IF auth[q].pod = p /\ Auth!Running(q) THEN h ELSE auth[q]]
    BY <1>3 DEF Auth!CrashAuth, AuthDone
  <2> HIDE DEF h
  <2>3. \A q \in Requests : \/ auth'[q] = h
                            \/ auth'[q] = auth[q] /\ (auth[q].pod = p => ~ Auth!Running(q))
    BY <2>2
  <2>4. auth \in [Requests -> AuthHandler] /\ auth' \in [Requests -> AuthHandler]
    BY <2>1, <2>2, AuthHandlerType
  <2>5. /\ cache' = [cache EXCEPT ![p] = [t \in Tokens |-> "absent"]]
        /\ cleared' = [cleared EXCEPT ![p] = {}]
        /\ learned' = [learned EXCEPT ![p] = {}]
        /\ UNCHANGED <<users, owner, expired, blacklist>>
    BY <1>3 DEF Auth!CrashAuth, Auth!store
  <2>6. Auth!TypeOK'
    BY <2>4, <2>5 DEF Auth!TypeOK, AuthHandler, AuthPcs, AuthStatus, Auth!Issued
  <2>7. Auth!AskedInv' /\ Auth!AnswerInv'
    BY <2>1, <2>3 DEF Auth!AskedInv, Auth!AnswerInv
  <2>8. \A x \in AuthPods :
          /\ cleared'[x] = IF x = p THEN {} ELSE cleared[x]
          /\ learned'[x] = IF x = p THEN {} ELSE learned[x]
          /\ \A y \in Tokens : cache'[x][y] = IF x = p THEN "absent" ELSE cache[x][y]
    BY <2>5 DEF Auth!TypeOK
  <2>9. \A q \in Requests : auth'[q].pc \in {"valid", "other"} =>
          auth'[q] = auth[q] /\ auth[q].pod \in AuthPods \ {p}
    BY <2>1, <2>3 DEF Auth!AskedInv, Auth!Running
  <2>10. Auth!ClearedInv'
    BY <2>8, <2>9 DEF Auth!ClearedInv
  <2>11. Auth!LearnedInv'
    <3> SUFFICES ASSUME NEW x \in AuthPods, NEW y \in learned'[x]
                 PROVE  cache'[x][y] = "revoked" /\ ~ Auth!HoldsAcceptance(x, y)'
      BY DEF Auth!LearnedInv
    <3>1. x # p /\ y \in learned[x] /\ y \in Tokens
      BY <2>8 DEF Auth!TypeOK
    <3> QED BY <2>8, <2>9, <3>1 DEF Auth!LearnedInv, Auth!HoldsAcceptance
  <2> QED BY <2>6, <2>7, <2>10, <2>11
<1> QED BY <1>1, <1>2, <1>3 DEF Auth!Environment

LEMMA AuthStepIInv == Auth!IInv /\ [Auth!Next]_(Auth!authVars) => Auth!IInv'
<1> SUFFICES ASSUME Auth!IInv, [Auth!Next]_(Auth!authVars) PROVE Auth!IInv'
  OBVIOUS
<1>1. CASE UNCHANGED Auth!authVars
  BY <1>1 DEF Auth!authVars, Auth!IInv, Auth!TypeOK, Auth!AskedInv, Auth!AnswerInv,
              Auth!ClearedInv, Auth!LearnedInv, Auth!HoldsAcceptance, Auth!Issued
<1>2. ASSUME NEW q \in Requests, Auth!HandlerStep(q) PROVE Auth!IInv'
  BY <1>2, AuthAccountIInv, AuthRedisGetIInv, AuthStoreIInv, AuthFallbackIInv
  DEF Auth!HandlerStep
<1> QED BY <1>1, <1>2, AuthCallerIInv, AuthEnvironmentIInv DEF Auth!Next

-----------------------------------------------------------------------------
\* The type invariant of auth-service, for any callers.
THEOREM AuthTypeCorrect == Auth!Spec => []Auth!TypeOK
  BY AuthInitIInv, AuthStepIInv, PTL DEF Auth!Spec, Auth!IInv

\* A step in which a handler of Validate answers 200 stores an answer of Redis,
\* takes one that is neither, or falls back on the cache of its pod.
LEMMA AuthAcceptingStep ==
    ASSUME Auth!IInv, [Auth!Next]_(Auth!authVars), NEW q \in Requests, Auth!Accepts(q)
    PROVE  \/ Auth!StoreValid(q) \/ Auth!AcceptOther(q)
           \/ Auth!Fallback(q) /\ cache[auth[q].pod][auth[q].token] = "valid"
<1>1. auth \in [Requests -> AuthHandler] /\ auth[q].status = 0
      /\ auth[q].pc \in {"lookup", "valid", "other", "fallback"} /\ auth'[q].status = 200
  BY AuthHandlerType DEF Auth!IInv, Auth!AnswerInv, Auth!Accepts
<1>2. auth' # auth
  BY <1>1
<1>3. ASSUME NEW r \in Requests, r # q, Auth!Caller(r) \/ Auth!HandlerStep(r)
      PROVE  auth'[q] = auth[q]
  <2>1. \E h : auth' = [auth EXCEPT ![r] = h]
    <3>1. CASE Auth!Caller(r)
      BY <3>1, Zenon
      DEF Auth!Caller, Auth!Signup, Auth!Login, Auth!Validate, Auth!RejectToken,
          Auth!Collect, Auth!Begin, Auth!Answer
    <3>2. CASE Auth!HandlerStep(r)
      <4>1. \A pc : Auth!Goto(r, pc) => \E h : auth' = [auth EXCEPT ![r] = h]
        BY <1>1 DEF Auth!Goto
      <4> QED BY <3>2, <4>1, Zenon
          DEF Auth!HandlerStep, Auth!InsertUser, Auth!InsertFails, Auth!SignupDone,
              Auth!QueryFinds, Auth!QueryFails,
              Auth!IssueToken, Auth!RedisGet, Auth!RedisFails, Auth!StoreValid,
              Auth!AcceptOther, Auth!StoreRevoked, Auth!Fallback, Auth!Answer
    <3> QED BY <1>3, <3>1, <3>2
  <2> QED BY <1>1, <1>3, <2>1
<1>4. ~ Auth!Caller(q)
  BY <1>1, AuthIdleType DEF Auth!Caller, Auth!Signup, Auth!Login, Auth!Validate,
                            Auth!RejectToken, Auth!Collect, Auth!Begin
<1>5. ~ Auth!Environment
  <2>1. \A t \in Tokens : ~ Auth!Blacklist(t) /\ ~ Auth!LoseEntry(t) /\ ~ Auth!Expire(t)
    BY <1>2 DEF Auth!Blacklist, Auth!LoseEntry, Auth!Expire
  <2>2. \A p \in AuthPods : ~ Auth!CrashAuth(p)
    <3> SUFFICES ASSUME NEW p \in AuthPods, Auth!CrashAuth(p) PROVE FALSE
      OBVIOUS
    <3>1. auth'[q] = AuthDone(502) \/ auth'[q] = auth[q]
      BY DEF Auth!CrashAuth, AuthDone
    <3>2. AuthDone(502).status = 502
      BY AuthEndedType DEF AuthStatus
    <3> QED BY <1>1, <3>1, <3>2
  <2> QED BY <2>1, <2>2 DEF Auth!Environment
<1>6. Auth!HandlerStep(q)
  BY <1>1, <1>2, <1>3, <1>4, <1>5 DEF Auth!Next, Auth!authVars
<1>7. ~ Auth!RedisGet(q) /\ ~ Auth!RedisFails(q)
  <2> SUFFICES ASSUME NEW pc, Auth!Goto(q, pc) PROVE FALSE
    BY DEF Auth!RedisGet, Auth!RedisFails
  <2>1. auth[q] \in AuthHandler /\ auth'[q] = [auth[q] EXCEPT !.pc = pc]
    BY <1>1 DEF Auth!Goto
  <2>2. auth'[q].status = auth[q].status
    BY <2>1 DEF AuthHandler
  <2> QED BY <1>1, <2>2
<1>8. ~ Auth!StoreRevoked(q)
  <2> SUFFICES ASSUME Auth!StoreRevoked(q) PROVE FALSE
    OBVIOUS
  <2>1. auth'[q] = AuthDone(401)
    BY <1>1 DEF Auth!StoreRevoked, Auth!Answer, AuthDone
  <2>2. AuthDone(401).status = 401
    BY AuthEndedType DEF AuthStatus
  <2> QED BY <1>1, <2>1, <2>2
<1>9. ASSUME Auth!Fallback(q) PROVE cache[auth[q].pod][auth[q].token] = "valid"
  <2> DEFINE c == cache[auth[q].pod][auth[q].token]
  <2>1. c \in {"absent", "valid", "revoked"}
    BY <1>1 DEF Auth!IInv, Auth!TypeOK, Auth!AskedInv
  <2>2. auth'[q] = AuthDone(Auth!FallbackStatus[c])
    BY <1>1, <1>9 DEF Auth!Fallback, Auth!Answer, AuthDone
  <2>3. Auth!FallbackStatus[c] \in AuthStatus
    BY <2>1 DEF Auth!FallbackStatus, AuthStatus
  <2>4. Auth!FallbackStatus[c] = 200
    BY <1>1, <2>2, <2>3, AuthEndedType
  <2> QED BY <2>1, <2>4 DEF Auth!FallbackStatus
<1> QED
  BY <1>1, <1>6, <1>7, <1>8, <1>9
  DEF Auth!HandlerStep, Auth!InsertUser, Auth!InsertFails, Auth!SignupDone,
      Auth!QueryFinds, Auth!QueryFails, Auth!IssueToken

\* However Redis fails, loses entries and holds strange ones, and however pods
\* die: a pod accepts a token only if Redis has just answered with an entry that
\* is not "1", or has had no entry for it when this pod asked, since it started.
THEOREM AuthFailsClosed == Auth!Spec => Auth!FailsClosed
<1>1. Auth!IInv /\ [Auth!Next]_(Auth!authVars) =>
        [\A q \in Requests : Auth!Accepts(q) =>
            auth[q].pc = "other" \/ auth[q].token \in cleared[auth[q].pod]]_(Auth!authVars)
  <2> SUFFICES ASSUME Auth!IInv, [Auth!Next]_(Auth!authVars), NEW q \in Requests,
                      Auth!Accepts(q)
               PROVE  auth[q].pc = "other" \/ auth[q].token \in cleared[auth[q].pod]
    OBVIOUS
  <2>1. CASE Auth!StoreValid(q)
    BY <2>1 DEF Auth!StoreValid, Auth!IInv, Auth!ClearedInv
  <2>2. CASE Auth!Fallback(q) /\ cache[auth[q].pod][auth[q].token] = "valid"
    BY <2>2 DEF Auth!Fallback, Auth!IInv, Auth!ClearedInv, Auth!AskedInv
  <2>3. CASE Auth!AcceptOther(q)
    BY <2>3 DEF Auth!AcceptOther
  <2> QED BY <2>1, <2>2, <2>3, AuthAcceptingStep
<1> QED BY <1>1, AuthInitIInv, AuthStepIInv, PTL DEF Auth!Spec, Auth!FailsClosed

\* A pod that has learned of a revocation does not accept the token again, even
\* where Redis has lost the entry, before Redis has told this very pod so.
THEOREM AuthRevocationSticks == Auth!Spec => Auth!RevocationSticks
<1>1. Auth!IInv /\ [Auth!Next]_(Auth!authVars) =>
        [\A q \in Requests : Auth!Accepts(q) =>
            auth[q].token \notin learned[auth[q].pod]]_(Auth!authVars)
  <2> SUFFICES ASSUME Auth!IInv, [Auth!Next]_(Auth!authVars), NEW q \in Requests,
                      Auth!Accepts(q)
               PROVE  auth[q].token \notin learned[auth[q].pod]
    OBVIOUS
  <2>1. CASE Auth!StoreValid(q) \/ Auth!AcceptOther(q)
    BY <2>1 DEF Auth!StoreValid, Auth!AcceptOther, Auth!IInv, Auth!LearnedInv, Auth!AskedInv,
                Auth!HoldsAcceptance
  <2>2. CASE Auth!Fallback(q) /\ cache[auth[q].pod][auth[q].token] = "valid"
    BY <2>2 DEF Auth!Fallback, Auth!IInv, Auth!LearnedInv, Auth!AskedInv
  <2> QED BY <2>1, <2>2, AuthAcceptingStep
<1> QED BY <1>1, AuthInitIInv, AuthStepIInv, PTL DEF Auth!Spec, Auth!RevocationSticks

-----------------------------------------------------------------------------
(* The entries of a cart.                                                  *)

\* A unit is an entry's index and a number up to its quantity.
LEMMA UnitsElements ==
    ASSUME NEW items \in Seq(Cart!Entries), NEW os, NEW x
    PROVE  x \in Units(items, os) <=>
             \E i \in DOMAIN items : /\ items[i].offer \in os
                                     /\ x \in {i} \X (1 .. items[i].quantity)
  BY DEF Units

LEMMA EntryType ==
    ASSUME NEW items \in Seq(Cart!Entries), NEW i \in DOMAIN items
    PROVE  /\ i \in Nat \ {0}
           /\ items[i].offer \in Offers
           /\ items[i].quantity \in Nat \ {0}
<1>1. i \in 1 .. Len(items)
  OBVIOUS
<1>2. items[i] \in Cart!Entries
  BY <1>1, ElementOfSeq
<1> QED BY <1>1, <1>2 DEF Cart!Entries

LEMMA NewEntryType ==
    ASSUME NEW o \in Offers
    PROVE  /\ Cart!Entry(o) \in Cart!Entries
           /\ Cart!Entry(o).offer = o /\ Cart!Entry(o).quantity = 1
  BY DEF Cart!Entry, Cart!Entries

\* One unit more of an entry.
LEMMA OneMore ==
    ASSUME NEW items \in Seq(Cart!Entries), NEW i \in DOMAIN items
    PROVE  LET more == [items EXCEPT ![i].quantity = @ + 1] IN
           /\ more \in Seq(Cart!Entries)
           /\ DOMAIN more = DOMAIN items
           /\ \A j \in DOMAIN items : more[j].offer = items[j].offer
           /\ \A j \in DOMAIN items \ {i} : more[j] = items[j]
           /\ more[i].quantity = items[i].quantity + 1
<1> DEFINE more == [items EXCEPT ![i].quantity = @ + 1]
           e == [items[i] EXCEPT !.quantity = @ + 1]
<1>1. items[i] \in Cart!Entries /\ items[i].quantity \in Nat \ {0}
  BY EntryType, ElementOfSeq
<1>2. e \in Cart!Entries /\ e.offer = items[i].offer /\ e.quantity = items[i].quantity + 1
  BY <1>1 DEF Cart!Entries
<1>3. more = [items EXCEPT ![i] = e]
  OBVIOUS
<1> HIDE DEF e
<1>4. more \in Seq(Cart!Entries)
  BY <1>2, <1>3
<1> QED BY <1>2, <1>3, <1>4

LEMMA OneMoreUnits ==
    ASSUME NEW items \in Seq(Cart!Entries), NEW i \in DOMAIN items, Within(items)
    PROVE  LET more == [items EXCEPT ![i].quantity = @ + 1] IN
           /\ IsFiniteSet(Units(more, Offers))
           /\ Total(more) = Total(items) + 1
<1> DEFINE more == [items EXCEPT ![i].quantity = @ + 1]
           x == <<i, items[i].quantity + 1>>
<1>1. /\ more \in Seq(Cart!Entries) /\ DOMAIN more = DOMAIN items
      /\ \A j \in DOMAIN items : more[j].offer = items[j].offer
      /\ \A j \in DOMAIN items \ {i} : more[j] = items[j]
      /\ more[i].quantity = items[i].quantity + 1
  BY OneMore
<1>2. \A j \in DOMAIN items : items[j].offer \in Offers /\ items[j].quantity \in Nat
  BY EntryType
<1> HIDE DEF more
<1>3. x \notin Units(items, Offers)
  BY <1>2, UnitsElements
<1>4. \A y : y \in Units(more, Offers) <=> y \in Units(items, Offers) \cup {x}
  <2> SUFFICES ASSUME NEW y
               PROVE  y \in Units(more, Offers) <=> y \in Units(items, Offers) \/ y = x
    OBVIOUS
  <2>1. y \in Units(more, Offers)
          <=> \E j \in DOMAIN items : y \in {j} \X (1 .. more[j].quantity)
    BY <1>1, <1>2, UnitsElements
  <2>2. y \in Units(items, Offers)
          <=> \E j \in DOMAIN items : y \in {j} \X (1 .. items[j].quantity)
    BY <1>2, UnitsElements
  <2>3. 1 .. items[i].quantity + 1 = (1 .. items[i].quantity) \cup {items[i].quantity + 1}
    BY <1>2
  <2>4. y \in {i} \X (1 .. more[i].quantity)
          <=> y \in {i} \X (1 .. items[i].quantity) \/ y = x
    BY <1>1, <2>3
  <2> QED BY <1>1, <2>1, <2>2, <2>4
<1>5. Units(more, Offers) = Units(items, Offers) \cup {x}
  BY <1>4
<1>6. IsFiniteSet(Units(items, Offers))
  BY DEF Within
<1> QED BY <1>3, <1>5, <1>6, FS_AddElement DEF Total, more

LEMMA NoUnits == /\ IsFiniteSet(Units(<<>>, Offers))
                 /\ Total(<<>>) = 0
<1>1. Units(<<>>, Offers) = {}
  BY DEF Units
<1> QED BY <1>1, FS_EmptySet DEF Total

LEMMA AppendUnits ==
    ASSUME NEW items \in Seq(Cart!Entries), NEW o \in Offers, Within(items)
    PROVE  LET more == Append(items, Cart!Entry(o)) IN
           /\ IsFiniteSet(Units(more, Offers))
           /\ Total(more) = Total(items) + 1
<1> DEFINE more == Append(items, Cart!Entry(o))
           n == Len(items) + 1
<1>1. /\ more \in Seq(Cart!Entries)
      /\ DOMAIN more = DOMAIN items \cup {n} /\ n \notin DOMAIN items
      /\ \A j \in DOMAIN items : more[j] = items[j]
      /\ more[n].offer = o /\ more[n].quantity = 1
  BY NewEntryType
<1>2. \A j \in DOMAIN items : items[j].offer \in Offers
  BY EntryType
<1> HIDE DEF more, n
<1>3. <<n, 1>> \notin Units(items, Offers)
  BY <1>1, UnitsElements
<1>4. \A y : y \in Units(more, Offers) <=> y \in Units(items, Offers) \cup {<<n, 1>>}
  <2> SUFFICES ASSUME NEW y
               PROVE  y \in Units(more, Offers)
                        <=> y \in Units(items, Offers) \/ y = <<n, 1>>
    OBVIOUS
  <2>1. y \in Units(more, Offers)
          <=> \E j \in DOMAIN more : y \in {j} \X (1 .. more[j].quantity)
    BY <1>1, <1>2, UnitsElements
  <2>2. y \in Units(items, Offers)
          <=> \E j \in DOMAIN items : y \in {j} \X (1 .. items[j].quantity)
    BY <1>2, UnitsElements
  <2>3. 1 .. 1 = {1}
    OBVIOUS
  <2>4. y \in {n} \X (1 .. more[n].quantity) <=> y = <<n, 1>>
    BY <1>1, <2>3
  <2> QED BY <1>1, <2>1, <2>2, <2>4
<1>5. Units(more, Offers) = Units(items, Offers) \cup {<<n, 1>>}
  BY <1>4
<1>6. IsFiniteSet(Units(items, Offers))
  BY DEF Within
<1> QED BY <1>3, <1>5, <1>6, FS_AddElement DEF Total, more

\* There may be a unit more than there was.
Grown(items, more) == /\ IsFiniteSet(Units(more, Offers))
                      /\ Total(more) <= Total(items) + 1

\* An entry gives way to another, with one unit more at most.
LEMMA ReplaceUnits ==
    ASSUME NEW items \in Seq(Cart!Entries), NEW k \in DOMAIN items, Within(items),
           NEW e \in Cart!Entries, e.quantity <= items[k].quantity + 1
    PROVE  LET more == [items EXCEPT ![k] = e] IN
           more \in Seq(Cart!Entries) /\ Grown(items, more)
<1> DEFINE more == [items EXCEPT ![k] = e]
           x == <<k, items[k].quantity + 1>>
<1>1. /\ more \in Seq(Cart!Entries) /\ DOMAIN more = DOMAIN items /\ more[k] = e
      /\ \A j \in DOMAIN items \ {k} : more[j] = items[j]
  OBVIOUS
<1>2. /\ \A j \in DOMAIN items : items[j].offer \in Offers
      /\ items[k].quantity \in Nat /\ e.quantity \in Nat
  BY EntryType DEF Cart!Entries
<1> HIDE DEF more
<1>3. 1 .. e.quantity \subseteq (1 .. items[k].quantity) \cup {items[k].quantity + 1}
  BY <1>2
<1>4. ASSUME NEW y \in Units(more, Offers)
      PROVE  y \in Units(items, Offers) \cup {x}
  <2>1. PICK j \in DOMAIN items : y \in {j} \X (1 .. more[j].quantity)
    BY <1>1, UnitsElements
  <2>2. y \in {j} \X (1 .. items[j].quantity) \/ y = x
    <3>1. CASE j = k
      BY <1>1, <1>3, <2>1, <3>1
    <3>2. CASE j # k
      BY <1>1, <2>1, <3>2
    <3> QED BY <3>1, <3>2
  <2> QED BY <1>2, <2>2, UnitsElements
<1>5. /\ IsFiniteSet(Units(items, Offers) \cup {x})
      /\ Cardinality(Units(items, Offers) \cup {x}) <= Total(items) + 1
  <2>1. IsFiniteSet(Units(items, Offers))
    BY DEF Within
  <2>2. Total(items) \in Nat
    BY <2>1, FS_CardinalityType DEF Total
  <2> DEFINE units == Units(items, Offers)
  <2> HIDE DEF x, units
  <2>3. IsFiniteSet(units) => /\ IsFiniteSet(units \cup {x})
                              /\ Cardinality(units \cup {x})
                                    = IF x \in units THEN Cardinality(units) ELSE Cardinality(units) + 1
    BY FS_AddElement
  <2>4. Total(items) = Cardinality(units)
    BY DEF Total, units
  <2>5. IsFiniteSet(units)
    BY <2>1 DEF units
  <2>6. IsFiniteSet(units \cup {x}) /\ Cardinality(units \cup {x}) <= Total(items) + 1
    BY <2>2, <2>3, <2>4, <2>5
  <2> QED BY <2>6 DEF units
<1>6. Units(more, Offers) \subseteq Units(items, Offers) \cup {x}
  BY <1>4
<1>7. IsFiniteSet(Units(more, Offers)) /\ Total(more) <= Total(items) + 1
  <2>1. Total(items) \in Nat
    BY FS_CardinalityType DEF Total, Within
  <2>2. /\ IsFiniteSet(Units(more, Offers))
        /\ Total(more) <= Cardinality(Units(items, Offers) \cup {x})
    BY <1>5, <1>6, FS_Subset DEF Total
  <2>3. /\ Total(more) \in Nat
        /\ Cardinality(Units(items, Offers) \cup {x}) \in Nat
    BY <1>5, <2>2, FS_CardinalityType DEF Total
  <2> QED BY <1>5, <2>1, <2>2, <2>3
<1> QED BY <1>1, <1>7 DEF Grown, more

-----------------------------------------------------------------------------
(* What a cart holds.                                                      *)

LEMMA HoldsNothing == Holds(<<>>, NoOffers)
  BY DEF Holds, NoOffers

LEMMA HoldsOneMore ==
    ASSUME NEW items \in Seq(Cart!Entries), NEW b \in [Offers -> Nat],
           NEW i \in DOMAIN items, Holds(items, b)
    PROVE  Holds([items EXCEPT ![i].quantity = @ + 1], [b EXCEPT ![items[i].offer] = @ + 1])
<1> DEFINE more == [items EXCEPT ![i].quantity = @ + 1]
           c == [b EXCEPT ![items[i].offer] = @ + 1]
<1>1. /\ DOMAIN more = DOMAIN items
      /\ \A j \in DOMAIN items : more[j].offer = items[j].offer
      /\ \A j \in DOMAIN items \ {i} : more[j] = items[j]
      /\ more[i].quantity = items[i].quantity + 1
  BY OneMore
<1>2. \A j \in DOMAIN items : items[j].offer \in Offers /\ items[j].quantity \in Nat
  BY EntryType
<1>3. \A o \in Offers : c[o] = IF o = items[i].offer THEN b[o] + 1 ELSE b[o]
  OBVIOUS
<1> HIDE DEF more, c
<1>4. \A j, k \in DOMAIN more : more[j].offer = more[k].offer => j = k
  BY <1>1 DEF Holds
<1>5. \A j \in DOMAIN more : more[j].quantity = c[more[j].offer]
  BY <1>1, <1>2, <1>3 DEF Holds
<1>6. \A o \in Offers : c[o] = 0 \/ \E j \in DOMAIN more : more[j].offer = o
  BY <1>1, <1>2, <1>3 DEF Holds
<1>7. Holds(more, c)
  BY <1>4, <1>5, <1>6 DEF Holds
<1> QED BY <1>7 DEF more, c

LEMMA HoldsAppend ==
    ASSUME NEW items \in Seq(Cart!Entries), NEW b \in [Offers -> Nat], NEW o \in Offers,
           Holds(items, b), \A i \in DOMAIN items : items[i].offer # o
    PROVE  Holds(Append(items, Cart!Entry(o)), [b EXCEPT ![o] = @ + 1])
<1> DEFINE more == Append(items, Cart!Entry(o))
           n == Len(items) + 1
           c == [b EXCEPT ![o] = @ + 1]
<1>1. /\ DOMAIN more = DOMAIN items \cup {n} /\ n \notin DOMAIN items
      /\ \A j \in DOMAIN items : more[j] = items[j]
      /\ more[n].offer = o /\ more[n].quantity = 1
  BY NewEntryType
<1>2. \A j \in DOMAIN items : items[j].offer \in Offers
  BY EntryType
<1>3. \A a \in Offers : c[a] = IF a = o THEN 1 ELSE b[a]
  BY DEF Holds
<1> HIDE DEF more, c, n
<1>4. \A j, k \in DOMAIN more : more[j].offer = more[k].offer => j = k
  BY <1>1 DEF Holds
<1>5. \A j \in DOMAIN more : more[j].quantity = c[more[j].offer]
  BY <1>1, <1>2, <1>3 DEF Holds
<1>6. \A a \in Offers : c[a] = 0 \/ \E j \in DOMAIN more : more[j].offer = a
  BY <1>1, <1>2, <1>3 DEF Holds
<1>7. Holds(more, c)
  BY <1>4, <1>5, <1>6 DEF Holds
<1> QED BY <1>7 DEF more, c

\* A cart that holds b has as many units of every offer as b says.
LEMMA HoldsQuantity ==
    ASSUME NEW items \in Seq(Cart!Entries), NEW b \in [Offers -> Nat], Holds(items, b),
           NEW o \in Offers
    PROVE  Quantity(items, o) = b[o]
<1>1. \A y : y \in Units(items, {o})
               <=> \E i \in DOMAIN items : /\ items[i].offer = o
                                           /\ y \in {i} \X (1 .. b[o])
  BY UnitsElements DEF Holds
<1>2. CASE \E i \in DOMAIN items : items[i].offer = o
  <2>1. PICK i \in DOMAIN items : items[i].offer = o
    BY <1>2
  <2>2. \A y : y \in Units(items, {o}) <=> y \in {i} \X (1 .. b[o])
    BY <1>1, <2>1 DEF Holds
  <2>3. Units(items, {o}) = {i} \X (1 .. b[o])
    BY <2>2
  <2>4. IsFiniteSet(1 .. b[o]) /\ Cardinality(1 .. b[o]) = b[o]
    BY FS_Interval
  <2>5. IsFiniteSet({i}) /\ Cardinality({i}) = 1
    BY FS_Singleton
  <2>6. Cardinality({i} \X (1 .. b[o])) = 1 * b[o]
    BY <2>4, <2>5, FS_Product
  <2>7. Quantity(items, o) = 1 * b[o]
    BY <2>3, <2>6 DEF Quantity
  <2> QED BY <2>7
<1>3. CASE ~ \E i \in DOMAIN items : items[i].offer = o
  <2>1. Units(items, {o}) = {}
    BY <1>1, <1>3
  <2>2. b[o] = 0
    BY <1>3 DEF Holds
  <2> QED BY <2>1, <2>2, FS_EmptySet DEF Quantity
<1> QED BY <1>2, <1>3

-----------------------------------------------------------------------------
(* Types.                                                                  *)

CartHandler == [pc : {"idle", "check", "create", "GET", "POST", "DELETE",
                      "append", "store", "update", "emit", "stray", "done"},
                method : {"GET", "POST", "DELETE", None},
                pod : CartPods \cup {None},
                user : Users \cup {None},
                offer : Offers \cup {None},
                at : Nat,
                seen : Seq(Cart!Entries),
                status : {0, 200, 502}]

BffRequest == [pc : {"waiting", "call", "called", "offers"} \cup Outcomes,
               route : Routes \cup {None},
               client : Clients \cup {None},
               user : Users \cup {None},
               offer : Offers \cup {None},
               seen : Seq(Cart!Entries) \cup {None}]

LEMMA ShopTypes ==
    TypeOK => /\ carts \in [CartPods -> [Users -> Seq(Cart!Entries) \cup {None}]]
              /\ cart \in [Requests -> CartHandler]
              /\ bff \in [Requests -> BffRequest]
              /\ book \in [Users -> [Offers -> Nat]]
              /\ home \in [Users -> CartPods \cup {None}]
              /\ disturbed \in SUBSET Users
              /\ begun \in Nat
              /\ raced \in SUBSET CartPods
  BY DEF TypeOK, Cart!TypeOK, CartHandler, BffRequest

LEMMA CartIdleType == Cart!Idle \in CartHandler /\ Cart!Idle.pc = "idle"
  BY DEF Cart!Idle, CartHandler

Replies == {200, 502}

\* What Reply leaves of a handler.
Replied(s, items) == [Cart!Idle EXCEPT !.pc = "done", !.status = s, !.seen = items]

LEMMA RepliedType ==
    ASSUME NEW s \in Replies, NEW items \in Seq(Cart!Entries)
    PROVE  /\ Replied(s, items) \in CartHandler
           /\ Replied(s, items).pc = "done" /\ Replied(s, items).status = s
           /\ Replied(s, items).seen = items /\ Replied(s, items).method = None
<1> DEFINE h == [Cart!Idle EXCEPT !.pc = "done"]
           i == [h EXCEPT !.status = s]
           j == [i EXCEPT !.seen = items]
<1>1. Cart!Idle \in CartHandler /\ Cart!Idle.method = None
  BY CartIdleType DEF Cart!Idle
<1>2. h \in CartHandler /\ h.pc = "done" /\ h.method = None
  BY <1>1 DEF CartHandler
<1> HIDE DEF h
<1>3. i \in CartHandler /\ i.pc = "done" /\ i.method = None /\ i.status = s
  BY <1>2 DEF CartHandler, Replies
<1> HIDE DEF i
<1>4. /\ j \in CartHandler /\ j.pc = "done" /\ j.method = None /\ j.status = s
      /\ j.seen = items
  BY <1>3 DEF CartHandler
<1> QED BY <1>4 DEF Replied, i, h

LEMMA WaitingType == /\ Waiting \in BffRequest /\ Waiting.pc = "waiting"
                     /\ Waiting.user = None /\ Waiting.route = None
  BY DEF Waiting, BffRequest

\* What Goto leaves of a handler, and what it remembers besides.
NextPcs == {"create", "GET", "POST", "DELETE", "append", "store", "update", "emit"}

LEMMA GoesOnType ==
    ASSUME NEW c \in CartHandler, NEW pc \in NextPcs
    PROVE  LET h == [c EXCEPT !.pc = pc] IN
           /\ h \in CartHandler /\ h.pc = pc /\ h.method = c.method /\ h.pod = c.pod
           /\ h.user = c.user /\ h.offer = c.offer /\ h.status = c.status
  BY DEF CartHandler, NextPcs

LEMMA AtType ==
    ASSUME NEW c \in CartHandler, NEW i \in Nat
    PROVE  LET h == [c EXCEPT !.at = i] IN
           /\ h \in CartHandler /\ h.pc = c.pc /\ h.method = c.method /\ h.pod = c.pod
           /\ h.user = c.user /\ h.offer = c.offer /\ h.at = i
  BY DEF CartHandler

LEMMA SeenType ==
    ASSUME NEW c \in CartHandler, NEW items \in Seq(Cart!Entries)
    PROVE  LET h == [c EXCEPT !.seen = items] IN
           /\ h \in CartHandler /\ h.pc = c.pc /\ h.method = c.method /\ h.pod = c.pod
           /\ h.user = c.user /\ h.offer = c.offer /\ h.seen = items
  BY DEF CartHandler

\* The nil cart is no cart.
LEMMA NoneNoCart == \A items \in Seq(Cart!Entries) : items # None
<1> SUFFICES ASSUME None \in Seq(Cart!Entries) PROVE FALSE
  OBVIOUS
<1>1. Cart!Entries \subseteq [offer : Offers, quantity : Nat]
  BY DEF Cart!Entries
<1>2. None \in Seq([offer : Offers, quantity : Nat])
  BY <1>1, SeqMonotonic
<1> QED BY <1>2, NoneAssumption

LEMMA EmptyCart == <<>> \in Seq(Cart!Entries) /\ <<>> # None
<1>1. <<>> \in Seq(Cart!Entries)
  OBVIOUS
<1> QED BY <1>1, NoneNoCart

LEMMA RepliedNothing ==
    ASSUME NEW s \in Replies
    PROVE  /\ Replied(s, <<>>) \in CartHandler
           /\ Replied(s, <<>>).pc = "done" /\ Replied(s, <<>>).status = s
<1>1. PICK items \in Seq(Cart!Entries) : items = <<>>
  BY EmptyCart
<1> QED BY <1>1, RepliedType

LEMMA EndedType ==
    ASSUME NEW outcome \in Outcomes
    PROVE  /\ Ended(outcome) \in BffRequest /\ Ended(outcome).pc = outcome
           /\ Ended(outcome).user = None /\ Ended(outcome).route = None
  BY WaitingType DEF Ended, BffRequest

LEMMA CallType ==
    ASSUME NEW route \in Routes, NEW c \in Clients, NEW u \in Users
    PROVE  /\ Call(route, c, u) \in BffRequest /\ Call(route, c, u).pc = "call"
           /\ Call(route, c, u).route = route /\ Call(route, c, u).user = u
<1> DEFINE h == [Waiting EXCEPT !.pc = "call"]
           i == [h EXCEPT !.route = route]
           j == [i EXCEPT !.client = c]
           k == [j EXCEPT !.user = u]
<1>1. h \in BffRequest /\ h.pc = "call"
  BY WaitingType DEF BffRequest
<1>2. i \in BffRequest /\ i.pc = "call" /\ i.route = route
  BY <1>1 DEF BffRequest
<1>3. j \in BffRequest /\ j.pc = "call" /\ j.route = route
  BY <1>2 DEF BffRequest
<1>4. k \in BffRequest /\ k.pc = "call" /\ k.route = route /\ k.user = u
  BY <1>3 DEF BffRequest
<1> QED BY <1>4 DEF Call

LEMMA OutcomesAre == \A outcome \in Outcomes :
                       outcome \notin {"waiting", "call", "called", "offers"}
  BY DEF Outcomes

-----------------------------------------------------------------------------
(* What a step leaves alone.                                               *)

\* A request that is between its call of cart-service and its answer.
Between(h) == h.route \in Protected /\ h.pc \in {"called", "offers"}

\* A user the step is not about.
LEMMA KeptFrame ==
    ASSUME NEW u \in Users, KeptOf(u),
           home'[u] = home[u], book'[u] = book[u],
           \A p \in CartPods : carts'[p][u] = carts[p][u],
           \A q \in Requests : Active(q, u)' = Active(q, u),
           \A q \in Requests : Active(q, u) => bff'[q] = bff[q] /\ cart'[q] = cart[q],
           home[u] \in CartPods \cup {None}
    PROVE  KeptOf(u)'
<1>1. Kept(u)' = Kept(u)
  BY DEF Kept
<1>2. ASSUME NEW q \in Requests, Active(q, u)
      PROVE  Served(q, u)'
  <2>1. Served(q, u) /\ bff'[q] = bff[q] /\ cart'[q] = cart[q] /\ bff[q].user = u
    BY <1>2 DEF KeptOf, Active
  <2>2. Due(q)' = Due(q)
    BY <2>1 DEF Due
  <2> QED BY <1>1, <2>1, <2>2 DEF Served, Cart!Running
<1>3. (\A q \in Requests : ~ Active(q, u)) => Holds(Kept(u), book[u])'
  BY <1>1 DEF KeptOf
<1> QED BY <1>2, <1>3 DEF KeptOf

\* A step of the BFF that no cart is concerned with.
LEMMA BffMoves ==
    ASSUME IInv, NEW q \in Requests, NEW h \in BffRequest,
           bff' = [bff EXCEPT ![q] = h],
           ~ Between(bff[q]), ~ Between(h),
           h.pc \in {"waiting", "call"} => cart[q] = Cart!Idle,
           h.pc \in {"call", "called"} => h.user \in Users \/ h.route = "/api/v1/validate",
           h.pc # "offers",
           Auth!IInv',
           jar' \in [Browsers -> Users \cup {None, Blank}],
           loggedIn' \in [Browsers -> Users \cup {None}],
           UNCHANGED <<cartVars, workload, bookkeeping>>
    PROVE  IInv'
<1>1. TypeOK /\ HandlerInv /\ BffInv /\ KeptInv /\ CountInv
  BY DEF IInv
<1>2. /\ bff \in [Requests -> BffRequest] /\ bff' \in [Requests -> BffRequest]
      /\ \A r \in Requests : bff'[r] = IF r = q THEN h ELSE bff[r]
      /\ home \in [Users -> CartPods \cup {None}]
  BY <1>1, ShopTypes
<1>3. UNCHANGED <<carts, cart, raced, workload, disturbed, book, home, begun>>
  BY DEF cartVars, bookkeeping
<1>4. TypeOK'
  BY <1>1, <1>2, <1>3 DEF TypeOK, Cart!TypeOK, Auth!IInv, BffRequest
<1>5. HandlerInv'
  BY <1>1, <1>2, <1>3 DEF HandlerInv, HandlerOf, Cart!Running, Cart!Items, Between
<1>6. BffInv'
  BY <1>1, <1>2, <1>3 DEF BffInv, Between, Protected
<1>7. KeptInv'
  <2> SUFFICES ASSUME NEW u \in Users \ disturbed PROVE KeptOf(u)'
    BY <1>3 DEF KeptInv
  <2>1. KeptOf(u)
    BY <1>1 DEF KeptInv
  <2>2. \A r \in Requests : Active(r, u)' = Active(r, u)
    BY <1>2 DEF Active, Between
  <2>3. \A r \in Requests : Active(r, u) => bff'[r] = bff[r]
    BY <1>2 DEF Active, Between
  <2> QED BY <1>2, <1>3, <2>1, <2>2, <2>3, KeptFrame
<1>8. CountInv'
  BY <1>1, <1>3 DEF CountInv, Within, Coming, Cart!Running
<1> QED BY <1>4, <1>5, <1>6, <1>7, <1>8 DEF IInv

\* What the invariant says of a handler that is running.
LEMMA Handles ==
    ASSUME IInv, NEW q \in Requests, Cart!Running(q)
    PROVE  /\ cart[q].pod \in CartPods /\ cart[q].user \in Users
           /\ cart[q].user \notin disturbed =>
                /\ Active(q, cart[q].user) /\ Served(q, cart[q].user)
                /\ KeptOf(cart[q].user)
                /\ cart[q].pod = home[cart[q].user]
                /\ \A r \in Requests : Active(r, cart[q].user) <=> r = q
                /\ bff[q].pc = "called" /\ bff[q].user = cart[q].user
                /\ bff[q].offer = cart[q].offer
                /\ cart[q].method = CartMethod[bff[q].route]
<1> DEFINE u == cart[q].user
<1>1. cart[q].pod \in CartPods /\ u \in Users
  BY DEF IInv, HandlerInv, HandlerOf
<1>2. u \notin disturbed => /\ bff[q].pc = "called" /\ bff[q].user = u
                            /\ bff[q].route \in Protected
                            /\ bff[q].offer = cart[q].offer
                            /\ cart[q].method = CartMethod[bff[q].route]
                            /\ KeptOf(u)
  BY <1>1 DEF IInv, HandlerInv, HandlerOf, KeptInv
<1>3. u \notin disturbed => Active(q, u)
  BY <1>2 DEF Active
<1>4. u \notin disturbed => Served(q, u) /\ \A r \in Requests : Active(r, u) <=> r = q
  BY <1>2, <1>3 DEF KeptOf
<1>5. u \notin disturbed => cart[q].pod = home[u]
  BY <1>4 DEF Served
<1> QED BY <1>1, <1>2, <1>3, <1>4, <1>5

-----------------------------------------------------------------------------
(* Units that are coming.                                                  *)

LEMMA ComingType == IsFiniteSet(Coming) /\ Cardinality(Coming) \in Nat
<1>1. IsFiniteSet(Requests)
  BY BoundsAssumption, FS_Interval DEF Requests
<1>2. Coming \subseteq Requests
  BY DEF Coming
<1> QED BY <1>1, <1>2, FS_Subset, FS_CardinalityType

LEMMA TotalType ==
    ASSUME NEW items, IsFiniteSet(Units(items, Offers))
    PROVE  Total(items) \in Nat
  BY FS_CardinalityType DEF Total

\* Fewer units are coming: a cart that had room for them still has.
LEMMA ComingShrinks ==
    ASSUME TypeOK, Coming' \subseteq Coming, begun' = begun
    PROVE  /\ Cardinality(Coming) <= begun => Cardinality(Coming)' <= begun
           /\ \A items : Within(items) => Within(items)'
<1>1. /\ IsFiniteSet(Coming) /\ Cardinality(Coming) \in Nat
      /\ Cardinality(Coming') \in Nat /\ Cardinality(Coming') <= Cardinality(Coming)
  BY ComingType, FS_Subset, FS_CardinalityType
<1>2. begun \in Nat
  BY ShopTypes
<1>3. ASSUME NEW items, Within(items)
      PROVE  Within(items)'
  <2>1. IsFiniteSet(Units(items, Offers)) /\ Total(items) + Cardinality(Coming) <= begun
    BY <1>3 DEF Within
  <2>2. Total(items) \in Nat
    BY <2>1, TotalType
  <2>3. Total(items) + Cardinality(Coming') <= begun'
    BY <1>1, <1>2, <2>1, <2>2
  <2> QED BY <2>1, <2>3 DEF Within
<1> QED BY <1>1, <1>2, <1>3

\* One unit has arrived: there is room for it where there was room for q.
LEMMA UnitArrives ==
    ASSUME TypeOK, NEW q \in Coming, Coming' = Coming \ {q}, begun' = begun,
           NEW items, NEW more, Within(items), Grown(items, more)
    PROVE  Within(more)'
<1>1. /\ IsFiniteSet(Coming) /\ Cardinality(Coming) \in Nat
      /\ Cardinality(Coming') = Cardinality(Coming) - 1
  BY ComingType, FS_RemoveElement
<1>2. IsFiniteSet(Units(items, Offers)) /\ Total(items) + Cardinality(Coming) <= begun
  BY DEF Within
<1>3. /\ Total(items) \in Nat /\ begun \in Nat
      /\ IsFiniteSet(Units(more, Offers)) /\ Total(more) \in Nat
      /\ Total(more) <= Total(items) + 1
  BY <1>2, TotalType, ShopTypes DEF Grown
<1>4. Total(more) + Cardinality(Coming') <= begun'
  BY <1>1, <1>2, <1>3
<1> QED BY <1>3, <1>4 DEF Within

\* An addition has begun: there is a unit more to come, at most, and one more begun.
LEMMA UnitBegins ==
    ASSUME TypeOK, NEW q, q \notin Coming, Coming' \in {Coming, Coming \cup {q}},
           begun' = begun + 1
    PROVE  /\ Cardinality(Coming) <= begun => Cardinality(Coming)' <= begun'
           /\ \A items : Within(items) => Within(items)'
<1>1. /\ Cardinality(Coming) \in Nat
      /\ Cardinality(Coming') \in {Cardinality(Coming), Cardinality(Coming) + 1}
  BY ComingType, FS_AddElement
<1>2. begun \in Nat
  BY ShopTypes
<1>3. ASSUME NEW items, Within(items)
      PROVE  Within(items)'
  <2>1. IsFiniteSet(Units(items, Offers)) /\ Total(items) + Cardinality(Coming) <= begun
    BY <1>3 DEF Within
  <2>2. Total(items) \in Nat
    BY <2>1, TotalType
  <2>3. Total(items) + Cardinality(Coming') <= begun'
    BY <1>1, <1>2, <2>1, <2>2
  <2> QED BY <2>1, <2>3 DEF Within
<1> QED BY <1>1, <1>2, <1>3

\* No cart is fuller than it was, except with what has come.
LEMMA CountFrame ==
    ASSUME TypeOK, CountInv,
           Coming' \subseteq Coming, begun' = begun,
           \A p \in CartPods, u \in Users :
                carts'[p][u] # None =>
                    carts'[p][u] = carts[p][u] \/ Within(carts[p][u])',
           \A q \in Requests :
                cart'[q].pc = "store" =>
                    \/ cart[q].pc = "store" /\ cart'[q].seen = cart[q].seen
                    \/ Within(cart[q].seen)'
    PROVE  CountInv'
<1>1. /\ Cardinality(Coming)' <= begun'
      /\ \A items : Within(items) => Within(items)'
  BY ComingShrinks DEF CountInv
<1>2. ASSUME NEW p \in CartPods, NEW u \in Users, carts'[p][u] # None
      PROVE  Within(carts[p][u])'
  <2>1. CASE carts'[p][u] = carts[p][u]
    <3>1. Within(carts[p][u])
      BY <1>2, <2>1 DEF CountInv
    <3>2. ASSUME NEW items, items = carts[p][u] PROVE Within(items)'
      BY <1>1, <3>1, <3>2
    <3> QED BY <2>1, <3>2 DEF Within
  <2> QED BY <1>2, <2>1
<1>3. ASSUME NEW q \in Requests, cart'[q].pc = "store"
      PROVE  Within(cart[q].seen)'
  <2>1. CASE cart[q].pc = "store" /\ cart'[q].seen = cart[q].seen
    <3>1. Within(cart[q].seen)
      BY <2>1 DEF CountInv
    <3>2. ASSUME NEW items, items = cart[q].seen PROVE Within(items)'
      BY <1>1, <3>1, <3>2
    <3> QED BY <2>1, <3>2 DEF Within
  <2> QED BY <1>3, <2>1
<1> QED BY <1>1, <1>2, <1>3 DEF CountInv

-----------------------------------------------------------------------------
(* The handlers of cart-service.                                           *)

\* Handler q becomes h and its cart becomes items, None if there is none.
GoesTo(q, h, items) ==
    /\ h \in CartHandler
    /\ items \in Seq(Cart!Entries) \cup {None}
    /\ carts' = [carts EXCEPT ![cart[q].pod][cart[q].user] = items]
    /\ items = None => Cart!Items(q) = None /\ h.pc \in {"create", "done"}
    /\ h.pc \notin {"idle", "stray"}
    /\ cart[q].pc \in {"emit", "stray"} => h.pc = "done"
    /\ h.pc # "done" => /\ h.pod = cart[q].pod /\ h.user = cart[q].user
                        /\ h.offer = cart[q].offer /\ h.method = cart[q].method
    /\ h.pc \in {"GET", "POST", "DELETE"} => cart[q].method = h.pc
    /\ h.pc \in {"append", "store", "update", "emit"} => cart[q].method = "POST"

\* Handler r sees in its slice what another handler of its cart has written.
SeesAnew(q, r) ==
    /\ cart[r].pc = "store" /\ cart[r].user = cart[q].user
    /\ \E seen \in Seq(Cart!Entries) : cart'[r] = [cart[r] EXCEPT !.seen = seen]

\* Only such handlers of the cart notice; or nobody.
MovesShared(q, h, items) ==
    /\ GoesTo(q, h, items)
    /\ cart' \in [Requests -> CartHandler] /\ cart'[q] = h
    /\ \A r \in Requests \ {q} : cart'[r] = cart[r] \/ SeesAnew(q, r)

Moves(q, h, items) ==
    /\ GoesTo(q, h, items)
    /\ cart' = [cart EXCEPT ![q] = h]

LEMMA MovesAlone ==
    ASSUME IInv, NEW q \in Requests, NEW h, NEW items, Moves(q, h, items)
    PROVE  MovesShared(q, h, items)
<1>1. cart \in [Requests -> CartHandler]
  BY ShopTypes DEF IInv
<1>2. h \in CartHandler
  BY DEF Moves, GoesTo
<1> QED BY <1>1, <1>2 DEF Moves, MovesShared

\* Who sees something anew stays who it was, and its user is disturbed.
LEMMA SeesAnewIs ==
    ASSUME IInv, NEW q \in Requests, NEW r \in Requests \ {q}, SeesAnew(q, r)
    PROVE  /\ Cart!Running(r) /\ cart[r].pc = "store" /\ cart'[r].pc = "store"
           /\ cart'[r].pod = cart[r].pod /\ cart'[r].user = cart[r].user
           /\ cart'[r].method = cart[r].method /\ cart'[r].offer = cart[r].offer
           /\ Cart!Running(q) => cart[r].user \in disturbed
<1>1. cart[r] \in CartHandler
  BY ShopTypes DEF IInv
<1>2. Cart!Running(r) /\ cart[r].pc = "store" /\ cart[r].user = cart[q].user
  BY DEF SeesAnew, Cart!Running
<1>3. PICK seen \in Seq(Cart!Entries) : cart'[r] = [cart[r] EXCEPT !.seen = seen]
  BY DEF SeesAnew
<1>4. Cart!Running(q) => cart[r].user \in disturbed
  BY <1>2, Handles
<1> QED BY <1>1, <1>2, <1>3, <1>4, SeenType

\* There is no entry for the offer.
Lacks(items, o) == \A i \in DOMAIN items : items[i].offer # o

\* What the kept cart is due to hold when the handler of this method is at pc.
DueAt(method, pc, b, o) ==
    IF method = "POST" /\ pc \in {"emit", "done"} THEN [b EXCEPT ![o] = @ + 1]
    ELSE IF method = "DELETE" /\ pc = "done" THEN NoOffers
    ELSE b

\* What handler q knows, once it is h and its cart is items, if that is the
\* cart of a user who is not disturbed.
Knows(q, h, items) ==
    LET b == book[cart[q].user]
        entries == IF items = None THEN <<>> ELSE items IN
    /\ h.pc = "create" => items = None
    /\ h.pc \in {"append", "store"} => Lacks(entries, cart[q].offer)
    /\ h.pc = "store" => h.seen = entries
    /\ h.pc = "update" => h.at \in DOMAIN entries /\ entries[h.at].offer = cart[q].offer
    /\ h.pc = "done" /\ h.status = 200 /\ cart[q].method = "GET" => Holds(h.seen, b)
    /\ \/ Holds(entries, DueAt(cart[q].method, h.pc, b, cart[q].offer))
       \/ h.pc = "done" /\ h.status # 200

LEMMA CartMethods ==
    \A route \in Protected :
        /\ CartMethod[route] = "POST" <=> route = "/cart/add"
        /\ CartMethod[route] = "DELETE" <=> route = "/payment/process"
        /\ CartMethod[route] = "GET" <=> route \in {"/cart", "/checkout"}
  BY DEF CartMethod, Protected

LEMMA KnowsBefore ==
    ASSUME IInv, NEW q \in Requests, Cart!Running(q), cart[q].user \notin disturbed
    PROVE  Knows(q, cart[q], Cart!Items(q))
<1> DEFINE p == cart[q].pod
           u == cart[q].user
           entries == IF Cart!Items(q) = None THEN <<>> ELSE Cart!Items(q)
<1>1. /\ p \in CartPods /\ u \in Users /\ p = home[u]
      /\ Active(q, u) /\ Served(q, u)
      /\ bff[q].pc = "called" /\ bff[q].user = u /\ bff[q].offer = cart[q].offer
      /\ cart[q].method = CartMethod[bff[q].route]
  BY Handles
<1>2. p # None
  BY <1>1, NoneAssumption
<1>3. Kept(u) = entries
  BY <1>1, <1>2 DEF Kept, Cart!Items
<1>4. bff[q].route \in Protected /\ cart[q].pc # "done"
  BY <1>1 DEF Active, Cart!Running
<1>5. Due(q) = DueAt(cart[q].method, cart[q].pc, book[u], cart[q].offer)
  BY <1>1, <1>4, CartMethods DEF Due, DueAt
<1>6. Holds(entries, DueAt(cart[q].method, cart[q].pc, book[u], cart[q].offer))
  BY <1>1, <1>3, <1>4, <1>5 DEF Served
<1>7. cart[q].pc = "create" => Cart!Items(q) = None
  BY <1>1 DEF Served, Cart!Items
<1> QED BY <1>1, <1>3, <1>4, <1>6, <1>7 DEF Knows, Served, Lacks

LEMMA ServedAfter ==
    ASSUME IInv, NEW q \in Requests, Cart!Running(q), NEW h, NEW items,
           MovesShared(q, h, items), Knows(q, h, items), UNCHANGED <<bff, home, book>>,
           NEW u, u = cart[q].user, u \notin disturbed
    PROVE  Served(q, u)'
<1> DEFINE p == cart[q].pod
           entries == IF items = None THEN <<>> ELSE items
<1>1. /\ p \in CartPods /\ u \in Users /\ p = home[u]
      /\ Active(q, u)
      /\ bff[q].pc = "called" /\ bff[q].user = u /\ bff[q].offer = cart[q].offer
      /\ cart[q].method = CartMethod[bff[q].route]
  BY Handles
<1>2. p # None
  BY <1>1, NoneAssumption
<1>3. cart'[q] = h /\ carts'[p][u] = items
  <2>1. /\ carts \in [CartPods -> [Users -> Seq(Cart!Entries) \cup {None}]]
        /\ cart \in [Requests -> CartHandler]
    BY ShopTypes DEF IInv
  <2> QED BY <1>1, <2>1 DEF MovesShared, GoesTo
<1>4. Kept(u)' = entries
  BY <1>1, <1>2, <1>3 DEF Kept
<1>5. bff[q].route \in Protected
  BY <1>1 DEF Active
<1>6. Due(q)' = DueAt(cart[q].method, h.pc, book[u], cart[q].offer)
  BY <1>1, <1>3, <1>5, CartMethods DEF Due, DueAt
<1>7. Holds(Kept(u), Due(q))' \/ (h.pc = "done" /\ h.status # 200)
  BY <1>4, <1>6 DEF Knows
<1>8. h.pc # "done" => h.pod = p /\ h.user = u /\ h.offer = cart[q].offer
  BY DEF MovesShared, GoesTo
<1>9. /\ home'[u] \in CartPods
      /\ (Cart!Running(q)' => cart'[q].pod = home'[u] /\ cart'[q].user = u)
  BY <1>1, <1>3, <1>8 DEF Cart!Running
<1>10. /\ cart'[q].pc = "create" => carts'[home'[u]][u] = None
       /\ cart'[q].pc \in {"append", "store"} =>
            \A i \in DOMAIN Kept(u)' : Kept(u)'[i].offer # cart'[q].offer
       /\ cart'[q].pc = "store" => cart'[q].seen = Kept(u)'
       /\ cart'[q].pc = "update" =>
            cart'[q].at \in DOMAIN Kept(u)' /\ Kept(u)'[cart'[q].at].offer = cart'[q].offer
  BY <1>1, <1>3, <1>4, <1>8 DEF Knows, Lacks
<1>11. /\ bff'[q].pc = "called"
       /\ (/\ cart'[q].pc = "done" /\ cart'[q].status = 200
           /\ bff'[q].route \in {"/cart", "/checkout"})
            => Holds(cart[q].seen, book[u])'
  BY <1>1, <1>3, <1>5, CartMethods DEF Knows
<1> QED BY <1>3, <1>7, <1>9, <1>10, <1>11 DEF Served

\* The other users, requests and handlers do not notice.
LEMMA CartMoves ==
    ASSUME IInv, NEW q \in Requests, Cart!Running(q), NEW h, NEW items,
           MovesShared(q, h, items),
           UNCHANGED <<authVars, raced, workload, bff, sessions, bookkeeping>>,
           cart[q].user \notin disturbed => Knows(q, h, items)
    PROVE  TypeOK' /\ Auth!IInv' /\ HandlerInv' /\ BffInv' /\ KeptInv'
<1>1. TypeOK /\ Auth!IInv /\ HandlerInv /\ BffInv /\ KeptInv
  BY DEF IInv
<1>2. /\ carts \in [CartPods -> [Users -> Seq(Cart!Entries) \cup {None}]]
      /\ cart \in [Requests -> CartHandler]
      /\ home \in [Users -> CartPods \cup {None}]
  BY <1>1, ShopTypes
<1>3. PICK p \in CartPods, u \in Users : p = cart[q].pod /\ u = cart[q].user
  BY Handles
<1>4. /\ carts' = [carts EXCEPT ![p][u] = items]
      /\ cart' \in [Requests -> CartHandler] /\ cart'[q] = h
      /\ h \in CartHandler /\ items \in Seq(Cart!Entries) \cup {None}
  BY <1>3 DEF MovesShared, GoesTo
<1>5. /\ carts' \in [CartPods -> [Users -> Seq(Cart!Entries) \cup {None}]]
      /\ cart' \in [Requests -> CartHandler]
  BY <1>2, <1>4
<1>6. /\ \A r \in Requests \ {q} : cart'[r] = cart[r] \/ SeesAnew(q, r)
      /\ \A x \in CartPods, y \in Users :
            carts'[x][y] = IF x = p /\ y = u THEN items ELSE carts[x][y]
  BY <1>2, <1>4 DEF MovesShared
<1>7. UNCHANGED <<raced, workload, bff, disturbed, book, home, begun, jar, loggedIn>>
  BY DEF bookkeeping, sessions
<1>8. Auth!IInv'
  BY <1>1, AuthStepIInv DEF authVars, Auth!authVars
<1>9. TypeOK'
  BY <1>1, <1>5, <1>7, <1>8 DEF TypeOK, Cart!TypeOK, CartHandler, Auth!IInv
<1>10. HandlerInv'
  <2> SUFFICES ASSUME NEW r \in Requests, Cart!Running(r)' PROVE HandlerOf(r)'
    BY DEF HandlerInv
  <2>1. CASE r = q
    <3>1. /\ cart'[r] = h /\ h.pc # "done" /\ carts'[p][u] = items
          /\ h.pod = p /\ h.user = u /\ h.offer = cart[q].offer
          /\ h.method = cart[q].method
          /\ h.pc # "create" => items # None
          /\ h.pc # "stray"
          /\ h.pc \in {"GET", "POST", "DELETE"} => h.method = h.pc
          /\ h.pc \in {"append", "store", "update", "emit"} => h.method = "POST"
      BY <1>3, <1>4, <1>6, <2>1 DEF Cart!Running, MovesShared, GoesTo
    <3> QED BY <1>1, <1>3, <1>7, <2>1, <3>1 DEF HandlerInv, HandlerOf, Cart!Items
  <2>2. CASE r # q
    <3>1. /\ Cart!Running(r) /\ cart'[r].pc = cart[r].pc
          /\ cart'[r].pod = cart[r].pod /\ cart'[r].user = cart[r].user
          /\ cart'[r].method = cart[r].method /\ cart'[r].offer = cart[r].offer
      BY <1>6, <2>2, SeesAnewIs DEF Cart!Running
    <3>2. cart[r].pod \in CartPods /\ cart[r].user \in Users
      BY <1>1, <3>1 DEF HandlerInv, HandlerOf
    <3>3. items = None => carts[p][u] = None
      BY <1>3 DEF MovesShared, GoesTo, Cart!Items
    <3>4. cart[r].pc \notin {"check", "create", "stray"} =>
            carts'[cart[r].pod][cart[r].user] # None
      BY <1>1, <1>6, <3>1, <3>2, <3>3 DEF HandlerInv, HandlerOf, Cart!Items
    <3> QED BY <1>1, <1>7, <3>1, <3>2, <3>4 DEF HandlerInv, HandlerOf, Cart!Items
  <2> QED BY <2>1, <2>2
<1>11. BffInv'
  <2>1. bff[q].pc \notin {"waiting", "call"}
    BY <1>1, CartIdleType DEF BffInv, Cart!Running
  <2>2. \A r \in Requests \ {q} : cart'[r] = cart[r] \/ bff[r].pc \notin {"waiting", "call"}
    BY <1>1, <1>6, SeesAnewIs, CartIdleType DEF BffInv, Cart!Running
  <2> QED BY <1>1, <1>7, <2>1, <2>2 DEF BffInv
<1>12. KeptInv'
  <2> SUFFICES ASSUME NEW v \in Users \ disturbed PROVE KeptOf(v)'
    BY <1>7 DEF KeptInv
  <2>1. KeptOf(v) /\ \A r \in Requests : Active(r, v)' = Active(r, v)
    BY <1>1, <1>7 DEF KeptInv, Active
  <2>2. CASE v = u
    <3>1. p = home[v] /\ \A r \in Requests : Active(r, v) <=> r = q
      BY <1>3, <2>2, Handles
    <3>2. Served(q, v)'
      BY <1>3, <1>7, <2>2, ServedAfter
    <3>3. \A x \in CartPods \ {home[v]} : carts'[x][v] = None
      BY <1>6, <2>1, <3>1 DEF KeptOf
    <3> QED BY <1>7, <2>1, <3>1, <3>2, <3>3 DEF KeptOf
  <2>3. CASE v # u
    <3>1. ~ Active(q, v)
      BY <1>3, <2>1, <2>3 DEF KeptOf, Served
    <3>2. ASSUME NEW r \in Requests, Active(r, v) PROVE cart'[r] = cart[r]
      <4>1. Cart!Running(r) => cart[r].user = v
        BY <2>1, <3>2 DEF KeptOf, Served
      <4> QED BY <1>6, <3>1, <3>2, <4>1, SeesAnewIs
    <3> QED BY <1>2, <1>6, <1>7, <2>1, <2>3, <3>2, KeptFrame
  <2> QED BY <2>2, <2>3
<1> QED BY <1>8, <1>9, <1>10, <1>11, <1>12

\* Nor does who counts the units, when the cart stays as it is, or is cleared,
\* and the handler has not read anything else than the cart.
LEMMA CartMovesIInv ==
    ASSUME IInv, NEW q \in Requests, Cart!Running(q), NEW h, NEW items,
           Moves(q, h, items),
           UNCHANGED <<authVars, raced, workload, bff, sessions, bookkeeping>>,
           cart[q].user \notin disturbed => Knows(q, h, items),
           items = Cart!Items(q) \/ items = <<>>,
           h.pc = "store" => h.seen = Cart!Items(q) /\ h.seen # None
    PROVE  IInv'
<1>1. TypeOK' /\ Auth!IInv' /\ HandlerInv' /\ BffInv' /\ KeptInv'
  BY CartMoves, MovesAlone
<1>2. PICK p \in CartPods, u \in Users : p = cart[q].pod /\ u = cart[q].user
  BY Handles
<1>3. /\ \A r \in Requests : cart'[r] = IF r = q THEN h ELSE cart[r]
      /\ \A x \in CartPods, y \in Users :
            carts'[x][y] = IF x = p /\ y = u THEN items ELSE carts[x][y]
  BY <1>2, ShopTypes DEF IInv, Moves, GoesTo
<1>4. Coming' \subseteq Coming
  BY <1>3 DEF Moves, GoesTo, Coming, Cart!Running
<1>5. begun' = begun
  BY DEF bookkeeping
<1>6. Cardinality(Coming)' <= begun /\ \A x : Within(x) => Within(x)'
  BY <1>4, <1>5, ComingShrinks DEF IInv, CountInv
<1>7. ASSUME h.pc = "store" PROVE Within(cart[q].seen)'
  <2>1. Within(h.seen)
    BY <1>2, <1>7 DEF IInv, CountInv, Cart!Items
  <2>2. Within(h.seen)'
    BY <1>6, <2>1
  <2> QED BY <1>3, <2>2 DEF Within
<1>8. Within(<<>>)'
  <2>1. IsFiniteSet(Units(<<>>, Offers)) /\ Total(<<>>) = 0
    BY NoUnits
  <2>2. Total(<<>>) + Cardinality(Coming') <= begun'
    <3>1. Cardinality(Coming') \in Nat
      BY <1>4, ComingType, FS_Subset, FS_CardinalityType
    <3> QED BY <1>5, <1>6, <2>1, <3>1
  <2> QED BY <2>1, <2>2 DEF Within
<1>9. ASSUME NEW x \in CartPods, NEW y \in Users, carts'[x][y] # None
      PROVE  carts'[x][y] = carts[x][y] \/ Within(carts[x][y])'
  <2>1. CASE carts'[x][y] = <<>>
    BY <1>8, <2>1 DEF Within
  <2>2. CASE carts'[x][y] # <<>>
    BY <1>2, <1>3, <2>2 DEF Cart!Items
  <2> QED BY <2>1, <2>2
<1>10. CountInv'
  BY <1>3, <1>4, <1>5, <1>7, <1>9, CountFrame DEF IInv
<1> QED BY <1>1, <1>10 DEF IInv

\* What a handler is and finds.
LEMMA HandlerTypes ==
    ASSUME IInv, NEW q \in Requests, Cart!Running(q)
    PROVE  /\ cart \in [Requests -> CartHandler] /\ cart[q] \in CartHandler
           /\ carts \in [CartPods -> [Users -> Seq(Cart!Entries) \cup {None}]]
           /\ cart[q].pod \in CartPods /\ cart[q].user \in Users
           /\ book[cart[q].user] \in [Offers -> Nat]
           /\ Cart!Items(q) \in Seq(Cart!Entries) \cup {None}
           /\ cart[q].method \in {"GET", "POST", "DELETE"}
           /\ cart[q].pc \notin {"check", "create", "stray"} => Cart!Items(q) # None
           /\ cart[q].method = "POST" => cart[q].offer \in Offers
           /\ cart[q].pc \in {"GET", "POST", "DELETE"} => cart[q].method = cart[q].pc
           /\ cart[q].pc \in {"append", "store", "update", "emit"} => cart[q].method = "POST"
           /\ carts = [carts EXCEPT ![cart[q].pod][cart[q].user] = Cart!Items(q)]
<1>1. /\ carts \in [CartPods -> [Users -> Seq(Cart!Entries) \cup {None}]]
      /\ cart \in [Requests -> CartHandler]
      /\ book \in [Users -> [Offers -> Nat]]
  BY ShopTypes DEF IInv
<1>2. /\ cart[q].pod \in CartPods /\ cart[q].user \in Users
      /\ cart[q].method \in {"GET", "POST", "DELETE"}
      /\ cart[q].pc \notin {"check", "create", "stray"} => Cart!Items(q) # None
      /\ cart[q].method = "POST" => cart[q].offer \in Offers
      /\ cart[q].pc \in {"GET", "POST", "DELETE"} => cart[q].method = cart[q].pc
      /\ cart[q].pc \in {"append", "store", "update", "emit"} => cart[q].method = "POST"
  BY DEF IInv, HandlerInv, HandlerOf
<1>3. /\ Cart!Items(q) \in Seq(Cart!Entries) \cup {None}
      /\ carts = [carts EXCEPT ![cart[q].pod][cart[q].user] = Cart!Items(q)]
  BY <1>1, <1>2 DEF Cart!Items
<1> QED BY <1>1, <1>2, <1>3

LEMMA CheckCartIInv ==
    ASSUME IInv, NEW q \in Requests, Cart!CheckCart(q),
           UNCHANGED <<authVars, raced, workload, bff, sessions, bookkeeping>>
    PROVE  IInv'
<1> DEFINE items == Cart!Items(q)
           pc == IF items = None THEN "create" ELSE cart[q].method
           h == [cart[q] EXCEPT !.pc = pc]
<1>1. /\ Cart!Running(q) /\ cart[q].pc = "check" /\ UNCHANGED carts
      /\ cart' = [cart EXCEPT ![q] = h]
  BY DEF Cart!Running, Cart!CheckCart, Cart!Goto
<1>2. /\ cart[q] \in CartHandler /\ items \in Seq(Cart!Entries) \cup {None}
      /\ cart[q].method \in {"GET", "POST", "DELETE"}
      /\ carts = [carts EXCEPT ![cart[q].pod][cart[q].user] = items]
  BY <1>1, HandlerTypes
<1>3. /\ pc \in {"create", "GET", "POST", "DELETE"}
      /\ pc = "create" <=> items = None
      /\ pc # "create" => pc = cart[q].method
  BY <1>2
<1> HIDE DEF pc, items
<1>4. /\ h \in CartHandler /\ h.pc = pc /\ h.pod = cart[q].pod /\ h.user = cart[q].user
      /\ h.offer = cart[q].offer /\ h.method = cart[q].method
  <2>1. pc \in NextPcs
    BY <1>3 DEF NextPcs
  <2> QED BY <1>2, <2>1, GoesOnType
<1> HIDE DEF h
<1>5. Moves(q, h, items)
  BY <1>1, <1>2, <1>3, <1>4 DEF Moves, GoesTo, items
<1>6. Knows(q, cart[q], items) => Knows(q, h, items)
  BY <1>1, <1>3, <1>4 DEF Knows, DueAt
<1> QED BY <1>1, <1>3, <1>4, <1>5, <1>6, KnowsBefore, CartMovesIInv DEF items

LEMMA CreateCartIInv ==
    ASSUME IInv, NEW q \in Requests, Cart!CreateCart(q),
           UNCHANGED <<authVars, raced, workload, bff, sessions, bookkeeping>>
    PROVE  IInv'
<1> DEFINE h == [cart[q] EXCEPT !.pc = cart[q].method]
<1>1. /\ Cart!Running(q) /\ cart[q].pc = "create" /\ cart' = [cart EXCEPT ![q] = h]
      /\ carts' = [carts EXCEPT ![cart[q].pod][cart[q].user] = <<>>]
  BY DEF Cart!Running, Cart!CreateCart, Cart!Goto, Cart!SetItems
<1>2. cart[q] \in CartHandler /\ cart[q].method \in {"GET", "POST", "DELETE"}
  BY <1>1, HandlerTypes
<1>3. /\ h \in CartHandler /\ h.pc = cart[q].method /\ h.pod = cart[q].pod
      /\ h.user = cart[q].user /\ h.offer = cart[q].offer /\ h.method = cart[q].method
  <2>1. cart[q].method \in NextPcs
    BY <1>2 DEF NextPcs
  <2> QED BY <1>2, <2>1, GoesOnType
<1> HIDE DEF h
<1>4. <<>> \in Seq(Cart!Entries) /\ <<>> # None
  BY EmptyCart
<1>5. Moves(q, h, <<>>)
  BY <1>1, <1>2, <1>3, <1>4 DEF Moves, GoesTo
<1>6. Knows(q, cart[q], Cart!Items(q)) => Knows(q, h, <<>>)
  BY <1>1, <1>2, <1>3, <1>4 DEF Knows, DueAt
<1> QED BY <1>1, <1>2, <1>3, <1>5, <1>6, KnowsBefore, CartMovesIInv

LEMMA GetCartIInv ==
    ASSUME IInv, NEW q \in Requests, Cart!GetCart(q),
           UNCHANGED <<authVars, raced, workload, bff, sessions, bookkeeping>>
    PROVE  IInv'
<1> DEFINE items == Cart!Items(q)
           h == Replied(200, items)
<1>1. /\ Cart!Running(q) /\ cart[q].pc = "GET" /\ UNCHANGED carts
      /\ cart' = [cart EXCEPT ![q] = h]
  BY DEF Cart!Running, Cart!GetCart, Cart!Reply, Replied
<1>2. /\ items \in Seq(Cart!Entries) /\ items # None /\ cart[q].method = "GET"
      /\ carts = [carts EXCEPT ![cart[q].pod][cart[q].user] = items]
  BY <1>1, HandlerTypes
<1> HIDE DEF items
<1>3. h \in CartHandler /\ h.pc = "done" /\ h.status = 200 /\ h.seen = items
  BY <1>2, RepliedType DEF Replies
<1> HIDE DEF h
<1>4. Moves(q, h, items)
  BY <1>1, <1>2, <1>3 DEF Moves, GoesTo
<1>5. Knows(q, cart[q], items) => Knows(q, h, items)
  BY <1>1, <1>2, <1>3 DEF Knows, DueAt
<1> QED BY <1>1, <1>3, <1>4, <1>5, KnowsBefore, CartMovesIInv DEF items

LEMMA ScanItemsIInv ==
    ASSUME IInv, NEW q \in Requests, Cart!ScanItems(q),
           UNCHANGED <<authVars, raced, workload, bff, sessions, bookkeeping>>
    PROVE  IInv'
<1> DEFINE items == Cart!Items(q)
<1>1. Cart!Running(q) /\ cart[q].pc = "POST" /\ UNCHANGED carts
  BY DEF Cart!Running, Cart!ScanItems
<1>2. /\ cart \in [Requests -> CartHandler] /\ cart[q] \in CartHandler
      /\ items \in Seq(Cart!Entries) /\ items # None /\ cart[q].method = "POST"
      /\ carts = [carts EXCEPT ![cart[q].pod][cart[q].user] = items]
  BY <1>1, HandlerTypes
<1>3. CASE Lacks(items, cart[q].offer) /\ Cart!Goto(q, "append")
  <2> DEFINE h == [cart[q] EXCEPT !.pc = "append"]
  <2>1. /\ h \in CartHandler /\ h.pc = "append" /\ h.pod = cart[q].pod
        /\ h.user = cart[q].user /\ h.offer = cart[q].offer /\ h.method = cart[q].method
    BY <1>2, GoesOnType DEF NextPcs
  <2>2. cart' = [cart EXCEPT ![q] = h]
    BY <1>3 DEF Cart!Goto
  <2> HIDE DEF h, items
  <2>3. Moves(q, h, items)
    BY <1>1, <1>2, <2>1, <2>2 DEF Moves, GoesTo
  <2>4. Knows(q, cart[q], items) => Knows(q, h, items)
    BY <1>1, <1>2, <1>3, <2>1 DEF Knows, DueAt
  <2> QED BY <1>1, <2>1, <2>3, <2>4, KnowsBefore, CartMovesIInv DEF items
<1>4. ASSUME NEW i \in DOMAIN items, items[i].offer = cart[q].offer,
             cart' = [cart EXCEPT ![q].pc = "update", ![q].at = i]
      PROVE  IInv'
  <2> DEFINE c == [cart[q] EXCEPT !.pc = "update"]
             h == [c EXCEPT !.at = i]
  <2>1. i \in Nat
    BY <1>2, EntryType
  <2>2. cart' = [cart EXCEPT ![q] = h]
    BY <1>2, <1>4
  <2>3. /\ c \in CartHandler /\ c.pc = "update" /\ c.pod = cart[q].pod
        /\ c.user = cart[q].user /\ c.offer = cart[q].offer /\ c.method = cart[q].method
    BY <1>2, GoesOnType DEF NextPcs
  <2> HIDE DEF c
  <2>4. /\ h \in CartHandler /\ h.pc = "update" /\ h.pod = cart[q].pod /\ h.at = i
        /\ h.user = cart[q].user /\ h.offer = cart[q].offer /\ h.method = cart[q].method
    BY <2>1, <2>3, AtType
  <2> HIDE DEF h, items
  <2>5. Moves(q, h, items)
    BY <1>1, <1>2, <2>2, <2>4 DEF Moves, GoesTo
  <2>6. Knows(q, cart[q], items) => Knows(q, h, items)
    BY <1>1, <1>2, <1>4, <2>4 DEF Knows, DueAt
  <2> QED BY <1>1, <2>4, <2>5, <2>6, KnowsBefore, CartMovesIInv DEF items
<1> QED BY <1>3, <1>4 DEF Cart!ScanItems, Lacks

LEMMA ReadItemsIInv ==
    ASSUME IInv, NEW q \in Requests, Cart!ReadItems(q),
           UNCHANGED <<authVars, raced, workload, bff, sessions, bookkeeping>>
    PROVE  IInv'
<1> DEFINE items == Cart!Items(q)
           c == [cart[q] EXCEPT !.pc = "store"]
           h == [c EXCEPT !.seen = items]
<1>1. Cart!Running(q) /\ cart[q].pc = "append" /\ UNCHANGED carts
  BY DEF Cart!Running, Cart!ReadItems
<1>2. /\ cart \in [Requests -> CartHandler] /\ cart[q] \in CartHandler
      /\ items \in Seq(Cart!Entries) /\ items # None /\ cart[q].method = "POST"
      /\ carts = [carts EXCEPT ![cart[q].pod][cart[q].user] = items]
  BY <1>1, HandlerTypes
<1>3. cart' = [cart EXCEPT ![q] = h]
  BY <1>2 DEF Cart!ReadItems
<1>4. /\ c \in CartHandler /\ c.pc = "store" /\ c.pod = cart[q].pod
      /\ c.user = cart[q].user /\ c.offer = cart[q].offer /\ c.method = cart[q].method
  BY <1>2, GoesOnType DEF NextPcs
<1> HIDE DEF c, items
<1>5. /\ h \in CartHandler /\ h.pc = "store" /\ h.pod = cart[q].pod /\ h.seen = items
      /\ h.user = cart[q].user /\ h.offer = cart[q].offer /\ h.method = cart[q].method
  BY <1>2, <1>4, SeenType
<1> HIDE DEF h
<1>6. Moves(q, h, items)
  BY <1>1, <1>2, <1>3, <1>5 DEF Moves, GoesTo
<1>7. Knows(q, cart[q], items) => Knows(q, h, items)
  BY <1>1, <1>2, <1>5 DEF Knows, DueAt
<1> QED BY <1>1, <1>2, <1>5, <1>6, <1>7, KnowsBefore, CartMovesIInv DEF items

LEMMA UpdatePanicsIInv ==
    ASSUME IInv, NEW q \in Requests, Cart!UpdatePanics(q),
           UNCHANGED <<authVars, raced, workload, bff, sessions, bookkeeping>>
    PROVE  IInv'
<1> DEFINE items == Cart!Items(q)
           h == Replied(502, <<>>)
<1>1. /\ Cart!Running(q) /\ cart[q].pc = "update" /\ UNCHANGED carts
      /\ cart' = [cart EXCEPT ![q] = h]
  BY DEF Cart!Running, Cart!UpdatePanics, Cart!Reply, Replied
<1>2. /\ items \in Seq(Cart!Entries) /\ items # None /\ cart[q].method = "POST"
      /\ carts = [carts EXCEPT ![cart[q].pod][cart[q].user] = items]
  BY <1>1, HandlerTypes
<1> HIDE DEF items
<1>3. h \in CartHandler /\ h.pc = "done" /\ h.status = 502
  <2>1. 502 \in Replies
    BY DEF Replies
  <2> QED BY <2>1, RepliedNothing
<1> HIDE DEF h
<1>4. Moves(q, h, items)
  BY <1>1, <1>2, <1>3 DEF Moves, GoesTo
<1>5. Knows(q, h, items)
  BY <1>2, <1>3 DEF Knows
<1> QED BY <1>1, <1>3, <1>4, <1>5, CartMovesIInv DEF items

LEMMA EmitReturnsIInv ==
    ASSUME IInv, NEW q \in Requests, Cart!EmitReturns(q),
           UNCHANGED <<authVars, raced, workload, bff, sessions, bookkeeping>>
    PROVE  IInv'
<1> DEFINE items == Cart!Items(q)
           h == Replied(200, <<>>)
<1>1. /\ Cart!Running(q) /\ cart[q].pc = "emit" /\ UNCHANGED carts
      /\ cart' = [cart EXCEPT ![q] = h]
  BY DEF Cart!Running, Cart!EmitReturns, Cart!Reply, Replied
<1>2. /\ items \in Seq(Cart!Entries) /\ items # None /\ cart[q].method = "POST"
      /\ carts = [carts EXCEPT ![cart[q].pod][cart[q].user] = items]
  BY <1>1, HandlerTypes
<1> HIDE DEF items
<1>3. h \in CartHandler /\ h.pc = "done" /\ h.status = 200
  <2>1. 200 \in Replies
    BY DEF Replies
  <2> QED BY <2>1, RepliedNothing
<1> HIDE DEF h
<1>4. Moves(q, h, items)
  BY <1>1, <1>2, <1>3 DEF Moves, GoesTo
<1>5. Knows(q, cart[q], items) => Knows(q, h, items)
  BY <1>1, <1>2, <1>3 DEF Knows, DueAt
<1> QED BY <1>1, <1>3, <1>4, <1>5, KnowsBefore, CartMovesIInv DEF items

LEMMA ClearCartIInv ==
    ASSUME IInv, NEW q \in Requests, Cart!ClearCart(q),
           UNCHANGED <<authVars, raced, workload, bff, sessions, bookkeeping>>
    PROVE  IInv'
<1> DEFINE h == Replied(200, <<>>)
<1>1. /\ Cart!Running(q) /\ cart[q].pc = "DELETE" /\ cart' = [cart EXCEPT ![q] = h]
      /\ carts' = [carts EXCEPT ![cart[q].pod][cart[q].user] = <<>>]
  BY DEF Cart!Running, Cart!ClearCart, Cart!Reply, Cart!SetItems, Replied
<1>2. cart[q].method = "DELETE"
  BY <1>1, HandlerTypes
<1>3. h \in CartHandler /\ h.pc = "done" /\ h.status = 200
  <2>1. 200 \in Replies
    BY DEF Replies
  <2> QED BY <2>1, RepliedNothing
<1> HIDE DEF h
<1>4. <<>> \in Seq(Cart!Entries) /\ <<>> # None
  BY EmptyCart
<1>5. Moves(q, h, <<>>)
  BY <1>1, <1>3, <1>4 DEF Moves, GoesTo
<1>6. Knows(q, h, <<>>)
  BY <1>2, <1>3, <1>4, HoldsNothing DEF Knows, DueAt
<1> QED BY <1>1, <1>3, <1>5, <1>6, CartMovesIInv

\* Two handlers of a user who is not disturbed are never about to write at once.
LEMMA NotRacing ==
    ASSUME IInv, NEW q \in Requests, Cart!Running(q), cart[q].user \notin disturbed
    PROVE  ~ Cart!Racing(q)
<1> SUFFICES ASSUME NEW r \in Requests \ {q}, cart[r].pc = "update",
                    cart[r].user = cart[q].user
             PROVE  FALSE
  BY DEF Cart!Racing
<1>1. Cart!Running(r)
  BY DEF Cart!Running
<1>2. Active(r, cart[r].user)
  BY <1>1, Handles
<1> QED BY <1>2, Handles

\* The unit of an addition reaches the cart; of two that race, one does.
LEMMA UnitIInv ==
    ASSUME IInv, NEW q \in Requests, Cart!Running(q), NEW h, NEW more,
           MovesShared(q, h, more),
           UNCHANGED <<authVars, raced, workload, bff, sessions, bookkeeping>>,
           cart[q].user \notin disturbed => Knows(q, h, more),
           cart[q].pc # "emit", h.pc = "emit",
           NEW items, Within(items), Grown(items, more),
           \A r \in Requests \ {q} :
                cart'[r] = cart[r] \/ Grown(cart[r].seen, cart'[r].seen)
    PROVE  IInv'
<1>1. TypeOK' /\ Auth!IInv' /\ HandlerInv' /\ BffInv' /\ KeptInv'
  BY CartMoves
<1>2. PICK p \in CartPods, u \in Users : p = cart[q].pod /\ u = cart[q].user
  BY Handles
<1>3. /\ cart'[q] = h /\ \A r \in Requests \ {q} : cart'[r] = cart[r] \/ SeesAnew(q, r)
      /\ \A x \in CartPods, y \in Users :
            carts'[x][y] = IF x = p /\ y = u THEN more ELSE carts[x][y]
  BY <1>2, ShopTypes DEF IInv, MovesShared, GoesTo
<1>4. cart[q].method = "POST" /\ cart[q].pc \notin {"emit", "stray"}
  BY DEF MovesShared, GoesTo
<1>5. q \in Coming /\ Coming' = Coming \ {q}
  <2>1. \A r \in Requests \ {q} : /\ cart'[r].pc = cart[r].pc
                                /\ cart'[r].method = cart[r].method
    BY <1>3, SeesAnewIs
  <2> QED BY <1>3, <1>4, <2>1 DEF Coming, Cart!Running
<1>6. begun' = begun
  BY DEF bookkeeping
<1>7. Within(more)'
  BY <1>5, <1>6, UnitArrives DEF IInv
<1>8. ASSUME NEW x \in CartPods, NEW y \in Users
      PROVE  carts'[x][y] = carts[x][y] \/ Within(carts[x][y])'
  BY <1>3, <1>7 DEF Within
<1>9. ASSUME NEW r \in Requests, cart'[r].pc = "store"
      PROVE  \/ cart[r].pc = "store" /\ cart'[r].seen = cart[r].seen
             \/ Within(cart[r].seen)'
  <2>1. CASE cart'[r] = cart[r]
    BY <1>9, <2>1
  <2>2. CASE cart'[r] # cart[r]
    <3>1. /\ cart[r].pc = "store" /\ Grown(cart[r].seen, cart'[r].seen)
      BY <1>3, <1>9, <2>2, SeesAnewIs
    <3>2. Within(cart[r].seen)
      BY <3>1 DEF IInv, CountInv
    <3>3. ASSUME NEW seen, seen = cart'[r].seen PROVE Within(seen)'
      BY <1>5, <1>6, <3>1, <3>2, <3>3, UnitArrives DEF IInv
    <3> QED BY <3>3 DEF Within
  <2> QED BY <2>1, <2>2
<1>10. CountInv'
  BY <1>5, <1>6, <1>8, <1>9, CountFrame DEF IInv
<1> QED BY <1>1, <1>10 DEF IInv

\* A handler has written an entry, and may be seen to have by others.
LEMMA WrittenIs ==
    ASSUME IInv, NEW q \in Requests, cart[q].pc \in {"update", "store"},
           NEW k, NEW e \in Cart!Entries, Cart!Written(q, k, e)
    PROVE  LET h == [cart[q] EXCEPT !.pc = "emit"] IN
           /\ \A items : GoesTo(q, h, items) => MovesShared(q, h, items)
           /\ \A r \in Requests \ {q} :
                cart'[r] = cart[r] \/ Grown(cart[r].seen, cart'[r].seen)
<1> DEFINE h == [cart[q] EXCEPT !.pc = "emit"]
<1>1. cart \in [Requests -> CartHandler]
  BY ShopTypes DEF IInv
<1>2. PICK rs \in SUBSET Cart!Sharing(q, k, e) :
        cart' = [r \in Requests |->
                    IF r = q THEN h
                    ELSE IF r \in rs THEN [cart[r] EXCEPT !.seen = [cart[r].seen EXCEPT ![k] = e]]
                    ELSE cart[r]]
  BY DEF Cart!Written
<1> DEFINE more(r) == [cart[r].seen EXCEPT ![k] = e]
<1>3. ASSUME NEW r \in rs
      PROVE  /\ r \in Requests \ {q} /\ cart[r].pc = "store" /\ cart[r].user = cart[q].user
             /\ cart[r].seen \in Seq(Cart!Entries)
             /\ more(r) \in Seq(Cart!Entries) /\ Grown(cart[r].seen, more(r))
  <2>1. /\ r \in Requests \ {q} /\ cart[r].pc = "store" /\ cart[r].user = cart[q].user
        /\ k \in DOMAIN cart[r].seen /\ e.quantity <= cart[r].seen[k].quantity + 1
    BY DEF Cart!Sharing
  <2>2. cart[r].seen \in Seq(Cart!Entries)
    BY <1>1, <2>1 DEF CartHandler
  <2>3. Within(cart[r].seen)
    BY <2>1 DEF IInv, CountInv
  <2> QED BY <2>1, <2>2, <2>3, ReplaceUnits
<1>4. h \in CartHandler
  BY <1>1, GoesOnType DEF NextPcs
<1> HIDE DEF h, more
<1>5. ASSUME NEW r \in rs
      PROVE  /\ cart'[r] = [cart[r] EXCEPT !.seen = more(r)]
             /\ cart'[r] \in CartHandler /\ cart'[r].seen = more(r)
  <2>1. cart'[r] = [cart[r] EXCEPT !.seen = more(r)]
    BY <1>2, <1>3 DEF more
  <2> QED BY <1>1, <1>3, <2>1, SeenType
<1>6. /\ cart'[q] = h
      /\ \A r \in Requests \ {q} : cart'[r] = cart[r] \/ r \in rs
  BY <1>2
<1>7. cart' \in [Requests -> CartHandler]
  <2> DEFINE g(r) == IF r = q THEN h
                     ELSE IF r \in rs THEN [cart[r] EXCEPT !.seen = [cart[r].seen EXCEPT ![k] = e]]
                     ELSE cart[r]
  <2>1. cart' = [r \in Requests |-> g(r)]
    BY <1>2
  <2> HIDE DEF g
  <2>2. \A r \in Requests : cart'[r] \in CartHandler
    BY <1>1, <1>4, <1>5, <1>6
  <2> QED BY <2>1, <2>2
<1>8. \A r \in Requests \ {q} : cart'[r] = cart[r] \/ SeesAnew(q, r)
  BY <1>3, <1>5, <1>6 DEF SeesAnew
<1>9. \A r \in Requests \ {q} : cart'[r] = cart[r] \/ Grown(cart[r].seen, cart'[r].seen)
  BY <1>3, <1>5, <1>6
<1>10. \A items : GoesTo(q, h, items) => MovesShared(q, h, items)
  BY <1>6, <1>7, <1>8 DEF MovesShared
<1> QED BY <1>9, <1>10 DEF h

LEMMA UpdateQuantityIInv ==
    ASSUME IInv, NEW q \in Requests, Cart!UpdateQuantity(q),
           UNCHANGED <<authVars, raced, workload, bff, sessions, bookkeeping>>
    PROVE  IInv'
<1> DEFINE items == Cart!Items(q)
           i == cart[q].at
           more == [items EXCEPT ![i].quantity = @ + 1]
           h == [cart[q] EXCEPT !.pc = "emit"]
           b == book[cart[q].user]
<1>1. Cart!Running(q) /\ cart[q].pc = "update" /\ i \in DOMAIN items
  BY DEF Cart!Running, Cart!UpdateQuantity
<1>2. /\ cart[q] \in CartHandler /\ cart[q].pod \in CartPods /\ cart[q].user \in Users
      /\ items \in Seq(Cart!Entries) /\ items # None /\ cart[q].method = "POST"
      /\ carts = [carts EXCEPT ![cart[q].pod][cart[q].user] = items]
      /\ b \in [Offers -> Nat]
  BY <1>1, HandlerTypes
<1>3. /\ h \in CartHandler /\ h.pc = "emit" /\ h.pod = cart[q].pod
      /\ h.user = cart[q].user /\ h.offer = cart[q].offer /\ h.method = cart[q].method
  BY <1>2, GoesOnType DEF NextPcs
<1>4. CASE /\ carts' = [carts EXCEPT ![cart[q].pod][cart[q].user] = more]
            /\ Cart!Written(q, i, more[i])
  <2>1. more \in Seq(Cart!Entries) /\ more # None /\ more[i] \in Cart!Entries
    <3>1. more \in Seq(Cart!Entries) /\ i \in DOMAIN more
      BY <1>1, <1>2, OneMore
    <3> HIDE DEF more
    <3> QED BY <3>1, NoneNoCart
  <2>2. Within(items)
    BY <1>2 DEF IInv, CountInv, Cart!Items
  <2>3. Grown(items, more)
    <3>1. IsFiniteSet(Units(more, Offers)) /\ Total(more) = Total(items) + 1
      BY <1>1, <1>2, <2>2, OneMoreUnits
    <3>2. Total(more) \in Nat
      BY <3>1, TotalType
    <3> QED BY <3>1, <3>2 DEF Grown
  <2>4. ASSUME Knows(q, cart[q], items) PROVE Knows(q, h, more)
    <3>1. /\ items[i].offer = cart[q].offer
          /\ Holds(items, b)
      BY <1>1, <1>2, <2>4 DEF Knows, DueAt
    <3>2. Holds(more, [b EXCEPT ![cart[q].offer] = @ + 1])
      BY <1>1, <1>2, <3>1, HoldsOneMore
    <3> HIDE DEF more, items
    <3> QED BY <1>2, <1>3, <2>1, <3>2 DEF Knows, DueAt
  <2> HIDE DEF more
  <2>5. GoesTo(q, h, more)
    BY <1>1, <1>2, <1>3, <1>4, <2>1 DEF GoesTo
  <2>6. /\ MovesShared(q, h, more)
        /\ \A r \in Requests \ {q} :
             cart'[r] = cart[r] \/ Grown(cart[r].seen, cart'[r].seen)
    BY <1>1, <1>4, <2>1, <2>5, WrittenIs
  <2> HIDE DEF h
  <2> QED BY <1>1, <1>3, <2>2, <2>3, <2>4, <2>6, KnowsBefore, UnitIInv
<1>5. CASE /\ cart' = [cart EXCEPT ![q] = h]
            /\ Cart!Racing(q) /\ UNCHANGED carts
  <2> HIDE DEF h
  <2>1. cart[q].user \in disturbed
    BY <1>1, <1>5, NotRacing
  <2> HIDE DEF items
  <2>2. Moves(q, h, items)
    BY <1>1, <1>2, <1>3, <1>5 DEF Moves, GoesTo
  <2> QED BY <1>1, <1>3, <2>1, <2>2, CartMovesIInv DEF items
<1> QED BY <1>4, <1>5 DEF Cart!UpdateQuantity, Cart!SetItems, Cart!Goto

LEMMA StoreItemsIInv ==
    ASSUME IInv, NEW q \in Requests, Cart!StoreItems(q),
           UNCHANGED <<authVars, raced, workload, bff, sessions, bookkeeping>>
    PROVE  IInv'
<1> DEFINE items == cart[q].seen
           o == cart[q].offer
           more == Append(items, Cart!Entry(o))
           h == [cart[q] EXCEPT !.pc = "emit"]
           b == book[cart[q].user]
<1>1. /\ Cart!Running(q) /\ cart[q].pc = "store"
      /\ carts' = [carts EXCEPT ![cart[q].pod][cart[q].user] = more]
      /\ Cart!Written(q, Len(items) + 1, Cart!Entry(o))
  BY DEF Cart!Running, Cart!StoreItems, Cart!SetItems
<1>2. /\ cart[q] \in CartHandler /\ cart[q].method = "POST" /\ o \in Offers
      /\ b \in [Offers -> Nat] /\ Cart!Items(q) # None
  BY <1>1, HandlerTypes
<1>3. items \in Seq(Cart!Entries)
  BY <1>2 DEF CartHandler
<1>4. more \in Seq(Cart!Entries) /\ more # None
  BY <1>2, <1>3, NewEntryType, NoneNoCart
<1>5. /\ h \in CartHandler /\ h.pc = "emit" /\ h.pod = cart[q].pod
      /\ h.user = cart[q].user /\ h.offer = o /\ h.method = cart[q].method
  BY <1>2, GoesOnType DEF NextPcs
<1>6. Within(items)
  BY <1>1 DEF IInv, CountInv
<1>7. Grown(items, more)
  <2>1. IsFiniteSet(Units(more, Offers)) /\ Total(more) = Total(items) + 1
    BY <1>2, <1>3, <1>6, AppendUnits
  <2>2. Total(more) \in Nat
    BY <2>1, TotalType
  <2> QED BY <2>1, <2>2 DEF Grown
<1>8. ASSUME Knows(q, cart[q], Cart!Items(q)) PROVE Knows(q, h, more)
  <2>1. Lacks(items, o) /\ Holds(items, b)
    BY <1>1, <1>2, <1>8 DEF Knows, DueAt
  <2>2. Holds(more, [b EXCEPT ![o] = @ + 1])
    BY <1>2, <1>3, <2>1, HoldsAppend DEF Lacks
  <2> HIDE DEF more, h
  <2> QED BY <1>2, <1>4, <1>5, <2>2 DEF Knows, DueAt
<1> HIDE DEF more
<1>9. GoesTo(q, h, more)
  BY <1>1, <1>2, <1>4, <1>5 DEF GoesTo
<1>10. /\ MovesShared(q, h, more)
       /\ \A r \in Requests \ {q} :
            cart'[r] = cart[r] \/ Grown(cart[r].seen, cart'[r].seen)
  BY <1>1, <1>2, <1>9, NewEntryType, WrittenIs
<1> HIDE DEF h, items
<1> QED BY <1>1, <1>5, <1>6, <1>7, <1>8, <1>10, KnowsBefore, UnitIInv

LEMMA StrayIInv ==
    ASSUME IInv, NEW q \in Requests, Cart!Stray(q),
           UNCHANGED <<authVars, raced, workload, bff, sessions, bookkeeping>>
    PROVE  IInv'
<1>1. Cart!Running(q) /\ cart[q].pc = "stray" /\ UNCHANGED carts
  BY DEF Cart!Running, Cart!Stray
<1>2. PICK s \in Replies, items \in Seq(Cart!Entries) : Cart!Reply(q, s, items)
  <2>1. PICK e \in Seq(Cart!Entries) : e = <<>>
    BY EmptyCart
  <2>2. Wild \subseteq Seq(Cart!Entries)
    BY WildAssumption DEF Cart!Entries
  <2>3. CASE Cart!Reply(q, 502, <<>>)
    <3>1. Cart!Reply(q, 502, e) /\ 502 \in Replies
      BY <2>1, <2>3 DEF Replies
    <3> QED BY <3>1
  <2>4. ASSUME NEW x \in Wild \cup {<<>>}, Cart!Reply(q, 200, x)
        PROVE  \E s \in Replies, items \in Seq(Cart!Entries) : Cart!Reply(q, s, items)
    <3>1. PICK y \in Seq(Cart!Entries) : y = x
      BY <2>1, <2>2
    <3>2. Cart!Reply(q, 200, y) /\ 200 \in Replies
      BY <2>4, <3>1 DEF Replies
    <3> QED BY <3>2
  <2>5. \/ Cart!Reply(q, 502, <<>>)
        \/ \E x \in Wild \cup {<<>>} : Cart!Reply(q, 200, x)
    BY DEF Cart!Stray
  <2> QED BY <2>3, <2>4, <2>5
<1> DEFINE h == Replied(s, items)
<1>3. h \in CartHandler /\ h.pc = "done"
  BY RepliedType
<1>4. cart' = [cart EXCEPT ![q] = h]
  BY <1>2 DEF Cart!Reply, Replied
<1> HIDE DEF h
<1>5. /\ Cart!Items(q) \in Seq(Cart!Entries) \cup {None}
      /\ carts = [carts EXCEPT ![cart[q].pod][cart[q].user] = Cart!Items(q)]
  BY <1>1, HandlerTypes
<1>6. Moves(q, h, Cart!Items(q))
  BY <1>1, <1>3, <1>4, <1>5 DEF Moves, GoesTo
<1>7. cart[q].user \in disturbed
  BY <1>1 DEF IInv, HandlerInv, HandlerOf
<1> QED BY <1>1, <1>3, <1>6, <1>7, CartMovesIInv

LEMMA CartStepIInv ==
    ASSUME IInv, NEW q \in Requests, CartStep(q)
    PROVE  IInv'
<1>1. Cart!HandlerStep(q) /\ UNCHANGED <<authVars, workload, bff, sessions, bookkeeping>>
  BY DEF CartStep
<1>2. UNCHANGED raced
  BY <1>1 DEF Cart!HandlerStep, Cart!CheckCart, Cart!CreateCart, Cart!GetCart,
              Cart!ScanItems, Cart!UpdateQuantity, Cart!UpdatePanics, Cart!ReadItems,
              Cart!StoreItems, Cart!EmitReturns, Cart!ClearCart, Cart!Stray
<1> QED BY <1>1, <1>2, CheckCartIInv, CreateCartIInv, GetCartIInv, ScanItemsIInv,
           UpdateQuantityIInv, UpdatePanicsIInv, ReadItemsIInv, StoreItemsIInv,
           EmitReturnsIInv, ClearCartIInv, StrayIInv
        DEF Cart!HandlerStep

-----------------------------------------------------------------------------
(* The BFF.                                                                *)

LEMMA InitIInv == Init => IInv
<1> SUFFICES ASSUME Init PROVE IInv
  OBVIOUS
<1>1. /\ carts = [p \in CartPods |-> [u \in Users |-> None]]
      /\ cart = [q \in Requests |-> Cart!Idle]
      /\ bff = [q \in Requests |-> Waiting]
      /\ book = [u \in Users |-> NoOffers]
      /\ home = [u \in Users |-> None]
      /\ disturbed = {} /\ begun = 0
  BY DEF Init
<1>2. Auth!IInv
  BY AuthInitIInv DEF Init
<1>3. NoOffers \in [Offers -> Nat]
  BY DEF NoOffers
<1>4. TypeOK
  <2>1. Cart!TypeOK
    <3>1. raced = {}
      BY DEF Init
    <3> QED BY <1>1, <3>1, CartIdleType DEF Cart!TypeOK, CartHandler
  <2>2. bff \in [Requests -> BffRequest]
    BY <1>1, WaitingType
  <2> QED BY <1>1, <1>2, <1>3, <2>1, <2>2 DEF TypeOK, Init, BffRequest, Auth!IInv
<1>5. \A q \in Requests : ~ Cart!Running(q) /\ cart[q].pc = "idle" /\ bff[q].pc = "waiting"
  BY <1>1, CartIdleType, WaitingType DEF Cart!Running
<1>6. HandlerInv /\ BffInv
  BY <1>1, <1>5 DEF HandlerInv, HandlerOf, BffInv
<1>7. KeptInv
  <2> SUFFICES ASSUME NEW u \in Users PROVE KeptOf(u)
    BY DEF KeptInv
  <2>1. \A q \in Requests : ~ Active(q, u)
    BY <1>5 DEF Active
  <2>2. Kept(u) = <<>> /\ book[u] = NoOffers
    BY <1>1 DEF Kept
  <2> QED BY <1>1, <2>1, <2>2, HoldsNothing DEF KeptOf
<1>8. CountInv
  <2>1. Coming = {}
    BY <1>5 DEF Coming
  <2> QED BY <1>1, <1>5, <2>1, FS_EmptySet DEF CountInv
<1> QED BY <1>2, <1>4, <1>6, <1>7, <1>8 DEF IInv

\* auth-service moves, or tokens and pods do, and no cart is concerned.
LEMMA ElsewhereIInv ==
    ASSUME IInv, Auth!IInv', UNCHANGED <<cartVars, workload, bff, sessions, bookkeeping>>
    PROVE  IInv'
<1>1. UNCHANGED <<carts, cart, raced, workload, bff, jar, loggedIn, disturbed, book, home, begun>>
  BY DEF cartVars, sessions, bookkeeping
<1>2. TypeOK /\ HandlerInv /\ BffInv /\ KeptInv /\ CountInv
  BY DEF IInv
<1>3. TypeOK'
  BY <1>1, <1>2 DEF TypeOK, Cart!TypeOK, Auth!IInv
<1>4. HandlerInv' /\ BffInv' /\ CountInv'
  BY <1>1, <1>2 DEF HandlerInv, HandlerOf, BffInv, CountInv, Within, Coming,
                    Cart!Running, Cart!Items
<1>5. KeptInv'
  <2> SUFFICES ASSUME NEW u \in Users \ disturbed PROVE KeptOf(u)'
    BY <1>1 DEF KeptInv
  <2>1. KeptOf(u) /\ home[u] \in CartPods \cup {None}
    BY <1>2, ShopTypes DEF KeptInv
  <2>2. \A q \in Requests : Active(q, u)' = Active(q, u)
    BY <1>1 DEF Active
  <2> QED BY <1>1, <2>1, <2>2, KeptFrame
<1> QED BY <1>3, <1>4, <1>5 DEF IInv

\* A request that arrives and ends at once, or is on its way to a service.
LEMMA ArrivesIInv ==
    ASSUME IInv, NEW q \in Requests, NEW route, NEW h, Arrive(q, route, h),
           \/ \E outcome \in Outcomes, c \in Clients \cup {None} :
                h = [Ended(outcome) EXCEPT !.client = c]
           \/ \E outcome \in Outcomes : h = Ended(outcome)
           \/ \E r \in Routes, c \in Clients, u \in Users : h = Call(r, c, u),
           jar' \in [Browsers -> Users \cup {None, Blank}],
           loggedIn' \in [Browsers -> Users \cup {None}],
           UNCHANGED <<authVars, cartVars, bookkeeping>>
    PROVE  IInv'
<1>1. /\ bff[q].pc = "waiting" /\ bff' = [bff EXCEPT ![q] = h] /\ UNCHANGED workload
      /\ cart[q] = Cart!Idle
  BY DEF Arrive, Turn, IInv, BffInv
<1>2. Auth!IInv'
  BY AuthStepIInv DEF IInv, authVars, Auth!authVars
<1>3. /\ h \in BffRequest /\ h.pc \in Outcomes \cup {"call"}
      /\ h.pc = "call" => h.user \in Users
  <2>1. ASSUME NEW outcome \in Outcomes, NEW c \in Clients \cup {None}
        PROVE  LET g == [Ended(outcome) EXCEPT !.client = c] IN
               g \in BffRequest /\ g.pc = outcome
    <3>1. Ended(outcome) \in BffRequest /\ Ended(outcome).pc = outcome
      BY EndedType
    <3> QED BY <3>1 DEF BffRequest
  <2>2. ASSUME NEW r \in Routes, NEW c \in Clients, NEW u \in Users
        PROVE  LET g == Call(r, c, u) IN
               g \in BffRequest /\ g.pc = "call" /\ g.user \in Users
    BY CallType
  <2>3. CASE \E outcome \in Outcomes, c \in Clients \cup {None} :
                h = [Ended(outcome) EXCEPT !.client = c]
    BY <2>1, <2>3, OutcomesAre
  <2>4. CASE \E outcome \in Outcomes : h = Ended(outcome)
    BY <2>4, EndedType, OutcomesAre
  <2>5. CASE \E r \in Routes, c \in Clients, u \in Users : h = Call(r, c, u)
    BY <2>2, <2>5
  <2> QED BY <2>3, <2>4, <2>5
<1>4. ~ Between(bff[q]) /\ ~ Between(h)
  BY <1>1, <1>3, OutcomesAre DEF Between
<1> QED BY <1>1, <1>2, <1>3, <1>4, OutcomesAre, BffMoves

\* Whoever the cookie names is a user.
LEMMA CookieUserType ==
    ASSUME TypeOK, NEW c \in Clients
    PROVE  CookieUser(c) \subseteq Users \cup {None}
  BY DEF CookieUser

\* Calls of auth-service that the BFF makes, and their ends.
LEMMA AccountIInv ==
    ASSUME IInv, NEW q \in Requests, NEW h \in BffRequest, bff' = [bff EXCEPT ![q] = h],
           bff[q].route \notin Protected, h.pc \in {"called"} \cup Outcomes,
           h.pc = "called" => h.route \notin Protected,
           h.pc = "called" => h.user \in Users \/ h.route = "/api/v1/validate",
           Auth!IInv',
           jar' \in [Browsers -> Users \cup {None, Blank}],
           loggedIn' \in [Browsers -> Users \cup {None}],
           UNCHANGED <<cartVars, workload, bookkeeping>>
    PROVE  IInv'
<1>1. ~ Between(bff[q]) /\ ~ Between(h)
  BY OutcomesAre DEF Between
<1> QED BY <1>1, OutcomesAre, BffMoves

LEMMA ArrivalIInv ==
    ASSUME IInv, NEW q \in Requests, Arrival(q)
    PROVE  IInv'
<1>1. /\ TypeOK /\ Auth!IInv
      /\ jar \in [Browsers -> Users \cup {None, Blank}]
      /\ loggedIn \in [Browsers -> Users \cup {None}]
  BY DEF IInv, TypeOK
<1>2. PICK c \in Clients :
        \/ \E route \in Routes : Reject(q, route, c) \/ Refuse(q, route, c)
                                 \/ Admit(q, route, c) \/ Present(q, route, c)
        \/ Logout(q, c) \/ Remove(q, c) \/ Validate(q, c)
  BY DEF Arrival
<1>3. {"answered", "failed", "rejected"} = Outcomes /\ Protected \subseteq Routes
  BY DEF Outcomes, Routes
<1>4. ASSUME NEW route \in Routes, Reject(q, route, c) \/ Refuse(q, route, c)
      PROVE  IInv'
  BY <1>1, <1>3, <1>4, ArrivesIInv DEF Reject, Refuse, sessions
<1>5. ASSUME NEW route \in Routes, Admit(q, route, c)
      PROVE  IInv'
  BY <1>1, <1>3, <1>5, CookieUserType, ArrivesIInv DEF Admit, sessions
<1>6. ASSUME NEW route \in Routes, Present(q, route, c)
      PROVE  IInv'
  BY <1>1, <1>3, <1>6, ArrivesIInv DEF Present, sessions
<1>7. CASE Logout(q, c)
  BY <1>1, <1>3, <1>7, ArrivesIInv DEF Logout
<1>8. CASE Remove(q, c)
  BY <1>1, <1>3, <1>8, ArrivesIInv DEF Remove, sessions
<1>9. CASE Validate(q, c)
  <2> DEFINE g == [Waiting EXCEPT !.pc = "called"]
             h == [g EXCEPT !.route = "/api/v1/validate"]
  <2>1. /\ bff[q].pc = "waiting" /\ bff' = [bff EXCEPT ![q] = h]
        /\ UNCHANGED <<workload, cartVars, sessions, bookkeeping>>
    BY <1>9 DEF Validate, Arrive, Turn
  <2>2. g \in BffRequest /\ g.pc = "called"
    BY WaitingType DEF BffRequest
  <2> HIDE DEF g
  <2>3. h \in BffRequest /\ h.pc = "called" /\ h.route = "/api/v1/validate"
    BY <2>2 DEF BffRequest, Routes
  <2> HIDE DEF h
  <2>4. \E t \in Tokens : (\E p \in AuthPods : Auth!Validate(q, p, t)) \/ Auth!RejectToken(q, t)
    BY <1>9 DEF Validate
  <2>5. Auth!IInv'
    BY <1>1, <2>4, AuthCallerIInv DEF Auth!Caller
  <2>6. ~ Between(bff[q]) /\ ~ Between(h)
    BY <2>1, <2>3 DEF Between, Protected
  <2>7. jar' = jar /\ loggedIn' = loggedIn
    BY <2>1 DEF sessions
  <2> QED BY <1>1, <2>1, <2>3, <2>5, <2>6, <2>7, BffMoves
<1> QED BY <1>2, <1>4, <1>5, <1>6, <1>7, <1>8, <1>9

LEMMA CallAuthIInv ==
    ASSUME IInv, NEW q \in Requests, NEW p \in AuthPods, CallAuth(q, p)
    PROVE  IInv'
<1> DEFINE h == [bff[q] EXCEPT !.pc = "called"]
<1>1. /\ TypeOK /\ Auth!IInv /\ BffInv
      /\ jar \in [Browsers -> Users \cup {None, Blank}]
      /\ loggedIn \in [Browsers -> Users \cup {None}]
  BY DEF IInv, TypeOK
<1>2. /\ bff[q].pc = "call" /\ bff[q].route \in {"/login", "/signup"}
      /\ Auth!Login(q, p, bff[q].user) \/ Auth!Signup(q, p, bff[q].user)
      /\ bff' = [bff EXCEPT ![q] = h]
      /\ UNCHANGED <<cartVars, workload, sessions, bookkeeping>>
  BY DEF CallAuth
<1>3. bff[q].user \in Users
  BY <1>1, <1>2 DEF BffInv
<1>4. /\ h \in BffRequest /\ h.pc = "called" /\ h.route = bff[q].route
      /\ h.user = bff[q].user
  <2>1. bff[q] \in BffRequest
    BY <1>1, ShopTypes
  <2> QED BY <2>1 DEF BffRequest
<1> HIDE DEF h
<1>5. Auth!IInv'
  BY <1>1, <1>2, <1>3, AuthCallerIInv DEF Auth!Caller
<1>6. jar' = jar /\ loggedIn' = loggedIn
  BY <1>2 DEF sessions
<1>7. bff[q].route \notin Protected
  BY <1>2 DEF Protected
<1> QED BY <1>1, <1>2, <1>3, <1>4, <1>5, <1>6, <1>7, AccountIInv

LEMMA AuthAnswersIInv ==
    ASSUME IInv, NEW q \in Requests, AuthAnswers(q)
    PROVE  IInv'
<1> DEFINE outcome == IF auth[q].status \in {200, 201} THEN "answered" ELSE "failed"
           h == Ended(outcome)
<1>1. /\ TypeOK /\ Auth!IInv /\ BffInv
      /\ jar \in [Browsers -> Users \cup {None, Blank}]
      /\ loggedIn \in [Browsers -> Users \cup {None}]
  BY DEF IInv, TypeOK
<1>2. /\ bff[q].pc = "called" /\ bff[q].route \notin Protected
      /\ Auth!Collect(q)
      /\ bff' = [bff EXCEPT ![q] = h]
      /\ UNCHANGED <<users, owner, expired, blacklist, cache, cleared, learned>>
      /\ UNCHANGED <<cartVars, workload, bookkeeping>>
      /\ (bff[q].route = "/login" /\ SetCookies(q)) \/ UNCHANGED sessions
  BY DEF AuthAnswers, Respond
<1>3. outcome \in Outcomes
  BY DEF Outcomes
<1>4. h \in BffRequest /\ h.pc = outcome
  BY <1>3, EndedType
<1> HIDE DEF h, outcome
<1>5. Auth!IInv'
  BY <1>1, <1>2, AuthCallerIInv DEF Auth!Caller, Auth!store, Auth!history
<1>6. /\ jar' \in [Browsers -> Users \cup {None, Blank}]
      /\ loggedIn' \in [Browsers -> Users \cup {None}]
  <2>1. CASE UNCHANGED sessions
    BY <1>1, <2>1 DEF sessions
  <2>2. CASE bff[q].route = "/login" /\ SetCookies(q)
    <3>1. bff[q].user \in Users
      BY <1>1, <1>2, <2>2 DEF BffInv
    <3> QED BY <1>1, <2>2, <3>1 DEF SetCookies
  <2> QED BY <1>2, <2>1, <2>2
<1> QED BY <1>2, <1>3, <1>4, <1>5, <1>6, OutcomesAre, AccountIInv

LEMMA AuthUnreachableIInv ==
    ASSUME IInv, NEW q \in Requests, AuthUnreachable(q)
    PROVE  IInv'
<1> DEFINE h == Ended("failed")
<1>1. /\ jar \in [Browsers -> Users \cup {None, Blank}]
      /\ loggedIn \in [Browsers -> Users \cup {None}]
  BY DEF IInv, TypeOK
<1>2. /\ bff[q].route \in {"/login", "/signup"}
      /\ bff' = [bff EXCEPT ![q] = h]
      /\ UNCHANGED <<authVars, cartVars, workload, sessions, bookkeeping>>
  BY DEF AuthUnreachable, Respond
<1>3. "failed" \in Outcomes
  BY DEF Outcomes
<1>4. h \in BffRequest /\ h.pc = "failed"
  BY <1>3, EndedType
<1> HIDE DEF h
<1>5. Auth!IInv'
  BY <1>2, AuthStepIInv DEF IInv, authVars, Auth!authVars
<1>6. jar' = jar /\ loggedIn' = loggedIn
  BY <1>2 DEF sessions
<1>7. bff[q].route \notin Protected
  BY <1>2 DEF Protected
<1> QED BY <1>1, <1>2, <1>3, <1>4, <1>5, <1>6, <1>7, OutcomesAre, AccountIInv

LEMMA AuthMovesIInv ==
    ASSUME IInv, AuthEnvironment \/ \E q \in Requests : AuthStep(q)
    PROVE  IInv'
<1>1. Auth!IInv' /\ UNCHANGED <<cartVars, workload, bff, sessions, bookkeeping>>
  BY AuthStepIInv DEF AuthEnvironment, AuthStep, Auth!Next, IInv
<1> QED BY <1>1, ElsewhereIInv

-----------------------------------------------------------------------------
(* Calls of cart-service and what becomes of them.                         *)

\* Nobody but u notices what becomes of the request q of u.
LEMMA OthersKept ==
    ASSUME IInv, NEW q \in Requests, NEW u \in Users, NEW v \in Users \ disturbed, v # u,
           bff[q].user = u, bff'[q].user \in {u, None},
           \A r \in Requests \ {q} : bff'[r] = bff[r] /\ cart'[r] = cart[r],
           home'[v] = home[v], book'[v] = book[v], UNCHANGED carts
    PROVE  KeptOf(v)'
<1>1. KeptOf(v) /\ home[v] \in CartPods \cup {None}
  BY ShopTypes DEF IInv, KeptInv
<1>2. v # None
  BY NoneAssumption
<1>3. \A r \in Requests : Active(r, v)' = Active(r, v)
  BY <1>2 DEF Active
<1>4. \A r \in Requests : Active(r, v) => bff'[r] = bff[r] /\ cart'[r] = cart[r]
  BY DEF Active
<1> QED BY <1>1, <1>3, <1>4, KeptFrame

\* From now on u expects something, unless its cart is disturbed.
Expects(u) == \E b \in [Offers -> Nat] : Expect(u, b)

\* Disturb and Expect: whom they leave alone.
LEMMA BooksType ==
    ASSUME TypeOK, NEW u \in Users,
           Disturb({u}) \/ Expects(u)
    PROVE  /\ book' \in [Users -> [Offers -> Nat]]
           /\ home' \in [Users -> CartPods \cup {None}]
           /\ disturbed' \in SUBSET Users /\ disturbed \subseteq disturbed'
           /\ \A v \in Users : v # u => home'[v] = home[v] /\ book'[v] = book[v]
<1>1. /\ book \in [Users -> [Offers -> Nat]] /\ home \in [Users -> CartPods \cup {None}]
      /\ disturbed \in SUBSET Users
  BY ShopTypes
<1>2. NoOffers \in [Offers -> Nat]
  BY DEF NoOffers
<1>3. CASE Disturb({u})
  BY <1>1, <1>2, <1>3 DEF Disturb
<1>4. ASSUME NEW b \in [Offers -> Nat], Expect(u, b)
      PROVE  /\ book' \in [Users -> [Offers -> Nat]]
             /\ home' \in [Users -> CartPods \cup {None}]
             /\ disturbed' \in SUBSET Users /\ disturbed \subseteq disturbed'
             /\ \A v \in Users : v # u => home'[v] = home[v] /\ book'[v] = book[v]
  BY <1>1, <1>4 DEF Expect
<1> QED BY <1>3, <1>4 DEF Expects

\* What is left of a handler whose answer was taken.
Collected == [Cart!Idle EXCEPT !.pc = "done"]

LEMMA CollectedType == /\ Collected \in CartHandler /\ Collected.pc = "done"
                       /\ Collected.status = 0
<1>1. Cart!Idle \in CartHandler /\ Cart!Idle.status = 0
  BY CartIdleType DEF Cart!Idle
<1> QED BY <1>1 DEF Collected, CartHandler

\* The call of request q is over: the BFF has ended it, or goes on to the
\* offers.  What the invariant asks of the user's cart is left to the steps.
LEMMA CallEndsIInv ==
    ASSUME IInv, NEW q \in Requests, NEW u \in Users, u = bff[q].user,
           bff[q].pc \in {"call", "called", "offers"}, bff[q].route \in Protected,
           NEW h \in BffRequest, bff' = [bff EXCEPT ![q] = h],
           \/ h.pc \in Outcomes /\ h.user = None
           \/ h.pc = "offers" /\ h.route = bff[q].route /\ h.user = u,
           UNCHANGED <<carts, raced, authVars, workload, sessions, begun>>,
           cart' = cart \/ (cart[q].pc = "done" /\ cart' = [cart EXCEPT ![q] = Collected]),
           Disturb({u}) \/ Expects(u) \/ UNCHANGED bookkeeping,
           u \notin disturbed' => ~ Cart!Running(q) /\ KeptOf(u)'
    PROVE  IInv'
<1>1. TypeOK /\ Auth!IInv /\ HandlerInv /\ BffInv /\ KeptInv /\ CountInv
  BY DEF IInv
<1>2. /\ bff \in [Requests -> BffRequest] /\ bff' \in [Requests -> BffRequest]
      /\ cart \in [Requests -> CartHandler]
      /\ \A r \in Requests : bff'[r] = IF r = q THEN h ELSE bff[r]
  BY <1>1, ShopTypes
<1>3. /\ book' \in [Users -> [Offers -> Nat]]
      /\ home' \in [Users -> CartPods \cup {None}]
      /\ disturbed' \in SUBSET Users /\ disturbed \subseteq disturbed'
      /\ \A v \in Users : v # u => home'[v] = home[v] /\ book'[v] = book[v]
  <2>1. CASE UNCHANGED bookkeeping
    BY <1>1, <2>1, ShopTypes DEF bookkeeping
  <2> QED BY <1>1, <2>1, BooksType
<1>4. /\ cart' \in [Requests -> CartHandler]
      /\ \A r \in Requests \ {q} : cart'[r] = cart[r]
      /\ cart'[q] = cart[q] \/ (cart[q].pc = "done" /\ cart'[q] = Collected)
  BY <1>2, CollectedType
<1>5. \A r \in Requests : Cart!Running(r)' = Cart!Running(r)
                          /\ (Cart!Running(r) => cart'[r] = cart[r])
  BY <1>4, CollectedType DEF Cart!Running
<1>6. UNCHANGED <<workload, carts, jar, loggedIn, begun>>
  BY DEF sessions
<1>7. Auth!IInv'
  BY <1>1, AuthStepIInv DEF authVars, Auth!authVars
<1>8. TypeOK'
  <2>1. Cart!TypeOK'
    BY <1>1, <1>4, <1>6 DEF TypeOK, Cart!TypeOK, CartHandler
  <2>2. /\ workload' \in Workloads /\ begun' \in Nat
        /\ jar' \in [Browsers -> Users \cup {None, Blank}]
        /\ loggedIn' \in [Browsers -> Users \cup {None}]
    BY <1>1, <1>6 DEF TypeOK
  <2>3. Auth!TypeOK'
    BY <1>7 DEF Auth!IInv
  <2> QED BY <1>2, <1>3, <2>1, <2>2, <2>3 DEF TypeOK, BffRequest
<1>9. HandlerInv'
  <2> SUFFICES ASSUME NEW r \in Requests, Cart!Running(r)' PROVE HandlerOf(r)'
    BY DEF HandlerInv
  <2>1. Cart!Running(r) /\ cart'[r] = cart[r]
    BY <1>5
  <2>2. CASE r = q
    <3>1. cart[q].user \in disturbed'
      BY <1>1, <1>3, <2>1, <2>2 DEF HandlerInv, HandlerOf
    <3> QED BY <1>1, <1>6, <2>1, <2>2, <3>1 DEF HandlerInv, HandlerOf, Cart!Items
  <2>3. CASE r # q
    BY <1>1, <1>2, <1>3, <1>6, <2>1, <2>3 DEF HandlerInv, HandlerOf, Cart!Items
  <2> QED BY <2>2, <2>3
<1>10. BffInv'
  BY <1>1, <1>2, <1>4, OutcomesAre DEF BffInv
<1>11. KeptInv'
  <2> SUFFICES ASSUME NEW v \in Users \ disturbed' PROVE KeptOf(v)'
    BY DEF KeptInv
  <2>1. CASE v # u
    BY <1>2, <1>3, <1>4, <1>6, <2>1, OthersKept
  <2> QED BY <2>1
<1>12. CountInv'
  <2>1. Coming' \subseteq Coming
    BY <1>5 DEF Coming
  <2>2. \A r \in Requests :
        cart'[r].pc = "store" => cart[r].pc = "store" /\ cart'[r].seen = cart[r].seen
    BY <1>4, CollectedType
  <2> QED BY <1>1, <1>6, <2>1, <2>2, CountFrame
<1> QED BY <1>7, <1>8, <1>9, <1>10, <1>11, <1>12 DEF IInv

\* What the BFF keeps of a request when it goes on to the offers.
Seen == Seq(Cart!Entries) \cup {None}

Fetching(g, items) == [g EXCEPT !.pc = "offers", !.seen = items]

LEMMA FetchNextType ==
    ASSUME NEW g \in BffRequest, NEW items \in Seen
    PROVE  LET h == Fetching(g, items) IN
           /\ h \in BffRequest /\ h.pc = "offers" /\ h.route = g.route /\ h.user = g.user
           /\ h.seen = items
<1> DEFINE i == [g EXCEPT !.pc = "offers"]
           h == [i EXCEPT !.seen = items]
<1>1. i \in BffRequest /\ i.pc = "offers" /\ i.route = g.route /\ i.user = g.user
  BY DEF BffRequest
<1>2. Fetching(g, items) = h
  BY DEF BffRequest, Fetching
<1> HIDE DEF i
<1>3. /\ h \in BffRequest /\ h.pc = "offers" /\ h.route = g.route /\ h.user = g.user
      /\ h.seen = items
  BY <1>1 DEF BffRequest, Seen
<1> QED BY <1>2, <1>3

\* A call that fails ends the request, or shows a cart without entries.
LEMMA WithoutCartEnds ==
    ASSUME IInv, NEW q \in Requests, WithoutCart(q)
    PROVE  \E h \in BffRequest :
             /\ bff' = [bff EXCEPT ![q] = h]
             /\ \/ h.pc \in Outcomes /\ h.user = None
                \/ /\ h.pc = "offers" /\ h.route = bff[q].route
                   /\ h.user = bff[q].user /\ h.seen = None
<1>1. CASE Respond(q, "failed") \/ Respond(q, "answered")
  <2>1. "failed" \in Outcomes /\ "answered" \in Outcomes
    BY DEF Outcomes
  <2>2. PICK outcome \in Outcomes : bff' = [bff EXCEPT ![q] = Ended(outcome)]
    BY <1>1, <2>1 DEF Respond
  <2> QED BY <2>2, EndedType
<1>2. CASE FetchNext(q, None)
  <2> DEFINE h == Fetching(bff[q], None)
  <2>1. bff[q] \in BffRequest
    BY ShopTypes DEF IInv
  <2>2. None \in Seen
    BY DEF Seen
  <2>3. /\ h \in BffRequest /\ h.pc = "offers" /\ h.route = bff[q].route
        /\ h.user = bff[q].user /\ h.seen = None
    BY <2>1, <2>2, FetchNextType
  <2>4. bff' = [bff EXCEPT ![q] = h]
    BY <1>2 DEF FetchNext, Fetching
  <2> HIDE DEF h
  <2> QED BY <2>3, <2>4
<1> QED BY <1>1, <1>2 DEF WithoutCart

\* Whom the BFF calls cart-service for.
LEMMA CallersUser ==
    ASSUME IInv, NEW q \in Requests, bff[q].pc \in {"call", "called", "offers"},
           bff[q].route \in Protected
    PROVE  bff[q].user \in Users
<1>1. bff[q].route # "/api/v1/validate"
  BY DEF Protected
<1> QED BY <1>1 DEF IInv, BffInv

\* A call that fails and disturbs its user.
LEMMA WithoutCartIInv ==
    ASSUME IInv, NEW q \in Requests, bff[q].pc \in {"call", "called"},
           bff[q].route \in Protected, WithoutCart(q), Disturb({bff[q].user}),
           UNCHANGED <<carts, raced, authVars, workload, sessions, begun>>,
           cart' = cart \/ (cart[q].pc = "done" /\ cart' = [cart EXCEPT ![q] = Collected])
    PROVE  IInv'
<1>1. bff[q].user \in Users
  BY CallersUser
<1>2. bff[q].user \in disturbed'
  BY DEF Disturb
<1>3. PICK h \in BffRequest :
        /\ bff' = [bff EXCEPT ![q] = h]
        /\ \/ h.pc \in Outcomes /\ h.user = None
           \/ h.pc = "offers" /\ h.route = bff[q].route /\ h.user = bff[q].user
  BY WithoutCartEnds
<1> QED BY <1>1, <1>2, <1>3, CallEndsIInv

\* A call that never reached cart-service: the user's cart is what it was.
LEMMA KeptWhenUnreachable ==
    ASSUME IInv, NEW q \in Requests, NEW u \in Users \ disturbed,
           bff[q].pc = "call", bff[q].user = u, ~ Overlaps(q, u),
           NEW h, \/ h.user = None
                  \/ h.pc = "offers" /\ h.seen = None,
           bff' = [bff EXCEPT ![q] = h], UNCHANGED <<carts, cart, home, book>>
    PROVE  KeptOf(u)'
<1>1. /\ KeptOf(u) /\ bff \in [Requests -> BffRequest]
      /\ cart[q].pc = "idle"
  BY ShopTypes, CartIdleType DEF IInv, KeptInv, BffInv
<1>2. bff'[q] = h /\ \A r \in Requests \ {q} : bff'[r] = bff[r]
  BY <1>1
<1>3. \A r \in Requests : ~ Active(r, u)
  BY DEF Active, Overlaps
<1>4. Holds(Kept(u), book[u]) /\ Kept(u)' = Kept(u)
  BY <1>1, <1>3 DEF KeptOf, Kept
<1>5. \A r \in Requests : Active(r, u)' => r = q
  BY <1>2, <1>3 DEF Active
<1>6. ASSUME Active(q, u)' PROVE Served(q, u)'
  <2>1. h.pc = "offers" /\ h.seen = None
    BY <1>2, <1>6, NoneAssumption DEF Active
  <2>2. Due(q)' = book[u]
    BY <1>2, <1>6, <2>1 DEF Due, Active
  <2> QED BY <1>1, <1>2, <1>4, <2>1, <2>2 DEF Served, Cart!Running
<1> QED BY <1>1, <1>4, <1>5, <1>6 DEF KeptOf

\* The one active request of a user ends: his cart has to be what is expected.
LEMMA KeptWhenEnded ==
    ASSUME IInv, NEW q \in Requests, NEW u \in Users \ disturbed, Active(q, u),
           NEW h, h.user = None, bff' = [bff EXCEPT ![q] = h],
           UNCHANGED <<carts, home>>, Holds(Kept(u), book'[u])
    PROVE  KeptOf(u)'
<1>1. KeptOf(u) /\ bff \in [Requests -> BffRequest]
  BY ShopTypes DEF IInv, KeptInv
<1>2. \A r \in Requests : Active(r, u) => r = q
  BY <1>1 DEF KeptOf
<1>3. u # None
  BY NoneAssumption
<1>4. \A r \in Requests : ~ Active(r, u)'
  BY <1>1, <1>2, <1>3 DEF Active
<1>5. Kept(u)' = Kept(u)
  BY DEF Kept
<1> QED BY <1>1, <1>4, <1>5 DEF KeptOf

\* ... or the BFF goes on to the offers, with the cart it was answered.
LEMMA KeptWhenShown ==
    ASSUME IInv, NEW q \in Requests, NEW u \in Users \ disturbed, Active(q, u),
           bff[q].pc = "called", bff[q].route \in {"/cart", "/checkout"},
           cart[q].pc = "done", cart[q].status = 200,
           NEW h, h.pc = "offers", h.user = u, h.route = bff[q].route, h.seen = cart[q].seen,
           bff' = [bff EXCEPT ![q] = h], cart' = [cart EXCEPT ![q] = Collected],
           UNCHANGED <<carts, home, book>>
    PROVE  KeptOf(u)'
<1>1. /\ KeptOf(u) /\ bff \in [Requests -> BffRequest]
      /\ cart \in [Requests -> CartHandler]
  BY ShopTypes DEF IInv, KeptInv
<1>2. Served(q, u) /\ \A r \in Requests : Active(r, u) => r = q
  BY <1>1 DEF KeptOf
<1>3. bff'[q] = h /\ cart'[q] = Collected /\ \A r \in Requests \ {q} : bff'[r] = bff[r]
  BY <1>1
<1>4. Kept(u)' = Kept(u)
  BY DEF Kept
<1>5. Due(q) = book[u] /\ Due(q)' = book[u]
  BY <1>3 DEF Due, Active
<1>6. Holds(h.seen, book[u]) /\ Holds(Kept(u), book[u]) /\ home[u] \in CartPods
  BY <1>2, <1>5 DEF Served
<1>7. Served(q, u)'
  BY <1>3, <1>4, <1>5, <1>6, CollectedType DEF Served, Cart!Running
<1>8. Active(q, u)' /\ \A r \in Requests : Active(r, u)' => r = q
  BY <1>2, <1>3 DEF Active
<1> QED BY <1>1, <1>7, <1>8 DEF KeptOf

LEMMA CartAnswersIInv ==
    ASSUME IInv, NEW q \in Requests, CartAnswers(q)
    PROVE  IInv'
<1>1. /\ bff[q].pc = "called" /\ bff[q].route \in Protected
      /\ cart[q].pc = "done" /\ cart' = [cart EXCEPT ![q] = Collected]
      /\ UNCHANGED <<carts, raced, authVars, workload, sessions, begun>>
      /\ IF cart[q].status = 200 THEN WithCart(q)
         ELSE WithoutCart(q) /\ Disturb({bff[q].user})
  BY DEF CartAnswers, Cart!Collect, Collected
<1>2. CASE WithoutCart(q) /\ Disturb({bff[q].user})
  BY <1>1, <1>2, WithoutCartIInv
<1>3. CASE cart[q].status = 200 /\ WithCart(q)
  <2>1. PICK u \in Users : u = bff[q].user
    <3>1. bff[q].route # "/api/v1/validate"
      BY <1>1 DEF Protected
    <3> QED BY <1>1, <3>1 DEF IInv, BffInv
  <2>2. /\ bff[q] \in BffRequest /\ cart[q].seen \in Seq(Cart!Entries)
        /\ book \in [Users -> [Offers -> Nat]] /\ bff[q].offer \in Offers \cup {None}
    BY ShopTypes DEF IInv, CartHandler, BffRequest
  <2>3. ~ Cart!Running(q)
    BY <1>1 DEF Cart!Running
  <2>4. Active(q, u)
    BY <1>1, <2>1 DEF Active
  <2>5. u \notin disturbed => Holds(Kept(u), Due(q))
    BY <1>1, <1>3, <2>4 DEF IInv, KeptInv, KeptOf, Served
  <2>6. PICK outcome \in Outcomes : outcome = "answered"
    BY DEF Outcomes
  <2>7. /\ Ended(outcome) \in BffRequest /\ Ended(outcome).pc \in Outcomes
        /\ Ended(outcome).user = None
    BY EndedType
  <2>8. ASSUME NEW b \in [Offers -> Nat], Expect(u, b), Respond(q, "answered"),
               u \notin disturbed => b = Due(q)
        PROVE  IInv'
    <3>1. bff' = [bff EXCEPT ![q] = Ended(outcome)]
      BY <2>6, <2>8 DEF Respond
    <3>2. ASSUME u \notin disturbed PROVE KeptOf(u)'
      <4>1. book'[u] = Due(q) /\ UNCHANGED <<carts, home>>
        BY <1>1, <2>2, <2>8, <3>2 DEF Expect
      <4> QED BY <2>4, <2>5, <2>7, <3>1, <3>2, <4>1, KeptWhenEnded
    <3>3. Expects(u) /\ disturbed' = disturbed
      BY <2>8 DEF Expects, Expect
    <3> QED BY <1>1, <2>1, <2>3, <2>7, <3>1, <3>2, <3>3, CallEndsIInv
  <2>9. CASE /\ bff[q].route = "/cart/add" /\ Respond(q, "answered")
             /\ Expect(u, [book[u] EXCEPT ![bff[q].offer] = @ + 1])
    <3> DEFINE b == [book[u] EXCEPT ![bff[q].offer] = @ + 1]
    <3>1. b \in [Offers -> Nat]
      <4>1. PICK c \in [Offers -> Nat], o \in Offers :
                c = book[u] /\ o = bff[q].offer
        BY <1>1, <2>2, <2>9 DEF IInv, BffInv
      <4>2. [c EXCEPT ![o] = @ + 1] \in [Offers -> Nat]
        OBVIOUS
      <4> QED BY <4>1, <4>2
    <3>2. Due(q) = b
      BY <1>1, <2>1, <2>9 DEF Due
    <3> QED BY <2>8, <2>9, <3>1, <3>2
  <2>10. CASE /\ bff[q].route = "/payment/process" /\ Respond(q, "answered")
              /\ Expect(u, NoOffers)
    <3>1. NoOffers \in [Offers -> Nat]
      BY DEF NoOffers
    <3>2. Due(q) = NoOffers
      BY <1>1, <2>1, <2>10 DEF Due
    <3> QED BY <2>8, <2>10, <3>1, <3>2
  <2>11. CASE /\ bff[q].route \in {"/cart", "/checkout"} /\ FetchNext(q, cart[q].seen)
              /\ Expect(u, book[u])
    <3> DEFINE h == Fetching(bff[q], cart[q].seen)
    <3>1. /\ h \in BffRequest /\ h.pc = "offers" /\ h.route = bff[q].route
          /\ h.user = u /\ h.seen = cart[q].seen
      <4>1. cart[q].seen \in Seen
        BY <2>2 DEF Seen
      <4> QED BY <2>1, <2>2, <4>1, FetchNextType
    <3>2. bff' = [bff EXCEPT ![q] = h]
      BY <2>11 DEF FetchNext, Fetching
    <3> HIDE DEF h
    <3>3. ASSUME u \notin disturbed PROVE KeptOf(u)'
      <4>1. UNCHANGED <<carts, home, book>>
        BY <1>1, <2>2, <2>11 DEF Expect
      <4> QED BY <1>1, <1>3, <2>4, <2>11, <3>1, <3>2, <3>3, <4>1, KeptWhenShown
    <3>4. Expects(u) /\ disturbed' = disturbed
      <4>1. book[u] \in [Offers -> Nat]
        BY <2>2
      <4> QED BY <2>11, <4>1 DEF Expects, Expect
    <3> QED BY <1>1, <2>1, <2>3, <3>1, <3>2, <3>3, <3>4, CallEndsIInv
  <2> QED BY <1>3, <2>1, <2>9, <2>10, <2>11 DEF WithCart
<1> QED BY <1>1, <1>2, <1>3

LEMMA CartTimesOutIInv ==
    ASSUME IInv, NEW q \in Requests, CartTimesOut(q)
    PROVE  IInv'
  BY WithoutCartIInv DEF CartTimesOut, cartVars

LEMMA CartUnreachableIInv ==
    ASSUME IInv, NEW q \in Requests, CartUnreachable(q)
    PROVE  IInv'
<1>1. /\ bff[q].pc = "call" /\ bff[q].route \in Protected /\ WithoutCart(q)
      /\ UNCHANGED <<carts, cart, raced, authVars, workload, sessions, begun>>
  BY DEF CartUnreachable, cartVars
<1>2. PICK u \in Users : u = bff[q].user
  BY <1>1, CallersUser
<1>3. CASE Disturb({u})
  BY <1>1, <1>2, <1>3, WithoutCartIInv
<1>4. CASE ~ Overlaps(q, u) /\ UNCHANGED <<disturbed, book, home>>
  <2>1. PICK h \in BffRequest :
          /\ bff' = [bff EXCEPT ![q] = h]
          /\ \/ h.pc \in Outcomes /\ h.user = None
             \/ /\ h.pc = "offers" /\ h.route = bff[q].route
                /\ h.user = bff[q].user /\ h.seen = None
    BY <1>1, WithoutCartEnds
  <2>2. ~ Cart!Running(q)
    BY <1>1, CartIdleType DEF IInv, BffInv, Cart!Running
  <2>3. ASSUME u \notin disturbed PROVE KeptOf(u)'
    BY <1>1, <1>2, <1>4, <2>1, <2>3, KeptWhenUnreachable
  <2>4. UNCHANGED bookkeeping
    BY <1>1, <1>4 DEF bookkeeping
  <2> QED BY <1>1, <1>2, <1>4, <2>1, <2>2, <2>3, <2>4, CallEndsIInv
<1> QED BY <1>2, <1>3, <1>4 DEF CartUnreachable

LEMMA FetchOffersIInv ==
    ASSUME IInv, NEW q \in Requests, FetchOffers(q)
    PROVE  IInv'
<1>1. /\ bff[q].pc = "offers" /\ Respond(q, "answered") /\ bff[q].route \in Protected
      /\ UNCHANGED <<authVars, cartVars, workload, sessions, bookkeeping>>
  BY DEF FetchOffers, IInv, BffInv
<1>2. UNCHANGED <<carts, cart, raced, disturbed, book, home, begun>>
  BY <1>1 DEF cartVars, bookkeeping
<1>3. PICK u \in Users : u = bff[q].user
  <2>1. bff[q].route # "/api/v1/validate"
    BY <1>1 DEF Protected
  <2> QED BY <1>1, <2>1 DEF IInv, BffInv
<1>4. PICK outcome \in Outcomes : outcome = "answered"
  BY DEF Outcomes
<1>5. /\ Ended(outcome) \in BffRequest /\ Ended(outcome).pc \in Outcomes
      /\ Ended(outcome).user = None
  BY EndedType
<1>6. bff' = [bff EXCEPT ![q] = Ended(outcome)]
  BY <1>1, <1>4 DEF Respond
<1>7. ASSUME u \notin disturbed PROVE ~ Cart!Running(q) /\ KeptOf(u)'
  <2>1. Active(q, u)
    BY <1>1, <1>3 DEF Active
  <2>2. Served(q, u)
    BY <1>7, <2>1 DEF IInv, KeptInv, KeptOf
  <2>3. Due(q) = book[u]
    BY <1>1, <1>3 DEF Due
  <2>4. Holds(Kept(u), book[u])
    BY <1>1, <2>2, <2>3 DEF Served
  <2>5. ~ Cart!Running(q)
    BY <1>1, <1>7, <2>2, <1>3 DEF Served, IInv, HandlerInv, HandlerOf
  <2> QED BY <1>2, <1>5, <1>6, <1>7, <2>1, <2>4, <2>5, KeptWhenEnded
<1> QED BY <1>1, <1>2, <1>3, <1>5, <1>6, <1>7, CallEndsIInv

\* What the BFF keeps of a request when it calls cart-service.
Calling(g, o) == [g EXCEPT !.pc = "called", !.offer = o]

LEMMA CalledType ==
    ASSUME NEW g \in BffRequest, NEW o \in Offers \cup {None}
    PROVE  LET h == Calling(g, o) IN
           /\ h \in BffRequest /\ h.pc = "called" /\ h.offer = o
           /\ h.route = g.route /\ h.user = g.user
<1> DEFINE i == [g EXCEPT !.pc = "called"]
           h == [i EXCEPT !.offer = o]
<1>1. i \in BffRequest /\ i.pc = "called" /\ i.route = g.route /\ i.user = g.user
  BY DEF BffRequest
<1>2. Calling(g, o) = h
  BY DEF BffRequest, Calling
<1> HIDE DEF i
<1>3. /\ h \in BffRequest /\ h.pc = "called" /\ h.offer = o
      /\ h.route = g.route /\ h.user = g.user
  BY <1>1 DEF BffRequest
<1> QED BY <1>2, <1>3

\* What Begin makes of an idle handler.
Begun(pc, method, p, u, o) == [Cart!Idle EXCEPT !.pc = pc, !.method = method,
                                                !.pod = p, !.user = u, !.offer = o]

Methods == {"GET", "POST", "DELETE"}

LEMMA BegunType ==
    ASSUME NEW pc \in {"check", "stray"}, NEW m \in Methods, NEW p \in CartPods,
           NEW u \in Users, NEW o \in Offers \cup {None}
    PROVE  LET c == Begun(pc, m, p, u, o) IN
           /\ c \in CartHandler /\ c.pc = pc
           /\ c.method = m /\ c.pod = p /\ c.user = u /\ c.offer = o
<1> DEFINE h == [Cart!Idle EXCEPT !.pc = pc]
           i == [h EXCEPT !.method = m]
           j == [i EXCEPT !.pod = p]
           k == [j EXCEPT !.user = u]
           l == [k EXCEPT !.offer = o]
<1>1. h \in CartHandler /\ h.pc = pc
  BY CartIdleType DEF CartHandler
<1> HIDE DEF h
<1>2. i \in CartHandler /\ i.pc = pc /\ i.method = m
  BY <1>1 DEF CartHandler, Methods
<1> HIDE DEF i
<1>3. j \in CartHandler /\ j.pc = pc /\ j.method = m /\ j.pod = p
  BY <1>2 DEF CartHandler
<1> HIDE DEF j
<1>4. k \in CartHandler /\ k.pc = pc /\ k.method = m /\ k.pod = p /\ k.user = u
  BY <1>3 DEF CartHandler
<1> HIDE DEF k
<1>5. /\ l \in CartHandler /\ l.pc = pc /\ l.method = m /\ l.pod = p /\ l.user = u
      /\ l.offer = o
  BY <1>4 DEF CartHandler
<1> QED BY <1>5 DEF Begun, h, i, j, k

LEMMA BeginIs ==
    ASSUME NEW q, NEW p, NEW m, NEW u, NEW o, Cart!Begin(q, p, m, u, o)
    PROVE  /\ cart[q] = Cart!Idle
           /\ p \in raced => cart' = [cart EXCEPT ![q] = Begun("stray", m, p, u, o)]
           /\ p \notin raced => cart' = [cart EXCEPT ![q] = Begun("check", m, p, u, o)]
<1>1. CASE p \in raced
  BY <1>1 DEF Cart!Begin, Begun
<1>2. CASE p \notin raced
  BY <1>2 DEF Cart!Begin, Begun
<1> QED BY <1>1, <1>2

\* A user whose requests do not overlap calls the pod of his cart.
LEMMA KeptWhenCalled ==
    ASSUME IInv, NEW q \in Requests, NEW p \in CartPods, NEW u \in Users \ disturbed,
           bff[q].pc = "call", bff[q].user = u, bff[q].route \in Protected,
           ~ Overlaps(q, u), home[u] \in {None, p}, home'[u] = p,
           NEW h, h.pc = "called", h.user = u, bff' = [bff EXCEPT ![q] = h],
           NEW c, c.pc = "check", c.pod = p, c.user = u, cart' = [cart EXCEPT ![q] = c],
           UNCHANGED <<carts, book>>
    PROVE  KeptOf(u)'
<1>1. /\ KeptOf(u) /\ bff \in [Requests -> BffRequest]
      /\ cart \in [Requests -> CartHandler]
      /\ bff'[q] = h /\ cart'[q] = c /\ \A r \in Requests \ {q} : bff'[r] = bff[r]
  BY ShopTypes DEF IInv, KeptInv
<1>2. \A r \in Requests : ~ Active(r, u) /\ (Active(r, u)' => r = q)
  BY <1>1 DEF Overlaps, Active
<1>3. p # None
  BY NoneAssumption
<1>4. \A x \in CartPods \ {p} : carts'[x][u] = None
  BY <1>1, <1>3, NoneAssumption DEF KeptOf
<1>5. Kept(u)' = Kept(u)
  <2>1. CASE home[u] = p
    BY <2>1 DEF Kept
  <2>2. CASE home[u] = None
    <3>1. carts[p][u] = None
      BY <1>1, <1>3, <2>2 DEF KeptOf
    <3> QED BY <2>2, <3>1 DEF Kept
  <2> QED BY <2>1, <2>2
<1>6. Due(q)' = book[u]
  BY <1>1 DEF Due
<1>7. Holds(Kept(u), book[u])
  BY <1>1, <1>2 DEF KeptOf
<1>8. Served(q, u)'
  BY <1>1, <1>5, <1>6, <1>7 DEF Served
<1>9. Holds(Kept(u), book[u])'
  BY <1>5, <1>7
<1> QED BY <1>2, <1>4, <1>8, <1>9 DEF KeptOf

LEMMA CallCartIInv ==
    ASSUME IInv, NEW q \in Requests, NEW p \in CartPods, CallCart(q, p)
    PROVE  IInv'
<1>1. TypeOK /\ Auth!IInv /\ HandlerInv /\ BffInv /\ KeptInv /\ CountInv
  BY DEF IInv
<1>2. /\ carts \in [CartPods -> [Users -> Seq(Cart!Entries) \cup {None}]]
      /\ bff \in [Requests -> BffRequest] /\ cart \in [Requests -> CartHandler]
      /\ book \in [Users -> [Offers -> Nat]] /\ home \in [Users -> CartPods \cup {None}]
      /\ disturbed \in SUBSET Users /\ begun \in Nat
  BY <1>1, ShopTypes
<1>3. PICK u \in Users, route \in Protected : u = bff[q].user /\ route = bff[q].route
  <2>1. /\ bff[q].route # "/api/v1/validate" /\ bff[q].pc = "call"
        /\ bff[q].route \in Protected
    BY DEF CallCart, Protected
  <2> QED BY <1>1, <2>1 DEF BffInv
<1>4. PICK m \in Methods : m = CartMethod[route]
  BY CartMethods DEF CartMethod, Methods
<1>5. PICK pc \in {"check", "stray"} : pc = "stray" <=> p \in raced
  OBVIOUS
<1>6. PICK o \in Offers \cup {None} :
        /\ route = "/cart/add" => o \in Offers
        /\ cart[q] = Cart!Idle /\ cart' = [cart EXCEPT ![q] = Begun(pc, m, p, u, o)]
        /\ bff' = [bff EXCEPT ![q] = Calling(bff[q], o)]
  <2>1. PICK o \in Offers \cup {None} :
          /\ route = "/cart/add" => o \in Offers
          /\ Cart!Begin(q, p, m, u, o)
          /\ bff' = [bff EXCEPT ![q] = Calling(bff[q], o)]
    <3>1. \E o \in IF route = "/cart/add" THEN Offers ELSE {None} :
            /\ Cart!Begin(q, p, m, u, o)
            /\ bff' = [bff EXCEPT ![q] = Calling(bff[q], o)]
      BY <1>3, <1>4, Zenon DEF CallCart, Calling
    <3> QED BY <3>1
  <2>2. cart[q] = Cart!Idle /\ cart' = [cart EXCEPT ![q] = Begun(pc, m, p, u, o)]
    BY <1>5, <2>1, BeginIs
  <2> QED BY <2>1, <2>2
<1> DEFINE h == Calling(bff[q], o)
           c == Begun(pc, m, p, u, o)
<1>7. /\ h \in BffRequest /\ h.pc = "called" /\ h.offer = o /\ h.route = route
      /\ h.user = u
  BY <1>2, <1>3, CalledType
<1>8. bff' = [bff EXCEPT ![q] = h]
  BY <1>6
<1>9. /\ c \in CartHandler /\ c.pc = pc /\ c.method = m /\ c.pod = p /\ c.user = u
      /\ c.offer = o
  BY <1>5, BegunType
<1>10. cart' = [cart EXCEPT ![q] = c]
  BY <1>6
<1> HIDE DEF h, c
<1>11. /\ bff[q].pc = "call" /\ Between(bff[q]) = FALSE
       /\ UNCHANGED <<authVars, carts, raced, workload, jar, loggedIn>>
       /\ begun' = IF route = "/cart/add" THEN begun + 1 ELSE begun
  BY <1>3 DEF CallCart, Between, sessions
<1>12. \/ Disturb({u})
       \/ /\ ~ Overlaps(q, u) /\ home[u] \in {None, p} /\ p \notin raced
          /\ home' = IF u \in disturbed THEN home ELSE [home EXCEPT ![u] = p]
          /\ UNCHANGED <<disturbed, book>>
  BY <1>3 DEF CallCart
<1>13. /\ book' \in [Users -> [Offers -> Nat]]
       /\ home' \in [Users -> CartPods \cup {None}]
       /\ disturbed' \in SUBSET Users /\ disturbed \subseteq disturbed'
       /\ \A v \in Users : v # u => home'[v] = home[v] /\ book'[v] = book[v]
  <2>1. CASE Disturb({u})
    BY <1>1, <2>1, BooksType
  <2> QED BY <1>2, <1>12, <2>1
<1>14. /\ bff' \in [Requests -> BffRequest] /\ cart' \in [Requests -> CartHandler]
       /\ \A r \in Requests : /\ bff'[r] = IF r = q THEN h ELSE bff[r]
                              /\ cart'[r] = IF r = q THEN c ELSE cart[r]
  BY <1>2, <1>7, <1>8, <1>9, <1>10
<1>15. Auth!IInv'
  BY <1>1, <1>11, AuthStepIInv DEF authVars, Auth!authVars
<1>16. TypeOK'
  <2>1. Cart!TypeOK'
    BY <1>1, <1>2, <1>11, <1>14 DEF TypeOK, Cart!TypeOK, CartHandler
  <2>2. /\ workload' \in Workloads /\ begun' \in Nat
        /\ jar' \in [Browsers -> Users \cup {None, Blank}]
        /\ loggedIn' \in [Browsers -> Users \cup {None}]
    BY <1>1, <1>2, <1>11 DEF TypeOK
  <2>3. Auth!TypeOK'
    BY <1>15 DEF Auth!IInv
  <2> QED BY <1>13, <1>14, <2>1, <2>2, <2>3 DEF TypeOK, BffRequest
<1>17. HandlerInv'
  <2> SUFFICES ASSUME NEW r \in Requests, Cart!Running(r)' PROVE HandlerOf(r)'
    BY DEF HandlerInv
  <2>1. CASE r = q
    <3>1. /\ bff'[r].pc = "called" /\ bff'[r].route = route /\ bff'[r].user = u
          /\ bff'[r].offer = o
      BY <1>7, <1>14, <2>1
    <3>2. /\ cart'[r].pc = pc /\ cart'[r].method = m /\ cart'[r].pod = p
          /\ cart'[r].user = u /\ cart'[r].offer = o
      BY <1>9, <1>14, <2>1
    <3>3. m \in {"GET", "POST", "DELETE"} /\ (m = "POST" => o \in Offers)
      BY <1>4, <1>6, CartMethods DEF Methods
    <3>4. pc = "stray" => u \in disturbed'
      <4>1. CASE Disturb({u})
        BY <4>1 DEF Disturb
      <4> QED BY <1>5, <1>12, <4>1
    <3> QED BY <1>4, <3>1, <3>2, <3>3, <3>4 DEF HandlerOf, Cart!Items
  <2>2. CASE r # q
    BY <1>1, <1>11, <1>13, <1>14, <2>2 DEF HandlerInv, HandlerOf, Cart!Items, Cart!Running
  <2> QED BY <2>1, <2>2
<1>18. BffInv'
  BY <1>1, <1>6, <1>7, <1>14 DEF BffInv
<1>19. KeptInv'
  <2> SUFFICES ASSUME NEW v \in Users \ disturbed' PROVE KeptOf(v)'
    BY DEF KeptInv
  <2>1. CASE v # u
    <3>1. bff[q].user = u /\ bff'[q].user \in {u, None} /\ v \in Users \ disturbed
      BY <1>3, <1>7, <1>13, <1>14
    <3> QED BY <1>11, <1>13, <1>14, <2>1, <3>1, OthersKept
  <2>2. CASE v = u
    <3>1. u \notin disturbed /\ ~ Disturb({u})
      BY <1>13, <2>2 DEF Disturb
    <3>2. /\ ~ Overlaps(q, u) /\ home[u] \in {None, p} /\ home'[u] = p
          /\ pc = "check" /\ UNCHANGED <<carts, book>>
      BY <1>2, <1>11, <1>12, <1>5, <3>1
    <3>3. KeptOf(u)'
      BY <1>3, <1>7, <1>8, <1>9, <1>10, <1>11, <3>1, <3>2, KeptWhenCalled
    <3> QED BY <2>2, <3>3
  <2> QED BY <2>1, <2>2
<1>20. CountInv'
  <2>1. \A r \in Requests :
        cart'[r].pc = "store" => cart[r].pc = "store" /\ cart'[r].seen = cart[r].seen
    BY <1>5, <1>9, <1>14
  <2>2. q \notin Coming
    BY <1>6, CartIdleType DEF Coming, Cart!Running
  <2>3. CASE route = "/cart/add"
    <3>1. m = "POST" /\ begun' = begun + 1
      BY <1>4, <1>11, <2>3, CartMethods
    <3>2. Coming' \in {Coming, Coming \cup {q}}
      <4>1. CASE pc = "check"
        <5>1. Coming' = Coming \cup {q}
          BY <1>9, <1>14, <3>1, <4>1 DEF Coming, Cart!Running
        <5> QED BY <5>1
      <4>2. CASE pc = "stray"
        <5>1. Coming' = Coming
          BY <1>9, <1>14, <2>2, <4>2 DEF Coming, Cart!Running
        <5> QED BY <5>1
      <4> QED BY <1>5, <4>1, <4>2
    <3>3. /\ Cardinality(Coming) <= begun => Cardinality(Coming)' <= begun'
          /\ \A items : Within(items) => Within(items)'
      BY <1>1, <2>2, <3>1, <3>2, UnitBegins
    <3>4. ASSUME NEW x \in CartPods, NEW y \in Users, carts'[x][y] # None
          PROVE  Within(carts[x][y])'
      <4>1. Within(carts[x][y]) /\ carts'[x][y] = carts[x][y]
        BY <1>1, <1>11, <3>4 DEF CountInv
      <4>2. ASSUME NEW items, items = carts[x][y] PROVE Within(items)'
        BY <3>3, <4>1, <4>2
      <4> QED BY <4>1, <4>2 DEF Within
    <3>5. ASSUME NEW r \in Requests, cart'[r].pc = "store"
          PROVE  Within(cart[r].seen)'
      <4>1. Within(cart[r].seen) /\ cart'[r].seen = cart[r].seen
        BY <1>1, <2>1, <3>5 DEF CountInv
      <4>2. ASSUME NEW items, items = cart[r].seen PROVE Within(items)'
        BY <3>3, <4>1, <4>2
      <4> QED BY <4>1, <4>2 DEF Within
    <3> QED BY <1>1, <3>3, <3>4, <3>5 DEF CountInv
  <2>4. CASE route # "/cart/add"
    <3>1. m # "POST" /\ begun' = begun
      BY <1>4, <1>11, <2>4, CartMethods
    <3>2. Coming' \subseteq Coming
      BY <1>9, <1>14, <3>1 DEF Coming, Cart!Running
    <3> QED BY <1>1, <1>11, <2>1, <3>1, <3>2, CountFrame
  <2> QED BY <2>3, <2>4
<1> QED BY <1>15, <1>16, <1>17, <1>18, <1>19, <1>20 DEF IInv

\* What Race leaves of a handler.
LEMMA StrayType ==
    ASSUME NEW c \in CartHandler
    PROVE  LET h == Cart!Strayed(c) IN
           /\ h \in CartHandler /\ h.pc = "stray" /\ h.method = c.method /\ h.pod = c.pod
           /\ h.user = c.user /\ h.offer = c.offer
<1>0. PICK items \in Seq(Cart!Entries) : items = <<>>
  BY EmptyCart
<1> DEFINE f == [c EXCEPT !.pc = "stray"]
           g == [f EXCEPT !.at = 0]
           h == [g EXCEPT !.seen = items]
<1>1. /\ f \in CartHandler /\ f.pc = "stray" /\ f.method = c.method /\ f.pod = c.pod
      /\ f.user = c.user /\ f.offer = c.offer
  BY DEF CartHandler
<1>2. Cart!Strayed(c) = h
  BY <1>0 DEF CartHandler, Cart!Strayed
<1> HIDE DEF f
<1>3. /\ g \in CartHandler /\ g.pc = "stray" /\ g.method = c.method /\ g.pod = c.pod
      /\ g.user = c.user /\ g.offer = c.offer
  BY <1>1, AtType
<1> HIDE DEF g
<1>4. /\ h \in CartHandler /\ h.pc = "stray" /\ h.method = c.method /\ h.pod = c.pod
      /\ h.user = c.user /\ h.offer = c.offer
  BY <1>3, SeenType
<1> QED BY <1>2, <1>4

\* A pod dies or its handlers race: whoever has his cart there is disturbed.
LEMMA CartFailsIInv ==
    ASSUME IInv, NEW p \in CartPods, CartFails(p)
    PROVE  IInv'
<1> DEFINE us == {u \in Users : home[u] = p}
           Stopped(q) == cart[q].pod = p /\ Cart!Running(q)
           h == [Cart!Idle EXCEPT !.pc = "done", !.status = 502]
           i(q) == Cart!Strayed(cart[q])
<1>1. TypeOK /\ Auth!IInv /\ HandlerInv /\ BffInv /\ KeptInv /\ CountInv
  BY DEF IInv
<1>2. /\ carts \in [CartPods -> [Users -> Seq(Cart!Entries) \cup {None}]]
      /\ bff \in [Requests -> BffRequest] /\ cart \in [Requests -> CartHandler]
      /\ book \in [Users -> [Offers -> Nat]] /\ home \in [Users -> CartPods \cup {None}]
      /\ disturbed \in SUBSET Users /\ begun \in Nat /\ raced \in SUBSET CartPods
  BY <1>1, ShopTypes
<1>3. /\ carts' = [carts EXCEPT ![p] = [u \in Users |-> None]]
      /\ \/ cart' = [q \in Requests |-> IF Stopped(q) THEN h ELSE cart[q]]
         \/ cart' = [q \in Requests |-> IF Stopped(q) THEN i(q) ELSE cart[q]]
      /\ raced' \in {raced \cup {p}, raced \ {p}}
      /\ Disturb(us)
      /\ UNCHANGED <<authVars, workload, bff, jar, loggedIn, begun>>
  <2>1. CASE Cart!CrashCart(p)
    BY <2>1 DEF CartFails, Cart!CrashCart, sessions
  <2>2. CASE Cart!Race(p)
    BY <2>2 DEF CartFails, Cart!Race, sessions
  <2> QED BY <2>1, <2>2 DEF CartFails
<1>4. h \in CartHandler /\ h.pc = "done"
  <2> DEFINE g == [Cart!Idle EXCEPT !.pc = "done"]
  <2>1. g \in CartHandler /\ g.pc = "done"
    BY CartIdleType DEF CartHandler
  <2> HIDE DEF g
  <2>2. [g EXCEPT !.status = 502] \in CartHandler /\ [g EXCEPT !.status = 502].pc = "done"
    BY <2>1 DEF CartHandler
  <2> QED BY <2>2 DEF g
<1>5. ASSUME NEW q \in Requests
      PROVE  /\ i(q) \in CartHandler /\ i(q).pc = "stray" /\ i(q).method = cart[q].method
             /\ i(q).pod = cart[q].pod /\ i(q).user = cart[q].user
             /\ i(q).offer = cart[q].offer
  <2>1. cart[q] \in CartHandler
    BY <1>2
  <2> QED BY <2>1, StrayType
<1> HIDE DEF h, i
<1>6. /\ carts' \in [CartPods -> [Users -> Seq(Cart!Entries) \cup {None}]]
      /\ cart' \in [Requests -> CartHandler] /\ raced' \in SUBSET CartPods
      /\ \A x \in CartPods, u \in Users : carts'[x][u] = IF x = p THEN None ELSE carts[x][u]
      /\ \A q \in Requests : cart'[q] \in IF Stopped(q) THEN {h, i(q)} ELSE {cart[q]}
  BY <1>2, <1>3, <1>4, <1>5
<1>7. /\ book' \in [Users -> [Offers -> Nat]]
      /\ home' \in [Users -> CartPods \cup {None}]
      /\ disturbed' \in SUBSET Users /\ disturbed \subseteq disturbed'
      /\ us \subseteq disturbed'
      /\ \A u \in Users \ disturbed' : /\ u \notin disturbed /\ home[u] # p
                                       /\ home'[u] = home[u] /\ book'[u] = book[u]
  <2>1. NoOffers \in [Offers -> Nat]
    BY DEF NoOffers
  <2> QED BY <1>2, <1>3, <2>1 DEF Disturb
<1>8. \A q \in Requests : Cart!Running(q)' =>
        /\ Cart!Running(q)
        /\ \/ cart'[q] = cart[q] /\ cart[q].pod # p
           \/ cart'[q] = i(q) /\ cart[q].pod = p
  BY <1>4, <1>6 DEF Cart!Running
<1>9. Auth!IInv'
  BY <1>1, <1>3, AuthStepIInv DEF authVars, Auth!authVars
<1>10. TypeOK'
  <2>1. Cart!TypeOK'
    BY <1>6 DEF Cart!TypeOK, CartHandler
  <2>2. /\ workload' \in Workloads /\ begun' \in Nat
        /\ jar' \in [Browsers -> Users \cup {None, Blank}]
        /\ loggedIn' \in [Browsers -> Users \cup {None}]
        /\ bff' \in [Requests -> BffRequest]
    BY <1>1, <1>2, <1>3 DEF TypeOK
  <2>3. Auth!TypeOK'
    BY <1>9 DEF Auth!IInv
  <2> QED BY <1>7, <2>1, <2>2, <2>3 DEF TypeOK, BffRequest
<1>11. HandlerInv'
  <2> SUFFICES ASSUME NEW r \in Requests, Cart!Running(r)' PROVE HandlerOf(r)'
    BY DEF HandlerInv
  <2>1. CASE cart'[r] = cart[r] /\ cart[r].pod # p
    BY <1>1, <1>3, <1>6, <1>7, <1>8, <2>1 DEF HandlerInv, HandlerOf, Cart!Items
  <2>2. CASE cart'[r] = i(r) /\ cart[r].pod = p
    <3>1. cart[r].user \in disturbed'
      BY <1>7, <1>8, <2>2, Handles
    <3> QED BY <1>1, <1>5, <1>8, <2>2, <3>1 DEF HandlerInv, HandlerOf
  <2> QED BY <1>8, <2>1, <2>2
<1>12. BffInv'
  BY <1>1, <1>3, <1>6, CartIdleType DEF BffInv, Cart!Running
<1>13. KeptInv'
  <2> SUFFICES ASSUME NEW u \in Users \ disturbed' PROVE KeptOf(u)'
    BY DEF KeptInv
  <2>1. /\ KeptOf(u) /\ home[u] \in CartPods \cup {None} /\ home[u] # p
        /\ home'[u] = home[u] /\ book'[u] = book[u]
    BY <1>1, <1>2, <1>7 DEF KeptInv
  <2>2. \A x \in CartPods : carts'[x][u] = carts[x][u]
    BY <1>6, <2>1 DEF KeptOf
  <2>3. \A q \in Requests : Active(q, u)' = Active(q, u)
    BY <1>3 DEF Active
  <2>4. ASSUME NEW q \in Requests, Active(q, u) PROVE bff'[q] = bff[q] /\ cart'[q] = cart[q]
    BY <1>3, <1>6, <2>1, <2>4 DEF KeptOf, Served
  <2> QED BY <2>1, <2>2, <2>3, <2>4, KeptFrame
<1>14. CountInv'
  <2>1. Coming' \subseteq Coming
    BY <1>5, <1>8 DEF Coming
  <2>2. \A q \in Requests :
        cart'[q].pc = "store" => cart[q].pc = "store" /\ cart'[q].seen = cart[q].seen
    BY <1>4, <1>5, <1>6
  <2> QED BY <1>1, <1>3, <1>6, <2>1, <2>2, CountFrame
<1> QED BY <1>9, <1>10, <1>11, <1>12, <1>13, <1>14 DEF IInv

-----------------------------------------------------------------------------
(* The invariant holds, and what follows from it.                          *)

LEMMA StepIInv == IInv /\ [Next]_vars => IInv'
<1> SUFFICES ASSUME IInv, [Next]_vars PROVE IInv'
  OBVIOUS
<1>1. ASSUME NEW q \in Requests, BffStep(q)
      PROVE  IInv'
  BY <1>1, CallAuthIInv, CallCartIInv, CartAnswersIInv, CartUnreachableIInv,
     CartTimesOutIInv, FetchOffersIInv, AuthAnswersIInv, AuthUnreachableIInv
  DEF BffStep
<1>2. CASE AuthEnvironment \/ \E q \in Requests : AuthStep(q)
  BY <1>2, AuthMovesIInv
<1>3. CASE UNCHANGED vars
  <2>1. Auth!IInv' /\ UNCHANGED <<cartVars, workload, bff, sessions, bookkeeping>>
    BY <1>3, AuthStepIInv DEF vars, IInv, authVars, Auth!authVars
  <2> QED BY <2>1, ElsewhereIInv
<1> QED BY <1>1, <1>2, <1>3, ArrivalIInv, CartStepIInv, CartFailsIInv DEF Next, UnderWay

LEMMA SpecIInv == Spec => []IInv
  BY InitIInv, StepIInv, PTL DEF Spec

\* The type invariant of the shop, of both services and of the BFF.
THEOREM TypeCorrect == Spec => []TypeOK
<1>1. IInv => TypeOK
  BY DEF IInv
<1> QED BY <1>1, SpecIInv, PTL

\* A user whose requests never overlapped, always met the same pod and were
\* answered or never reached it, and whose pod saw no race and no crash, finds
\* the cart the answers said.
THEOREM CartIsKeptCorrect == Spec => []CartIsKept
<1>1. IInv => CartIsKept
  <2> SUFFICES ASSUME IInv, NEW u \in Users \ disturbed, Quiet(u)
               PROVE  /\ \A o \in Offers : Quantity(Kept(u), o) = book[u][o]
                      /\ \A i, j \in DOMAIN Kept(u) :
                            Kept(u)[i].offer = Kept(u)[j].offer => i = j
    BY DEF CartIsKept
  <2>1. \A q \in Requests : ~ Active(q, u)
    BY DEF Quiet, Active
  <2>2. Holds(Kept(u), book[u])
    BY <2>1 DEF IInv, KeptInv, KeptOf
  <2>3. /\ carts \in [CartPods -> [Users -> Seq(Cart!Entries) \cup {None}]]
        /\ home[u] \in CartPods \cup {None} /\ book[u] \in [Offers -> Nat]
    BY ShopTypes DEF IInv
  <2>4. Kept(u) \in Seq(Cart!Entries)
    BY <2>3, EmptyCart DEF Kept
  <2>5. \A o \in Offers : Quantity(Kept(u), o) = book[u][o]
    BY <2>2, <2>3, <2>4, HoldsQuantity
  <2> QED BY <2>2, <2>5 DEF Holds
<1> QED BY <1>1, SpecIInv, PTL

\* Whatever overlaps, is cleared, crashes or times out, in whatever order the
\* handlers of a pod use its carts, no cart ever holds more units than were ever
\* added, on a pod none of whose handlers have raced since it started.
THEOREM NothingFromNowhereCorrect == Spec => []NothingFromNowhere
<1>1. IInv => NothingFromNowhere
  <2> SUFFICES ASSUME IInv, NEW p \in CartPods, NEW u \in Users, carts[p][u] # None
               PROVE  Total(carts[p][u]) <= begun
    BY DEF NothingFromNowhere
  <2> DEFINE items == carts[p][u]
  <2>1. IsFiniteSet(Units(items, Offers)) /\ Total(items) + Cardinality(Coming) <= begun
    BY DEF IInv, CountInv, Within
  <2>2. Total(items) \in Nat /\ Cardinality(Coming) \in Nat /\ begun \in Nat
    BY <2>1, TotalType, ComingType, ShopTypes DEF IInv
  <2> QED BY <2>1, <2>2
<1> QED BY <1>1, SpecIInv, PTL

\* The cart page shows such a user the whole cart, never a part of it; or no
\* entry when the call failed, and then the cart still is what it was.
THEOREM ShownAsKeptCorrect == Spec => []ShownAsKept
<1>1. IInv => ShownAsKept
  <2> SUFFICES ASSUME IInv, NEW q \in Requests, NEW u, u = bff[q].user,
                      bff[q].pc = "offers", u \notin disturbed, NEW o \in Offers
               PROVE  /\ bff[q].seen = None => Quantity(Kept(u), o) = book[u][o]
                      /\ bff[q].seen # None => Quantity(bff[q].seen, o) = book[u][o]
    BY DEF ShownAsKept
  <2>1. bff[q].route \in Protected /\ bff[q].route # "/api/v1/validate"
    BY DEF IInv, BffInv, Protected
  <2>2. u \in Users /\ Active(q, u)
    BY <2>1 DEF IInv, BffInv, Active
  <2>3. Served(q, u)
    BY <2>2 DEF IInv, KeptInv, KeptOf
  <2>4. /\ bff[q].seen \in Seq(Cart!Entries) \cup {None} /\ book[u] \in [Offers -> Nat]
        /\ carts \in [CartPods -> [Users -> Seq(Cart!Entries) \cup {None}]]
        /\ home[u] \in CartPods \cup {None}
    BY <2>2, ShopTypes DEF IInv, BffRequest
  <2>5. bff[q].seen # None => Quantity(bff[q].seen, o) = book[u][o]
    BY <2>3, <2>4, HoldsQuantity DEF Served
  <2>6. Quantity(Kept(u), o) = book[u][o]
    <3>1. Kept(u) \in Seq(Cart!Entries)
      BY <2>2, <2>4, EmptyCart DEF Kept
    <3>2. Holds(Kept(u), book[u])
      BY <2>3 DEF Served, Due
    <3> QED BY <2>4, <3>1, <3>2, HoldsQuantity
  <2> QED BY <2>5, <2>6
<1> QED BY <1>1, SpecIInv, PTL

\* Every step of the shop is one of auth-service or leaves it alone.
LEMMA StepOfAuth == IInv /\ [Next]_vars => [Auth!Next]_(Auth!authVars)
<1> SUFFICES ASSUME IInv, [Next]_vars PROVE Auth!Next \/ UNCHANGED authVars
  BY DEF authVars, Auth!authVars
<1>1. ASSUME NEW q \in Requests, Arrival(q)
      PROVE  Auth!Next \/ UNCHANGED authVars
  BY <1>1 DEF Arrival, Reject, Refuse, Admit, Present, Logout, Remove, Validate,
              Auth!Next, Auth!Caller
<1>2. ASSUME NEW q \in Requests, BffStep(q)
      PROVE  Auth!Next \/ UNCHANGED authVars
  <2>1. ASSUME NEW p \in AuthPods, CallAuth(q, p)
        PROVE  Auth!Next
    <3>1. bff[q].user \in Users
      BY <2>1 DEF CallAuth, IInv, BffInv
    <3> QED BY <2>1, <3>1 DEF CallAuth, Auth!Next, Auth!Caller
  <2>2. CASE AuthAnswers(q)
    BY <2>2 DEF AuthAnswers, Auth!Next, Auth!Caller, Auth!store, Auth!history
  <2>3. CASE CartAnswers(q) \/ CartUnreachable(q) \/ CartTimesOut(q) \/ FetchOffers(q)
             \/ AuthUnreachable(q)
    BY <2>3 DEF CartAnswers, CartUnreachable, CartTimesOut, FetchOffers, AuthUnreachable
  <2>4. ASSUME NEW p \in CartPods, CallCart(q, p)
        PROVE  UNCHANGED authVars
    BY <2>4 DEF CallCart
  <2> QED BY <1>2, <2>1, <2>2, <2>3, <2>4 DEF BffStep
<1>3. CASE AuthEnvironment \/ \E q \in Requests : AuthStep(q) \/ CartStep(q)
  BY <1>3 DEF AuthEnvironment, AuthStep, CartStep, Auth!Next
<1>4. CASE (\E p \in CartPods : CartFails(p)) \/ UNCHANGED vars
  BY <1>4 DEF CartFails, vars
<1> QED BY <1>1, <1>2, <1>3, <1>4 DEF Next, UnderWay

\* The shop uses auth-service the way AuthService lets its callers use it.
THEOREM UsesAuth == Spec => Auth!Spec
<1>1. Init => Auth!Init
  BY DEF Init
<1> QED BY <1>1, SpecIInv, StepOfAuth, PTL DEF Spec, Auth!Spec

\* Behind the storefront, too, a pod accepts a token only if Redis has just
\* answered with an entry that is not "1", or has had no entry for this pod.
THEOREM FailsClosedCorrect == Spec => FailsClosed
  BY UsesAuth, AuthFailsClosed, PTL DEF FailsClosed

\* ... and a pod that has learned of a revocation does not accept the token again
\* before Redis has told this very pod otherwise.
THEOREM RevocationCorrect == Spec => RevocationSticks
  BY UsesAuth, AuthRevocationSticks, PTL DEF RevocationSticks

=============================================================================
