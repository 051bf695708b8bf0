--------------------------- MODULE WsBrokerProofs ---------------------------
(***************************************************************************)
(* Proofs about WsBroker.  IndInv (WsBroker) is inductive; there is one    *)
(* lemma for each of its parts, with one step for each action.  The        *)
(* properties of WsBroker and the refinement of SubscriptionService follow.*)
(***************************************************************************)
EXTENDS WsBroker, TLAPS

\* What pool.Subscribe answers to the holder of the mutex when it succeeds.
FreshAnswer(p, x) ==
    /\ subscriptionID[p] = NoID
    /\ x.id \in FreshIDs
    /\ x.conn \in Conns
    /\ ~HasSubscription(x.conn, p)

\* The shortcut for a query the pool has already (ws_upstream_pool.go:78) is never
\* taken: the broker asks only for queries that it, and so the pool, does not have.
LEMMA AnswerIsFresh ==
    ASSUME IndInv, NEW c \in Clients, pc[c] = "addUp",
           NEW x \in SubscribeAnswers(param[c]), x.ok
    PROVE  FreshAnswer(param[c], x)
<1>1. param[c] \in Params /\ paramToID[param[c]] = NoID
  BY DEF IndInv, LocalTypes, OwnerKnows
<1>2. \A i \in IDs : idToParam[i] = subscriptionParam[i]
  BY AbsentAssumption DEF IndInv, TypeOK, MutexOwner, Critical, BrokerPoolAgree, OwnerAt
<1>3. subscriptionID[param[c]] = NoID
  BY <1>1, <1>2, AbsentAssumption DEF IndInv, TypeOK, IndexConsistent, BrokerPoolAgree
<1> QED
  BY <1>1, <1>3, AbsentAssumption DEF FreshAnswer, SubscribeAnswers, FreshIDs

\* Why an empty subscription may be registered.
Accounted(i) ==
    \/ i \in failed
    \/ \E c \in Clients : pc[c] = "rmLock" /\ subID[c] = i
    \/ OwnerAt({"join", "rmUp", "rmForget", "allEmpty", "allUp", "allForget"}, i)

\* Every step keeps the type invariant, and assigns a local before it is used.
LEMMA TypesPreserved == IndInv /\ [Next]_vars => TypeOK' /\ LocalTypes'
<1> DEFINE Goal == TypeOK /\ LocalTypes
<1> SUFFICES ASSUME IndInv, [Next]_vars PROVE Goal'
  OBVIOUS
<1> USE AbsentAssumption DEF IndInv, smVars, poolVars, clientVars, Goto, Lock, Unlock,
         TypeOK, LocalTypes, Steps
<1>1. ASSUME NEW c \in Clients, BadParams(c) PROVE Goal'
  BY <1>1 DEF BadParams, Begin
<1>2. ASSUME NEW c \in Clients, NEW p \in Params, Subscribe(c, p) PROVE Goal'
  BY <1>2 DEF Subscribe, Begin
<1>3. ASSUME NEW c \in Clients, AddLock(c) PROVE Goal'
  BY <1>3 DEF AddLock
<1>4. ASSUME NEW c \in Clients, AddUpstream(c) PROVE Goal'
  <2>1. PICK x \in SubscribeAnswers(param[c]) :
           /\ x.ok
           /\ PoolSubscribed(param[c], x.id, x.conn)
           /\ subID' = [subID EXCEPT ![c] = x.id]
    BY <1>4 DEF AddUpstream
  <2>2. FreshAnswer(param[c], x)
    BY <1>4, <2>1, AnswerIsFresh DEF AddUpstream
  <2> QED
    BY <1>4, <2>1, <2>2 DEF AddUpstream, PoolSubscribed, FreshAnswer, FreshIDs, HasSubscription
<1>5. ASSUME NEW c \in Clients, AddUpstreamFailed(c) PROVE Goal'
  BY <1>5 DEF AddUpstreamFailed, Return
<1>6. ASSUME NEW c \in Clients, AddRegister(c) PROVE Goal'
  BY <1>6 DEF AddRegister, AddSubscription
<1>7. ASSUME NEW c \in Clients, AddJoin(c) PROVE Goal'
  BY <1>7 DEF AddJoin, SubscribeClient, Return
<1>8. ASSUME NEW c \in Clients, NEW p \in Params, Unsubscribe(c, p) PROVE Goal'
  BY <1>8 DEF Unsubscribe, Begin
<1>9. ASSUME NEW c \in Clients, NEW j \in IDs, UnsubscribeByID(c, j) PROVE Goal'
  BY <1>9 DEF UnsubscribeByID, Begin
<1>10. ASSUME NEW c \in Clients, RmCheck(c) PROVE Goal'
  BY <1>10 DEF RmCheck, ClientSubscribed
<1>11. ASSUME NEW c \in Clients, RmNotSubscribed(c) PROVE Goal'
  BY <1>11 DEF RmNotSubscribed, Return, ClientSubscribed
<1>12. ASSUME NEW c \in Clients, RmLeave(c) PROVE Goal'
  BY <1>12 DEF RmLeave, UnsubscribeClient
<1>13. ASSUME NEW c \in Clients, RmStillUsed(c) PROVE Goal'
  BY <1>13 DEF RmStillUsed, SubscriptionEmpty, Return
<1>14. ASSUME NEW c \in Clients, RmLock(c) PROVE Goal'
  BY <1>14 DEF RmLock, SubscriptionEmpty
<1>15. ASSUME NEW c \in Clients, RmUpstream(c) PROVE Goal'
  BY <1>15 DEF RmUpstream, PoolUnsubscribed
<1>16. ASSUME NEW c \in Clients, RmUpstreamFailed(c) PROVE Goal'
  BY <1>16 DEF RmUpstreamFailed, PoolUnsubscribeFailed, Return
<1>17. ASSUME NEW c \in Clients, RmForget(c) PROVE Goal'
  BY <1>17 DEF RmForget, RemoveSubscription, Return
<1>18. ASSUME NEW c \in Clients, UnsubscribeAll(c) PROVE Goal'
  BY <1>18 DEF UnsubscribeAll, Begin
<1>19. ASSUME NEW c \in Clients, AllLock(c) PROVE Goal'
  BY <1>19 DEF AllLock, GetSubscriptions
<1>20. ASSUME NEW c \in Clients, AllLeave(c) PROVE Goal'
  BY <1>20 DEF AllLeave, UnsubscribeClient
<1>21. ASSUME NEW c \in Clients, AllEmpty(c) PROVE Goal'
  BY <1>21 DEF AllEmpty, SubscriptionEmpty
<1>22. ASSUME NEW c \in Clients, AllUpstream(c) PROVE Goal'
  BY <1>22 DEF AllUpstream, PoolUnsubscribed
<1>23. ASSUME NEW c \in Clients, AllForget(c) PROVE Goal'
  BY <1>23 DEF AllForget, RemoveSubscription
<1>24. ASSUME NEW c \in Clients, AllDone(c) PROVE Goal'
  BY <1>24 DEF AllDone, AllReturn
<1>25. ASSUME NEW c \in Clients, AllUpstreamFailed(c) PROVE Goal'
  BY <1>25 DEF AllUpstreamFailed, PoolUnsubscribeFailed, AllReturn
<1>26. ASSUME NEW c \in Clients, Disconnect(c) PROVE Goal'
  BY <1>26 DEF Disconnect, Close
<1>27. ASSUME NEW c \in Clients, ConnClose(c) PROVE Goal'
  BY <1>27 DEF ConnClose, Ended
<1>28. ASSUME NEW c \in Clients, ConnCloseFailed(c) PROVE Goal'
  BY <1>28 DEF ConnCloseFailed, Close
<1>29. ASSUME NEW c \in Clients, ConnAbandoned(c) PROVE Goal'
  BY <1>29 DEF ConnAbandoned, Ended
<1>30. ASSUME NEW k \in Conns, NEW p \in Params, Broadcast(k, p) PROVE Goal'
  <2>1. subByParam[k][p] \in IDs
    BY <1>30 DEF Broadcast
  <2>2. sending' \subseteq Notifications
    BY <1>30, <2>1 DEF Broadcast, GetSubscriptionClients, Notifications
  <2> QED
    BY <1>30, <2>2 DEF Broadcast
<1>31. ASSUME NEW n \in sending, Send(n) PROVE Goal'
  BY <1>31 DEF Send
<1>32. ASSUME NEW k \in Conns, ResetAll(k) PROVE Goal'
  BY <1>32 DEF ResetAll
<1>33. CASE UNCHANGED vars
  BY <1>33 DEF vars
<1> HIDE DEF Goal, IndInv, TypeOK, LocalTypes, Steps
<1> QED
  BY <1>1, <1>2, <1>3, <1>4, <1>5, <1>6, <1>7, <1>8, <1>9, <1>10, <1>11, <1>12,
         <1>13, <1>14, <1>15, <1>16, <1>17, <1>18, <1>19, <1>20, <1>21, <1>22, <1>23, <1>24,
         <1>25, <1>26, <1>27, <1>28, <1>29, <1>30, <1>31, <1>32, <1>33
     DEF Next, ClientStep, ClientRequest, Terminated

\* Steps in the critical section are taken by the owner of upstreamSubMux only.
LEMMA OwnerPreserved == IndInv /\ [Next]_vars => MutexOwner'
<1> DEFINE Goal == MutexOwner
<1> SUFFICES ASSUME IndInv, [Next]_vars PROVE Goal'
  OBVIOUS
<1> USE AbsentAssumption DEF IndInv, smVars, poolVars, clientVars, Goto, Lock, Unlock,
         TypeOK, MutexOwner, Critical
<1>1. ASSUME NEW c \in Clients, BadParams(c) PROVE Goal'
  BY <1>1 DEF BadParams, Begin
<1>2. ASSUME NEW c \in Clients, NEW p \in Params, Subscribe(c, p) PROVE Goal'
  BY <1>2 DEF Subscribe, Begin
<1>3. ASSUME NEW c \in Clients, AddLock(c) PROVE Goal'
  BY <1>3 DEF AddLock
<1>4. ASSUME NEW c \in Clients, AddUpstream(c) PROVE Goal'
  <2>1. PICK x \in SubscribeAnswers(param[c]) :
           /\ x.ok
           /\ PoolSubscribed(param[c], x.id, x.conn)
           /\ subID' = [subID EXCEPT ![c] = x.id]
    BY <1>4 DEF AddUpstream
  <2>2. FreshAnswer(param[c], x)
    BY <1>4, <2>1, AnswerIsFresh DEF AddUpstream
  <2> QED
    BY <1>4, <2>1, <2>2 DEF AddUpstream, PoolSubscribed, FreshAnswer, FreshIDs, HasSubscription
<1>5. ASSUME NEW c \in Clients, AddUpstreamFailed(c) PROVE Goal'
  BY <1>5 DEF AddUpstreamFailed, Return
<1>6. ASSUME NEW c \in Clients, AddRegister(c) PROVE Goal'
  BY <1>6 DEF AddRegister, AddSubscription
<1>7. ASSUME NEW c \in Clients, AddJoin(c) PROVE Goal'
  BY <1>7 DEF AddJoin, SubscribeClient, Return
<1>8. ASSUME NEW c \in Clients, NEW p \in Params, Unsubscribe(c, p) PROVE Goal'
  BY <1>8 DEF Unsubscribe, Begin
<1>9. ASSUME NEW c \in Clients, NEW j \in IDs, UnsubscribeByID(c, j) PROVE Goal'
  BY <1>9 DEF UnsubscribeByID, Begin
<1>10. ASSUME NEW c \in Clients, RmCheck(c) PROVE Goal'
  BY <1>10 DEF RmCheck, ClientSubscribed
<1>11. ASSUME NEW c \in Clients, RmNotSubscribed(c) PROVE Goal'
  BY <1>11 DEF RmNotSubscribed, Return, ClientSubscribed
<1>12. ASSUME NEW c \in Clients, RmLeave(c) PROVE Goal'
  BY <1>12 DEF RmLeave, UnsubscribeClient
<1>13. ASSUME NEW c \in Clients, RmStillUsed(c) PROVE Goal'
  BY <1>13 DEF RmStillUsed, SubscriptionEmpty, Return
<1>14. ASSUME NEW c \in Clients, RmLock(c) PROVE Goal'
  BY <1>14 DEF RmLock, SubscriptionEmpty
<1>15. ASSUME NEW c \in Clients, RmUpstream(c) PROVE Goal'
  BY <1>15 DEF RmUpstream, PoolUnsubscribed
<1>16. ASSUME NEW c \in Clients, RmUpstreamFailed(c) PROVE Goal'
  BY <1>16 DEF RmUpstreamFailed, PoolUnsubscribeFailed, Return
<1>17. ASSUME NEW c \in Clients, RmForget(c) PROVE Goal'
  BY <1>17 DEF RmForget, RemoveSubscription, Return
<1>18. ASSUME NEW c \in Clients, UnsubscribeAll(c) PROVE Goal'
  BY <1>18 DEF UnsubscribeAll, Begin
<1>19. ASSUME NEW c \in Clients, AllLock(c) PROVE Goal'
  BY <1>19 DEF AllLock, GetSubscriptions
<1>20. ASSUME NEW c \in Clients, AllLeave(c) PROVE Goal'
  BY <1>20 DEF AllLeave, UnsubscribeClient
<1>21. ASSUME NEW c \in Clients, AllEmpty(c) PROVE Goal'
  BY <1>21 DEF AllEmpty, SubscriptionEmpty
<1>22. ASSUME NEW c \in Clients, AllUpstream(c) PROVE Goal'
  BY <1>22 DEF AllUpstream, PoolUnsubscribed
<1>23. ASSUME NEW c \in Clients, AllForget(c) PROVE Goal'
  BY <1>23 DEF AllForget, RemoveSubscription
<1>24. ASSUME NEW c \in Clients, AllDone(c) PROVE Goal'
  BY <1>24 DEF AllDone, AllReturn
<1>25. ASSUME NEW c \in Clients, AllUpstreamFailed(c) PROVE Goal'
  BY <1>25 DEF AllUpstreamFailed, PoolUnsubscribeFailed, AllReturn
<1>26. ASSUME NEW c \in Clients, Disconnect(c) PROVE Goal'
  BY <1>26 DEF Disconnect, Close
<1>27. ASSUME NEW c \in Clients, ConnClose(c) PROVE Goal'
  BY <1>27 DEF ConnClose, Ended
<1>28. ASSUME NEW c \in Clients, ConnCloseFailed(c) PROVE Goal'
  BY <1>28 DEF ConnCloseFailed, Close
<1>29. ASSUME NEW c \in Clients, ConnAbandoned(c) PROVE Goal'
  BY <1>29 DEF ConnAbandoned, Ended
<1>30. ASSUME NEW k \in Conns, NEW p \in Params, Broadcast(k, p) PROVE Goal'
  BY <1>30 DEF Broadcast
<1>31. ASSUME NEW n \in sending, Send(n) PROVE Goal'
  BY <1>31 DEF Send
<1>32. ASSUME NEW k \in Conns, ResetAll(k) PROVE Goal'
  BY <1>32 DEF ResetAll
<1>33. CASE UNCHANGED vars
  BY <1>33 DEF vars
<1> HIDE DEF Goal, IndInv, TypeOK, MutexOwner, Critical
<1> QED
  BY <1>1, <1>2, <1>3, <1>4, <1>5, <1>6, <1>7, <1>8, <1>9, <1>10, <1>11, <1>12,
         <1>13, <1>14, <1>15, <1>16, <1>17, <1>18, <1>19, <1>20, <1>21, <1>22, <1>23, <1>24,
         <1>25, <1>26, <1>27, <1>28, <1>29, <1>30, <1>31, <1>32, <1>33
     DEF Next, ClientStep, ClientRequest, Terminated

\* The maps of the SubscriptionManager stay consistent, and the owner's knowledge true.
LEMMA IndexPreserved == IndInv /\ [Next]_vars => OwnerKnows' /\ IndexConsistent'
<1> DEFINE Goal == OwnerKnows /\ IndexConsistent
<1> SUFFICES ASSUME IndInv, [Next]_vars PROVE Goal'
  OBVIOUS
<1> USE AbsentAssumption DEF IndInv, smVars, poolVars, clientVars, Goto, Lock, Unlock,
         TypeOK, OwnerKnows, IndexConsistent, Registered, LocalTypes, MutexOwner, Critical,
         BrokerPoolAgree, PoolConnAgree, OwnerAt
<1>1. ASSUME NEW c \in Clients, BadParams(c) PROVE Goal'
  BY <1>1 DEF BadParams, Begin
<1>2. ASSUME NEW c \in Clients, NEW p \in Params, Subscribe(c, p) PROVE Goal'
  BY <1>2 DEF Subscribe, Begin
<1>3. ASSUME NEW c \in Clients, AddLock(c) PROVE Goal'
  BY <1>3 DEF AddLock
<1>4. ASSUME NEW c \in Clients, AddUpstream(c) PROVE Goal'
  <2>1. PICK x \in SubscribeAnswers(param[c]) :
           /\ x.ok
           /\ PoolSubscribed(param[c], x.id, x.conn)
           /\ subID' = [subID EXCEPT ![c] = x.id]
    BY <1>4 DEF AddUpstream
  <2>2. FreshAnswer(param[c], x)
    BY <1>4, <2>1, AnswerIsFresh DEF AddUpstream
  <2> QED
    BY <1>4, <2>1, <2>2 DEF AddUpstream, PoolSubscribed, FreshAnswer, FreshIDs, HasSubscription
<1>5. ASSUME NEW c \in Clients, AddUpstreamFailed(c) PROVE Goal'
  BY <1>5 DEF AddUpstreamFailed, Return
<1>6. ASSUME NEW c \in Clients, AddRegister(c) PROVE Goal'
  BY <1>6 DEF AddRegister, AddSubscription
<1>7. ASSUME NEW c \in Clients, AddJoin(c) PROVE Goal'
  BY <1>7 DEF AddJoin, SubscribeClient, Return
<1>8. ASSUME NEW c \in Clients, NEW p \in Params, Unsubscribe(c, p) PROVE Goal'
  BY <1>8 DEF Unsubscribe, Begin
<1>9. ASSUME NEW c \in Clients, NEW j \in IDs, UnsubscribeByID(c, j) PROVE Goal'
  BY <1>9 DEF UnsubscribeByID, Begin
<1>10. ASSUME NEW c \in Clients, RmCheck(c) PROVE Goal'
  BY <1>10 DEF RmCheck, ClientSubscribed
<1>11. ASSUME NEW c \in Clients, RmNotSubscribed(c) PROVE Goal'
  BY <1>11 DEF RmNotSubscribed, Return, ClientSubscribed
<1>12. ASSUME NEW c \in Clients, RmLeave(c) PROVE Goal'
  BY <1>12 DEF RmLeave, UnsubscribeClient
<1>13. ASSUME NEW c \in Clients, RmStillUsed(c) PROVE Goal'
  BY <1>13 DEF RmStillUsed, SubscriptionEmpty, Return
<1>14. ASSUME NEW c \in Clients, RmLock(c) PROVE Goal'
  BY <1>14 DEF RmLock, SubscriptionEmpty
<1>15. ASSUME NEW c \in Clients, RmUpstream(c) PROVE Goal'
  BY <1>15 DEF RmUpstream, PoolUnsubscribed
<1>16. ASSUME NEW c \in Clients, RmUpstreamFailed(c) PROVE Goal'
  BY <1>16 DEF RmUpstreamFailed, PoolUnsubscribeFailed, Return
<1>17. ASSUME NEW c \in Clients, RmForget(c) PROVE Goal'
  BY <1>17 DEF RmForget, RemoveSubscription, Return
<1>18. ASSUME NEW c \in Clients, UnsubscribeAll(c) PROVE Goal'
  BY <1>18 DEF UnsubscribeAll, Begin
<1>19. ASSUME NEW c \in Clients, AllLock(c) PROVE Goal'
  BY <1>19 DEF AllLock, GetSubscriptions
<1>20. ASSUME NEW c \in Clients, AllLeave(c) PROVE Goal'
  BY <1>20 DEF AllLeave, UnsubscribeClient
<1>21. ASSUME NEW c \in Clients, AllEmpty(c) PROVE Goal'
  BY <1>21 DEF AllEmpty, SubscriptionEmpty
<1>22. ASSUME NEW c \in Clients, AllUpstream(c) PROVE Goal'
  BY <1>22 DEF AllUpstream, PoolUnsubscribed
<1>23. ASSUME NEW c \in Clients, AllForget(c) PROVE Goal'
  BY <1>23 DEF AllForget, RemoveSubscription
<1>24. ASSUME NEW c \in Clients, AllDone(c) PROVE Goal'
  BY <1>24 DEF AllDone, AllReturn
<1>25. ASSUME NEW c \in Clients, AllUpstreamFailed(c) PROVE Goal'
  BY <1>25 DEF AllUpstreamFailed, PoolUnsubscribeFailed, AllReturn
<1>26. ASSUME NEW c \in Clients, Disconnect(c) PROVE Goal'
  BY <1>26 DEF Disconnect, Close
<1>27. ASSUME NEW c \in Clients, ConnClose(c) PROVE Goal'
  BY <1>27 DEF ConnClose, Ended
<1>28. ASSUME NEW c \in Clients, ConnCloseFailed(c) PROVE Goal'
  BY <1>28 DEF ConnCloseFailed, Close
<1>29. ASSUME NEW c \in Clients, ConnAbandoned(c) PROVE Goal'
  BY <1>29 DEF ConnAbandoned, Ended
<1>30. ASSUME NEW k \in Conns, NEW p \in Params, Broadcast(k, p) PROVE Goal'
  BY <1>30 DEF Broadcast
<1>31. ASSUME NEW n \in sending, Send(n) PROVE Goal'
  BY <1>31 DEF Send
<1>32. ASSUME NEW k \in Conns, ResetAll(k) PROVE Goal'
  BY <1>32 DEF ResetAll
<1>33. CASE UNCHANGED vars
  BY <1>33 DEF vars
<1> HIDE DEF Goal, IndInv, TypeOK, OwnerKnows, IndexConsistent, Registered, LocalTypes,
         MutexOwner, Critical, BrokerPoolAgree, PoolConnAgree, OwnerAt
<1> QED
  BY <1>1, <1>2, <1>3, <1>4, <1>5, <1>6, <1>7, <1>8, <1>9, <1>10, <1>11, <1>12,
         <1>13, <1>14, <1>15, <1>16, <1>17, <1>18, <1>19, <1>20, <1>21, <1>22, <1>23, <1>24,
         <1>25, <1>26, <1>27, <1>28, <1>29, <1>30, <1>31, <1>32, <1>33
     DEF Next, ClientStep, ClientRequest, Terminated

\* Broker and pool agree outside the critical section.
LEMMA PoolPreserved == IndInv /\ [Next]_vars => BrokerPoolAgree'
<1> DEFINE Goal == BrokerPoolAgree
<1> SUFFICES ASSUME IndInv, [Next]_vars PROVE Goal'
  OBVIOUS
<1> USE AbsentAssumption DEF IndInv, smVars, poolVars, clientVars, Goto, Lock, Unlock,
         TypeOK, BrokerPoolAgree, OwnerAt, OwnerKnows, IndexConsistent, Registered,
         LocalTypes, MutexOwner, Critical, PoolConnAgree
<1>1. ASSUME NEW c \in Clients, BadParams(c) PROVE Goal'
  BY <1>1 DEF BadParams, Begin
<1>2. ASSUME NEW c \in Clients, NEW p \in Params, Subscribe(c, p) PROVE Goal'
  BY <1>2 DEF Subscribe, Begin
<1>3. ASSUME NEW c \in Clients, AddLock(c) PROVE Goal'
  BY <1>3 DEF AddLock
<1>4. ASSUME NEW c \in Clients, AddUpstream(c) PROVE Goal'
  <2>1. PICK x \in SubscribeAnswers(param[c]) :
           /\ x.ok
           /\ PoolSubscribed(param[c], x.id, x.conn)
           /\ subID' = [subID EXCEPT ![c] = x.id]
    BY <1>4 DEF AddUpstream
  <2>2. FreshAnswer(param[c], x)
    BY <1>4, <2>1, AnswerIsFresh DEF AddUpstream
  <2> QED
    BY <1>4, <2>1, <2>2 DEF AddUpstream, PoolSubscribed, FreshAnswer, FreshIDs, HasSubscription
<1>5. ASSUME NEW c \in Clients, AddUpstreamFailed(c) PROVE Goal'
  BY <1>5 DEF AddUpstreamFailed, Return
<1>6. ASSUME NEW c \in Clients, AddRegister(c) PROVE Goal'
  BY <1>6 DEF AddRegister, AddSubscription
<1>7. ASSUME NEW c \in Clients, AddJoin(c) PROVE Goal'
  BY <1>7 DEF AddJoin, SubscribeClient, Return
<1>8. ASSUME NEW c \in Clients, NEW p \in Params, Unsubscribe(c, p) PROVE Goal'
  BY <1>8 DEF Unsubscribe, Begin
<1>9. ASSUME NEW c \in Clients, NEW j \in IDs, UnsubscribeByID(c, j) PROVE Goal'
  BY <1>9 DEF UnsubscribeByID, Begin
<1>10. ASSUME NEW c \in Clients, RmCheck(c) PROVE Goal'
  BY <1>10 DEF RmCheck, ClientSubscribed
<1>11. ASSUME NEW c \in Clients, RmNotSubscribed(c) PROVE Goal'
  BY <1>11 DEF RmNotSubscribed, Return, ClientSubscribed
<1>12. ASSUME NEW c \in Clients, RmLeave(c) PROVE Goal'
  BY <1>12 DEF RmLeave, UnsubscribeClient
<1>13. ASSUME NEW c \in Clients, RmStillUsed(c) PROVE Goal'
  BY <1>13 DEF RmStillUsed, SubscriptionEmpty, Return
<1>14. ASSUME NEW c \in Clients, RmLock(c) PROVE Goal'
  BY <1>14 DEF RmLock, SubscriptionEmpty
<1>15. ASSUME NEW c \in Clients, RmUpstream(c) PROVE Goal'
  BY <1>15 DEF RmUpstream, PoolUnsubscribed
<1>16. ASSUME NEW c \in Clients, RmUpstreamFailed(c) PROVE Goal'
  <2>1. \A j \in IDs : idToParam[j] = subscriptionParam[j]
    BY <1>16 DEF RmUpstreamFailed
  <2> QED
    BY <1>16, <2>1 DEF RmUpstreamFailed, PoolUnsubscribeFailed, Return
<1>17. ASSUME NEW c \in Clients, RmForget(c) PROVE Goal'
  BY <1>17 DEF RmForget, RemoveSubscription, Return
<1>18. ASSUME NEW c \in Clients, UnsubscribeAll(c) PROVE Goal'
  BY <1>18 DEF UnsubscribeAll, Begin
<1>19. ASSUME NEW c \in Clients, AllLock(c) PROVE Goal'
  BY <1>19 DEF AllLock, GetSubscriptions
<1>20. ASSUME NEW c \in Clients, AllLeave(c) PROVE Goal'
  BY <1>20 DEF AllLeave, UnsubscribeClient
<1>21. ASSUME NEW c \in Clients, AllEmpty(c) PROVE Goal'
  BY <1>21 DEF AllEmpty, SubscriptionEmpty
<1>22. ASSUME NEW c \in Clients, AllUpstream(c) PROVE Goal'
  BY <1>22 DEF AllUpstream, PoolUnsubscribed
<1>23. ASSUME NEW c \in Clients, AllForget(c) PROVE Goal'
  BY <1>23 DEF AllForget, RemoveSubscription
<1>24. ASSUME NEW c \in Clients, AllDone(c) PROVE Goal'
  BY <1>24 DEF AllDone, AllReturn
<1>25. ASSUME NEW c \in Clients, AllUpstreamFailed(c) PROVE Goal'
  <2>1. \A j \in IDs : idToParam[j] = subscriptionParam[j]
    BY <1>25 DEF AllUpstreamFailed
  <2> QED
    BY <1>25, <2>1 DEF AllUpstreamFailed, PoolUnsubscribeFailed, AllReturn
<1>26. ASSUME NEW c \in Clients, Disconnect(c) PROVE Goal'
  BY <1>26 DEF Disconnect, Close
<1>27. ASSUME NEW c \in Clients, ConnClose(c) PROVE Goal'
  BY <1>27 DEF ConnClose, Ended
<1>28. ASSUME NEW c \in Clients, ConnCloseFailed(c) PROVE Goal'
  BY <1>28 DEF ConnCloseFailed, Close
<1>29. ASSUME NEW c \in Clients, ConnAbandoned(c) PROVE Goal'
  BY <1>29 DEF ConnAbandoned, Ended
<1>30. ASSUME NEW k \in Conns, NEW p \in Params, Broadcast(k, p) PROVE Goal'
  BY <1>30 DEF Broadcast
<1>31. ASSUME NEW n \in sending, Send(n) PROVE Goal'
  BY <1>31 DEF Send
<1>32. ASSUME NEW k \in Conns, ResetAll(k) PROVE Goal'
  BY <1>32 DEF ResetAll
<1>33. CASE UNCHANGED vars
  BY <1>33 DEF vars
<1> HIDE DEF Goal, IndInv, TypeOK, BrokerPoolAgree, OwnerAt, OwnerKnows, IndexConsistent,
         Registered, LocalTypes, MutexOwner, Critical, PoolConnAgree
<1> QED
  BY <1>1, <1>2, <1>3, <1>4, <1>5, <1>6, <1>7, <1>8, <1>9, <1>10, <1>11, <1>12,
         <1>13, <1>14, <1>15, <1>16, <1>17, <1>18, <1>19, <1>20, <1>21, <1>22, <1>23, <1>24,
         <1>25, <1>26, <1>27, <1>28, <1>29, <1>30, <1>31, <1>32, <1>33
     DEF Next, ClientStep, ClientRequest, Terminated

\* Pool and connections agree.
LEMMA ConnPreserved == IndInv /\ [Next]_vars => PoolConnAgree'
<1> DEFINE Goal == PoolConnAgree
<1> SUFFICES ASSUME IndInv, [Next]_vars PROVE Goal'
  OBVIOUS
<1> USE AbsentAssumption DEF IndInv, smVars, poolVars, clientVars, Goto, Lock, Unlock,
         TypeOK, PoolConnAgree, BrokerPoolAgree, LocalTypes
<1>1. ASSUME NEW c \in Clients, BadParams(c) PROVE Goal'
  BY <1>1 DEF BadParams, Begin
<1>2. ASSUME NEW c \in Clients, NEW p \in Params, Subscribe(c, p) PROVE Goal'
  BY <1>2 DEF Subscribe, Begin
<1>3. ASSUME NEW c \in Clients, AddLock(c) PROVE Goal'
  BY <1>3 DEF AddLock
<1>4. ASSUME NEW c \in Clients, AddUpstream(c) PROVE Goal'
  <2>1. PICK x \in SubscribeAnswers(param[c]) :
           /\ x.ok
           /\ PoolSubscribed(param[c], x.id, x.conn)
           /\ subID' = [subID EXCEPT ![c] = x.id]
    BY <1>4 DEF AddUpstream
  <2>2. FreshAnswer(param[c], x)
    BY <1>4, <2>1, AnswerIsFresh DEF AddUpstream
  <2> QED
    BY <1>4, <2>1, <2>2 DEF AddUpstream, PoolSubscribed, FreshAnswer, FreshIDs, HasSubscription
<1>5. ASSUME NEW c \in Clients, AddUpstreamFailed(c) PROVE Goal'
  BY <1>5 DEF AddUpstreamFailed, Return
<1>6. ASSUME NEW c \in Clients, AddRegister(c) PROVE Goal'
  BY <1>6 DEF AddRegister, AddSubscription
<1>7. ASSUME NEW c \in Clients, AddJoin(c) PROVE Goal'
  BY <1>7 DEF AddJoin, SubscribeClient, Return
<1>8. ASSUME NEW c \in Clients, NEW p \in Params, Unsubscribe(c, p) PROVE Goal'
  BY <1>8 DEF Unsubscribe, Begin
<1>9. ASSUME NEW c \in Clients, NEW j \in IDs, UnsubscribeByID(c, j) PROVE Goal'
  BY <1>9 DEF UnsubscribeByID, Begin
<1>10. ASSUME NEW c \in Clients, RmCheck(c) PROVE Goal'
  BY <1>10 DEF RmCheck, ClientSubscribed
<1>11. ASSUME NEW c \in Clients, RmNotSubscribed(c) PROVE Goal'
  BY <1>11 DEF RmNotSubscribed, Return, ClientSubscribed
<1>12. ASSUME NEW c \in Clients, RmLeave(c) PROVE Goal'
  BY <1>12 DEF RmLeave, UnsubscribeClient
<1>13. ASSUME NEW c \in Clients, RmStillUsed(c) PROVE Goal'
  BY <1>13 DEF RmStillUsed, SubscriptionEmpty, Return
<1>14. ASSUME NEW c \in Clients, RmLock(c) PROVE Goal'
  BY <1>14 DEF RmLock, SubscriptionEmpty
<1>15. ASSUME NEW c \in Clients, RmUpstream(c) PROVE Goal'
  BY <1>15 DEF RmUpstream, PoolUnsubscribed
<1>16. ASSUME NEW c \in Clients, RmUpstreamFailed(c) PROVE Goal'
  BY <1>16 DEF RmUpstreamFailed, PoolUnsubscribeFailed, Return
<1>17. ASSUME NEW c \in Clients, RmForget(c) PROVE Goal'
  BY <1>17 DEF RmForget, RemoveSubscription, Return
<1>18. ASSUME NEW c \in Clients, UnsubscribeAll(c) PROVE Goal'
  BY <1>18 DEF UnsubscribeAll, Begin
<1>19. ASSUME NEW c \in Clients, AllLock(c) PROVE Goal'
  BY <1>19 DEF AllLock, GetSubscriptions
<1>20. ASSUME NEW c \in Clients, AllLeave(c) PROVE Goal'
  BY <1>20 DEF AllLeave, UnsubscribeClient
<1>21. ASSUME NEW c \in Clients, AllEmpty(c) PROVE Goal'
  BY <1>21 DEF AllEmpty, SubscriptionEmpty
<1>22. ASSUME NEW c \in Clients, AllUpstream(c) PROVE Goal'
  BY <1>22 DEF AllUpstream, PoolUnsubscribed
<1>23. ASSUME NEW c \in Clients, AllForget(c) PROVE Goal'
  BY <1>23 DEF AllForget, RemoveSubscription
<1>24. ASSUME NEW c \in Clients, AllDone(c) PROVE Goal'
  BY <1>24 DEF AllDone, AllReturn
<1>25. ASSUME NEW c \in Clients, AllUpstreamFailed(c) PROVE Goal'
  BY <1>25 DEF AllUpstreamFailed, PoolUnsubscribeFailed, AllReturn
<1>26. ASSUME NEW c \in Clients, Disconnect(c) PROVE Goal'
  BY <1>26 DEF Disconnect, Close
<1>27. ASSUME NEW c \in Clients, ConnClose(c) PROVE Goal'
  BY <1>27 DEF ConnClose, Ended
<1>28. ASSUME NEW c \in Clients, ConnCloseFailed(c) PROVE Goal'
  BY <1>28 DEF ConnCloseFailed, Close
<1>29. ASSUME NEW c \in Clients, ConnAbandoned(c) PROVE Goal'
  BY <1>29 DEF ConnAbandoned, Ended
<1>30. ASSUME NEW k \in Conns, NEW p \in Params, Broadcast(k, p) PROVE Goal'
  BY <1>30 DEF Broadcast
<1>31. ASSUME NEW n \in sending, Send(n) PROVE Goal'
  BY <1>31 DEF Send
<1>32. ASSUME NEW k \in Conns, ResetAll(k) PROVE Goal'
  BY <1>32 DEF ResetAll
<1>33. CASE UNCHANGED vars
  BY <1>33 DEF vars
<1> HIDE DEF Goal, IndInv, TypeOK, PoolConnAgree, BrokerPoolAgree, LocalTypes
<1> QED
  BY <1>1, <1>2, <1>3, <1>4, <1>5, <1>6, <1>7, <1>8, <1>9, <1>10, <1>11, <1>12,
         <1>13, <1>14, <1>15, <1>16, <1>17, <1>18, <1>19, <1>20, <1>21, <1>22, <1>23, <1>24,
         <1>25, <1>26, <1>27, <1>28, <1>29, <1>30, <1>31, <1>32, <1>33
     DEF Next, ClientStep, ClientRequest, Terminated

\* A client that leaves is told so first, and one that has ended holds leftovers only.
LEMMA LeavingPreserved == IndInv /\ [Next]_vars => Leaving' /\ ClosedHoldsLeftovers'
<1> DEFINE Goal == Leaving /\ ClosedHoldsLeftovers
<1> SUFFICES ASSUME IndInv, [Next]_vars PROVE Goal'
  OBVIOUS
<1> USE AbsentAssumption DEF IndInv, smVars, poolVars, clientVars, Goto, Lock, Unlock,
         TypeOK, Leaving, ClosedHoldsLeftovers, ToldIsServed, LocalTypes, OwnerKnows,
         IndexConsistent, Registered
<1>1. ASSUME NEW c \in Clients, BadParams(c) PROVE Goal'
  BY <1>1 DEF BadParams, Begin
<1>2. ASSUME NEW c \in Clients, NEW p \in Params, Subscribe(c, p) PROVE Goal'
  BY <1>2 DEF Subscribe, Begin
<1>3. ASSUME NEW c \in Clients, AddLock(c) PROVE Goal'
  BY <1>3 DEF AddLock
<1>4. ASSUME NEW c \in Clients, AddUpstream(c) PROVE Goal'
  <2>1. PICK x \in SubscribeAnswers(param[c]) :
           /\ x.ok
           /\ PoolSubscribed(param[c], x.id, x.conn)
           /\ subID' = [subID EXCEPT ![c] = x.id]
    BY <1>4 DEF AddUpstream
  <2>2. FreshAnswer(param[c], x)
    BY <1>4, <2>1, AnswerIsFresh DEF AddUpstream
  <2> QED
    BY <1>4, <2>1, <2>2 DEF AddUpstream, PoolSubscribed, FreshAnswer, FreshIDs, HasSubscription
<1>5. ASSUME NEW c \in Clients, AddUpstreamFailed(c) PROVE Goal'
  BY <1>5 DEF AddUpstreamFailed, Return
<1>6. ASSUME NEW c \in Clients, AddRegister(c) PROVE Goal'
  BY <1>6 DEF AddRegister, AddSubscription
<1>7. ASSUME NEW c \in Clients, AddJoin(c) PROVE Goal'
  BY <1>7 DEF AddJoin, SubscribeClient, Return
<1>8. ASSUME NEW c \in Clients, NEW p \in Params, Unsubscribe(c, p) PROVE Goal'
  BY <1>8 DEF Unsubscribe, Begin
<1>9. ASSUME NEW c \in Clients, NEW j \in IDs, UnsubscribeByID(c, j) PROVE Goal'
  BY <1>9 DEF UnsubscribeByID, Begin
<1>10. ASSUME NEW c \in Clients, RmCheck(c) PROVE Goal'
  BY <1>10 DEF RmCheck, ClientSubscribed
<1>11. ASSUME NEW c \in Clients, RmNotSubscribed(c) PROVE Goal'
  BY <1>11 DEF RmNotSubscribed, Return, ClientSubscribed
<1>12. ASSUME NEW c \in Clients, RmLeave(c) PROVE Goal'
  BY <1>12 DEF RmLeave, UnsubscribeClient
<1>13. ASSUME NEW c \in Clients, RmStillUsed(c) PROVE Goal'
  BY <1>13 DEF RmStillUsed, SubscriptionEmpty, Return
<1>14. ASSUME NEW c \in Clients, RmLock(c) PROVE Goal'
  BY <1>14 DEF RmLock, SubscriptionEmpty
<1>15. ASSUME NEW c \in Clients, RmUpstream(c) PROVE Goal'
  BY <1>15 DEF RmUpstream, PoolUnsubscribed
<1>16. ASSUME NEW c \in Clients, RmUpstreamFailed(c) PROVE Goal'
  BY <1>16 DEF RmUpstreamFailed, PoolUnsubscribeFailed, Return
<1>17. ASSUME NEW c \in Clients, RmForget(c) PROVE Goal'
  BY <1>17 DEF RmForget, RemoveSubscription, Return
<1>18. ASSUME NEW c \in Clients, UnsubscribeAll(c) PROVE Goal'
  BY <1>18 DEF UnsubscribeAll, Begin
<1>19. ASSUME NEW c \in Clients, AllLock(c) PROVE Goal'
  BY <1>19 DEF AllLock, GetSubscriptions
<1>20. ASSUME NEW c \in Clients, AllLeave(c) PROVE Goal'
  BY <1>20 DEF AllLeave, UnsubscribeClient
<1>21. ASSUME NEW c \in Clients, AllEmpty(c) PROVE Goal'
  BY <1>21 DEF AllEmpty, SubscriptionEmpty
<1>22. ASSUME NEW c \in Clients, AllUpstream(c) PROVE Goal'
  BY <1>22 DEF AllUpstream, PoolUnsubscribed
<1>23. ASSUME NEW c \in Clients, AllForget(c) PROVE Goal'
  BY <1>23 DEF AllForget, RemoveSubscription
<1>24. ASSUME NEW c \in Clients, AllDone(c) PROVE Goal'
  BY <1>24 DEF AllDone, AllReturn
<1>25. ASSUME NEW c \in Clients, AllUpstreamFailed(c) PROVE Goal'
  BY <1>25 DEF AllUpstreamFailed, PoolUnsubscribeFailed, AllReturn
<1>26. ASSUME NEW c \in Clients, Disconnect(c) PROVE Goal'
  BY <1>26 DEF Disconnect, Close
<1>27. ASSUME NEW c \in Clients, ConnClose(c) PROVE Goal'
  BY <1>27 DEF ConnClose, Ended
<1>28. ASSUME NEW c \in Clients, ConnCloseFailed(c) PROVE Goal'
  BY <1>28 DEF ConnCloseFailed, Close
<1>29. ASSUME NEW c \in Clients, ConnAbandoned(c) PROVE Goal'
  BY <1>29 DEF ConnAbandoned, Ended
<1>30. ASSUME NEW k \in Conns, NEW p \in Params, Broadcast(k, p) PROVE Goal'
  BY <1>30 DEF Broadcast
<1>31. ASSUME NEW n \in sending, Send(n) PROVE Goal'
  BY <1>31 DEF Send
<1>32. ASSUME NEW k \in Conns, ResetAll(k) PROVE Goal'
  BY <1>32 DEF ResetAll
<1>33. CASE UNCHANGED vars
  BY <1>33 DEF vars
<1> HIDE DEF Goal, IndInv, TypeOK, Leaving, ClosedHoldsLeftovers, ToldIsServed, LocalTypes,
         OwnerKnows, IndexConsistent, Registered
<1> QED
  BY <1>1, <1>2, <1>3, <1>4, <1>5, <1>6, <1>7, <1>8, <1>9, <1>10, <1>11, <1>12,
         <1>13, <1>14, <1>15, <1>16, <1>17, <1>18, <1>19, <1>20, <1>21, <1>22, <1>23, <1>24,
         <1>25, <1>26, <1>27, <1>28, <1>29, <1>30, <1>31, <1>32, <1>33
     DEF Next, ClientStep, ClientRequest, Terminated

\* ToldIsServed without what the connection does
ToldIsHeld ==
    \A c \in Clients : \A p \in told[c] :
        /\ paramToID[p] \in IDs
        /\ c \in clientSubscriptions[paramToID[p]]
        /\ subscriptionParam[paramToID[p]] = p

\* What a client was told stays true of the maps of broker and pool.
LEMMA HeldPreserved == IndInv /\ [Next]_vars => ToldIsHeld'
<1> DEFINE Goal == ToldIsHeld
<1> SUFFICES ASSUME IndInv, [Next]_vars PROVE Goal'
  OBVIOUS
<1> USE AbsentAssumption DEF IndInv, smVars, poolVars, clientVars, Goto, Lock, Unlock,
         TypeOK, ToldIsHeld, ToldIsServed, Leaving, LocalTypes, MutexOwner, Critical,
         OwnerKnows, IndexConsistent, Registered, BrokerPoolAgree, PoolConnAgree, OwnerAt
<1>1. ASSUME NEW c \in Clients, BadParams(c) PROVE Goal'
  BY <1>1 DEF BadParams, Begin
<1>2. ASSUME NEW c \in Clients, NEW p \in Params, Subscribe(c, p) PROVE Goal'
  BY <1>2 DEF Subscribe, Begin
<1>3. ASSUME NEW c \in Clients, AddLock(c) PROVE Goal'
  BY <1>3 DEF AddLock
<1>4. ASSUME NEW c \in Clients, AddUpstream(c) PROVE Goal'
  <2>1. PICK x \in SubscribeAnswers(param[c]) :
           /\ x.ok
           /\ PoolSubscribed(param[c], x.id, x.conn)
           /\ subID' = [subID EXCEPT ![c] = x.id]
    BY <1>4 DEF AddUpstream
  <2>2. FreshAnswer(param[c], x)
    BY <1>4, <2>1, AnswerIsFresh DEF AddUpstream
  <2> QED
    BY <1>4, <2>1, <2>2 DEF AddUpstream, PoolSubscribed, FreshAnswer, FreshIDs, HasSubscription
<1>5. ASSUME NEW c \in Clients, AddUpstreamFailed(c) PROVE Goal'
  BY <1>5 DEF AddUpstreamFailed, Return
<1>6. ASSUME NEW c \in Clients, AddRegister(c) PROVE Goal'
  BY <1>6 DEF AddRegister, AddSubscription
<1>7. ASSUME NEW c \in Clients, AddJoin(c) PROVE Goal'
  BY <1>7 DEF AddJoin, SubscribeClient, Return
<1>8. ASSUME NEW c \in Clients, NEW p \in Params, Unsubscribe(c, p) PROVE Goal'
  BY <1>8 DEF Unsubscribe, Begin
<1>9. ASSUME NEW c \in Clients, NEW j \in IDs, UnsubscribeByID(c, j) PROVE Goal'
  BY <1>9 DEF UnsubscribeByID, Begin
<1>10. ASSUME NEW c \in Clients, RmCheck(c) PROVE Goal'
  BY <1>10 DEF RmCheck, ClientSubscribed
<1>11. ASSUME NEW c \in Clients, RmNotSubscribed(c) PROVE Goal'
  BY <1>11 DEF RmNotSubscribed, Return, ClientSubscribed
<1>12. ASSUME NEW c \in Clients, RmLeave(c) PROVE Goal'
  BY <1>12 DEF RmLeave, UnsubscribeClient
<1>13. ASSUME NEW c \in Clients, RmStillUsed(c) PROVE Goal'
  BY <1>13 DEF RmStillUsed, SubscriptionEmpty, Return
<1>14. ASSUME NEW c \in Clients, RmLock(c) PROVE Goal'
  BY <1>14 DEF RmLock, SubscriptionEmpty
<1>15. ASSUME NEW c \in Clients, RmUpstream(c) PROVE Goal'
  BY <1>15 DEF RmUpstream, PoolUnsubscribed
<1>16. ASSUME NEW c \in Clients, RmUpstreamFailed(c) PROVE Goal'
  BY <1>16 DEF RmUpstreamFailed, PoolUnsubscribeFailed, Return
<1>17. ASSUME NEW c \in Clients, RmForget(c) PROVE Goal'
  BY <1>17 DEF RmForget, RemoveSubscription, Return
<1>18. ASSUME NEW c \in Clients, UnsubscribeAll(c) PROVE Goal'
  BY <1>18 DEF UnsubscribeAll, Begin
<1>19. ASSUME NEW c \in Clients, AllLock(c) PROVE Goal'
  BY <1>19 DEF AllLock, GetSubscriptions
<1>20. ASSUME NEW c \in Clients, AllLeave(c) PROVE Goal'
  BY <1>20 DEF AllLeave, UnsubscribeClient
<1>21. ASSUME NEW c \in Clients, AllEmpty(c) PROVE Goal'
  BY <1>21 DEF AllEmpty, SubscriptionEmpty
<1>22. ASSUME NEW c \in Clients, AllUpstream(c) PROVE Goal'
  BY <1>22 DEF AllUpstream, PoolUnsubscribed
<1>23. ASSUME NEW c \in Clients, AllForget(c) PROVE Goal'
  BY <1>23 DEF AllForget, RemoveSubscription
<1>24. ASSUME NEW c \in Clients, AllDone(c) PROVE Goal'
  BY <1>24 DEF AllDone, AllReturn
<1>25. ASSUME NEW c \in Clients, AllUpstreamFailed(c) PROVE Goal'
  BY <1>25 DEF AllUpstreamFailed, PoolUnsubscribeFailed, AllReturn
<1>26. ASSUME NEW c \in Clients, Disconnect(c) PROVE Goal'
  BY <1>26 DEF Disconnect, Close
<1>27. ASSUME NEW c \in Clients, ConnClose(c) PROVE Goal'
  BY <1>27 DEF ConnClose, Ended
<1>28. ASSUME NEW c \in Clients, ConnCloseFailed(c) PROVE Goal'
  BY <1>28 DEF ConnCloseFailed, Close
<1>29. ASSUME NEW c \in Clients, ConnAbandoned(c) PROVE Goal'
  BY <1>29 DEF ConnAbandoned, Ended
<1>30. ASSUME NEW k \in Conns, NEW p \in Params, Broadcast(k, p) PROVE Goal'
  BY <1>30 DEF Broadcast
<1>31. ASSUME NEW n \in sending, Send(n) PROVE Goal'
  BY <1>31 DEF Send
<1>32. ASSUME NEW k \in Conns, ResetAll(k) PROVE Goal'
  BY <1>32 DEF ResetAll
<1>33. CASE UNCHANGED vars
  BY <1>33 DEF vars
<1> HIDE DEF Goal, IndInv, TypeOK, ToldIsHeld, ToldIsServed, Leaving, LocalTypes,
         MutexOwner, Critical, OwnerKnows, IndexConsistent, Registered, BrokerPoolAgree,
         PoolConnAgree, OwnerAt
<1> QED
  BY <1>1, <1>2, <1>3, <1>4, <1>5, <1>6, <1>7, <1>8, <1>9, <1>10, <1>11, <1>12,
         <1>13, <1>14, <1>15, <1>16, <1>17, <1>18, <1>19, <1>20, <1>21, <1>22, <1>23, <1>24,
         <1>25, <1>26, <1>27, <1>28, <1>29, <1>30, <1>31, <1>32, <1>33
     DEF Next, ClientStep, ClientRequest, Terminated

\* What the pool has of a query its connection forwards, but for what a reset took.
LEMMA HeldIsServed ==
    ASSUME TypeOK', PoolConnAgree', ToldIsHeld'
    PROVE  ToldIsServed'
<1> SUFFICES ASSUME NEW c \in Clients, NEW p \in told'[c]
             PROVE  (Forwarded(paramToID[p], p) \/ paramToID[p] \in lost)'
  BY DEF ToldIsHeld, ToldIsServed
<1>1. paramToID'[p] \in IDs /\ p \in Params /\ subscriptionParam'[paramToID'[p]] = p
  BY DEF TypeOK, ToldIsHeld
<1>2. subscriptionConn'[paramToID'[p]] # NoConn
  BY <1>1, AbsentAssumption DEF PoolConnAgree
<1> QED
  BY <1>1, <1>2 DEF PoolConnAgree, Forwarded

\* An empty subscription stays accounted for.
LEMMA IdlePreserved == IndInv /\ [Next]_vars => NoIdleUpstream'
<1> SUFFICES ASSUME IndInv, [Next]_vars,
                    NEW i \in clientMaps', clientSubscriptions'[i] = {}
             PROVE  Accounted(i)'
  BY DEF NoIdleUpstream, Accounted
<1> DEFINE Goal == Accounted(i)
<1> USE AbsentAssumption DEF IndInv, smVars, poolVars, clientVars, Goto, Lock, Unlock,
         TypeOK, NoIdleUpstream, Accounted, OwnerAt, LocalTypes, MutexOwner, Critical,
         BrokerPoolAgree, IndexConsistent, Registered
<1>1. ASSUME NEW c \in Clients, BadParams(c) PROVE Goal'
  BY <1>1 DEF BadParams, Begin
<1>2. ASSUME NEW c \in Clients, NEW p \in Params, Subscribe(c, p) PROVE Goal'
  BY <1>2 DEF Subscribe, Begin
<1>3. ASSUME NEW c \in Clients, AddLock(c) PROVE Goal'
  <2>1. \A d \in Clients \ {c} : pc'[d] = pc[d] /\ subID'[d] = subID[d]
    BY <1>3 DEF AddLock
  <2>2. Accounted(i) /\ pc[c] = "addLock" /\ upstreamSubMux = Nobody /\ failed' = failed
    BY <1>3 DEF AddLock
  <2> QED
    BY <2>1, <2>2 DEF Accounted, OwnerAt
<1>4. ASSUME NEW c \in Clients, AddUpstream(c) PROVE Goal'
  <2>1. PICK x \in SubscribeAnswers(param[c]) :
           /\ x.ok
           /\ PoolSubscribed(param[c], x.id, x.conn)
           /\ subID' = [subID EXCEPT ![c] = x.id]
    BY <1>4 DEF AddUpstream
  <2>2. FreshAnswer(param[c], x)
    BY <1>4, <2>1, AnswerIsFresh DEF AddUpstream
  <2> QED
    BY <1>4, <2>1, <2>2 DEF AddUpstream, PoolSubscribed, FreshAnswer, FreshIDs, HasSubscription
<1>5. ASSUME NEW c \in Clients, AddUpstreamFailed(c) PROVE Goal'
  BY <1>5 DEF AddUpstreamFailed, Return
<1>6. ASSUME NEW c \in Clients, AddRegister(c) PROVE Goal'
  <2>1. \A d \in Clients \ {c} : pc'[d] = pc[d] /\ subID'[d] = subID[d]
    BY <1>6 DEF AddRegister, AddSubscription
  <2>2. upstreamSubMux' = c /\ pc'[c] = "join" /\ failed' = failed
    BY <1>6 DEF AddRegister, AddSubscription
  <2>3. CASE i = subID'[c]
    BY <2>2, <2>3 DEF Accounted, OwnerAt
  <2>4. CASE i # subID'[c]
    <3> i \in clientMaps /\ clientSubscriptions[i] = {}
      BY <1>6, <2>4 DEF AddRegister, AddSubscription
    <3>1. Accounted(i) /\ upstreamSubMux = c /\ pc[c] # "rmLock"
      BY <1>6 DEF AddRegister
    <3>2. pc[c] = "register"
      BY <1>6, <2>4 DEF AddRegister
    <3>3. i \in failed \/ \E d \in Clients \ {c} : pc[d] = "rmLock" /\ subID[d] = i
      BY <3>1, <3>2 DEF Accounted, OwnerAt
    <3> QED
      BY <2>1, <2>2, <3>3 DEF Accounted
  <2> QED
    BY <2>3, <2>4
<1>7. ASSUME NEW c \in Clients, AddJoin(c) PROVE Goal'
  <2>1. \A d \in Clients \ {c} : pc'[d] = pc[d] /\ subID'[d] = subID[d]
    BY <1>7 DEF AddJoin, SubscribeClient, Return
  <2>2. failed' = failed
    BY <1>7 DEF AddJoin, SubscribeClient, Return
  <2>3. i # subID[c]
    <3>1. c \in clientSubscriptions'[subID[c]]
      BY <1>7 DEF AddJoin, SubscribeClient, Return
    <3> QED
      BY <3>1
  <2>4. CASE i # subID[c]
    <3> i \in clientMaps /\ clientSubscriptions[i] = {}
      BY <1>7, <2>4 DEF AddJoin, SubscribeClient, Return
    <3>1. Accounted(i) /\ upstreamSubMux = c /\ pc[c] # "rmLock"
      BY <1>7 DEF AddJoin
    <3>2. subID[c] # i
      BY <1>7, <2>4 DEF AddJoin
    <3>3. i \in failed \/ \E d \in Clients \ {c} : pc[d] = "rmLock" /\ subID[d] = i
      BY <3>1, <3>2 DEF Accounted, OwnerAt
    <3> QED
      BY <2>1, <2>2, <3>3 DEF Accounted
  <2> QED
    BY <2>3, <2>4
<1>8. ASSUME NEW c \in Clients, NEW p \in Params, Unsubscribe(c, p) PROVE Goal'
  BY <1>8 DEF Unsubscribe, Begin
<1>9. ASSUME NEW c \in Clients, NEW j \in IDs, UnsubscribeByID(c, j) PROVE Goal'
  BY <1>9 DEF UnsubscribeByID, Begin
<1>10. ASSUME NEW c \in Clients, RmCheck(c) PROVE Goal'
  BY <1>10 DEF RmCheck, ClientSubscribed
<1>11. ASSUME NEW c \in Clients, RmNotSubscribed(c) PROVE Goal'
  BY <1>11 DEF RmNotSubscribed, Return, ClientSubscribed
<1>12. ASSUME NEW c \in Clients, RmLeave(c) PROVE Goal'
  BY <1>12 DEF RmLeave, UnsubscribeClient
<1>13. ASSUME NEW c \in Clients, RmStillUsed(c) PROVE Goal'
  BY <1>13 DEF RmStillUsed, SubscriptionEmpty, Return
<1>14. ASSUME NEW c \in Clients, RmLock(c) PROVE Goal'
  <2>1. \A d \in Clients \ {c} : pc'[d] = pc[d] /\ subID'[d] = subID[d]
    BY <1>14 DEF RmLock
  <2>2. /\ upstreamSubMux = Nobody /\ upstreamSubMux' = c /\ pc'[c] = "rmUp"
        /\ subID'[c] = subID[c] /\ failed' = failed
    BY <1>14 DEF RmLock
  <2>3. Accounted(i)
    BY <1>14 DEF RmLock
  <2>4. i \in failed \/ \E d \in Clients : pc[d] = "rmLock" /\ subID[d] = i
    BY <2>2, <2>3 DEF Accounted, OwnerAt
  <2> QED
    BY <2>1, <2>2, <2>4 DEF Accounted, OwnerAt
<1>15. ASSUME NEW c \in Clients, RmUpstream(c) PROVE Goal'
  <2>1. \A d \in Clients \ {c} : pc'[d] = pc[d] /\ subID'[d] = subID[d]
    BY <1>15 DEF RmUpstream
  <2>2. /\ upstreamSubMux = c /\ upstreamSubMux' = c /\ subID'[c] = subID[c]
        /\ pc[c] = "rmUp" /\ pc'[c] = "rmForget" /\ failed' = failed \ {subID[c]}
    BY <1>15 DEF RmUpstream, PoolUnsubscribed
  <2>3. Accounted(i)
    BY <1>15 DEF RmUpstream
  <2>4. CASE i = subID[c]
    BY <2>2, <2>4 DEF Accounted, OwnerAt
  <2>5. CASE i # subID[c]
    <3>1. i \in failed \/ \E d \in Clients \ {c} : pc[d] = "rmLock" /\ subID[d] = i
      BY <2>2, <2>3, <2>5 DEF Accounted, OwnerAt
    <3> QED
      BY <2>1, <2>2, <2>5, <3>1 DEF Accounted
  <2> QED
    BY <2>4, <2>5
<1>16. ASSUME NEW c \in Clients, RmUpstreamFailed(c) PROVE Goal'
  <2>1. \A j \in IDs : idToParam[j] = subscriptionParam[j]
    BY <1>16 DEF RmUpstreamFailed
  <2> QED
    BY <1>16, <2>1 DEF RmUpstreamFailed, PoolUnsubscribeFailed, Return, PoolConnAgree
<1>17. ASSUME NEW c \in Clients, RmForget(c) PROVE Goal'
  BY <1>17 DEF RmForget, RemoveSubscription, Return
<1>18. ASSUME NEW c \in Clients, UnsubscribeAll(c) PROVE Goal'
  BY <1>18 DEF UnsubscribeAll, Begin
<1>19. ASSUME NEW c \in Clients, AllLock(c) PROVE Goal'
  BY <1>19 DEF AllLock, GetSubscriptions
<1>20. ASSUME NEW c \in Clients, AllLeave(c) PROVE Goal'
  <2>1. \A d \in Clients \ {c} : pc'[d] = pc[d] /\ subID'[d] = subID[d]
    BY <1>20 DEF AllLeave, UnsubscribeClient
  <2>2. upstreamSubMux' = c /\ pc'[c] = "allEmpty" /\ failed' = failed
    BY <1>20 DEF AllLeave, UnsubscribeClient
  <2>3. CASE i = subID'[c]
    BY <2>2, <2>3 DEF Accounted, OwnerAt
  <2>4. CASE i # subID'[c]
    <3> i \in clientMaps /\ clientSubscriptions[i] = {}
      BY <1>20, <2>4 DEF AllLeave, UnsubscribeClient
    <3>1. Accounted(i) /\ upstreamSubMux = c /\ pc[c] # "rmLock"
      BY <1>20 DEF AllLeave
    <3>2. pc[c] = "allLeave"
      BY <1>20, <2>4 DEF AllLeave
    <3>3. i \in failed \/ \E d \in Clients \ {c} : pc[d] = "rmLock" /\ subID[d] = i
      BY <3>1, <3>2 DEF Accounted, OwnerAt
    <3> QED
      BY <2>1, <2>2, <3>3 DEF Accounted
  <2> QED
    BY <2>3, <2>4
<1>21. ASSUME NEW c \in Clients, AllEmpty(c) PROVE Goal'
  <2>1. Accounted(i)
    BY <1>21 DEF AllEmpty
  <2> QED
    BY <1>21, <2>1 DEF AllEmpty, SubscriptionEmpty
<1>22. ASSUME NEW c \in Clients, AllUpstream(c) PROVE Goal'
  <2>1. \A d \in Clients \ {c} : pc'[d] = pc[d] /\ subID'[d] = subID[d]
    BY <1>22 DEF AllUpstream
  <2>2. /\ upstreamSubMux = c /\ upstreamSubMux' = c /\ subID'[c] = subID[c]
        /\ pc[c] = "allUp" /\ pc'[c] = "allForget" /\ failed' = failed \ {subID[c]}
    BY <1>22 DEF AllUpstream, PoolUnsubscribed
  <2>3. Accounted(i)
    BY <1>22 DEF AllUpstream
  <2>4. CASE i = subID[c]
    BY <2>2, <2>4 DEF Accounted, OwnerAt
  <2>5. CASE i # subID[c]
    <3>1. i \in failed \/ \E d \in Clients \ {c} : pc[d] = "rmLock" /\ subID[d] = i
      BY <2>2, <2>3, <2>5 DEF Accounted, OwnerAt
    <3> QED
      BY <2>1, <2>2, <2>5, <3>1 DEF Accounted
  <2> QED
    BY <2>4, <2>5
<1>23. ASSUME NEW c \in Clients, AllForget(c) PROVE Goal'
  <2>1. \A d \in Clients \ {c} : pc'[d] = pc[d] /\ subID'[d] = subID[d]
    BY <1>23 DEF AllForget, RemoveSubscription
  <2>2. failed' = failed
    BY <1>23 DEF AllForget, RemoveSubscription
  <2>3. i # subID[c]
    BY <1>23 DEF AllForget, RemoveSubscription
  <2>4. CASE i # subID[c]
    <3> i \in clientMaps /\ clientSubscriptions[i] = {}
      BY <1>23, <2>4 DEF AllForget, RemoveSubscription
    <3>1. Accounted(i) /\ upstreamSubMux = c /\ pc[c] # "rmLock"
      BY <1>23 DEF AllForget
    <3>2. subID[c] # i
      BY <1>23, <2>4 DEF AllForget
    <3>3. i \in failed \/ \E d \in Clients \ {c} : pc[d] = "rmLock" /\ subID[d] = i
      BY <3>1, <3>2 DEF Accounted, OwnerAt
    <3> QED
      BY <2>1, <2>2, <3>3 DEF Accounted
  <2> QED
    BY <2>3, <2>4
<1>24. ASSUME NEW c \in Clients, AllDone(c) PROVE Goal'
  BY <1>24 DEF AllDone, AllReturn
<1>25. ASSUME NEW c \in Clients, AllUpstreamFailed(c) PROVE Goal'
  <2>1. \A j \in IDs : idToParam[j] = subscriptionParam[j]
    BY <1>25 DEF AllUpstreamFailed
  <2> QED
    BY <1>25, <2>1 DEF AllUpstreamFailed, PoolUnsubscribeFailed, AllReturn, PoolConnAgree
<1>26. ASSUME NEW c \in Clients, Disconnect(c) PROVE Goal'
  BY <1>26 DEF Disconnect, Close
<1>27. ASSUME NEW c \in Clients, ConnClose(c) PROVE Goal'
  BY <1>27 DEF ConnClose, Ended
<1>28. ASSUME NEW c \in Clients, ConnCloseFailed(c) PROVE Goal'
  BY <1>28 DEF ConnCloseFailed, Close
<1>29. ASSUME NEW c \in Clients, ConnAbandoned(c) PROVE Goal'
  BY <1>29 DEF ConnAbandoned, Ended
<1>30. ASSUME NEW k \in Conns, NEW p \in Params, Broadcast(k, p) PROVE Goal'
  BY <1>30 DEF Broadcast
<1>31. ASSUME NEW n \in sending, Send(n) PROVE Goal'
  BY <1>31 DEF Send
<1>32. ASSUME NEW k \in Conns, ResetAll(k) PROVE Goal'
  BY <1>32 DEF ResetAll
<1>33. CASE UNCHANGED vars
  BY <1>33 DEF vars
<1> HIDE DEF IndInv, TypeOK, NoIdleUpstream, Accounted, OwnerAt, LocalTypes, MutexOwner,
         Critical, BrokerPoolAgree, IndexConsistent, Registered
<1> QED
  BY <1>1, <1>2, <1>3, <1>4, <1>5, <1>6, <1>7, <1>8, <1>9, <1>10, <1>11, <1>12,
         <1>13, <1>14, <1>15, <1>16, <1>17, <1>18, <1>19, <1>20, <1>21, <1>22, <1>23, <1>24,
         <1>25, <1>26, <1>27, <1>28, <1>29, <1>30, <1>31, <1>32, <1>33
     DEF Next, ClientStep, ClientRequest, Terminated

\* The invariant holds at first.
LEMMA IndInvInit == Init => IndInv
  BY AbsentAssumption, BoundAssumption
  DEF Init, IndInv, TypeOK, LocalTypes, MutexOwner, OwnerKnows, Leaving, IndexConsistent,
      BrokerPoolAgree, PoolConnAgree, ToldIsServed, NoIdleUpstream, ClosedHoldsLeftovers,
      Registered, OwnerAt, Critical, Steps, Notifications

\* Every step keeps the invariant.
LEMMA IndInvStep == IndInv /\ [Next]_vars => IndInv'
<1> SUFFICES ASSUME IndInv, [Next]_vars PROVE IndInv'
  OBVIOUS
<1>1. /\ TypeOK' /\ LocalTypes' /\ MutexOwner' /\ OwnerKnows' /\ Leaving'
      /\ IndexConsistent' /\ BrokerPoolAgree' /\ PoolConnAgree'
      /\ ToldIsHeld' /\ NoIdleUpstream' /\ ClosedHoldsLeftovers'
  BY TypesPreserved, OwnerPreserved, IndexPreserved, PoolPreserved, ConnPreserved,
     LeavingPreserved, HeldPreserved, IdlePreserved
<1>2. ToldIsServed'
  BY <1>1, HeldIsServed
<1> QED
  BY <1>1, <1>2 DEF IndInv

\* The inductive invariant holds for every set of clients, queries, ids and
\* connections, and for both kinds of connection managers.
THEOREM Invariance == Spec => []IndInv
  BY IndInvInit, IndInvStep, PTL DEF Spec

\* Type correctness.
THEOREM TypeCorrect == Spec => []TypeOK
<1>1. IndInv => TypeOK
  BY DEF IndInv
<1> QED
  BY <1>1, Invariance, PTL

\* The SubscriptionManager's three maps agree: no write goes to the nil map of an id
\* that is not registered.
THEOREM MapsAgree == Spec => []IndexConsistent
<1>1. IndInv => IndexConsistent
  BY DEF IndInv
<1> QED
  BY <1>1, Invariance, PTL

\* Broker and pool have the same id for a query, but for the one that the owner of
\* upstreamSubMux is between the two updates of.
THEOREM PoolAgrees == Spec => []BrokerPoolAgree
<1>1. IndInv => BrokerPoolAgree
  BY DEF IndInv
<1> QED
  BY <1>1, Invariance, PTL

\* What a connection manager forwards belongs to an id of the pool, under one query,
\* and it forwards all that the pool has on it, but for what an Eth reset has taken.
THEOREM ConnectionsAgree == Spec => []PoolConnAgree
<1>1. IndInv => PoolConnAgree
  BY DEF IndInv
<1> QED
  BY <1>1, Invariance, PTL

\* addSubscription's reply stays true until the client itself asks otherwise, or the
\* reset of an Eth connection loses the subscription.
THEOREM SubscribedIsServed == Spec => []ToldIsServed
<1>1. IndInv => ToldIsServed
  BY DEF IndInv
<1> QED
  BY <1>1, Invariance, PTL

\* An upstream subscription without clients is being closed, joined, or is one whose
\* unsubscribe the node did not confirm.
THEOREM IdleIsAccounted == Spec => []NoIdleUpstream
<1>1. IndInv => NoIdleUpstream
  BY DEF IndInv
<1> QED
  BY <1>1, Invariance, PTL

\* A closed client is left in no client map but those removeAllSubscriptions missed.
THEOREM ClosedIsForgotten == Spec => []ClosedHoldsLeftovers
<1>1. IndInv => ClosedHoldsLeftovers
  BY DEF IndInv
<1> QED
  BY <1>1, Invariance, PTL

\* onSubscriptionMessage starts goroutines for clients of the notification's query only.
THEOREM BroadcastIsExact == Spec => BroadcastReachesSubscribers
<1>1. ASSUME IndInv, [Next]_vars PROVE BroadcastExact
  <2>1. ASSUME NEW k \in Conns, NEW p \in Params, Broadcast(k, p) PROVE BroadcastExact
    <3> DEFINE i == subByParam[k][p]
    <3>1. i \in IDs
      BY <1>1, <2>1 DEF IndInv, TypeOK, Broadcast
    <3>2. clientSubscriptions[i] # {} => idToParam[i] = p
      BY <1>1, <3>1, AbsentAssumption
      DEF IndInv, TypeOK, PoolConnAgree, BrokerPoolAgree, IndexConsistent
    <3>3. \A n \in sending' \ sending :
             n.id = i /\ n.about = p /\ n.to \in clientSubscriptions[i]
      BY <2>1 DEF Broadcast, GetSubscriptionClients
    <3> QED
      BY <3>2, <3>3 DEF BroadcastExact
  <2>2. CASE sending' \subseteq sending
    BY <2>2 DEF BroadcastExact
  <2>3. ASSUME NEW c \in Clients, ClientStep(c) \/ ClientRequest(c) PROVE sending' = sending
    BY <2>3
    DEF ClientStep, ClientRequest, BadParams, Subscribe, AddLock, AddUpstream,
        AddUpstreamFailed, AddRegister, AddJoin, Unsubscribe, UnsubscribeByID, RmCheck,
        RmNotSubscribed, RmLeave, RmStillUsed, RmLock, RmUpstream, RmUpstreamFailed,
        RmForget, UnsubscribeAll, AllLock, AllLeave, AllEmpty, AllUpstream, AllForget,
        AllDone, AllUpstreamFailed, AllReturn, Disconnect, Close, ConnClose,
        ConnCloseFailed, ConnAbandoned, Ended, Begin, Return
  <2>4. ASSUME NEW n \in sending, Send(n) PROVE sending' \subseteq sending
    BY <2>4 DEF Send
  <2>5. ASSUME NEW k \in Conns, ResetAll(k) PROVE sending' = sending
    BY <2>5 DEF ResetAll
  <2>6. CASE UNCHANGED vars
    BY <2>6 DEF vars, BroadcastExact
  <2> QED
    BY <1>1, <2>1, <2>2, <2>3, <2>4, <2>5, <2>6 DEF Next, Terminated
<1>2. IndInv /\ [Next]_vars => [BroadcastExact]_vars
  BY <1>1
<1> QED
  BY <1>2, Invariance, PTL DEF Spec, BroadcastReachesSubscribers

-----------------------------------------------------------------------------
(* What a step of one client means to itself and to the others.  (For the  *)
(* proxy in front of the broker, see WsProxyProofs.)                        *)

\* The other clients stay where they are, and in the client maps that they are in,
\* each of which keeps its query.
Unmoved(v) ==
    /\ pc'[v] = pc[v] /\ param'[v] = param[v] /\ subID'[v] = subID[v]
    /\ closeTry'[v] = closeTry[v] /\ told'[v] = told[v]
    /\ \A i \in IDs :
          /\ v \in clientSubscriptions'[i] <=> v \in clientSubscriptions[i]
          /\ v \in clientSubscriptions[i] => idToParam'[i] = idToParam[i]

\* They do.
LEMMA OthersStay ==
    ASSUME IndInv, NEW c \in Clients, ClientStep(c) \/ ClientRequest(c),
           NEW v \in Clients, v # c
    PROVE  Unmoved(v)
<1> DEFINE Goal == Unmoved(v)
<1> SUFFICES Goal
  OBVIOUS
<1> USE AbsentAssumption DEF IndInv, smVars, poolVars, clientVars, Goto, Lock, Unlock,
         TypeOK, LocalTypes, OwnerKnows, IndexConsistent, Registered, Unmoved
<1>1. CASE BadParams(c)
  BY <1>1 DEF BadParams, Begin
<1>2. ASSUME NEW p \in Params, Subscribe(c, p) PROVE Goal
  BY <1>2 DEF Subscribe, Begin
<1>3. CASE AddLock(c)
  BY <1>3 DEF AddLock
<1>4. CASE AddUpstream(c)
  BY <1>4 DEF AddUpstream, PoolSubscribed
<1>5. CASE AddUpstreamFailed(c)
  BY <1>5 DEF AddUpstreamFailed, Return
<1>6. CASE AddRegister(c)
  BY <1>6 DEF AddRegister, AddSubscription
<1>7. CASE AddJoin(c)
  BY <1>7 DEF AddJoin, SubscribeClient, Return
<1>8. ASSUME NEW p \in Params, Unsubscribe(c, p) PROVE Goal
  BY <1>8 DEF Unsubscribe, Begin
<1>9. ASSUME NEW j \in IDs, UnsubscribeByID(c, j) PROVE Goal
  BY <1>9 DEF UnsubscribeByID, Begin
<1>10. CASE RmCheck(c)
  BY <1>10 DEF RmCheck, ClientSubscribed
<1>11. CASE RmNotSubscribed(c)
  BY <1>11 DEF RmNotSubscribed, Return, ClientSubscribed
<1>12. CASE RmLeave(c)
  BY <1>12 DEF RmLeave, UnsubscribeClient
<1>13. CASE RmStillUsed(c)
  BY <1>13 DEF RmStillUsed, Return
<1>14. CASE RmLock(c)
  BY <1>14 DEF RmLock
<1>15. CASE RmUpstream(c)
  BY <1>15 DEF RmUpstream, PoolUnsubscribed
<1>16. CASE RmUpstreamFailed(c)
  BY <1>16 DEF RmUpstreamFailed, PoolUnsubscribeFailed, Return
<1>17. CASE RmForget(c)
  BY <1>17 DEF RmForget, RemoveSubscription, Return
<1>18. CASE UnsubscribeAll(c)
  BY <1>18 DEF UnsubscribeAll, Begin
<1>19. CASE AllLock(c)
  BY <1>19 DEF AllLock
<1>20. CASE AllLeave(c)
  BY <1>20 DEF AllLeave, UnsubscribeClient
<1>21. CASE AllEmpty(c)
  BY <1>21 DEF AllEmpty, SubscriptionEmpty
<1>22. CASE AllUpstream(c)
  BY <1>22 DEF AllUpstream, PoolUnsubscribed
<1>23. CASE AllForget(c)
  BY <1>23 DEF AllForget, RemoveSubscription
<1>24. CASE AllDone(c)
  BY <1>24 DEF AllDone, AllReturn
<1>25. CASE AllUpstreamFailed(c)
  BY <1>25 DEF AllUpstreamFailed, PoolUnsubscribeFailed, AllReturn
<1>26. CASE Disconnect(c)
  BY <1>26 DEF Disconnect, Close
<1>27. CASE ConnClose(c)
  BY <1>27 DEF ConnClose, Ended
<1>28. CASE ConnCloseFailed(c)
  BY <1>28 DEF ConnCloseFailed, Close
<1>29. CASE ConnAbandoned(c)
  BY <1>29 DEF ConnAbandoned, Ended
<1> HIDE DEF Goal, IndInv, TypeOK, LocalTypes, OwnerKnows, IndexConsistent, Registered,
         Unmoved
<1> QED
  BY <1>1, <1>2, <1>3, <1>4, <1>5, <1>6, <1>7, <1>8, <1>9, <1>10, <1>11, <1>12, <1>13,
     <1>14, <1>15, <1>16, <1>17, <1>18, <1>19, <1>20, <1>21, <1>22, <1>23, <1>24,
     <1>25, <1>26, <1>27, <1>28, <1>29
     DEF ClientStep, ClientRequest

Adding     == {"addLock", "addUp", "register", "join"}
Removing   == {"rmCheck", "rmLeave", "rmLock", "rmUp", "rmForget"}
LeavingAll == {"allLock", "allLeave", "allEmpty", "allUp", "allForget"}

\* A handler runs from its first step to its return.  Its client enters a client map
\* only by its join, for the query of the request, and has left all of them when
\* removeAllSubscriptions comes to the end of its list.
Moved(c) ==
    /\ pc[c] \in Adding =>
          /\ pc'[c] \in Adding \cup {"idle"} /\ closeTry'[c] = closeTry[c]
          /\ pc'[c] # "idle" => param'[c] = param[c]
    /\ pc[c] \in Removing => closeTry'[c] = closeTry[c]
    /\ pc[c] = "rmCheck" =>
          \/ pc'[c] = "idle"
          \/ /\ pc'[c] = "rmLeave" /\ subID'[c] = subID[c]
             /\ c \in clientSubscriptions'[subID[c]]
    /\ pc[c] = "rmLeave" => /\ pc'[c] = "rmLock" /\ idToParam' = idToParam
                            /\ c \notin clientSubscriptions'[subID[c]]
    /\ pc[c] \in {"rmLock", "rmUp", "rmForget"} => pc'[c] \in {"rmUp", "rmForget", "idle"}
    /\ pc[c] \in LeavingAll =>
          /\ closeTry'[c] = closeTry[c]
          /\ pc'[c] \in LeavingAll \cup {IF closeTry[c] = 0 THEN "idle" ELSE "closeConn"}
          /\ pc[c] = "allLeave" /\ pc'[c] = "idle" =>
                \A i \in IDs : c \notin clientSubscriptions'[i]
    /\ pc[c] = "closeConn" => \/ pc'[c] \in {"closed", "gone"} /\ closeTry'[c] = 0
                              \/ pc'[c] \in {"allLock", "closeConn"} /\ closeTry'[c] > 0
    /\ pc[c] \in Adding \cup Removing \cup LeavingAll \cup {"closeConn"}
    /\ \A i \in IDs : c \in clientSubscriptions'[i] =>
          \/ pc[c] = "join" /\ idToParam'[i] = param[c]
          \/ c \in clientSubscriptions[i] /\ idToParam'[i] = idToParam[i]
    /\ told'[c] = IF pc[c] = "join" THEN told[c] \cup {param[c]} ELSE told[c]

\* Every step of a handler is one of these.
LEMMA OwnStep ==
    ASSUME IndInv, NEW c \in Clients, ClientStep(c)
    PROVE  Moved(c)
<1> DEFINE Goal == Moved(c)
<1> SUFFICES Goal
  OBVIOUS
<1> USE AbsentAssumption DEF IndInv, smVars, poolVars, clientVars, Goto, Lock, Unlock,
         TypeOK, LocalTypes, OwnerKnows, IndexConsistent, Registered, Leaving,
         Adding, Removing, LeavingAll, Moved
<1>3. CASE AddLock(c)
  BY <1>3 DEF AddLock
<1>4. CASE AddUpstream(c)
  BY <1>4 DEF AddUpstream, PoolSubscribed
<1>5. CASE AddUpstreamFailed(c)
  BY <1>5 DEF AddUpstreamFailed, Return
<1>6. CASE AddRegister(c)
  BY <1>6 DEF AddRegister, AddSubscription
<1>7. CASE AddJoin(c)
  BY <1>7 DEF AddJoin, SubscribeClient, Return
<1>10. CASE RmCheck(c)
  BY <1>10 DEF RmCheck, ClientSubscribed
<1>11. CASE RmNotSubscribed(c)
  BY <1>11 DEF RmNotSubscribed, Return, ClientSubscribed
<1>12. CASE RmLeave(c)
  BY <1>12 DEF RmLeave, UnsubscribeClient
<1>13. CASE RmStillUsed(c)
  BY <1>13 DEF RmStillUsed, Return
<1>14. CASE RmLock(c)
  BY <1>14 DEF RmLock
<1>15. CASE RmUpstream(c)
  BY <1>15 DEF RmUpstream, PoolUnsubscribed
<1>16. CASE RmUpstreamFailed(c)
  BY <1>16 DEF RmUpstreamFailed, PoolUnsubscribeFailed, Return
<1>17. CASE RmForget(c)
  BY <1>17 DEF RmForget, RemoveSubscription, Return
<1>19. CASE AllLock(c)
  BY <1>19 DEF AllLock
<1>20. CASE AllLeave(c)
  BY <1>20 DEF AllLeave, UnsubscribeClient
<1>21. CASE AllEmpty(c)
  BY <1>21 DEF AllEmpty, SubscriptionEmpty
<1>22. CASE AllUpstream(c)
  BY <1>22 DEF AllUpstream, PoolUnsubscribed
<1>23. CASE AllForget(c)
  BY <1>23 DEF AllForget, RemoveSubscription
<1>24. CASE AllDone(c)
  BY <1>24 DEF AllDone, AllReturn
<1>25. CASE AllUpstreamFailed(c)
  BY <1>25 DEF AllUpstreamFailed, PoolUnsubscribeFailed, AllReturn
<1>27. CASE ConnClose(c)
  BY <1>27 DEF ConnClose, Ended
<1>28. CASE ConnCloseFailed(c)
  <2>1. /\ pc[c] = "closeConn" /\ pc'[c] \in {"allLock", "closeConn"}
        /\ UNCHANGED <<smVars, told>>
    BY <1>28 DEF ConnCloseFailed, Close
  <2>2. closeTry'[c] = closeTry[c] + 1
    BY <1>28 DEF ConnCloseFailed, Close
  <2>3. closeTry[c] \in Nat
    OBVIOUS
  <2>4. closeTry'[c] > 0
    BY ONLY <2>2, <2>3
  <2> QED
    BY <2>1, <2>4
<1>29. CASE ConnAbandoned(c)
  BY <1>29 DEF ConnAbandoned, Ended
<1> HIDE DEF Goal, IndInv, TypeOK, LocalTypes, OwnerKnows, IndexConsistent, Registered,
         Leaving, Adding, Removing, LeavingAll, Moved
<1> QED
  BY <1>3, <1>4, <1>5, <1>6, <1>7, <1>10, <1>11, <1>12, <1>13, <1>14, <1>15, <1>16,
     <1>17, <1>19, <1>20, <1>21, <1>22, <1>23, <1>24, <1>25, <1>27, <1>28, <1>29
     DEF ClientStep

-----------------------------------------------------------------------------
(* Refinement: every step of the broker is a step of SubscriptionService or *)
(* changes nothing there.                                                  *)

Open == {p \in Params : subscriptionID[p] # NoID}

Holders == [p \in Params |->
               IF paramToID[p] = NoID THEN {} ELSE clientSubscriptions[paramToID[p]]]

ServiceStep == Service!Next \/ UNCHANGED <<Open, Holders>>

\* The initial states are those of SubscriptionService.
LEMMA ServiceInit == Init => Service!Init
  BY AbsentAssumption DEF Init, Service!Init

\* A client that leaves an id leaves the query of the id, if it has one.
LEMMA LeaveStep ==
    ASSUME IndInv, NEW c \in Clients, NEW i \in IDs,
           UnsubscribeClient(i, c), UNCHANGED poolVars
    PROVE  ServiceStep
<1>1. CASE idToParam[i] = NoParam
  <2>1. clientSubscriptions[i] = {}
    BY <1>1 DEF IndInv, IndexConsistent, Registered
  <2>2. clientSubscriptions' = clientSubscriptions
    BY <2>1 DEF IndInv, TypeOK, UnsubscribeClient
  <2> QED
    BY <2>2 DEF ServiceStep, Open, Holders, UnsubscribeClient, poolVars
<1>2. CASE idToParam[i] # NoParam
  <2> DEFINE p == idToParam[i]
  <2>1. p \in Params /\ paramToID[p] = i
    BY <1>2 DEF IndInv, TypeOK, IndexConsistent
  <2>2. \A q \in Params \ {p} : paramToID[q] # i
    BY <2>1 DEF IndInv, TypeOK, IndexConsistent
  <2>3. Holders' = [Holders EXCEPT ![p] = @ \ {c}]
    BY <2>1, <2>2, AbsentAssumption DEF IndInv, TypeOK, Holders, UnsubscribeClient
  <2>4. Open' = Open
    BY DEF Open, poolVars
  <2>5. Service!Leave(c, p)
    BY <2>3, <2>4 DEF Service!Leave, Open, Holders
  <2> QED
    BY <2>1, <2>5 DEF ServiceStep, Service!Next, Service!Leave
<1> QED
  BY <1>1, <1>2

\* The pool drops an id that has no clients: its query is shut down.
LEMMA ShutDownStep ==
    ASSUME IndInv, NEW i \in IDs, clientSubscriptions[i] = {},
           idToParam[i] = subscriptionParam[i], PoolUnsubscribed(i), UNCHANGED smVars
    PROVE  ServiceStep
<1> DEFINE p == subscriptionParam[i]
<1>1. p \in Params
  BY DEF IndInv, TypeOK, PoolConnAgree, PoolUnsubscribed
<1>2. Holders[p] = {}
  BY <1>1, AbsentAssumption DEF IndInv, IndexConsistent, Holders
<1>3. Open' = Open \ {p}
  BY <1>1 DEF IndInv, TypeOK, PoolUnsubscribed, Open
<1>4. Holders' = Holders
  BY DEF Holders, smVars
<1>5. Service!ShutDown(p)
  BY <1>2, <1>3, <1>4 DEF Service!ShutDown, Open, Holders
<1> QED
  BY <1>1, <1>5 DEF ServiceStep, Service!Next, Service!ShutDown

\* An id without clients is forgotten by, or a fresh one added to, the index.
LEMMA IndexStep ==
    ASSUME IndInv, NEW i \in IDs, clientSubscriptions[i] = {}, UNCHANGED poolVars,
           \/ RemoveSubscription(i)
           \/ \E p \in Params : paramToID[p] = NoID /\ AddSubscription(p, i)
    PROVE  ServiceStep
<1>1. Open' = Open
  BY DEF Open, poolVars
<1>2. ASSUME NEW q \in Params PROVE Holders'[q] = Holders[q]
  <2>1. CASE RemoveSubscription(i)
    <3>1. CASE idToParam[i] = q
      BY <2>1, <3>1, AbsentAssumption DEF IndInv, IndexConsistent, Holders, RemoveSubscription
    <3>2. CASE idToParam[i] # q
      <4>1. paramToID'[q] = paramToID[q] /\ paramToID[q] # i
        BY <2>1, <3>2 DEF IndInv, IndexConsistent, RemoveSubscription
      <4>2. \A j \in IDs \ {i} : clientSubscriptions'[j] = clientSubscriptions[j]
        BY <2>1 DEF IndInv, TypeOK, RemoveSubscription
      <4> QED
        BY <4>1, <4>2 DEF IndInv, TypeOK, Holders
    <3> QED
      BY <3>1, <3>2
  <2>2. ASSUME NEW p \in Params, paramToID[p] = NoID, AddSubscription(p, i)
        PROVE  Holders'[q] = Holders[q]
    <3>1. clientSubscriptions' = clientSubscriptions
      BY <2>2 DEF IndInv, TypeOK, AddSubscription
    <3> QED
      BY <2>2, <3>1, AbsentAssumption DEF IndInv, TypeOK, Holders, AddSubscription
  <2> QED
    BY <2>1, <2>2
<1>3. Holders' = Holders
  BY <1>2 DEF Holders
<1> QED
  BY <1>1, <1>3 DEF ServiceStep

\* The broker's promise: it implements SubscriptionService.
THEOREM ServiceImplemented == Spec => ImplementsService
<1>1. ASSUME IndInv, [Next]_vars PROVE ServiceStep
  <2> USE <1>1
  <2>1. ASSUME NEW c \in Clients, AddUpstream(c) PROVE ServiceStep
    <3>1. PICK x \in SubscribeAnswers(param[c]) : x.ok /\ PoolSubscribed(param[c], x.id, x.conn)
      BY <2>1 DEF AddUpstream
    <3>2. FreshAnswer(param[c], x) /\ param[c] \in Params
      BY <2>1, <3>1, AnswerIsFresh DEF AddUpstream, IndInv, LocalTypes
    <3>3. Open' = Open \cup {param[c]} /\ param[c] \notin Open
      BY <3>1, <3>2, AbsentAssumption
      DEF IndInv, TypeOK, FreshAnswer, FreshIDs, PoolSubscribed, Open
    <3>4. Holders' = Holders
      BY <2>1 DEF AddUpstream, Holders, smVars
    <3>5. Service!Open(param[c])
      BY <3>3, <3>4 DEF Service!Open, Open, Holders
    <3> QED
      BY <3>2, <3>5 DEF ServiceStep, Service!Next, Service!Open
  <2>2. ASSUME NEW c \in Clients, AddRegister(c) PROVE ServiceStep
    <3>1. /\ subID[c] \in IDs /\ param[c] \in Params /\ paramToID[param[c]] = NoID
          /\ clientSubscriptions[subID[c]] = {}
      BY <2>2 DEF IndInv, LocalTypes, OwnerKnows, IndexConsistent, AddRegister, Registered
    <3> QED
      BY <2>2, <3>1, IndexStep DEF AddRegister
  <2>3. ASSUME NEW c \in Clients, AddJoin(c) PROVE ServiceStep
    <3> DEFINE p == param[c]
    <3>1. p \in Params /\ subID[c] \in IDs /\ paramToID[p] = subID[c]
      BY <2>3 DEF IndInv, LocalTypes, OwnerKnows, IndexConsistent, AddJoin
    <3>2. p \in Open
      <4>1. idToParam[subID[c]] = subscriptionParam[subID[c]]
        BY <2>3, <3>1 DEF IndInv, MutexOwner, Critical, BrokerPoolAgree, OwnerAt, AddJoin
      <4> QED
        BY <3>1, <4>1, AbsentAssumption DEF IndInv, IndexConsistent, BrokerPoolAgree, Open
    <3>3. \A q \in Params \ {p} : paramToID[q] # subID[c]
      BY <3>1 DEF IndInv, TypeOK, IndexConsistent
    <3>4. Holders' = [Holders EXCEPT ![p] = @ \cup {c}]
      BY <2>3, <3>1, <3>3, AbsentAssumption
         DEF IndInv, TypeOK, Holders, AddJoin, SubscribeClient
    <3>5. Open' = Open
      BY <2>3 DEF AddJoin, Open, poolVars
    <3>6. Service!Join(c, p)
      BY <3>2, <3>4, <3>5 DEF Service!Join, Open, Holders
    <3> QED
      BY <3>1, <3>6 DEF ServiceStep, Service!Next, Service!Join
  <2>4. ASSUME NEW c \in Clients, RmLeave(c) PROVE ServiceStep
    BY <2>4, LeaveStep DEF RmLeave, IndInv, LocalTypes
  <2>5. ASSUME NEW c \in Clients, AllLeave(c) PROVE ServiceStep
    <3>1. PICK i \in todo[c] : UnsubscribeClient(i, c)
      BY <2>5 DEF AllLeave
    <3> QED
      BY <2>5, <3>1, LeaveStep DEF AllLeave, IndInv, TypeOK
  <2>6. ASSUME NEW c \in Clients, RmUpstream(c) \/ AllUpstream(c) PROVE ServiceStep
    <3>1. subID[c] \in IDs /\ clientSubscriptions[subID[c]] = {}
      BY <2>6 DEF IndInv, LocalTypes, OwnerKnows, RmUpstream, AllUpstream
    <3>2. idToParam[subID[c]] = subscriptionParam[subID[c]]
      BY <2>6, <3>1
      DEF IndInv, MutexOwner, Critical, BrokerPoolAgree, OwnerAt, RmUpstream, AllUpstream
    <3> QED
      BY <2>6, <3>1, <3>2, ShutDownStep DEF RmUpstream, AllUpstream
  <2>7. ASSUME NEW c \in Clients, RmForget(c) \/ AllForget(c) PROVE ServiceStep
    <3>1. subID[c] \in IDs /\ clientSubscriptions[subID[c]] = {}
      BY <2>7 DEF IndInv, LocalTypes, OwnerKnows, RmForget, AllForget
    <3> QED
      BY <2>7, <3>1, IndexStep DEF RmForget, AllForget
  <2>8. ASSUME UNCHANGED smVars, UNCHANGED subscriptionID PROVE ServiceStep
    BY <2>8 DEF ServiceStep, Open, Holders, smVars
  <2>9. ASSUME NEW c \in Clients, ClientStep(c) \/ ClientRequest(c) PROVE ServiceStep
    <3>1. \/ AddUpstream(c) \/ AddRegister(c) \/ AddJoin(c) \/ RmLeave(c) \/ AllLeave(c)
          \/ RmUpstream(c) \/ AllUpstream(c) \/ RmForget(c) \/ AllForget(c)
          \/ UNCHANGED smVars /\ UNCHANGED subscriptionID
      BY <2>9
      DEF ClientStep, ClientRequest, BadParams, Subscribe, AddLock, AddUpstreamFailed,
          Unsubscribe, UnsubscribeByID, RmCheck, RmNotSubscribed, RmStillUsed, RmLock,
          RmUpstreamFailed, UnsubscribeAll, AllLock, AllEmpty, AllDone, AllUpstreamFailed,
          AllReturn, PoolUnsubscribeFailed, Disconnect, Close, ConnClose, ConnCloseFailed,
          ConnAbandoned, Ended, Begin, Return, poolVars
    <3> QED
      BY <2>1, <2>2, <2>3, <2>4, <2>5, <2>6, <2>7, <2>8, <3>1
  <2>10. CASE UNCHANGED smVars /\ UNCHANGED subscriptionID
    BY <2>8, <2>10
  <2> QED
    BY <2>9, <2>10 DEF Next, Broadcast, Send, ResetAll, Terminated, vars, poolVars
<1>2. IndInv /\ [Next]_vars => [Service!Next]_<<Open, Holders>>
  BY <1>1 DEF ServiceStep
<1> QED
  BY <1>2, Invariance, ServiceInit, PTL DEF Spec, ImplementsService, Service!Spec, Open, Holders
=============================================================================
