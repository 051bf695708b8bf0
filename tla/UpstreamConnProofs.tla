------------------------- MODULE UpstreamConnProofs -------------------------
(***************************************************************************)
(* Proofs about UpstreamConn: a response reaches the goroutine that asked, *)
(* a channel that stays behind in respMap is never sent on, the manager    *)
(* agrees with the pool, and an Eth manager never sends on a closed        *)
(* channel.                                                                *)
(***************************************************************************)
EXTENDS UpstreamConn, TLAPS

-----------------------------------------------------------------------------
(* The inductive invariant *)

\* the locals of makeRequestWithID, and who calls it for what
LocalTypes ==
    \A q \in Procs :
        /\ IF step[q] = "idle" THEN rid[q] = NoID /\ op[q] = "none"
                               ELSE rid[q] \in IDs /\ op[q] # "none"
        /\ op[q] = "request" => q \in Callers
        /\ op[q] = "subscribe" => q \in {Sub, Run} /\ arg[q] \in Params
        /\ op[q] = "unsubscribe" => q = Sub /\ arg[q] \in Params

\* what is asked for is a query
Asked == \A r \in pending : r.op = "subscribe" => r.arg \in Params

\* Run waits for a response only when it re-submits, which only Cosmos does, and as
\* it is the one who reads responses it gets none
RunPlace ==
    /\ (step[Run] # "idle") <=> (run = "submitting")
    /\ step[Run] # "got"
    /\ run = "deliver" => wc # None
    /\ run = "reset" => Eth
    /\ run = "submitting" => ~Eth

\* Cosmos subscriptions have ids of requests
CosmosIDs ==
    ~Eth => /\ \A p \in Params : subByParam[p] \in IDs \cup {NoID}
            /\ \A n \in nodeSubs : n.sub \in IDs
            /\ \A n \in 1..Len(inbox) : inbox[n].id \in IDs

\* Two requests never have the same id, and nobody but Run uses that of a subscription.
Unique ==
    /\ \A q, x \in Procs : rid[q] = rid[x] => q = x \/ rid[q] = NoID
    /\ ~Eth => \A q \in Procs, p \in Params : rid[q] = subByParam[p] => q = Run \/ rid[q] = NoID

\* The entry of a request is the channel that its goroutine has made, or has been
\* reset; a channel has no entry but that of its request.
Channels ==
    /\ \A i \in IDs : respMap[i] \in Procs => rid[respMap[i]] = i
    /\ \A q \in Procs : /\ step[q] \in {"idle", "put"} => \A i \in IDs : respMap[i] # q
                        /\ step[q] \notin {"idle", "put"} => respMap[rid[q]] \in {q, None}
                        /\ ch[q] \in {q, None}
                        /\ q \in chanClosed => step[q] = "got"

\* the node, or a message from it, refers to i
Known(i) ==
    \/ \E r \in pending : r.id = i
    \/ \E n \in 1..Len(inbox) : inbox[n].id = i
    \/ \E n \in nodeSubs : n.sub = i

\* the node does not know the id of a request before it is sent
Unsent ==
    \A q \in Procs \ {Run} : step[q] \in {"put", "send"} => ~Known(rid[q])

\* Cosmos: two queries have different ids
HeldApart ==
    ~Eth => \A p, x \in Params : held[p] = held[x] => p = x \/ held[p] = NoID

Response(n, i) == inbox[n].kind = "response" /\ inbox[n].id = i

\* i has no response, nor will it get another
Settled(i) ==
    /\ \A r \in pending : r.id # i
    /\ \A n \in 1..Len(inbox) : ~Response(n, i)

\* Eth: a request has one response, and when Run or its goroutine has it, it has no
\* more
OneResponse ==
    Eth =>
      /\ \A r, x \in pending : r.id = x.id => r = x
      /\ \A r \in pending, n \in 1..Len(inbox) : ~Response(n, r.id)
      /\ \A i \in IDs : \A n, m \in 1..Len(inbox) : Response(n, i) /\ Response(m, i) => n = m
      /\ \A q \in Procs :
            /\ run = "deliver" /\ wc = q =>
                  step[q] \notin {"idle", "put", "send"} /\ Settled(rid[q])
            /\ step[q] = "got" => Settled(rid[q])

IndInv ==
    /\ TypeOK /\ LocalTypes /\ Asked /\ RunPlace /\ CosmosIDs
    /\ Unique /\ Channels
    /\ Unsent /\ LeftoversAreDead
    /\ HeldApart /\ ConnMatchesPool
    /\ OneResponse /\ NoClosedSend

-----------------------------------------------------------------------------
(* What the steps do *)

\* A message is read from the inbox, or put at its end.
LEMMA Inbox ==
    ASSUME NEW S, NEW s \in Seq(S)
    PROVE  /\ \A e \in S : /\ Append(s, e) \in Seq(S) /\ Len(Append(s, e)) = Len(s) + 1
                           /\ \A n \in 1..Len(s) : Append(s, e)[n] = s[n]
                           /\ Append(s, e)[Len(s) + 1] = e
           /\ s # <<>> => /\ Head(s) = s[1] /\ Len(s) \in Nat \ {0} /\ Head(s) \in S
                          /\ Tail(s) \in Seq(S) /\ Len(Tail(s)) = Len(s) - 1
                          /\ \A n \in 1..Len(Tail(s)) :
                                n + 1 \in 1..Len(s) /\ Tail(s)[n] = s[n + 1]
<1>1. ASSUME NEW e \in S
      PROVE  /\ Append(s, e) \in Seq(S) /\ Len(Append(s, e)) = Len(s) + 1
             /\ \A n \in 1..Len(s) : Append(s, e)[n] = s[n]
             /\ Append(s, e)[Len(s) + 1] = e
  OBVIOUS
<1>2. ASSUME s # <<>>
      PROVE  /\ Head(s) = s[1] /\ Len(s) \in Nat \ {0} /\ Head(s) \in S
             /\ Tail(s) \in Seq(S) /\ Len(Tail(s)) = Len(s) - 1
             /\ \A n \in 1..Len(Tail(s)) : n + 1 \in 1..Len(s) /\ Tail(s)[n] = s[n + 1]
  BY <1>2
<1> QED
  BY <1>1, <1>2

\* a goroutine of makeRequestWithID starts with the id i
Begins(q, i) ==
    /\ q \in Procs /\ i \in IDs
    /\ step[q] = "idle"
    /\ step' = [step EXCEPT ![q] = "put"]
    /\ rid' = [rid EXCEPT ![q] = i]
    /\ \A x \in Procs : rid[x] # i
    /\ \/ /\ q # Run /\ run' = run /\ ~Known(i)
          /\ \A p \in Params : subByParam[p] # i
       \/ q = Run /\ ~Eth /\ run' = "submitting" /\ \E p \in Params : subByParam[p] = i
    /\ UNCHANGED <<wc, respMap, chanClosed, subByParam, ch, held, link, pending,
                   nodeSubs, inbox, crashed>>

\* The steps with which a call begins.
LEMMA Beginning ==
    ASSUME IndInv,
           \/ \E q \in Callers, i \in IDs : MakeRequest(q, i)
           \/ \E p \in Params, i \in IDs : Subscribe(p, i) \/ Unsubscribe(p, i)
           \/ ~Eth /\ \E p \in Params : Resubmit(p)
    PROVE  TypeOK' /\ LocalTypes' /\ \E q \in Procs, i \in IDs : Begins(q, i)
<1>1. ASSUME NEW q \in Callers \cup {Sub}, NEW i \in IDs, NEW a \in Params \cup {None},
             NEW o \in {"request", "subscribe", "unsubscribe"},
             o = "request" => q \in Callers, o # "request" => q = Sub /\ a \in Params,
             Alive, NewID(i), generated' = generated \cup {i}, Begin(q, o, a, i),
             UNCHANGED <<run, todo>>
      PROVE  TypeOK' /\ LocalTypes' /\ Begins(q, i)
  <2> USE <1>1, ProcAssumption
  <2>1. q \in Procs /\ q # Run
    BY DEF Procs
  <2>2. TypeOK'
    BY <2>1 DEF IndInv, TypeOK, Begin, Goto, Alive, nodeVars, respVars
  <2>3. LocalTypes'
    BY <2>1 DEF IndInv, TypeOK, LocalTypes, Begin, Goto
  <2>4. Begins(q, i)
    BY <2>1 DEF Begins, Begin, Goto, Alive, NewID, Known, nodeVars, respVars
  <2> QED
    BY <2>2, <2>3, <2>4
<1>2. ASSUME NEW q \in Callers, NEW i \in IDs, MakeRequest(q, i)
      PROVE  TypeOK' /\ LocalTypes' /\ Begins(q, i)
  BY <1>1, <1>2 DEF MakeRequest
<1>3. ASSUME NEW p \in Params, NEW i \in IDs, Subscribe(p, i)
      PROVE  TypeOK' /\ LocalTypes' /\ Begins(Sub, i)
  BY <1>1, <1>3 DEF Subscribe
<1>4. ASSUME NEW p \in Params, NEW i \in IDs, Unsubscribe(p, i)
      PROVE  TypeOK' /\ LocalTypes' /\ Begins(Sub, i)
  BY <1>1, <1>4 DEF Unsubscribe
<1>5. ASSUME ~Eth, NEW p \in Params, Resubmit(p)
      PROVE  TypeOK' /\ LocalTypes' /\ Begins(Run, subByParam[p])
  <2> DEFINE i == subByParam[p]
  <2>1. /\ Alive /\ run = "resubmit" /\ run' = "submitting" /\ i # NoID
        /\ Begin(Run, "subscribe", p, i) /\ UNCHANGED <<todo, generated>>
    BY <1>5 DEF Resubmit
  <2>2. Run \in Procs /\ i \in IDs
    BY <1>5, <2>1 DEF IndInv, CosmosIDs, Procs
  <2> HIDE DEF i
  <2>3. TypeOK'
    BY <2>1, <2>2 DEF IndInv, TypeOK, Begin, Goto, Alive, nodeVars, respVars
  <2>4. LocalTypes'
    BY <2>1, <2>2 DEF IndInv, TypeOK, LocalTypes, Begin, Goto
  <2>5. \A x \in Procs : rid[x] # i
    <3>1. rid[Run] = NoID
      BY <2>1, <2>2 DEF IndInv, LocalTypes, Begin
    <3> QED
      BY <1>5, <2>1, <2>2, <3>1, ProcAssumption DEF IndInv, Unique, i
  <2>6. Begins(Run, i)
    BY <1>5, <2>1, <2>2, <2>5 DEF Begins, Begin, Goto, Alive, nodeVars, respVars, i
  <2> QED
    BY <2>3, <2>4, <2>6 DEF i
<1>6. Sub \in Procs /\ Run \in Procs /\ Callers \subseteq Procs
  BY DEF Procs
<1> QED
  <2>1. \A p \in Params : ~Eth /\ Resubmit(p) => subByParam[p] \in IDs
    BY DEF Resubmit, IndInv, CosmosIDs
  <2> QED
    BY <1>2, <1>3, <1>4, <1>5, <1>6, <2>1

\* a goroutine returns from makeRequestWithID
Ends(q) ==
    /\ q \in Procs
    /\ step[q] # "idle"
    /\ step' = [step EXCEPT ![q] = "idle"]
    /\ rid' = [rid EXCEPT ![q] = NoID]
    /\ ch' = [ch EXCEPT ![q] = None]
    /\ wc' = IF wc = q THEN Orphan ELSE wc
    /\ chanClosed' = chanClosed \ {q}
    /\ respMap' = IF step[q] = "put" THEN respMap
                  ELSE [respMap EXCEPT ![rid[q]] =
                           IF step[q] = "send" /\ @ = q THEN Orphan
                           ELSE IF step[q] = "send" THEN @ ELSE None]
    /\ IF q = Run THEN run' = "connect" /\ pending' = {} /\ nodeSubs' = {} /\ inbox' = <<>>
       ELSE UNCHANGED <<run, client, link, pending, nodeSubs, inbox>>
    /\ crashed' = crashed

\* Leave, for a goroutine that refers to no channel but its own.
LEMMA Leaving ==
    ASSUME IndInv, NEW q \in Procs, step[q] # "idle",
           NEW map \in [IDs -> Procs \cup {None, Orphan}],
           Leave(q, map),
           \A i \in IDs : map[i] = q => i = rid[q] /\ map[i] = respMap[i]
    PROVE  /\ step' = [step EXCEPT ![q] = "idle"]
           /\ op' = [op EXCEPT ![q] = "none"]
           /\ rid' = [rid EXCEPT ![q] = NoID]
           /\ arg' = [arg EXCEPT ![q] = None]
           /\ got' = [got EXCEPT ![q] = NoID]
           /\ ch' = [ch EXCEPT ![q] = None]
           /\ wc' = IF wc = q THEN Orphan ELSE wc
           /\ chanClosed' = chanClosed \ {q}
           /\ respMap' = [map EXCEPT ![rid[q]] = IF @ = q THEN Orphan ELSE @]
<1> USE ProcAssumption
<1>1. ch' = [ch EXCEPT ![q] = None]
  BY DEF Leave, IndInv, TypeOK, Channels
<1>2. respMap' = [map EXCEPT ![rid[q]] = IF @ = q THEN Orphan ELSE @]
  BY DEF Leave, IndInv, LocalTypes
<1> QED
  BY <1>1, <1>2 DEF Leave

\* The entries of the goroutine that leaves.
LEMMA Entries ==
    ASSUME IndInv, NEW q \in Procs, step[q] # "idle"
    PROVE  /\ \A i \in IDs : respMap[i] = q => i = rid[q]
           /\ respMap \in [IDs -> Procs \cup {None, Orphan}]
           /\ DeleteEntry(q) \in [IDs -> Procs \cup {None, Orphan}]
           /\ \A i \in IDs : DeleteEntry(q)[i] # q
           /\ rid[q] \in IDs
           /\ q # None /\ q # Orphan
BY ProcAssumption DEF IndInv, TypeOK, LocalTypes, Channels, DeleteEntry

Locals(q) ==
    /\ op' = [op EXCEPT ![q] = "none"]
    /\ arg' = [arg EXCEPT ![q] = None]
    /\ got' = [got EXCEPT ![q] = NoID]

\* what the manager and the pool have of a query when Sub has its response
Subscribed(p, i) ==
    /\ subByParam' = [subByParam EXCEPT ![p] = i]
    /\ held' = [held EXCEPT ![p] = i]

Forgotten(p) ==
    /\ subByParam' = [x \in Params |-> IF subByParam[x] = held[p] THEN NoID ELSE subByParam[x]]
    /\ held' = [held EXCEPT ![p] = NoID]

Outcome(q) ==
    \/ UNCHANGED <<subByParam, held>>
    \/ q = Sub /\ arg[q] \in Params /\ ~Eth /\ Subscribed(arg[q], rid[q])
    \/ q = Sub /\ arg[q] \in Params /\ Eth /\ Subscribed(arg[q], got[q])
    \/ q = Sub /\ arg[q] \in Params /\ Forgotten(arg[q])

\* The ends of a call with an error.
LEMMA Failing ==
    ASSUME IndInv, NEW q \in Procs, step[q] # "idle",
           NEW map \in [IDs -> Procs \cup {None, Orphan}],
           Fail(q, map),
           \/ step[q] \in {"put", "send"} /\ map = respMap
           \/ step[q] \notin {"put", "send"} /\ map = DeleteEntry(q)
    PROVE  Ends(q) /\ Locals(q) /\ Outcome(q) /\ generated' = generated \ {rid[q]}
           /\ UNCHANGED todo
           /\ client' \in {"nil", "open", "closed"} /\ link' \in {"up", "down", "odd"}
<1> USE Entries
<1>1. \A i \in IDs : map[i] = q => i = rid[q] /\ map[i] = respMap[i]
  OBVIOUS
<1>2. Leave(q, map) /\ Alive
  BY DEF Fail
<1>3. /\ step' = [step EXCEPT ![q] = "idle"]
      /\ rid' = [rid EXCEPT ![q] = NoID]
      /\ ch' = [ch EXCEPT ![q] = None]
      /\ wc' = IF wc = q THEN Orphan ELSE wc
      /\ chanClosed' = chanClosed \ {q}
      /\ respMap' = [map EXCEPT ![rid[q]] = IF @ = q THEN Orphan ELSE @]
      /\ Locals(q)
  BY <1>1, <1>2, Leaving DEF Locals
<1>4. /\ UNCHANGED <<todo, subByParam, held, crashed>> /\ generated' = generated \ {rid[q]}
      /\ IF q = Run THEN run' = "connect" /\ client' = "closed" /\ link' = "down"
                         /\ pending' = {} /\ nodeSubs' = {} /\ inbox' = <<>>
         ELSE UNCHANGED <<run, client, link, pending, nodeSubs, inbox>>
  BY DEF Fail, Alive, Hangup, nodeVars
<1>5. respMap' = IF step[q] = "put" THEN respMap
                 ELSE [respMap EXCEPT ![rid[q]] =
                          IF step[q] = "send" /\ @ = q THEN Orphan
                          ELSE IF step[q] = "send" THEN @ ELSE None]
  <2>1. CASE step[q] = "put"
    BY <1>3, <2>1 DEF IndInv, Channels
  <2>2. CASE step[q] = "send"
    BY <1>3, <2>2
  <2>3. CASE step[q] \notin {"put", "send"}
    BY <1>3, <2>3 DEF DeleteEntry
  <2> QED
    BY <2>1, <2>2, <2>3
<1>6. Ends(q)
  BY <1>3, <1>4, <1>5 DEF Ends
<1> QED
  BY <1>3, <1>4, <1>6 DEF Outcome, IndInv, TypeOK

\* The ends of a call with a response.
LEMMA Answering ==
    ASSUME IndInv, NEW q \in Procs, step[q] = "got", Leave(q, DeleteEntry(q)), Alive,
           q # Run => UNCHANGED <<run, client, nodeVars>>
    PROVE  Ends(q) /\ Locals(q)
<1> USE Entries
<1>1. /\ step' = [step EXCEPT ![q] = "idle"]
      /\ rid' = [rid EXCEPT ![q] = NoID]
      /\ ch' = [ch EXCEPT ![q] = None]
      /\ wc' = IF wc = q THEN Orphan ELSE wc
      /\ chanClosed' = chanClosed \ {q}
      /\ respMap' = [DeleteEntry(q) EXCEPT ![rid[q]] = IF @ = q THEN Orphan ELSE @]
      /\ Locals(q)
  BY Leaving DEF Locals
<1>2. q # Run
  BY DEF IndInv, RunPlace
<1>3. respMap' = [respMap EXCEPT ![rid[q]] = None]
  BY <1>1 DEF DeleteEntry
<1> QED
  BY <1>1, <1>2, <1>3 DEF Ends, Alive, nodeVars

\* the steps with which a call ends
Ending(q) ==
    \/ EthClosed(q) \/ SendFailed(q) \/ TimedOut(q) \/ Answered(q) \/ SubscribedCosmos(q)
    \/ q = Sub /\ SubStep

\* Every end of a call is Ends, with one of the outcomes.
LEMMA CallEnds ==
    ASSUME IndInv, NEW q \in Procs, Ending(q)
    PROVE  TypeOK' /\ LocalTypes' /\ Ends(q) /\ Outcome(q)
<1> DEFINE Typed == /\ generated' \subseteq IDs /\ todo' \subseteq Params
                    /\ client' \in {"nil", "open", "closed"} /\ link' \in {"up", "down", "odd"}
<1>1. Ends(q) /\ Locals(q) /\ Outcome(q) /\ Typed
  <2> USE Entries
  <2>1. CASE EthClosed(q) \/ SendFailed(q) \/ TimedOut(q) \/ (q = Sub /\ RefusedEth)
    <3>1. \E map \in [IDs -> Procs \cup {None, Orphan}] :
             /\ Fail(q, map)
             /\ \/ step[q] \in {"put", "send"} /\ map = respMap
                \/ step[q] \notin {"idle", "put", "send"} /\ map = DeleteEntry(q)
      BY <2>1 DEF EthClosed, SendFailed, TimedOut, RefusedEth
    <3>2. PICK map \in [IDs -> Procs \cup {None, Orphan}] :
             /\ Fail(q, map)
             /\ \/ step[q] \in {"put", "send"} /\ map = respMap
                \/ step[q] \notin {"idle", "put", "send"} /\ map = DeleteEntry(q)
      BY <3>1
    <3>3. step[q] # "idle"
      BY <3>2
    <3> QED
      BY <3>2, <3>3, Failing DEF IndInv, TypeOK
  <2>2. CASE Answered(q)
    <3>1. Ends(q) /\ Locals(q)
      BY <2>2, Answering DEF Answered
    <3> QED
      BY <2>2, <3>1 DEF Answered, Outcome, IndInv, TypeOK, nodeVars
  <2>3. CASE SubscribedCosmos(q)
    <3>1. q = Sub /\ arg[q] \in Params
      BY <2>3 DEF SubscribedCosmos, IndInv, LocalTypes, RunPlace
    <3>2. q # Run
      BY <3>1, ProcAssumption
    <3>3. Ends(q) /\ Locals(q)
      BY <2>3, <3>2, Answering DEF SubscribedCosmos
    <3> QED
      BY <2>3, <3>1, <3>2, <3>3
         DEF SubscribedCosmos, Outcome, Subscribed, IndInv, TypeOK, nodeVars
  <2>4. CASE q = Sub /\ SubscribedEth
    <3>1. arg[q] \in Params
      BY <2>4 DEF SubscribedEth, IndInv, LocalTypes
    <3>3. Ends(q) /\ Locals(q)
      BY <2>4, Answering DEF SubscribedEth
    <3> QED
      BY <2>4, <3>1, <3>3 DEF SubscribedEth, Outcome, Subscribed, IndInv, TypeOK, nodeVars
  <2>5. CASE q = Sub /\ Unsubscribed
    <3>1. arg[q] \in Params
      BY <2>5 DEF Unsubscribed, IndInv, LocalTypes
    <3>3. Ends(q) /\ Locals(q)
      BY <2>5, Answering DEF Unsubscribed
    <3> QED
      BY <2>5, <3>1, <3>3 DEF Unsubscribed, Outcome, Forgotten, IndInv, TypeOK, nodeVars
  <2> QED
    BY <2>1, <2>2, <2>3, <2>4, <2>5 DEF Ending, SubStep
<1>2. TypeOK'
  <2>1. /\ respMap' \in [IDs -> Procs \cup {None, Orphan}]
        /\ step' \in [Procs -> {"idle", "put", "send", "sent", "select", "got", "expired"}]
        /\ rid' \in [Procs -> IDs \cup {NoID}]
        /\ ch' \in [Procs -> Procs \cup {None, Orphan}]
        /\ wc' \in Procs \cup {None, Orphan}
        /\ chanClosed' \subseteq Procs
    BY <1>1 DEF IndInv, TypeOK, Ends
  <2>2. /\ op' \in [Procs -> {"none", "request", "subscribe", "unsubscribe"}]
        /\ arg' \in [Procs -> Params \cup {None}]
        /\ got' \in [Procs -> AllIDs \cup {NoID}]
    BY <1>1 DEF IndInv, TypeOK, Locals
  <2>3. /\ subByParam' \in [Params -> AllIDs \cup {NoID}]
        /\ held' \in [Params -> AllIDs \cup {NoID}]
    <3>1. got[q] \in AllIDs \cup {NoID} /\ rid[q] \in AllIDs \cup {NoID}
      BY DEF IndInv, TypeOK, AllIDs
    <3> QED
      BY <1>1, <3>1 DEF IndInv, TypeOK, Outcome, Subscribed, Forgotten
  <2>4. inbox' \in Seq(Messages) /\ Len(inbox') <= MaxInbox
    <3>1. <<>> \in Seq(Messages) /\ Len(<<>>) = 0 /\ 0 <= MaxInbox
      BY ProcAssumption
    <3>2. inbox' = inbox \/ inbox' = <<>>
      BY <1>1 DEF Ends
    <3>3. inbox \in Seq(Messages) /\ Len(inbox) <= MaxInbox
      BY DEF IndInv, TypeOK
    <3> QED
      BY <3>1, <3>2, <3>3
  <2>5. /\ run' \in {"connect", "reset", "resubmit", "submitting", "read", "deliver"}
        /\ pending' \subseteq Requests
        /\ nodeSubs' \subseteq [sub : AllIDs, param : Params]
        /\ crashed' \in {"no", "closedChannel", "repeatedRead"}
    BY <1>1 DEF IndInv, TypeOK, Ends
  <2> QED
    BY <1>1, <2>1, <2>2, <2>3, <2>4, <2>5 DEF TypeOK
<1>3. LocalTypes'
  BY <1>1 DEF IndInv, TypeOK, LocalTypes, Ends, Locals
<1> QED
  BY <1>1, <1>2, <1>3

\* the other steps
Waiting(q) == Put(q) \/ SendOK(q) \/ Select(q) \/ Timeout(q)

Reading ==
    \/ Connect \/ ResetAll \/ ResubmitDone \/ Read \/ ReadClosed \/ ReadRepeated
    \/ Eth /\ \E p \in Params : Resubmit(p)

\* The message that Run reads, and the channel it looks up.
LEMMA Reads ==
    ASSUME IndInv, Read
    PROVE  /\ Head(inbox) = inbox[1] /\ 1 \in 1..Len(inbox) /\ Head(inbox) \in Messages
           /\ inbox' \in Seq(Messages) /\ Len(inbox') = Len(inbox) - 1
           /\ \A n \in 1..Len(inbox') : n + 1 \in 1..Len(inbox) /\ inbox'[n] = inbox[n + 1]
           /\ ~(Eth /\ Head(inbox).kind = "event") => Head(inbox).id \in IDs
<1>1. inbox \in Seq(Messages) /\ inbox # <<>> /\ inbox' = Tail(inbox)
  BY DEF IndInv, TypeOK, Read
<1>2. /\ Head(inbox) = inbox[1] /\ Len(inbox) \in Nat \ {0} /\ Head(inbox) \in Messages
      /\ inbox' \in Seq(Messages) /\ Len(inbox') = Len(inbox) - 1
      /\ \A n \in 1..Len(inbox') : n + 1 \in 1..Len(inbox) /\ inbox'[n] = inbox[n + 1]
  BY <1>1, Inbox
<1>3. 1 \in 1..Len(inbox)
  BY <1>2
<1>4. Head(inbox).kind # "event" => Head(inbox).id \in IDs
  BY <1>2 DEF Messages
<1> QED
  BY <1>2, <1>3, <1>4 DEF IndInv, CosmosIDs

\* A message of the node joins the inbox.
LEMMA Appends ==
    ASSUME IndInv, Len(inbox) < MaxInbox, NEW m \in Messages, inbox' = Append(inbox, m)
    PROVE  /\ inbox' \in Seq(Messages) /\ Len(inbox') = Len(inbox) + 1
           /\ Len(inbox') <= MaxInbox
           /\ \A n \in 1..Len(inbox) : inbox'[n] = inbox[n]
           /\ inbox'[Len(inbox')] = m
<1>1. inbox \in Seq(Messages)
  BY DEF IndInv, TypeOK
<1>2. /\ inbox' \in Seq(Messages) /\ Len(inbox') = Len(inbox) + 1
      /\ \A n \in 1..Len(inbox) : inbox'[n] = inbox[n]
      /\ inbox'[Len(inbox) + 1] = m
  BY <1>1, Inbox
<1>3. Len(inbox) \in Nat /\ MaxInbox \in Nat
  BY <1>1, ProcAssumption
<1> QED
  BY <1>2, <1>3

\* The node answers a request, or notifies: the message joins the inbox, and a
\* subscription has the id of the request or, with Eth, one of its own.
Speaks ==
    /\ UNCHANGED <<runVars, respVars, generated, subByParam, procVars, held, link, crashed>>
    /\ \E m \in Messages :
          /\ inbox' \in Seq(Messages) /\ Len(inbox') = Len(inbox) + 1 /\ Len(inbox') <= MaxInbox
          /\ \A n \in 1..Len(inbox) : inbox'[n] = inbox[n]
          /\ inbox'[Len(inbox')] = m
          /\ \/ /\ m.kind = "event" /\ \E n \in nodeSubs : n.sub = m.id
                /\ UNCHANGED <<pending, nodeSubs>>
             \/ /\ m.kind = "response"
                /\ \E r \in pending :
                      /\ pending' = pending \ {r}
                      /\ m.id = r.id
                      /\ \/ nodeSubs' \subseteq nodeSubs
                         \/ \E s \in AllIDs, p \in Params :
                               /\ nodeSubs' = nodeSubs \cup {[sub |-> s, param |-> p]}
                               /\ IF Eth THEN s \in SubIDs ELSE s = r.id

\* the response to r
Reply(r, b, s) == [kind |-> "response", id |-> r.id, ok |-> b, sub |-> s]

\* The two steps of the node that send a message.
LEMMA NodeSpeaks ==
    ASSUME IndInv,
           \/ \E r \in pending : NodeAnswers(r)
           \/ \E n \in nodeSubs : NodeNotifies(n)
    PROVE  Speaks
<1>1. ASSUME NEW n \in nodeSubs, NodeNotifies(n) PROVE Speaks
  <2> DEFINE m == [kind |-> "event", id |-> n.sub]
  <2>1. m \in Messages
    BY DEF IndInv, TypeOK, Messages
  <2>2. /\ Len(inbox) < MaxInbox /\ inbox' = Append(inbox, m)
        /\ UNCHANGED <<runVars, respVars, generated, subByParam, procVars, held, link,
                       pending, nodeSubs, crashed>>
    BY <1>1 DEF NodeNotifies, Alive
  <2>3. m.kind = "event" /\ m.id = n.sub
    OBVIOUS
  <2> HIDE DEF m
  <2>4. /\ inbox' \in Seq(Messages) /\ Len(inbox') = Len(inbox) + 1 /\ Len(inbox') <= MaxInbox
        /\ \A k \in 1..Len(inbox) : inbox'[k] = inbox[k]
        /\ inbox'[Len(inbox')] = m
    BY <2>1, <2>2, Appends
  <2> QED
    BY <2>1, <2>2, <2>3, <2>4 DEF Speaks
<1>2. ASSUME NEW r \in pending, NodeAnswers(r) PROVE Speaks
  <2>1. /\ r \in Requests /\ r.id \in IDs /\ (r.op = "subscribe" => r.arg \in Params)
    BY DEF IndInv, TypeOK, Asked, Requests
  <2>2. /\ Len(inbox) < MaxInbox /\ pending' = pending \ {r}
        /\ UNCHANGED <<runVars, respVars, generated, subByParam, procVars, held, link, crashed>>
    BY <1>2 DEF NodeAnswers, Alive
  <2>3. \E m \in Messages :
           /\ inbox' = Append(inbox, m) /\ m.kind = "response" /\ m.id = r.id
           /\ \/ nodeSubs' \subseteq nodeSubs
              \/ \E s \in AllIDs, p \in Params :
                    /\ nodeSubs' = nodeSubs \cup {[sub |-> s, param |-> p]}
                    /\ IF Eth THEN s \in SubIDs ELSE s = r.id
    <3>1. CASE r.op = "subscribe" /\
               \E s \in IF Eth THEN SubIDs \ {n.sub : n \in nodeSubs} ELSE {r.id} :
                  /\ nodeSubs' = nodeSubs \cup {[sub |-> s, param |-> r.arg]}
                  /\ inbox' = Append(inbox, Reply(r, TRUE, s))
      <4>1. PICK s \in AllIDs :
               /\ nodeSubs' = nodeSubs \cup {[sub |-> s, param |-> r.arg]}
               /\ inbox' = Append(inbox, Reply(r, TRUE, s))
               /\ IF Eth THEN s \in SubIDs ELSE s = r.id
        BY <2>1, <3>1 DEF AllIDs, Reply
      <4>2. Reply(r, TRUE, s) \in Messages
        BY <2>1 DEF Messages, Reply
      <4> QED
        BY <2>1, <3>1, <4>1, <4>2 DEF Reply
    <3>2. ASSUME NEW b \in BOOLEAN,
                 inbox' = Append(inbox, Reply(r, b, NoID)),
                 nodeSubs' \subseteq nodeSubs
          PROVE  \E m \in Messages :
                    /\ inbox' = Append(inbox, m) /\ m.kind = "response" /\ m.id = r.id
                    /\ nodeSubs' \subseteq nodeSubs
      <4>1. Reply(r, b, NoID) \in Messages
        BY <2>1 DEF Messages, Reply
      <4> QED
        BY <3>2, <4>1 DEF Reply
    <3> QED
      BY <1>2, <3>1, <3>2 DEF NodeAnswers, Reply
  <2>4. PICK m \in Messages :
           /\ inbox' = Append(inbox, m) /\ m.kind = "response" /\ m.id = r.id
           /\ \/ nodeSubs' \subseteq nodeSubs
              \/ \E s \in AllIDs, p \in Params :
                    /\ nodeSubs' = nodeSubs \cup {[sub |-> s, param |-> p]}
                    /\ IF Eth THEN s \in SubIDs ELSE s = r.id
    BY <2>3
  <2>5. /\ inbox' \in Seq(Messages) /\ Len(inbox') = Len(inbox) + 1 /\ Len(inbox') <= MaxInbox
        /\ \A k \in 1..Len(inbox) : inbox'[k] = inbox[k]
        /\ inbox'[Len(inbox')] = m
    BY <2>2, <2>4, Appends
  <2> QED
    BY <2>2, <2>4, <2>5 DEF Speaks
<1> QED
  BY <1>1, <1>2

\* Every step is of one of these kinds, or leaves everything as it is.
LEMMA Kinds ==
    ASSUME IndInv, [Next]_vars
    PROVE  \/ \E q \in Procs, i \in IDs : Begins(q, i) /\ TypeOK' /\ LocalTypes'
           \/ \E q \in Procs : Ends(q) /\ Outcome(q) /\ TypeOK' /\ LocalTypes'
           \/ \E q \in Procs : Waiting(q)
           \/ \E q \in Procs : Deliver(q)
           \/ Reading \/ LinkLost \/ Speaks \/ \E r \in pending : NodeIgnores(r)
           \/ UNCHANGED vars
<1>1. CASE \E q \in Procs : Ending(q)
  BY <1>1, CallEnds
<1>2. CASE \/ \E q \in Callers, i \in IDs : MakeRequest(q, i)
           \/ \E p \in Params, i \in IDs : Subscribe(p, i) \/ Unsubscribe(p, i)
           \/ ~Eth /\ \E p \in Params : Resubmit(p)
  BY <1>2, Beginning
<1>3. CASE \/ \E r \in pending : NodeAnswers(r)
           \/ \E n \in nodeSubs : NodeNotifies(n)
  BY <1>3, NodeSpeaks
<1>4. CASE SubStep
  <2>1. Sub \in Procs /\ Ending(Sub)
    BY <1>4 DEF Procs, Ending
  <2> QED
    BY <1>1, <2>1
<1>5. ASSUME NEW q \in Procs, RequestStep(q) PROVE Ending(q) \/ Waiting(q)
  BY <1>5 DEF RequestStep, Ending, Waiting
<1>6. RunStep => \/ Reading \/ (\E q \in Procs : Deliver(q))
                 \/ (~Eth /\ \E p \in Params : Resubmit(p))
  BY ProcAssumption DEF RunStep, Reading
<1>7. NodeStep => \/ (\E r \in pending : NodeAnswers(r) \/ NodeIgnores(r))
                  \/ (\E n \in nodeSubs : NodeNotifies(n))
  BY DEF NodeStep
<1> QED
  BY <1>1, <1>2, <1>3, <1>4, <1>5, <1>6, <1>7, Zenon DEF Next

-----------------------------------------------------------------------------
(* Every part of the invariant is kept *)

\* Types, and the locals of a call.
LEMMA TypesKept == IndInv /\ [Next]_vars => TypeOK' /\ LocalTypes'
<1> SUFFICES ASSUME IndInv, [Next]_vars PROVE TypeOK' /\ LocalTypes'
  OBVIOUS
<1> USE DEF respVars, nodeVars, runVars, procVars, Goto, Alive
<1>1. ASSUME NEW q \in Procs, Waiting(q) PROVE TypeOK' /\ LocalTypes'
  <2>1. CASE Put(q)
    BY <2>1 DEF Put, IndInv, TypeOK, LocalTypes
  <2>2. CASE SendOK(q)
    <3>1. [by |-> q, id |-> rid[q], op |-> op[q], arg |-> arg[q]] \in Requests
      BY <2>2 DEF SendOK, IndInv, TypeOK, LocalTypes, Requests
    <3>2. pending' \subseteq Requests
      BY <2>2, <3>1 DEF SendOK, IndInv, TypeOK
    <3> QED
      BY <2>2, <3>2 DEF SendOK, IndInv, TypeOK, LocalTypes
  <2>3. CASE Select(q)
    <3>1. rid[q] \in IDs
      BY <2>3 DEF Select, IndInv, LocalTypes
    <3> QED
      BY <2>3, <3>1 DEF Select, IndInv, TypeOK, LocalTypes
  <2>4. CASE Timeout(q)
    BY <2>4 DEF Timeout, IndInv, TypeOK, LocalTypes
  <2> QED
    BY <1>1, <2>1, <2>2, <2>3, <2>4 DEF Waiting
<1>2. ASSUME NEW q \in Procs, Deliver(q) PROVE TypeOK' /\ LocalTypes'
  <2>1. wc \in Procs
    BY <1>2 DEF Deliver, IndInv, TypeOK, RunPlace
  <2>2. got' \in [Procs -> AllIDs \cup {NoID}]
    BY <1>2, <2>1 DEF Deliver, IndInv, TypeOK
  <2> QED
    BY <1>2, <2>1, <2>2 DEF Deliver, IndInv, TypeOK, LocalTypes
<1>3. CASE Reading
  <2>1. /\ <<>> \in Seq(Messages) /\ Len(<<>>) = 0 /\ 0 <= MaxInbox
        /\ Len(inbox) \in Nat /\ MaxInbox \in Nat
    <3>1. inbox \in Seq(Messages)
      BY DEF IndInv, TypeOK
    <3> QED
      BY <3>1, ProcAssumption
  <2>2. CASE Connect
    BY <2>1, <2>2 DEF Connect, Hangup, IndInv, TypeOK, LocalTypes
  <2>3. CASE ResetAll
    BY <2>3 DEF ResetAll, IndInv, TypeOK, LocalTypes
  <2>4. CASE ResubmitDone
    BY <2>4 DEF ResubmitDone, IndInv, TypeOK, LocalTypes
  <2>5. CASE Read
    <3> DEFINE m == Head(inbox)
               c == IF Eth /\ m.kind = "event" THEN None ELSE respMap[m.id]
    <3>1. /\ m \in Messages /\ inbox' \in Seq(Messages) /\ Len(inbox') = Len(inbox) - 1
          /\ ~(Eth /\ m.kind = "event") => m.id \in IDs
      BY <2>5, Reads
    <3>2. c \in Procs \cup {None, Orphan}
      BY <3>1 DEF IndInv, TypeOK
    <3>3. /\ wc' = IF c \in chanClosed THEN None ELSE c
          /\ run' = IF c \in chanClosed \cup {None} THEN "read" ELSE "deliver"
          /\ crashed' = IF c \in chanClosed THEN "closedChannel" ELSE crashed
          /\ got' = IF c \in Procs \ chanClosed
                    THEN [got EXCEPT ![c] = IF m.kind = "response" THEN m.sub ELSE NoID]
                    ELSE got
          /\ UNCHANGED <<todo, client, respVars, generated, subByParam, step, op, rid, arg, ch,
                         held, link, pending, nodeSubs>>
      BY <2>5 DEF Read
    <3>4. m.kind = "response" => m.sub \in AllIDs \cup {NoID}
      BY <3>1 DEF Messages
    <3> HIDE DEF m, c
    <3>5. got' \in [Procs -> AllIDs \cup {NoID}]
      BY <3>3, <3>4 DEF IndInv, TypeOK
    <3>6. Len(inbox') <= MaxInbox
      <4>1. Len(inbox) <= MaxInbox
        BY DEF IndInv, TypeOK
      <4> QED
        BY <2>1, <3>1, <4>1
    <3> QED
      BY <3>1, <3>2, <3>3, <3>5, <3>6 DEF IndInv, TypeOK, LocalTypes
  <2>6. CASE ReadClosed
    BY <2>6 DEF ReadClosed, IndInv, TypeOK, LocalTypes
  <2>7. CASE ReadRepeated
    BY <2>7 DEF ReadRepeated, IndInv, TypeOK, LocalTypes
  <2>8. ASSUME Eth, NEW p \in Params, Resubmit(p) PROVE TypeOK' /\ LocalTypes'
    BY <2>1, <2>8 DEF Resubmit, Hangup, IndInv, TypeOK, LocalTypes
  <2> QED
    BY <1>3, <2>2, <2>3, <2>4, <2>5, <2>6, <2>7, <2>8 DEF Reading
<1>4. CASE LinkLost
  BY <1>4 DEF LinkLost, Hangup, IndInv, TypeOK, LocalTypes
<1>5. CASE Speaks
  <2>1. pending' \subseteq Requests /\ nodeSubs' \subseteq [sub : AllIDs, param : Params]
    BY <1>5 DEF Speaks, IndInv, TypeOK, AllIDs
  <2>2. inbox' \in Seq(Messages) /\ Len(inbox') <= MaxInbox
    BY <1>5 DEF Speaks
  <2>3. UNCHANGED <<runVars, respVars, generated, subByParam, procVars, held, link, crashed>>
    BY <1>5 DEF Speaks
  <2> QED
    BY <2>1, <2>2, <2>3 DEF IndInv, TypeOK, LocalTypes
<1>6. ASSUME NEW r \in pending, NodeIgnores(r) PROVE TypeOK' /\ LocalTypes'
  BY <1>6 DEF NodeIgnores, IndInv, TypeOK, LocalTypes
<1>7. CASE UNCHANGED vars
  BY <1>7 DEF vars, IndInv, TypeOK, LocalTypes
<1> QED
  BY <1>1, <1>2, <1>3, <1>4, <1>5, <1>6, <1>7, Kinds

\* Where Run is, and which ids subscriptions have.
LEMMA PlaceKept == IndInv /\ [Next]_vars => Asked' /\ RunPlace' /\ CosmosIDs'
<1> DEFINE Goal == Asked /\ RunPlace /\ CosmosIDs
<1> SUFFICES ASSUME IndInv, [Next]_vars PROVE Goal'
  OBVIOUS
<1> USE ProcAssumption DEF IndInv, TypeOK, Asked, RunPlace, CosmosIDs, respVars, nodeVars,
        runVars, procVars, Goto, Alive
<1>1. Run \in Procs /\ Sub \in Procs
  BY DEF Procs
<1>2. ASSUME NEW q \in Procs, NEW i \in IDs, Begins(q, i) PROVE Goal'
  BY <1>1, <1>2 DEF Begins
<1>3. ASSUME NEW q \in Procs, Ends(q), Outcome(q) PROVE Goal'
  <2>1. Asked' /\ RunPlace'
    BY <1>1, <1>3 DEF Ends
  <2>2. /\ ~Eth => \A p \in Params : subByParam'[p] \in IDs \cup {NoID}
        /\ ~Eth => rid[q] \in IDs
    BY <1>3 DEF Ends, Outcome, Subscribed, Forgotten, LocalTypes
  <2>3. (inbox' = inbox \/ Len(inbox') = 0) /\ nodeSubs' \subseteq nodeSubs
    BY <1>3 DEF Ends
  <2> QED
    BY <2>1, <2>2, <2>3
<1>4. ASSUME NEW q \in Procs, Waiting(q) PROVE Goal'
  <2>1. CASE SendOK(q)
    BY <1>1, <2>1 DEF SendOK, LocalTypes
  <2>2. CASE Put(q) \/ Select(q) \/ Timeout(q)
    BY <1>1, <2>2 DEF Put, Select, Timeout
  <2> QED
    BY <1>4, <2>1, <2>2 DEF Waiting
<1>5. ASSUME NEW q \in Procs, Deliver(q) PROVE Goal'
  BY <1>1, <1>5 DEF Deliver
<1>6. CASE Reading
  <2>2. CASE Connect
    BY <2>2 DEF Connect, Hangup
  <2>3. CASE ResetAll
    BY <2>3 DEF ResetAll
  <2>4. CASE ResubmitDone
    BY <2>4 DEF ResubmitDone
  <2>5. CASE Read
    <3>1. /\ \A n \in 1..Len(inbox') : n + 1 \in 1..Len(inbox) /\ inbox'[n] = inbox[n + 1]
      BY <2>5, Reads
    <3>2. ~Eth => \A n \in 1..Len(inbox') : inbox'[n].id \in IDs
      BY <3>1
    <3>3. /\ run = "read" /\ run' \in {"read", "deliver"}
          /\ run' = "deliver" => wc' # None
          /\ UNCHANGED <<step, pending, nodeSubs, subByParam>>
      BY <2>5 DEF Read
    <3> QED
      BY <3>2, <3>3
  <2>6. CASE ReadClosed
    BY <2>6 DEF ReadClosed
  <2>7. CASE ReadRepeated
    BY <2>7 DEF ReadRepeated
  <2>8. ASSUME Eth, NEW p \in Params, Resubmit(p) PROVE Goal'
    BY <2>8 DEF Resubmit, Hangup
  <2> QED
    BY <1>6, <2>2, <2>3, <2>4, <2>5, <2>6, <2>7, <2>8 DEF Reading
<1>7. CASE LinkLost
  BY <1>7 DEF LinkLost, Hangup
<1>8. CASE Speaks
  <2>1. PICK m \in Messages :
           /\ inbox' \in Seq(Messages) /\ Len(inbox') = Len(inbox) + 1
           /\ \A n \in 1..Len(inbox) : inbox'[n] = inbox[n]
           /\ inbox'[Len(inbox')] = m
           /\ pending' \subseteq pending
           /\ \/ (\E n \in nodeSubs : n.sub = m.id) /\ nodeSubs' = nodeSubs
              \/ /\ m.id \in IDs
                 /\ \/ nodeSubs' \subseteq nodeSubs
                    \/ \E s \in AllIDs, p \in Params :
                          /\ nodeSubs' = nodeSubs \cup {[sub |-> s, param |-> p]}
                          /\ ~Eth => s = m.id
    BY <1>8 DEF Speaks, Requests
  <2>2. ~Eth => m.id \in IDs
    BY <2>1
  <2>3. ~Eth => \A n \in 1..Len(inbox') : inbox'[n].id \in IDs
    <3>1. inbox \in Seq(Messages)
      OBVIOUS
    <3>2. \A n \in 1..Len(inbox') : n \in 1..Len(inbox) \/ n = Len(inbox')
      BY <2>1, <3>1
    <3> QED
      BY <2>1, <2>2, <3>2
  <2>4. ~Eth => \A n \in nodeSubs' : n.sub \in IDs
    BY <2>1, <2>2
  <2>5. UNCHANGED <<runVars, procVars, subByParam>>
    BY <1>8 DEF Speaks
  <2> QED
    BY <2>1, <2>3, <2>4, <2>5
<1>9. ASSUME NEW r \in pending, NodeIgnores(r) PROVE Goal'
  BY <1>9 DEF NodeIgnores
<1>10. CASE UNCHANGED vars
  BY <1>10 DEF vars
<1> HIDE DEF Goal, IndInv, TypeOK, Asked, RunPlace, CosmosIDs
<1> QED
  BY <1>2, <1>3, <1>4, <1>5, <1>6, <1>7, <1>8, <1>9, <1>10, Kinds DEF Goal

\* Ids of requests: NewID draws none that is in use, and Run takes that of a
\* subscription, which no other goroutine has.
LEMMA UniqueKept == IndInv /\ [Next]_vars => Unique'
<1> SUFFICES ASSUME IndInv, [Next]_vars PROVE Unique'
  OBVIOUS
<1> USE ProcAssumption DEF respVars, nodeVars, runVars, procVars, Goto
<1>1. Unique /\ rid \in [Procs -> IDs \cup {NoID}]
  BY DEF IndInv, TypeOK
<1>2. ASSUME NEW q \in Procs, NEW i \in IDs, Begins(q, i) PROVE Unique'
  BY <1>1, <1>2 DEF Begins, Unique
<1>3. ASSUME NEW q \in Procs, Ends(q), Outcome(q) PROVE Unique'
  <2>1. rid' = [rid EXCEPT ![q] = NoID]
    BY <1>3 DEF Ends
  <2>2. ~Eth => \A p \in Params : \/ subByParam'[p] \in {NoID, subByParam[p]}
                                  \/ q = Sub /\ subByParam'[p] = rid[q]
    BY <1>3 DEF Outcome, Subscribed, Forgotten, IndInv, TypeOK
  <2> QED
    BY <1>1, <2>1, <2>2 DEF Unique
<1>4. CASE UNCHANGED <<rid, subByParam>>
  BY <1>1, <1>4 DEF Unique
<1>5. CASE ResetAll
  BY <1>1, <1>5 DEF ResetAll, Unique
<1>6. ASSUME NEW q \in Procs, Waiting(q) \/ Deliver(q) PROVE UNCHANGED <<rid, subByParam>>
  BY <1>6 DEF Waiting, Put, SendOK, Select, Timeout, Deliver
<1>7. CASE Reading
  <2>1. \/ ResetAll
        \/ Connect \/ ResubmitDone \/ Read \/ ReadClosed \/ ReadRepeated
        \/ Eth /\ \E p \in Params : Resubmit(p)
    BY <1>7 DEF Reading
  <2>2. ASSUME ~ResetAll PROVE UNCHANGED <<rid, subByParam>>
    BY <2>1, <2>2 DEF Connect, ResubmitDone, Read, ReadClosed, ReadRepeated, Resubmit
  <2> QED
    BY <1>4, <1>5, <2>2
<1>8. ASSUME LinkLost \/ Speaks \/ UNCHANGED vars \/ \E r \in pending : NodeIgnores(r)
      PROVE  UNCHANGED <<rid, subByParam>>
  BY <1>8 DEF LinkLost, Speaks, NodeIgnores, vars
<1> QED
  BY <1>2, <1>3, <1>4, <1>6, <1>7, <1>8, Kinds

\* Channels: only Put and the end of its call change the entry of a request.
LEMMA ChannelsKept == IndInv /\ [Next]_vars => Channels'
<1> SUFFICES ASSUME IndInv, [Next]_vars PROVE Channels'
  OBVIOUS
<1> USE ProcAssumption DEF respVars, nodeVars, runVars, procVars, Goto
<1>1. /\ Channels /\ Unique /\ LocalTypes
      /\ respMap \in [IDs -> Procs \cup {None, Orphan}]
      /\ ch \in [Procs -> Procs \cup {None, Orphan}]
      /\ rid \in [Procs -> IDs \cup {NoID}] /\ chanClosed \subseteq Procs
      /\ step \in [Procs -> {"idle", "put", "send", "sent", "select", "got", "expired"}]
  BY DEF IndInv, TypeOK
<1> USE <1>1 DEF Channels
<1>2. ASSUME NEW q \in Procs, NEW i \in IDs, Begins(q, i) PROVE Channels'
  BY <1>2 DEF Begins
<1>3. ASSUME NEW q \in Procs, Ends(q) PROVE Channels'
  <2>1. /\ rid' = [rid EXCEPT ![q] = NoID] /\ rid[q] \in IDs
        /\ step' = [step EXCEPT ![q] = "idle"]
        /\ ch' = [ch EXCEPT ![q] = None]
        /\ chanClosed' = chanClosed \ {q}
    BY <1>3 DEF Ends, LocalTypes
  <2>2. \A i \in IDs : IF i = rid[q]
                       THEN respMap'[i] \in {respMap[i], None, Orphan} /\ respMap'[i] # q
                       ELSE respMap'[i] = respMap[i] /\ respMap[i] # q
    BY <1>3, <2>1 DEF Ends
  <2>3. \A x \in Procs \ {q} : rid[x] # rid[q]
    BY <2>1 DEF Unique
  <2>4. \A i \in IDs : respMap'[i] \in Procs => rid'[respMap'[i]] = i
    BY <2>1, <2>2
  <2>5. \A x \in Procs \ {q} :
          /\ step'[x] \in {"idle", "put"} => \A i \in IDs : respMap'[i] # x
          /\ step'[x] \notin {"idle", "put"} => respMap'[rid'[x]] \in {x, None}
          /\ ch'[x] \in {x, None}
          /\ x \in chanClosed' => step'[x] = "got"
    <3> TAKE x \in Procs \ {q}
    <3>1. /\ step'[x] = step[x] /\ rid'[x] = rid[x] /\ ch'[x] = ch[x]
          /\ x \in chanClosed' => x \in chanClosed
      BY <2>1
    <3>2. step[x] \in {"idle", "put"} => \A i \in IDs : respMap'[i] # x
      BY <2>2
    <3>3. step[x] \notin {"idle", "put"} => rid[x] \in IDs /\ respMap'[rid[x]] = respMap[rid[x]]
      BY <2>2, <2>3 DEF LocalTypes
    <3> QED
      BY <3>1, <3>2, <3>3
  <2>6. /\ \A i \in IDs : respMap'[i] # q
        /\ step'[q] = "idle" /\ ch'[q] = None /\ q \notin chanClosed'
    BY <2>1, <2>2
  <2> QED
    BY <2>4, <2>5, <2>6
<1>4. CASE UNCHANGED <<rid, respMap, ch, chanClosed, step>>
  BY <1>4
<1>5. ASSUME NEW q \in Procs, Waiting(q) PROVE Channels'
  <2>1. CASE Put(q)
    <3>1. \A x \in Procs \ {q} : rid[x] # rid[q]
      BY <2>1 DEF Put, Unique, LocalTypes
    <3>2. /\ respMap' = [respMap EXCEPT ![rid[q]] = q] /\ rid[q] \in IDs
          /\ step' = [step EXCEPT ![q] = "send"] /\ step[q] = "put"
          /\ UNCHANGED <<rid, ch, chanClosed>>
      BY <2>1 DEF Put, LocalTypes
    <3>3. \A i \in IDs : respMap'[i] \in Procs => rid'[respMap'[i]] = i
      BY <3>2
    <3>4. \A x \in Procs \ {q} :
            /\ step[x] \in {"idle", "put"} => \A i \in IDs : respMap'[i] # x
            /\ step[x] \notin {"idle", "put"} => respMap'[rid[x]] \in {x, None}
      BY <3>1, <3>2 DEF LocalTypes
    <3> QED
      BY <3>2, <3>3, <3>4
  <2>2. CASE SendOK(q)
    BY <2>2 DEF SendOK
  <2>3. CASE Select(q)
    BY <2>3 DEF Select, LocalTypes
  <2>4. CASE Timeout(q)
    BY <2>4 DEF Timeout
  <2> QED
    BY <1>5, <2>1, <2>2, <2>3, <2>4 DEF Waiting
<1>6. ASSUME NEW q \in Procs, Deliver(q) PROVE Channels'
  <2>1. wc = q
    BY <1>6 DEF Deliver, IndInv, RunPlace
  <2> QED
    BY <1>6, <2>1 DEF Deliver
<1>7. CASE Reading
  <2>1. \/ ResetAll
        \/ Connect \/ ResubmitDone \/ Read \/ ReadClosed \/ ReadRepeated
        \/ Eth /\ \E p \in Params : Resubmit(p)
    BY <1>7 DEF Reading
  <2>2. CASE ResetAll
    BY <2>2 DEF ResetAll, LocalTypes
  <2>3. ASSUME ~ResetAll PROVE UNCHANGED <<rid, respMap, ch, chanClosed, step>>
    BY <2>1, <2>3 DEF Connect, ResubmitDone, Read, ReadClosed, ReadRepeated, Resubmit
  <2> QED
    BY <1>4, <2>2, <2>3
<1>8. ASSUME LinkLost \/ Speaks \/ UNCHANGED vars \/ \E r \in pending : NodeIgnores(r)
      PROVE  UNCHANGED <<rid, respMap, ch, chanClosed, step>>
  BY <1>8 DEF LinkLost, Speaks, NodeIgnores, vars
<1> HIDE DEF Channels
<1> QED
  BY <1>2, <1>3, <1>4, <1>5, <1>6, <1>7, <1>8, Kinds

\* Nothing but a request that is sent makes an id known.
LEMMA KnownStays ==
    ASSUME IndInv, NEW i \in IDs, Known(i)',
           \/ \E q \in Procs : Ends(q)
           \/ Reading \/ LinkLost \/ Speaks
           \/ \E r \in pending : NodeIgnores(r)
           \/ UNCHANGED <<pending, nodeSubs, inbox>>
    PROVE  Known(i)
<1> USE DEF nodeVars
<1>1. CASE pending' = {} /\ nodeSubs' = {} /\ inbox' \in {inbox, <<>>}
  <2>1. Len(<<>>) = 0 /\ inbox \in Seq(Messages)
    BY DEF IndInv, TypeOK
  <2> QED
    BY <1>1, <2>1 DEF Known
<1>2. CASE UNCHANGED <<nodeSubs, inbox>> /\ pending' \subseteq pending
  BY <1>2 DEF Known
<1>3. CASE \E q \in Procs : Ends(q)
  BY <1>1, <1>2, <1>3 DEF Ends
<1>4. CASE Read
  <2>1. \A n \in 1..Len(inbox') : n + 1 \in 1..Len(inbox) /\ inbox'[n] = inbox[n + 1]
    BY <1>4, Reads
  <2>2. UNCHANGED <<pending, nodeSubs>>
    BY <1>4 DEF Read
  <2> QED
    BY <2>1, <2>2 DEF Known
<1>5. CASE Reading /\ ~Read
  <2>1. CASE Connect
    BY <1>1, <2>1 DEF Connect, Hangup
  <2>2. CASE ResetAll \/ ResubmitDone \/ ReadClosed \/ ReadRepeated
    BY <1>2, <2>2 DEF ResetAll, ResubmitDone, ReadClosed, ReadRepeated
  <2>3. CASE Eth /\ \E p \in Params : Resubmit(p)
    BY <1>1, <2>3 DEF Resubmit, Hangup
  <2> QED
    BY <1>5, <2>1, <2>2, <2>3 DEF Reading
<1>6. CASE LinkLost
  BY <1>1, <1>6 DEF LinkLost, Hangup
<1>7. CASE Speaks
  <2>1. PICK m \in Messages :
           /\ inbox' \in Seq(Messages) /\ Len(inbox') = Len(inbox) + 1
           /\ \A n \in 1..Len(inbox) : inbox'[n] = inbox[n]
           /\ inbox'[Len(inbox')] = m
           /\ pending' \subseteq pending
           /\ \/ (\E n \in nodeSubs : n.sub = m.id) /\ nodeSubs' = nodeSubs
              \/ /\ \E r \in pending : m.id = r.id
                 /\ \/ nodeSubs' \subseteq nodeSubs
                    \/ \E s \in AllIDs, p \in Params :
                          /\ nodeSubs' = nodeSubs \cup {[sub |-> s, param |-> p]}
                          /\ IF Eth THEN s \in SubIDs ELSE s = m.id
    BY <1>7 DEF Speaks
  <2>2. m.id = i => Known(i)
    BY <2>1 DEF Known
  <2>3. CASE \E r \in pending' : r.id = i
    BY <2>1, <2>3 DEF Known
  <2>4. CASE \E n \in 1..Len(inbox') : inbox'[n].id = i
    <3>1. inbox \in Seq(Messages)
      BY DEF IndInv, TypeOK
    <3>2. \A n \in 1..Len(inbox') : n \in 1..Len(inbox) \/ n = Len(inbox')
      BY <2>1, <3>1
    <3> QED
      BY <2>1, <2>2, <2>4, <3>2 DEF Known
  <2>5. CASE \E n \in nodeSubs' : n.sub = i
    BY <2>1, <2>2, <2>5, ProcAssumption DEF Known
  <2> QED
    BY <2>3, <2>4, <2>5 DEF Known
<1>8. CASE \E r \in pending : NodeIgnores(r)
  BY <1>2, <1>8 DEF NodeIgnores
<1> QED
  BY <1>2, <1>3, <1>4, <1>5, <1>6, <1>7, <1>8

\* An entry is left behind by a send that fails, before the node knows the id.
LEMMA DeadKept == IndInv /\ [Next]_vars => Unsent' /\ LeftoversAreDead'
<1> DEFINE Dead == \A i \in IDs : respMap[i] = Orphan => ~Known(i)
           Goal == Unsent /\ Dead
<1>1. LeftoversAreDead <=> Dead
  BY DEF LeftoversAreDead, Known
<1> SUFFICES ASSUME IndInv, [Next]_vars PROVE Goal'
  BY <1>1 DEF LeftoversAreDead, Known
<1> USE ProcAssumption DEF respVars, nodeVars, runVars, procVars, Goto
<1>2. /\ Unsent /\ Dead /\ Channels /\ Unique /\ LocalTypes
      /\ respMap \in [IDs -> Procs \cup {None, Orphan}]
      /\ rid \in [Procs -> IDs \cup {NoID}]
      /\ step \in [Procs -> {"idle", "put", "send", "sent", "select", "got", "expired"}]
      /\ None # Orphan /\ None \notin Procs /\ Orphan \notin Procs /\ NoID \notin IDs
  BY <1>1 DEF IndInv, TypeOK
<1> HIDE ProcAssumption DEF Dead
<1>3. CASE UNCHANGED <<step, rid, respMap>> /\ \A i \in IDs : Known(i)' => Known(i)
  <2>1. Unsent'
    BY <1>2, <1>3 DEF Unsent, LocalTypes
  <2>2. Dead'
    BY <1>2, <1>3 DEF Dead
  <2> QED
    BY <2>1, <2>2
<1>4. ASSUME NEW q \in Procs, NEW i \in IDs, Begins(q, i) PROVE Goal'
  <2>1. \A j \in IDs : Known(j)' => Known(j)
    BY <1>4, KnownStays DEF Begins
  <2>2. Unsent'
    <3>1. ASSUME NEW x \in Procs \ {Run}, step'[x] \in {"put", "send"} PROVE ~Known(rid'[x])
      BY <1>2, <1>4, <3>1 DEF Begins, Unsent
    <3>2. ASSUME NEW x \in Procs \ {Run}, step'[x] \in {"put", "send"} PROVE rid'[x] \in IDs
      BY <1>2, <1>4, <3>2 DEF Begins, LocalTypes
    <3> QED
      BY <2>1, <3>1, <3>2 DEF Unsent
  <2>3. Dead'
    BY <1>2, <1>4, <2>1 DEF Begins, Dead
  <2> QED
    BY <2>2, <2>3
<1>5. ASSUME NEW q \in Procs, Ends(q) PROVE Goal'
  <2>1. \A j \in IDs : Known(j)' => Known(j)
    BY <1>5, KnownStays
  <2>2. Unsent'
    BY <1>2, <1>5, <2>1 DEF Ends, Unsent, LocalTypes
  <2>3. rid[q] \in IDs
    BY <1>2, <1>5 DEF Ends, LocalTypes
  <2>4. ASSUME step[q] = "send", q # Run PROVE ~Known(rid[q])
    BY <1>2, <2>4 DEF Unsent
  <2>5. ASSUME q = Run, NEW j \in IDs PROVE ~Known(j)'
    <3>1. pending' = {} /\ nodeSubs' = {} /\ Len(inbox') = 0
      BY <1>5, <2>5 DEF Ends
    <3> QED
      BY <3>1 DEF Known
  <2>6. \A j \in IDs : \/ respMap'[j] \in {respMap[j], None}
                       \/ j = rid[q] /\ step[q] = "send"
    BY <1>2, <1>5 DEF Ends
  <2>7. Dead'
    BY <1>2, <2>1, <2>4, <2>5, <2>6 DEF Dead
  <2> QED
    BY <2>2, <2>7
<1>6. ASSUME NEW q \in Procs, SendOK(q) PROVE Goal'
  <2>1. \A j \in IDs : Known(j)' => Known(j) \/ j = rid[q]
    BY <1>6 DEF SendOK, Known
  <2>2. /\ step' = [step EXCEPT ![q] = "sent"] /\ step[q] = "send"
        /\ UNCHANGED <<rid, respMap>>
    BY <1>6 DEF SendOK
  <2>3. /\ \A x \in Procs \ {q} : rid[x] # rid[q]
        /\ respMap[rid[q]] # Orphan
    BY <1>2, <2>2 DEF Unique, LocalTypes, Channels
  <2>4. Unsent'
    BY <1>2, <2>1, <2>2, <2>3 DEF Unsent, LocalTypes
  <2>5. Dead'
    BY <1>2, <2>1, <2>2, <2>3 DEF Dead
  <2> QED
    BY <2>4, <2>5
<1>7. ASSUME NEW q \in Procs, Waiting(q), ~SendOK(q) PROVE Goal'
  <2>1. /\ UNCHANGED <<pending, nodeSubs, inbox, rid>>
        /\ \A i \in IDs : respMap'[i] \in {respMap[i], q}
        /\ \A x \in Procs : step'[x] \in {"put", "send"} => step[x] \in {"put", "send"}
    BY <1>2, <1>7 DEF Waiting, Put, Select, Timeout
  <2>2. \A j \in IDs : Known(j)' => Known(j)
    BY <2>1, KnownStays
  <2>3. Unsent'
    BY <1>2, <2>1, <2>2 DEF Unsent, LocalTypes
  <2>4. Dead'
    BY <1>2, <2>1, <2>2 DEF Dead
  <2> QED
    BY <2>3, <2>4
<1>8. ASSUME NEW q \in Procs, Deliver(q) PROVE Goal'
  <2>1. /\ UNCHANGED <<pending, nodeSubs, inbox, rid, respMap>>
        /\ \A x \in Procs : step'[x] \in {"put", "send"} => step[x] \in {"put", "send"}
    BY <1>2, <1>8 DEF Deliver
  <2>2. \A j \in IDs : Known(j)' => Known(j)
    BY <2>1, KnownStays
  <2>3. Unsent'
    BY <1>2, <2>1, <2>2 DEF Unsent, LocalTypes
  <2>4. Dead'
    BY <1>2, <2>1, <2>2 DEF Dead
  <2> QED
    BY <2>3, <2>4
<1>9. CASE Reading
  <2>1. \A j \in IDs : Known(j)' => Known(j)
    BY <1>9, KnownStays
  <2>2. UNCHANGED <<step, rid>>
    BY <1>9 DEF Reading, Connect, ResetAll, ResubmitDone, Read, ReadClosed, ReadRepeated,
       Resubmit
  <2>3. \A i \in IDs : respMap'[i] \in {respMap[i], None}
    BY <1>9 DEF Reading, Connect, ResetAll, ResubmitDone, Read, ReadClosed, ReadRepeated,
       Resubmit
  <2>4. Unsent'
    BY <1>2, <2>1, <2>2 DEF Unsent, LocalTypes
  <2>5. Dead'
    BY <1>2, <2>1, <2>3 DEF Dead
  <2> QED
    BY <2>4, <2>5
<1>10. ASSUME LinkLost \/ Speaks \/ UNCHANGED vars \/ \E r \in pending : NodeIgnores(r)
       PROVE  Goal'
  <2>1. UNCHANGED <<step, rid, respMap>>
    BY <1>10 DEF LinkLost, Speaks, NodeIgnores, vars
  <2>2. UNCHANGED vars => UNCHANGED <<pending, nodeSubs, inbox>>
    BY DEF vars
  <2>3. \A j \in IDs : Known(j)' => Known(j)
    BY <1>10, <2>2, KnownStays
  <2> QED
    BY <1>3, <2>1, <2>3
<1> HIDE DEF Goal
<1> QED
  BY <1>4, <1>5, <1>6, <1>7, <1>8, <1>9, <1>10, Kinds

\* Subscribe and Unsubscribe change the manager and the pool together.
LEMMA PoolKept == IndInv /\ [Next]_vars => HeldApart' /\ ConnMatchesPool'
<1> SUFFICES ASSUME IndInv, [Next]_vars PROVE HeldApart' /\ ConnMatchesPool'
  OBVIOUS
<1> USE ProcAssumption DEF respVars, nodeVars, runVars, procVars, Goto
<1>1. /\ HeldApart /\ ConnMatchesPool /\ Unique
      /\ subByParam \in [Params -> AllIDs \cup {NoID}]
      /\ held \in [Params -> AllIDs \cup {NoID}]
  BY DEF IndInv, TypeOK
<1>2. CASE UNCHANGED <<subByParam, held>>
  BY <1>1, <1>2 DEF HeldApart, ConnMatchesPool
<1>3. ASSUME NEW q \in Procs, Ends(q), Outcome(q) PROVE HeldApart' /\ ConnMatchesPool'
  <2>1. CASE q = Sub /\ arg[q] \in Params /\ ~Eth /\ Subscribed(arg[q], rid[q])
    <3>1. rid[q] # NoID /\ q # Run
      BY <1>3, <2>1 DEF Ends, IndInv, LocalTypes
    <3>2. \A p \in Params : held[p] # rid[q]
      <4>1. \A p \in Params : subByParam[p] # rid[q]
        BY <1>1, <1>3, <2>1, <3>1 DEF Unique
      <4> QED
        BY <1>1, <2>1, <3>1, <4>1 DEF ConnMatchesPool
    <3> QED
      BY <1>1, <2>1, <3>1, <3>2 DEF Subscribed, HeldApart, ConnMatchesPool
  <2>2. CASE q = Sub /\ arg[q] \in Params /\ Eth /\ Subscribed(arg[q], got[q])
    BY <1>1, <2>2 DEF Subscribed, HeldApart, ConnMatchesPool
  <2>3. CASE q = Sub /\ arg[q] \in Params /\ Forgotten(arg[q])
    <3>1. HeldApart'
      BY <1>1, <2>3 DEF Forgotten, HeldApart
    <3>2. ConnMatchesPool'
      <4>1. \A p \in Params \ {arg[q]} :
               /\ held'[p] = held[p]
               /\ subByParam'[p] \in {subByParam[p], NoID}
        BY <1>1, <2>3 DEF Forgotten
      <4>2. held'[arg[q]] = NoID /\ subByParam'[arg[q]] = NoID
        BY <1>1, <2>3 DEF Forgotten, ConnMatchesPool
      <4>3. ASSUME ~Eth, NEW p \in Params \ {arg[q]}, held[p] # NoID
            PROVE  subByParam'[p] = held[p]
        BY <1>1, <2>3, <4>3 DEF Forgotten, HeldApart, ConnMatchesPool
      <4> QED
        BY <1>1, <2>3, <4>1, <4>2, <4>3 DEF ConnMatchesPool
    <3> QED
      BY <3>1, <3>2
  <2> QED
    BY <1>2, <1>3, <2>1, <2>2, <2>3 DEF Outcome
<1>4. CASE Reading
  <2>1. CASE ResetAll
    <3>1. Eth
      BY <2>1 DEF ResetAll, IndInv, RunPlace
    <3> QED
      BY <1>1, <2>1, <3>1 DEF ResetAll, HeldApart, ConnMatchesPool
  <2>2. \/ ResetAll
        \/ Connect \/ ResubmitDone \/ Read \/ ReadClosed \/ ReadRepeated
        \/ Eth /\ \E p \in Params : Resubmit(p)
    BY <1>4 DEF Reading
  <2>3. ASSUME ~ResetAll PROVE UNCHANGED <<subByParam, held>>
    BY <2>2, <2>3 DEF Connect, ResubmitDone, Read, ReadClosed, ReadRepeated, Resubmit
  <2> QED
    BY <1>2, <2>1, <2>3
<1>5. ASSUME \/ \E q \in Procs, i \in IDs : Begins(q, i)
             \/ \E q \in Procs : Waiting(q) \/ Deliver(q)
             \/ LinkLost \/ Speaks \/ UNCHANGED vars \/ \E r \in pending : NodeIgnores(r)
      PROVE  UNCHANGED <<subByParam, held>>
  BY <1>5 DEF Begins, Waiting, Put, SendOK, Select, Timeout, Deliver, LinkLost, Speaks,
     NodeIgnores, vars
<1> QED
  BY <1>2, <1>3, <1>4, <1>5, Kinds

\* Eth: a request is sent once, answered once, and the answer handed over once.
LEMMA OneResponseKept == IndInv /\ [Next]_vars => OneResponse' /\ NoClosedSend'
<1> DEFINE Calls == \A q \in Procs :
                       /\ run = "deliver" /\ wc = q =>
                             step[q] \notin {"idle", "put", "send"} /\ Settled(rid[q])
                       /\ step[q] = "got" => Settled(rid[q])
           Once == /\ \A r, x \in pending : r.id = x.id => r = x
                   /\ \A r \in pending, n \in 1..Len(inbox) : ~Response(n, r.id)
                   /\ \A i \in IDs : \A n, m \in 1..Len(inbox) :
                         Response(n, i) /\ Response(m, i) => n = m
           Goal == Once /\ Calls /\ crashed # "closedChannel"
<1> SUFFICES ASSUME IndInv, [Next]_vars, Eth PROVE Goal'
  BY ProcAssumption DEF OneResponse, NoClosedSend
<1> USE ProcAssumption DEF respVars, nodeVars, runVars, procVars, Goto, Alive
<1>1. /\ Once /\ Calls /\ crashed # "closedChannel"
      /\ Channels /\ Unique /\ LocalTypes /\ RunPlace /\ Unsent
      /\ rid \in [Procs -> IDs \cup {NoID}] /\ inbox \in Seq(Messages)
      /\ step \in [Procs -> {"idle", "put", "send", "sent", "select", "got", "expired"}]
      /\ pending \subseteq Requests /\ Run \in Procs
  BY DEF IndInv, TypeOK, OneResponse, NoClosedSend, Procs
<1>2. step[Run] = "idle"
  BY <1>1 DEF RunPlace
<1> HIDE DEF Once, Calls
\* nothing new is sent or answered, and nothing handed over
<1>3. CASE /\ pending' \subseteq pending /\ inbox' \in {inbox, <<>>}
           /\ crashed' # "closedChannel"
           /\ \A q \in Procs :
                 /\ run' = "deliver" /\ wc' = q =>
                       /\ run = "deliver" /\ wc = q /\ rid'[q] = rid[q]
                       /\ step'[q] \notin {"idle", "put", "send"}
                 /\ step'[q] = "got" => step[q] = "got" /\ rid'[q] = rid[q]
  <2>1. /\ Len(<<>>) = 0 /\ Len(inbox) \in Nat
        /\ \A n \in 1..Len(inbox') : n \in 1..Len(inbox) /\ inbox'[n] = inbox[n]
    BY <1>1, <1>3
  <2>2. Once'
    BY <1>1, <1>3, <2>1 DEF Once, Response
  <2>3. \A i \in IDs : Settled(i) => Settled(i)'
    BY <1>3, <2>1 DEF Settled, Response
  <2>4. \A q \in Procs : step[q] # "idle" => rid[q] \in IDs
    BY <1>1 DEF LocalTypes
  <2>5. ASSUME NEW q \in Procs, run' = "deliver", wc' = q PROVE Settled(rid[q])'
    BY <1>1, <1>3, <2>3, <2>4, <2>5 DEF Calls, Settled, Response
  <2>6. Calls'
    BY <1>1, <1>3, <2>1, <2>4 DEF Calls, Settled, Response
  <2> QED
    BY <1>3, <2>2, <2>6
<1>4. ASSUME NEW q \in Procs, NEW i \in IDs, Begins(q, i) PROVE Goal'
  <2>1. run' = run
    BY <1>4 DEF Begins
  <2> QED
    BY <1>1, <1>3, <1>4, <2>1 DEF Begins, Calls
<1>5. ASSUME NEW q \in Procs, Ends(q) PROVE Goal'
  <2>1. q # Run
    BY <1>2, <1>5 DEF Ends
  <2> QED
    BY <1>1, <1>3, <1>5, <2>1 DEF Ends, Calls
<1>6. ASSUME NEW q \in Procs, Waiting(q), ~SendOK(q) PROVE Goal'
  <2>1. /\ UNCHANGED <<pending, inbox, run, wc, rid, crashed>>
        /\ \A x \in Procs : /\ step'[x] = "got" => step[x] = "got"
                            /\ step[x] \notin {"idle", "put", "send"} =>
                                  step'[x] \notin {"idle", "put", "send"}
    BY <1>1, <1>6 DEF Waiting, Put, Select, Timeout
  <2> QED
    BY <1>1, <1>3, <2>1 DEF Calls
<1>7. ASSUME NEW q \in Procs, SendOK(q) PROVE Goal'
  <2> DEFINE r == [by |-> q, id |-> rid[q], op |-> op[q], arg |-> arg[q]]
  <2>1. /\ step[q] = "send" /\ step' = [step EXCEPT ![q] = "sent"]
        /\ UNCHANGED <<run, wc, rid, inbox, crashed>>
        /\ pending' \in {pending, pending \cup {r}} /\ r.id = rid[q]
    BY <1>7 DEF SendOK
  <2>2. /\ \A x \in Procs \ {q} : rid[x] # rid[q]
        /\ ~Known(rid[q])
    BY <1>1, <1>2, <2>1 DEF Unique, LocalTypes, Unsent
  <2> HIDE DEF r
  <2>3. \A x \in pending : x.id # r.id
    BY <2>1, <2>2 DEF Known
  <2>4. \A n \in 1..Len(inbox) : ~Response(n, r.id)
    BY <2>1, <2>2 DEF Known, Response
  <2>5. Once'
    BY <1>1, <2>1, <2>3, <2>4 DEF Once, Response
  <2>6. Calls'
    BY <1>1, <2>1, <2>2 DEF Calls, Settled, Response
  <2> QED
    BY <1>1, <2>1, <2>5, <2>6
<1>8. ASSUME NEW q \in Procs, Deliver(q) PROVE Goal'
  <2>1. /\ wc = q /\ run = "deliver" /\ run' = "read" /\ step' = [step EXCEPT ![q] = "got"]
        /\ UNCHANGED <<pending, inbox, rid, crashed>>
    BY <1>1, <1>8 DEF Deliver, Channels, RunPlace
  <2>2. Once'
    BY <1>1, <2>1 DEF Once, Response
  <2>3. Calls'
    BY <1>1, <2>1 DEF Calls, Settled, Response
  <2> QED
    BY <1>1, <2>1, <2>2, <2>3
<1>9. CASE Read
  <2> DEFINE m == Head(inbox)
             c == IF Eth /\ m.kind = "event" THEN None ELSE respMap[m.id]
  <2>1. /\ m = inbox[1] /\ 1 \in 1..Len(inbox) /\ m \in Messages
        /\ Len(inbox') = Len(inbox) - 1
        /\ \A n \in 1..Len(inbox') : n + 1 \in 1..Len(inbox) /\ inbox'[n] = inbox[n + 1]
        /\ m.kind # "event" => m.id \in IDs
    BY <1>9, Reads
  <2>2. /\ run = "read"
        /\ wc' = IF c \in chanClosed THEN None ELSE c
        /\ crashed' = IF c \in chanClosed THEN "closedChannel" ELSE crashed
        /\ UNCHANGED <<rid, step, pending>>
    BY <1>9 DEF Read
  <2>3. ASSUME c \in Procs
        PROVE  /\ m.id \in IDs /\ Response(1, m.id) /\ rid[c] = m.id
               /\ step[c] \notin {"idle", "put", "send"}
    <3>1. m.kind # "event" /\ c = respMap[m.id]
      BY <2>3
    <3>2. m.kind = "response" /\ m.id \in IDs
      BY <2>1, <3>1 DEF Messages
    <3>3. rid[c] = m.id /\ step[c] \notin {"idle", "put"}
      BY <1>1, <2>3, <3>1, <3>2 DEF Channels
    <3>4. Known(m.id)
      BY <2>1 DEF Known
    <3> QED
      BY <1>1, <1>2, <2>1, <2>3, <3>2, <3>3, <3>4 DEF Unsent, Response
  <2> HIDE DEF m, c
  <2>4. crashed' # "closedChannel"
    <3>1. c \notin chanClosed
      <4> SUFFICES ASSUME c \in chanClosed PROVE FALSE
        OBVIOUS
      <4>1. c \in Procs
        BY DEF IndInv, TypeOK
      <4>2. Settled(rid[c])
        BY <1>1, <4>1 DEF Channels, Calls
      <4> QED
        BY <2>1, <2>3, <4>1, <4>2 DEF Settled
    <3> QED
      BY <1>1, <2>2, <3>1
  <2>5. \A n \in 1..Len(inbox'), i \in IDs : Response(n, i)' => Response(n + 1, i)
    BY <2>1 DEF Response
  <2>6. \A n, k \in 1..Len(inbox') :
           n + 1 \in 1..Len(inbox) /\ n + 1 # 1 /\ (n + 1 = k + 1 => n = k)
    BY <2>1
  <2>7. Once'
    <3>1. \A r \in pending : r.id \in IDs
      BY <1>1 DEF Requests
    <3>2. \A r \in pending', n \in 1..Len(inbox') : ~Response(n, r.id)'
      BY <1>1, <2>2, <2>5, <2>6, <3>1 DEF Once
    <3>3. \A i \in IDs : \A n, k \in 1..Len(inbox') :
             Response(n, i)' /\ Response(k, i)' => n = k
      BY <1>1, <2>5, <2>6 DEF Once
    <3> QED
      BY <1>1, <2>2, <3>2, <3>3 DEF Once, Response
  <2>8. \A i \in IDs : Settled(i) => Settled(i)'
    BY <2>2, <2>5, <2>6 DEF Settled
  <2>9. ASSUME NEW x \in Procs, c = x PROVE Settled(rid[x])'
    <3>1. PICK j \in IDs : j = m.id /\ Response(1, j) /\ rid[x] = j
      BY <2>3, <2>9
    <3>2. \A r \in pending : r.id # j
      BY <1>1, <2>1, <3>1 DEF Once
    <3>3. \A n \in 1..Len(inbox') : ~Response(n, j)'
      BY <1>1, <2>1, <2>5, <2>6, <3>1 DEF Once
    <3> QED
      BY <2>2, <3>1, <3>2, <3>3 DEF Settled, Response
  <2>10. Calls'
    <3>1. \A q \in Procs : step[q] # "idle" => rid[q] \in IDs
      BY <1>1 DEF LocalTypes
    <3> QED
      BY <1>1, <2>2, <2>3, <2>8, <2>9, <3>1 DEF Calls, Settled, Response
  <2> QED
    BY <2>4, <2>7, <2>10
<1>10. CASE Reading /\ ~Read
  <2>1. CASE Connect
    BY <1>1, <1>3, <2>1 DEF Connect, Hangup
  <2>2. CASE ResetAll \/ ResubmitDone \/ ReadClosed \/ ReadRepeated
    BY <1>1, <1>3, <2>2 DEF ResetAll, ResubmitDone, ReadClosed, ReadRepeated
  <2>3. CASE \E p \in Params : Resubmit(p)
    BY <1>1, <1>3, <2>3 DEF Resubmit, Hangup
  <2> QED
    BY <1>10, <2>1, <2>2, <2>3 DEF Reading
<1>11. CASE LinkLost
  BY <1>1, <1>3, <1>11 DEF LinkLost, Hangup, Calls
<1>12. ASSUME UNCHANGED vars \/ \E r \in pending : NodeIgnores(r) PROVE Goal'
  BY <1>1, <1>3, <1>12 DEF NodeIgnores, vars, Calls
<1>13. CASE Speaks
  <2>1. UNCHANGED <<run, wc, step, rid, crashed>>
    BY <1>13 DEF Speaks
  <2>2. PICK m \in Messages :
           /\ Len(inbox') = Len(inbox) + 1
           /\ \A n \in 1..Len(inbox) : inbox'[n] = inbox[n]
           /\ inbox'[Len(inbox')] = m
           /\ \/ m.kind = "event" /\ pending' = pending
              \/ \E r \in pending : pending' = pending \ {r} /\ m.id = r.id
    BY <1>13 DEF Speaks
  <2>3. \A n \in 1..Len(inbox') : n \in 1..Len(inbox) \/ n = Len(inbox')
    BY <1>1, <2>2
  <2>4. \A n \in 1..Len(inbox'), i \in IDs : Response(n, i)' =>
          \/ n \in 1..Len(inbox) /\ Response(n, i)
          \/ /\ n = Len(inbox') /\ m.id = i
             /\ \E r \in pending : r.id = i /\ pending' = pending \ {r}
    BY <2>2, <2>3 DEF Response
  <2>5. \A r \in pending : r.id \in IDs
    BY <1>1 DEF Requests
  <2>6. pending' \subseteq pending
    BY <2>2
  <2>7. Once'
    <3>1. ASSUME NEW r \in pending', NEW n \in 1..Len(inbox'), Response(n, r.id)' PROVE FALSE
      BY <1>1, <2>4, <2>5, <2>6, <3>1 DEF Once
    <3>2. ASSUME NEW i \in IDs, NEW n \in 1..Len(inbox'), NEW k \in 1..Len(inbox'),
                 Response(n, i)', Response(k, i)'
          PROVE  n = k
      <4>1. CASE n \in 1..Len(inbox) /\ Response(n, i) /\ k \in 1..Len(inbox) /\ Response(k, i)
        BY <1>1, <4>1 DEF Once
      <4>2. CASE (\E r \in pending : r.id = i) /\ (n # Len(inbox') \/ k # Len(inbox'))
        BY <1>1, <2>4, <3>2, <4>2 DEF Once
      <4> QED
        BY <2>4, <3>2, <4>1, <4>2
    <3>3. \A r, x \in pending' : r.id = x.id => r = x
      BY <1>1, <2>6 DEF Once
    <3> QED
      BY <3>1, <3>2, <3>3 DEF Once, Response
  <2>8. \A i \in IDs : Settled(i) => Settled(i)'
    BY <2>4, <2>6 DEF Settled
  <2>9. Calls'
    <3>1. \A q \in Procs : step[q] # "idle" => rid[q] \in IDs
      BY <1>1 DEF LocalTypes
    <3> QED
      BY <1>1, <2>1, <2>8, <3>1 DEF Calls
  <2> QED
    BY <1>1, <2>1, <2>7, <2>9
<1> HIDE DEF Goal
<1> QED
  BY <1>4, <1>5, <1>6, <1>7, <1>8, <1>9, <1>10, <1>11, <1>12, <1>13, Kinds

\* It holds at first,
LEMMA InitInv == Init => IndInv
<1> SUFFICES ASSUME Init PROVE IndInv
  OBVIOUS
<1> USE ProcAssumption DEF Init
<1>1. <<>> \in Seq(Messages) /\ Len(<<>>) = 0 /\ 0 <= MaxInbox
  OBVIOUS
<1>2. TypeOK
  BY <1>1 DEF TypeOK
<1>3. LocalTypes /\ Asked /\ RunPlace /\ CosmosIDs
  BY <1>1 DEF LocalTypes, Asked, RunPlace, CosmosIDs, Procs
<1>4. Unique /\ Channels /\ Unsent /\ LeftoversAreDead
  BY DEF Unique, Channels, Unsent, LeftoversAreDead
<1>5. HeldApart /\ ConnMatchesPool
  BY DEF HeldApart, ConnMatchesPool
<1>6. OneResponse /\ NoClosedSend
  BY <1>1 DEF OneResponse, NoClosedSend
<1> QED
  BY <1>2, <1>3, <1>4, <1>5, <1>6 DEF IndInv

\* and every step keeps it.
LEMMA InvPreserved == IndInv /\ [Next]_vars => IndInv'
BY TypesKept, PlaceKept, UniqueKept, ChannelsKept, DeadKept, PoolKept, OneResponseKept
   DEF IndInv

-----------------------------------------------------------------------------
(* Theorems *)

\* What the goroutines of a connection manager rely on.
THEOREM Invariance == Spec => []IndInv
BY InitInv, InvPreserved, PTL DEF Spec

\* Every variable keeps its type, and the messages that Run has not read their bound.
THEOREM TypeCorrect == Spec => []TypeOK
<1>1. IndInv => TypeOK
  BY DEF IndInv
<1> QED
  BY <1>1, Invariance, PTL

\* An entry that a failed send leaves in respMap belongs to no request that the node
\* knows: Run does not come to send on its channel, which nobody receives from.
THEOREM LeftoversNeverAnswered == Spec => []LeftoversAreDead
<1>1. IndInv => LeftoversAreDead
  BY DEF IndInv
<1> QED
  BY <1>1, Invariance, PTL

\* Only the goroutine that made the channel receives what Run sends on it: ids are not
\* shared, also when Run re-submits a subscription under its old id.
THEOREM ReceiverIsCaller == Spec => []NoSharedChannel
<1>1. IndInv => NoSharedChannel
  BY DEF IndInv, Channels, RunPlace, NoSharedChannel
<1> QED
  BY <1>1, Invariance, PTL

\* The manager and the pool agree on the subscriptions, over every reconnect.
THEOREM ConnectionMatchesPool == Spec => []ConnMatchesPool
<1>1. IndInv => ConnMatchesPool
  BY DEF IndInv
<1> QED
  BY <1>1, Invariance, PTL

\* An Eth manager never sends on a channel that it has closed: the second response
\* that this would take does not come.
THEOREM ClosedChannelUnused == Spec => []NoClosedSend
<1>1. IndInv => NoClosedSend
  BY DEF IndInv
<1> QED
  BY <1>1, Invariance, PTL
=============================================================================
