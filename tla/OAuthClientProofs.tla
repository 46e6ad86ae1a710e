------------------------- MODULE OAuthClientProofs -------------------------
(***************************************************************************)
(* What holds of OAuthClient for every set of requests, every number of    *)
(* tokens and both builds.                                                 *)
(***************************************************************************)
EXTENDS OAuthClient, TLAPS

-----------------------------------------------------------------------------
(* Lemmas on the operators the actions are built from                      *)

\* A new NSURLConnection record is well typed, whatever token signs it.
LEMMA LaunchedType ==
    ASSUME NEW n \in Nat, NEW m \in 0..n
    PROVE  Launched(m) \in [net : Net, sig : 0..n] /\ Launched(m).net = "sent"
BY DEF Launched, Net

\* Neither is a stopped one, and it is not live.
LEMMA StoppedType ==
    ASSUME NEW n \in Nat
    PROVE  Stopped \in [net : Net, sig : 0..n] /\ Stopped.net = "none"
BY DEF Stopped, Net

\* nil is a token record for any number of tokens.
LEMMA NoTokenType == ASSUME NEW n \in Nat PROVE NoToken \in Token(n)
BY DEF NoToken, Token

\* The identity of the client's token is one of those issued.
LEMMA TokenIdType == ASSUME TypeOK PROVE token.id \in 0..issued /\ 0 \in 0..issued
BY DEF TypeOK, Token

\* Queueing and refreshing keeps the types of what it touches.
LEMMA RefreshAndRetryType ==
    ASSUME TypeOK, NEW ks \in SUBSET Connection,
           NEW cn \in [Connection -> [net : Net, sig : 0..issued]],
           RefreshAndRetry(ks, cn)
    PROVE  /\ conn' \in [Connection -> [net : Net, sig : 0..issued]]
           /\ context' \in [Auth -> {"request", "refresh"}]
           /\ waiting' \subseteq Connection
           /\ authConnection' \in Auth \cup {None}
           /\ exception' = exception
<1> USE ConstantsAssumption
<1>1. CASE authConnection # None
  BY <1>1 DEF RefreshAndRetry, TypeOK
<1>2. CASE authConnection = None
  <2>1. PICK a \in Free \ ks :
             /\ authConnection' = a
             /\ context' = [context EXCEPT ![a] = "refresh"]
             /\ conn' = [cn EXCEPT ![a] = Launched(0)]
    BY <1>2 DEF RefreshAndRetry
  <2>2. a \in Auth /\ a \in Connection
    BY DEF Free, Connection
  <2>3. Launched(0) \in [net : Net, sig : 0..issued]
    BY LaunchedType, TokenIdType DEF TypeOK
  <2>4. waiting' = waiting \cup ks /\ exception' = exception
    BY <1>2 DEF RefreshAndRetry
  <2> QED BY <2>1, <2>2, <2>3, <2>4 DEF TypeOK
<1> QED BY <1>1, <1>2

\* Retrying the queue with a well-typed token keeps the types, and n tokens
\* exist afterwards.
LEMMA RetryWaitingType ==
    ASSUME TypeOK, NEW a \in Auth, NEW n \in Nat, issued <= n, issued' = n,
           NEW t \in Token(n), t.id = 0 => t = NoToken, RetryWaiting(a, t)
    PROVE  TypeOK'
<1> USE ConstantsAssumption
<1>1. conn' \in [Connection -> [net : Net, sig : 0..n]]
  <2>1. \A k \in Connection : conn[k] \in [net : Net, sig : 0..n]
    <3>1. 0..issued \subseteq 0..n
      BY DEF TypeOK
    <3> QED BY <3>1 DEF TypeOK
  <2>2. \A k \in Connection :
           Launched(IF IsRefresh(k) THEN 0 ELSE t.id) \in [net : Net, sig : 0..n]
    <3>1. t.id \in 0..n
      BY DEF Token
    <3> QED BY <3>1, LaunchedType
  <2>3. Stopped \in [net : Net, sig : 0..n]
    BY StoppedType
  <2>4. conn' = [k \in Connection |->
                  CASE k = a -> Stopped
                    [] k \in Requeued(t) -> Stopped
                    [] k \in waiting \ Requeued(t) -> Launched(IF IsRefresh(k) THEN 0 ELSE t.id)
                    [] OTHER -> conn[k]]
    BY DEF RetryWaiting
  <2> QED BY <2>1, <2>2, <2>3, <2>4
<1>2. /\ token' = t /\ waiting' = {} /\ authConnection' = None
      /\ authenticating' = FALSE /\ retryCount' = 0
      /\ UNCHANGED <<context, timers, appVars, exception>>
  BY DEF RetryWaiting
<1>3. 0 \in 0..MaxRetries
  OBVIOUS
<1>4. token' \in Token(issued') /\ (token'.id = 0 => token' = NoToken)
  BY <1>2
<1> QED BY <1>1, <1>2, <1>3, <1>4 DEF TypeOK, appVars

\* Giving up on a token connection keeps the types.
LEMMA GiveUpType ==
    ASSUME TypeOK, NEW a \in Auth, NEW t \in {token, NoToken}, GiveUp(a, t)
    PROVE  TypeOK'
<1> USE ConstantsAssumption
<1>1. a \in Connection
  BY DEF Connection
<1>2. conn' \in [Connection -> [net : Net, sig : 0..issued]]
  BY <1>1, StoppedType DEF GiveUp, TypeOK
<1>3. waiting' \subseteq Connection /\ req' \in [Req -> {"idle", "open", "closed", "cancelled"}]
  BY DEF GiveUp, TypeOK
<1>4. /\ token' \in Token(issued) /\ issued' = issued
      /\ token'.id = 0 => token' = NoToken
  BY NoTokenType DEF GiveUp, TypeOK
<1> QED BY <1>2, <1>3, <1>4 DEF GiveUp, TypeOK, retryVars

-----------------------------------------------------------------------------
(* Type correctness                                                        *)

\* Every step keeps TypeOK.
LEMMA TypeStep == TypeOK /\ [Next]_vars => TypeOK'
<1> USE ConstantsAssumption
<1> SUFFICES ASSUME TypeOK, [Next]_vars PROVE TypeOK'
  OBVIOUS
<1> USE DEF retryVars, tokenVars, appVars, netVars
<1>1. ASSUME NEW c \in Req, Perform(c) PROVE TypeOK'
  <2>1. c \in Connection
    BY DEF Connection
  <2>2. req' \in [Req -> {"idle", "open", "closed", "cancelled"}] /\ calls' \in [Req -> Nat]
    BY <1>1 DEF Perform, TypeOK
  <2>3. CASE NeedsRefresh(token) /\ RefreshAndRetry({c}, conn)
    BY <1>1, <2>1, <2>2, <2>3, RefreshAndRetryType DEF Perform, TypeOK
  <2>4. CASE conn' = [conn EXCEPT ![c] = Launched(token.id)]
             /\ UNCHANGED <<context, waiting, authConnection, exception>>
    BY <1>1, <2>1, <2>2, <2>4, TokenIdType, LaunchedType DEF Perform, TypeOK
  <2> QED BY <1>1, <2>3, <2>4 DEF Perform
<1>2. ASSUME NEW c \in Req, Cancel(c) PROVE TypeOK'
  BY <1>2, StoppedType DEF Cancel, TypeOK, Connection
<1>3. ASSUME NEW c \in Req, FinishRequest(c) \/ NetworkFailure(c) PROVE TypeOK'
  <2>1. c \in Connection
    BY DEF Connection
  <2>2. /\ token' \in Token(issued) /\ issued' = issued
        /\ token'.id = 0 => token' = NoToken
    BY <1>3, NoTokenType DEF FinishRequest, NetworkFailure, TypeOK, TokenAfter
  <2>3. Complete(c)
    BY <1>3 DEF FinishRequest, NetworkFailure
  <2> QED BY <2>1, <2>2, <2>3, StoppedType DEF Complete, TypeOK
<1>4. CASE AppRefresh
  BY <1>4, RefreshAndRetryType DEF AppRefresh, TypeOK
<1>5. CASE Login
  <2>1. PICK t \in Free :
         /\ authConnection' = t
         /\ LET stopped == [k \in Connection |->
                              IF k = authConnection THEN Stopped ELSE conn[k]]
            IN \/ /\ ~NeedsRefresh(token)
                  /\ waiting' = waiting \ {authConnection}
                  /\ conn' = [stopped EXCEPT ![t] = Launched(token.id)]
                  /\ context' = [context EXCEPT ![t] = "request"]
               \/ /\ NeedsRefresh(token)
                  /\ waiting' = (waiting \ {authConnection}) \cup {t}
                  /\ \/ /\ authConnection # None
                        /\ conn' = stopped
                        /\ context' = [context EXCEPT ![t] = "request"]
                     \/ /\ authConnection = None
                        /\ \E r \in Free \ {t} :
                             /\ conn' = [conn EXCEPT ![r] = Launched(0)]
                             /\ context' = [context EXCEPT ![t] = "request",
                                                           ![r] = "refresh"]
    BY <1>5 DEF Login
  <2>2. Free \subseteq Auth /\ Free \subseteq Connection
    BY DEF Free, Connection
  <2>3. /\ Launched(0) \in [net : Net, sig : 0..issued]
        /\ Launched(token.id) \in [net : Net, sig : 0..issued]
    BY LaunchedType, TokenIdType DEF TypeOK
  <2>4. waiting' \subseteq Connection
    BY <2>1, <2>2 DEF TypeOK
  <2>5. context' \in [Auth -> {"request", "refresh"}]
    BY <2>1, <2>2 DEF TypeOK
  <2>6. conn' \in [Connection -> [net : Net, sig : 0..issued]]
    <3> DEFINE stopped == [k \in Connection |->
                              IF k = authConnection THEN Stopped ELSE conn[k]]
    <3>1. stopped \in [Connection -> [net : Net, sig : 0..issued]]
      BY StoppedType DEF TypeOK
    <3>2. \/ conn' = [stopped EXCEPT ![t] = Launched(token.id)]
          \/ conn' = stopped
          \/ \E r \in Free : conn' = [conn EXCEPT ![r] = Launched(0)]
      BY <2>1
    <3> HIDE DEF stopped
    <3> QED BY <2>2, <2>3, <3>1, <3>2 DEF TypeOK
  <2> QED BY <1>5, <2>1, <2>2, <2>4, <2>5, <2>6 DEF Login, TypeOK
<1>6. CASE LoginAssertionFails
  BY <1>6 DEF LoginAssertionFails, Raise, TypeOK
<1>7. CASE TokenExpires
  BY <1>7 DEF TokenExpires, TypeOK, Token, NoToken
<1>8. ASSUME NEW k \in Connection, ReceiveExpired(k) PROVE TypeOK'
  <2>1. [conn EXCEPT ![k] = Stopped] \in [Connection -> [net : Net, sig : 0..issued]]
    BY StoppedType DEF TypeOK
  <2> QED BY <1>8, <2>1, RefreshAndRetryType DEF ReceiveExpired, TypeOK
<1>9. ASSUME NEW k \in Connection, NEW r \in Replies, ReceiveResponse(k, r) PROVE TypeOK'
  BY <1>9 DEF ReceiveResponse, TypeOK, Net
<1>10. ASSUME NEW k \in Connection, NEW n \in {0, token.id}, Redirect(k, n) PROVE TypeOK'
  BY <1>10, TokenIdType DEF Redirect, TypeOK
<1>11. ASSUME NEW a \in Auth, AuthFinish(a) PROVE TypeOK'
  <2>1. PICK t \in Issuable : RetryWaiting(a, t)
    BY <1>11 DEF AuthFinish
  <2>2. issued' = issued + 1 /\ issued \in Nat
    BY <1>11 DEF AuthFinish, TypeOK
  <2>3. t \in Token(issued + 1) /\ t.id # 0
    BY <2>2 DEF TypeOK, Issuable, Token
  <2> QED BY <2>1, <2>2, <2>3, RetryWaitingType
<1>12. ASSUME NEW a \in Auth, AuthFinishMutates(a) PROVE TypeOK'
  BY <1>12 DEF AuthFinishMutates, Raise, TypeOK
<1>13. ASSUME NEW a \in Auth, AuthFinishNoToken(a) PROVE TypeOK'
  <2>1. CASE Raise("noToken") /\ UNCHANGED retryVars
    BY <2>1 DEF Raise, TypeOK
  <2>2. CASE RetryWaiting(a, NoToken) /\ UNCHANGED issued
    <3>1. issued \in Nat /\ issued' = issued /\ NoToken \in Token(issued)
      BY <2>2, NoTokenType DEF TypeOK
    <3> QED BY <2>2, <3>1, RetryWaitingType
  <2> QED BY <1>13, <2>1, <2>2 DEF AuthFinishNoToken
<1>14. ASSUME NEW a \in Auth, AuthRetryLater(a) PROVE TypeOK'
  <2>1. retryCount' \in 0..MaxRetries /\ timers' \in Nat
    BY <1>14 DEF AuthRetryLater, TypeOK
  <2>2. conn' \in [Connection -> [net : Net, sig : 0..issued]]
    BY <1>14, StoppedType DEF AuthRetryLater, TypeOK, Connection
  <2> QED BY <1>14, <2>1, <2>2 DEF AuthRetryLater, TypeOK
<1>15. ASSUME NEW a \in Auth, AuthFail(a) \/ AuthNetworkFailure(a) PROVE TypeOK'
  BY <1>15, GiveUpType DEF AuthFail, AuthNetworkFailure, TokenAfter
<1>16. ASSUME NEW a \in Auth, OrphanEnds(a) PROVE TypeOK'
  <2>1. /\ token' \in Token(issued) /\ issued' = issued
        /\ token'.id = 0 => token' = NoToken
    BY <1>16, NoTokenType DEF OrphanEnds, TypeOK, TokenAfter
  <2> QED BY <1>16, <2>1, StoppedType DEF OrphanEnds, TypeOK, Connection
<1>17. CASE TimerFires
  <2>1. timers' \in Nat /\ retryCount' = retryCount
    BY <1>17 DEF TimerFires, TypeOK
  <2>2. CASE RefreshAndRetry({}, conn) /\ UNCHANGED <<tokenVars, appVars, authenticating>>
    BY <2>1, <2>2, RefreshAndRetryType DEF TypeOK
  <2>3. CASE Raise("invalidState")
    BY <2>1, <2>3 DEF Raise, TypeOK
  <2> QED BY <1>17, <2>2, <2>3 DEF TimerFires
<1>18. CASE UNCHANGED vars
  BY <1>18 DEF vars, TypeOK
<1> QED
  BY <1>1, <1>2, <1>3, <1>4, <1>5, <1>6, <1>7, <1>8, <1>9, <1>10, <1>11, <1>12,
     <1>13, <1>14, <1>15, <1>16, <1>17, <1>18 DEF Next, Network, AuthStep

\* Type correctness of the client, its connections and its requests: in
\* particular the refresh retry counter never passes its limit.
THEOREM TypeCorrect == Spec => []TypeOK
<1>1. Init => TypeOK
  <2> SUFFICES ASSUME Init PROVE TypeOK
    OBVIOUS
  <2>1. issued \in Nat /\ token \in Token(issued) /\ (token.id = 0 => token = NoToken)
    BY NoTokenType DEF Init
  <2>2. conn \in [Connection -> [net : Net, sig : 0..issued]]
    BY <2>1, StoppedType DEF Init
  <2>3. 0 \in 0..MaxRetries
    BY ConstantsAssumption
  <2> QED BY <2>1, <2>2, <2>3 DEF Init, TypeOK
<1> QED BY <1>1, TypeStep, PTL DEF Spec

-----------------------------------------------------------------------------
(* Requests complete once                                                  *)

\* The connections' part of the type invariant.
LEMMA ConnType ==
    ASSUME TypeOK PROVE conn \in [Connection -> [net : Net, sig : 0..issued]]
BY DEF TypeOK

\* What queueing and refreshing does to the queue and to the wire.
LEMMA RefreshAndRetryEffect ==
    ASSUME TypeOK, NEW ks \in SUBSET Connection,
           NEW cn \in [Connection -> [net : Net, sig : 0..issued]],
           RefreshAndRetry(ks, cn)
    PROVE  /\ waiting' = waiting \cup ks
           /\ \A c \in Req : conn'[c] = cn[c]
           /\ \A k \in waiting \cup ks : conn'[k] = cn[k]
<1> USE ConstantsAssumption
<1>1. CASE authConnection # None
  BY <1>1 DEF RefreshAndRetry
<1>2. CASE authConnection = None
  <2>1. PICK a \in Free \ ks : conn' = [cn EXCEPT ![a] = Launched(0)]
    BY <1>2 DEF RefreshAndRetry
  <2>2. a \in Auth /\ a \notin waiting /\ a \notin ks
    BY DEF Free
  <2>3. \A k \in Connection : k # a => conn'[k] = cn[k]
    BY <2>1
  <2>4. waiting' = waiting \cup ks /\ waiting \subseteq Connection
    BY <1>2 DEF RefreshAndRetry, TypeOK
  <2> QED BY <2>2, <2>3, <2>4 DEF Connection
<1> QED BY <1>1, <1>2

\* A refresh on behalf of no connection leaves the queue and the requests alone.
LEMMA RefreshAloneEffect ==
    ASSUME TypeOK, RefreshAndRetry({}, conn)
    PROVE  /\ waiting' = waiting
           /\ \A c \in Req : conn'[c] = conn[c]
           /\ \A k \in waiting : conn'[k] = conn[k]
<1>1. waiting' = waiting \cup {} /\ \A k \in waiting \cup {} : conn'[k] = conn[k]
  BY ConnType, RefreshAndRetryEffect
<1>2. \A c \in Req : conn'[c] = conn[c]
  BY ConnType, RefreshAndRetryEffect
<1> QED BY <1>1, <1>2

\* What is left on the wire after the queue has been retried.
LEMMA RetryWaitingEffect ==
    ASSUME TypeOK, NEW a \in Auth, NEW t, RetryWaiting(a, t)
    PROVE  /\ waiting' = {} /\ UNCHANGED <<req, calls>>
           /\ \A c \in Req : conn'[c].net # "none" => c \in waiting \/ Live(c)
<1> USE ConstantsAssumption
<1>1. waiting' = {} /\ UNCHANGED <<req, calls>>
  BY DEF RetryWaiting, appVars
<1>2. ASSUME NEW c \in Req, c \notin waiting PROVE conn'[c] = conn[c]
  BY <1>2 DEF RetryWaiting, Requeued, Connection
<1> QED BY <1>1, <1>2 DEF Live

\* The inductive invariant: CompletesOnce needs that a queued connection is not
\* on the wire, or failing the queue could close a request that still gets an
\* answer.
RequestsSafe == QueuedIsStopped /\ CompletesOnce

\* Every step keeps RequestsSafe.
LEMMA RequestsStep == TypeOK /\ RequestsSafe /\ [Next]_vars => RequestsSafe'
<1> USE ConstantsAssumption
<1> SUFFICES ASSUME TypeOK, QueuedIsStopped, CompletesOnce, [Next]_vars
             PROVE  QueuedIsStopped' /\ CompletesOnce'
  BY DEF RequestsSafe
<1> USE DEF retryVars, tokenVars, appVars, netVars
<1>0. conn \in [Connection -> [net : Net, sig : 0..issued]] /\ waiting \subseteq Connection /\ Req \subseteq Connection
      /\ Auth \subseteq Connection /\ calls \in [Req -> Nat] /\ DOMAIN req = Req
  BY DEF TypeOK, Connection
<1>1. ASSUME NEW c \in Req, Perform(c) PROVE QueuedIsStopped' /\ CompletesOnce'
  <2>1. ~Live(c) /\ c \notin waiting
    BY <1>1 DEF Perform, CompletesOnce
  <2>2. /\ req' = [req EXCEPT ![c] = "open"] /\ calls' = [calls EXCEPT ![c] = 0]
    BY <1>1 DEF Perform
  <2>3. CASE RefreshAndRetry({c}, conn)
    <3>1. /\ waiting' = waiting \cup {c}
          /\ \A d \in Req : conn'[d] = conn[d]
          /\ \A k \in waiting \cup {c} : conn'[k] = conn[k]
      <4>1. {c} \in SUBSET Connection
        BY <1>0
      <4> QED BY <4>1, <2>3, ConnType, RefreshAndRetryEffect
    <3> QED BY <1>0, <2>1, <2>2, <3>1 DEF QueuedIsStopped, CompletesOnce, Live
  <2>4. CASE conn' = [conn EXCEPT ![c] = Launched(token.id)] /\ waiting' = waiting
    BY <1>0, <2>1, <2>2, <2>4 DEF QueuedIsStopped, CompletesOnce, Live
  <2> QED BY <1>1, <2>3, <2>4 DEF Perform
<1>2. ASSUME NEW c \in Req, Cancel(c) PROVE QueuedIsStopped' /\ CompletesOnce'
  BY <1>0, <1>2 DEF Cancel, Stopped, QueuedIsStopped, CompletesOnce, Live
<1>3. ASSUME NEW c \in Req, FinishRequest(c) \/ NetworkFailure(c)
      PROVE QueuedIsStopped' /\ CompletesOnce'
  <2>1. Live(c) /\ Complete(c)
    BY <1>3 DEF FinishRequest, NetworkFailure, Live, Replies
  <2>2. req[c] = "open" /\ calls[c] = 0 /\ c \notin waiting
    BY <2>1 DEF CompletesOnce, QueuedIsStopped
  <2>3. /\ conn' = [conn EXCEPT ![c] = Stopped] /\ waiting' = waiting
        /\ req' = [req EXCEPT ![c] = "closed"] /\ calls' = [calls EXCEPT ![c] = 1]
    BY <1>0, <2>1, <2>2 DEF Complete
  <2> QED BY <1>0, <2>2, <2>3 DEF Stopped, QueuedIsStopped, CompletesOnce, Live
<1>4. CASE AppRefresh
  <2>1. RefreshAndRetry({}, conn) /\ UNCHANGED <<req, calls>>
    BY <1>4 DEF AppRefresh
  <2>2. /\ waiting' = waiting
        /\ \A d \in Req : conn'[d] = conn[d]
        /\ \A k \in waiting : conn'[k] = conn[k]
    BY <2>1, RefreshAloneEffect
  <2> QED BY <2>1, <2>2 DEF QueuedIsStopped, CompletesOnce, Live
<1>5. CASE Login
  <2> DEFINE stopped == [k \in Connection |->
                              IF k = authConnection THEN Stopped ELSE conn[k]]
  <2>1. PICK t \in Free :
          \/ /\ waiting' = waiting \ {authConnection}
             /\ conn' = [stopped EXCEPT ![t] = Launched(token.id)]
          \/ /\ waiting' = (waiting \ {authConnection}) \cup {t}
             /\ \/ conn' = stopped
                \/ \E r \in Free \ {t} : conn' = [conn EXCEPT ![r] = Launched(0)]
    BY <1>5 DEF Login
  <2>2. UNCHANGED <<req, calls>>
    BY <1>5 DEF Login
  <2>3. \A r \in Free : r \in Auth /\ r \notin waiting /\ ~Live(r)
    BY DEF Free
  <2>4. \A k \in Connection : stopped[k] = IF k = authConnection THEN Stopped ELSE conn[k]
    OBVIOUS
  <2>5. DOMAIN stopped = Connection /\ DOMAIN conn = Connection
    BY ConnType
  <2> HIDE DEF stopped
  <2>6. ASSUME NEW c \in Req PROVE conn'[c] = conn[c]
    <3>1. c \in Connection /\ c \notin Auth /\ c # authConnection
      BY <1>0 DEF TypeOK
    <3> QED BY <2>1, <2>3, <2>4, <2>5, <3>1
  <2>7. ASSUME NEW k \in waiting' PROVE conn'[k].net = "none"
    <3>1. k \in Connection
      BY <1>0, <2>1, <2>3
    <3>2. k = t \/ k \in waiting \ {authConnection}
      BY <2>1
    <3>3. conn[k].net = "none" /\ Stopped.net = "none"
      BY <2>3, <3>2 DEF QueuedIsStopped, Live, Stopped
    <3> QED BY <2>1, <2>3, <2>4, <2>5, <3>1, <3>2, <3>3
  <2>8. \A c \in Req : c \in waiting' => c \in waiting
    BY <2>1, <2>3
  <2> QED BY <2>2, <2>6, <2>7, <2>8 DEF QueuedIsStopped, CompletesOnce, Live
<1>6. CASE LoginAssertionFails
  BY <1>6 DEF LoginAssertionFails, Raise, QueuedIsStopped, CompletesOnce, Live
<1>7. CASE TokenExpires
  BY <1>7 DEF TokenExpires, QueuedIsStopped, CompletesOnce, Live
<1>8. ASSUME NEW k \in Connection, ReceiveExpired(k) PROVE QueuedIsStopped' /\ CompletesOnce'
  <2> DEFINE cn == [conn EXCEPT ![k] = Stopped]
  <2>1. cn \in [Connection -> [net : Net, sig : 0..issued]]
    BY <1>0, StoppedType DEF TypeOK
  <2>2. RefreshAndRetry({k}, cn) /\ UNCHANGED <<req, calls>> /\ Live(k)
    BY <1>8 DEF ReceiveExpired, Live
  <2>3. /\ waiting' = waiting \cup {k}
        /\ \A d \in Req : conn'[d] = cn[d]
        /\ \A j \in waiting \cup {k} : conn'[j] = cn[j]
    <3>1. {k} \in SUBSET Connection
      OBVIOUS
    <3> HIDE DEF cn
    <3> QED BY <2>1, <2>2, <3>1, RefreshAndRetryEffect
  <2>4. \A j \in Connection : cn[j] = IF j = k THEN Stopped ELSE conn[j]
    BY <1>0
  <2> HIDE DEF cn
  <2> QED BY <1>0, <2>2, <2>3, <2>4 DEF QueuedIsStopped, CompletesOnce, Live, Stopped
<1>9. ASSUME NEW k \in Connection, NEW r \in Replies, ReceiveResponse(k, r)
      PROVE QueuedIsStopped' /\ CompletesOnce'
  BY <1>0, <1>9 DEF ReceiveResponse, QueuedIsStopped, CompletesOnce, Live
<1>10. ASSUME NEW k \in Connection, NEW n \in {0, token.id}, Redirect(k, n)
       PROVE QueuedIsStopped' /\ CompletesOnce'
  BY <1>0, <1>10 DEF Redirect, QueuedIsStopped, CompletesOnce, Live
<1>11. ASSUME NEW a \in Auth, NEW t, RetryWaiting(a, t)
       PROVE QueuedIsStopped' /\ CompletesOnce'
  BY <1>11, RetryWaitingEffect DEF QueuedIsStopped, CompletesOnce, Live
<1>12. ASSUME NEW a \in Auth, NEW x, Raise(x) PROVE QueuedIsStopped' /\ CompletesOnce'
  BY <1>12 DEF Raise, QueuedIsStopped, CompletesOnce, Live
<1>13. ASSUME NEW a \in Auth, AuthFinish(a) \/ AuthFinishMutates(a) \/ AuthFinishNoToken(a)
       PROVE QueuedIsStopped' /\ CompletesOnce'
  BY <1>11, <1>12, <1>13 DEF AuthFinish, AuthFinishMutates, AuthFinishNoToken
<1>14. ASSUME NEW a \in Auth, AuthRetryLater(a) PROVE QueuedIsStopped' /\ CompletesOnce'
  BY <1>0, <1>14 DEF AuthRetryLater, Stopped, QueuedIsStopped, CompletesOnce, Live
<1>15. ASSUME NEW a \in Auth, AuthFail(a) \/ AuthNetworkFailure(a)
       PROVE QueuedIsStopped' /\ CompletesOnce'
  <2>1. /\ conn' = [conn EXCEPT ![a] = Stopped] /\ calls' = calls
        /\ \/ waiting' = {} /\ req' = [c \in Req |-> IF c \in waiting THEN "closed" ELSE req[c]]
           \/ UNCHANGED <<waiting, req>>
    BY <1>15 DEF AuthFail, AuthNetworkFailure, GiveUp
  <2>2. \A c \in Req : conn'[c] = conn[c]
    BY <1>0, <2>1
  <2>3. \A k \in waiting' : conn'[k].net = "none"
    BY <1>0, <2>1 DEF QueuedIsStopped, Live, Stopped
  <2> QED BY <2>1, <2>2, <2>3 DEF QueuedIsStopped, CompletesOnce, Live
<1>16. ASSUME NEW a \in Auth, OrphanEnds(a) PROVE QueuedIsStopped' /\ CompletesOnce'
  BY <1>0, <1>16 DEF OrphanEnds, Stopped, QueuedIsStopped, CompletesOnce, Live
<1>17. CASE TimerFires
  <2>1. CASE RefreshAndRetry({}, conn) /\ UNCHANGED <<req, calls>>
    <3>1. /\ waiting' = waiting
          /\ \A d \in Req : conn'[d] = conn[d]
          /\ \A k \in waiting : conn'[k] = conn[k]
      BY <2>1, RefreshAloneEffect
    <3> QED BY <2>1, <3>1 DEF QueuedIsStopped, CompletesOnce, Live
  <2>2. CASE Raise("invalidState")
    BY <2>2 DEF Raise, QueuedIsStopped, CompletesOnce, Live
  <2> QED BY <1>17, <2>1, <2>2 DEF TimerFires
<1>18. CASE UNCHANGED vars
  BY <1>18 DEF vars, QueuedIsStopped, CompletesOnce, Live
<1> QED
  BY <1>1, <1>2, <1>3, <1>4, <1>5, <1>6, <1>7, <1>8, <1>9, <1>10, <1>13,
     <1>14, <1>15, <1>16, <1>17, <1>18 DEF Next, Network, AuthStep

\* Under any server, any use of the client and in both builds, a request
\* completes at most once and leaves nothing behind in the client's queue or
\* on the wire.
THEOREM RequestsCompleteOnce == Spec => [](QueuedIsStopped /\ CompletesOnce)
<1>1. Init => RequestsSafe
  BY DEF Init, RequestsSafe, QueuedIsStopped, CompletesOnce, Live, Stopped, Connection
<1>2. RequestsSafe => QueuedIsStopped /\ CompletesOnce
  BY DEF RequestsSafe
<1> QED BY <1>1, <1>2, RequestsStep, TypeCorrect, PTL DEF Spec

-----------------------------------------------------------------------------
(* Waiting connections have a server                                       *)

\* The inductive invariant behind WaitingHasServer and OneTokenExchange: only
\* requests queue, the token connection on the wire is the one the client
\* remembers, a pending client requests and an established one refreshes, and
\* nothing waits on a pending client.
ServerInv ==
    /\ waiting \subseteq Req
    /\ \A a \in Auth : Live(a) <=> a = authConnection
    /\ authConnection # None =>
          context[authConnection] = IF issued = 0 THEN "request" ELSE "refresh"
    /\ issued = 0 => waiting = {} /\ timers = 0 /\ token = NoToken
    /\ Running /\ waiting # {} => timers > 0 \/ authConnection # None

\* On an established client a refresh leaves exactly one token connection on
\* the wire, and the client remembers it.
LEMMA RefreshAndRetryServes ==
    ASSUME TypeOK, ServerInv, issued # 0, issued' = issued,
           NEW ks \in SUBSET Req,
           NEW cn \in [Connection -> [net : Net, sig : 0..issued]],
           \A a \in Auth : cn[a] = conn[a],
           RefreshAndRetry(ks, cn)
    PROVE  ServerInv'
<1> USE ConstantsAssumption
<1>1. CASE authConnection # None
  <2>1. /\ waiting' = waiting \cup ks /\ conn' = cn
        /\ UNCHANGED <<context, authConnection, exception>>
    BY <1>1 DEF RefreshAndRetry
  <2> QED BY <1>1, <2>1 DEF ServerInv, Live, Running
<1>2. CASE authConnection = None
  <2>1. PICK a \in Free \ ks :
             /\ authConnection' = a
             /\ context' = [context EXCEPT ![a] = "refresh"]
             /\ conn' = [cn EXCEPT ![a] = Launched(0)]
    BY <1>2 DEF RefreshAndRetry
  <2>2. a \in Auth /\ a # None /\ Auth \subseteq Connection
    BY DEF Free, Connection
  <2>3. ASSUME NEW b \in Auth PROVE conn'[b].net # "none" <=> b = a
    BY <1>2, <2>1, <2>2, <2>3 DEF ServerInv, Live, Launched
  <2>4. context'[a] = "refresh"
    BY <2>1, <2>2 DEF TypeOK
  <2>5. waiting' = waiting \cup ks
    BY <1>2 DEF RefreshAndRetry
  <2> QED BY <2>1, <2>2, <2>3, <2>4, <2>5 DEF ServerInv, Live, Running
<1> QED BY <1>1, <1>2

\* A raised exception changes nothing but the timer that raised it.
LEMMA RaiseServes ==
    ASSUME ServerInv, NEW x, x # "none", Raise(x), issued = 0 => timers' = timers
    PROVE  ServerInv'
BY DEF ServerInv, Raise, Live, Running, netVars, tokenVars

\* Retrying the queue empties it and lets go of the token connection.
LEMMA RetryWaitingServes ==
    ASSUME TypeOK, ServerInv, NEW t, RetryWaiting(authConnection, t),
           authConnection # None,
           issued' = 0 => issued = 0 /\ t = NoToken
    PROVE  ServerInv'
<1> USE ConstantsAssumption
<1>1. /\ waiting' = {} /\ authConnection' = None /\ token' = t
      /\ UNCHANGED <<context, timers>>
  BY DEF RetryWaiting
<1>2. ASSUME NEW a \in Auth PROVE conn'[a].net = "none"
  <2>1. a \notin waiting /\ a \in Connection
    BY DEF ServerInv, Connection
  <2>2. CASE a = authConnection
    BY <2>1, <2>2 DEF RetryWaiting, Stopped
  <2>3. CASE a # authConnection
    BY <2>1, <2>3 DEF RetryWaiting, Requeued, ServerInv, Live
  <2> QED BY <2>2, <2>3
<1> QED BY <1>1, <1>2 DEF ServerInv, Live

\* Every step keeps ServerInv when the application logs in on pending clients
\* only and the token endpoint does not speak of expired access tokens.
LEMMA ServerStep ==
    ASSUME ~Relogin, "expired" \notin AuthReplies
    PROVE  TypeOK /\ ServerInv /\ [Next]_vars => ServerInv'
<1> USE ConstantsAssumption
<1> SUFFICES ASSUME TypeOK, ServerInv, [Next]_vars PROVE ServerInv'
  OBVIOUS
<1> USE DEF retryVars, tokenVars, appVars, netVars
<1>0. /\ Req \subseteq Connection /\ Auth \subseteq Connection
      /\ \A c \in Req : c \notin Auth
  BY DEF Connection
<1>1. ASSUME NEW c \in Req, Perform(c) PROVE ServerInv'
  <2>1. CASE NeedsRefresh(token) /\ RefreshAndRetry({c}, conn)
    <3>1. issued # 0 /\ issued' = issued
      BY <1>1, <2>1 DEF ServerInv, NeedsRefresh, NoToken, Perform
    <3>2. {c} \in SUBSET Req
      OBVIOUS
    <3> QED BY <2>1, <3>1, <3>2, ConnType, RefreshAndRetryServes
  <2>2. CASE /\ conn' = [conn EXCEPT ![c] = Launched(token.id)]
             /\ UNCHANGED <<context, waiting, authConnection, exception>>
    <3>1. \A a \in Auth : conn'[a] = conn[a]
      BY <1>0, <2>2, ConnType
    <3> QED BY <1>1, <2>2, <3>1 DEF Perform, ServerInv, Live, Running
  <2> QED BY <1>1, <2>1, <2>2 DEF Perform
<1>2. ASSUME NEW c \in Req, Cancel(c) PROVE ServerInv'
  <2>1. \A a \in Auth : conn'[a] = conn[a]
    BY <1>0, <1>2, ConnType DEF Cancel
  <2> QED BY <1>2, <2>1 DEF Cancel, ServerInv, Live, Running
<1>3. ASSUME NEW c \in Req, FinishRequest(c) \/ NetworkFailure(c) PROVE ServerInv'
  <2>1. Complete(c) /\ issued' = issued /\ token' \in {token, NoToken}
    BY <1>3 DEF FinishRequest, NetworkFailure, TokenAfter
  <2>2. \A a \in Auth : conn'[a] = conn[a]
    BY <1>0, <2>1, ConnType DEF Complete
  <2> QED BY <2>1, <2>2 DEF Complete, ServerInv, Live, Running
<1>4. CASE AppRefresh
  <2>1. issued # 0 /\ issued' = issued /\ RefreshAndRetry({}, conn)
    BY <1>4 DEF AppRefresh, ServerInv, NoToken
  <2> QED BY <2>1, ConnType, RefreshAndRetryServes
<1>5. CASE Login
  <2> DEFINE stopped == [k \in Connection |->
                              IF k = authConnection THEN Stopped ELSE conn[k]]
  <2>1. issued = 0 /\ waiting = {} /\ timers = 0 /\ ~NeedsRefresh(token)
    BY <1>5 DEF Login, ServerInv, NeedsRefresh, NoToken
  <2>2. PICK t \in Free :
          /\ authConnection' = t
          /\ waiting' = waiting \ {authConnection}
          /\ conn' = [stopped EXCEPT ![t] = Launched(token.id)]
          /\ context' = [context EXCEPT ![t] = "request"]
    BY <1>5, <2>1 DEF Login
  <2>3. t \in Auth /\ DOMAIN stopped = Connection
    BY DEF Free
  <2>4. ASSUME NEW a \in Auth PROVE conn'[a].net # "none" <=> a = t
    <3>1. a # t => stopped[a].net = "none"
      BY <1>0 DEF ServerInv, Live, Stopped
    <3> HIDE DEF stopped
    <3> QED BY <1>0, <2>2, <2>3, <3>1 DEF Launched
  <2>5. context'[t] = "request"
    BY <2>2, <2>3 DEF TypeOK
  <2>6. UNCHANGED <<issued, token, timers>>
    BY <1>5 DEF Login
  <2> QED BY <2>1, <2>2, <2>3, <2>4, <2>5, <2>6 DEF ServerInv, Live
<1>6. CASE LoginAssertionFails
  BY <1>6, RaiseServes DEF LoginAssertionFails
<1>7. CASE TokenExpires
  BY <1>7 DEF TokenExpires, ServerInv, Live, Running, NoToken
<1>8. ASSUME NEW k \in Connection, ReceiveExpired(k) PROVE ServerInv'
  <2> DEFINE cn == [conn EXCEPT ![k] = Stopped]
  <2>1. k \in Req
    BY <1>8 DEF ReceiveExpired, Connection
  <2>2. issued # 0 /\ issued' = issued /\ RefreshAndRetry({k}, cn)
    BY <1>8 DEF ReceiveExpired, ServerInv, NoToken
  <2>3. /\ cn \in [Connection -> [net : Net, sig : 0..issued]]
        /\ \A a \in Auth : cn[a] = conn[a]
    BY <1>0, <2>1, ConnType, StoppedType DEF TypeOK
  <2>4. {k} \in SUBSET Req
    BY <2>1
  <2> HIDE DEF cn
  <2> QED BY <2>2, <2>3, <2>4, RefreshAndRetryServes
<1>9. ASSUME NEW k \in Connection, NEW r \in Replies, ReceiveResponse(k, r) PROVE ServerInv'
  <2>1. \A a \in Auth : conn'[a].net # "none" <=> conn[a].net # "none"
    BY <1>0, <1>9, ConnType DEF ReceiveResponse, Replies
  <2> QED BY <1>9, <2>1 DEF ReceiveResponse, ServerInv, Live, Running
<1>10. ASSUME NEW k \in Connection, NEW n \in {0, token.id}, Redirect(k, n) PROVE ServerInv'
  <2>1. \A a \in Auth : conn'[a].net = conn[a].net
    BY <1>0, <1>10, ConnType DEF Redirect
  <2> QED BY <1>10, <2>1 DEF Redirect, ServerInv, Live, Running
<1>11. ASSUME NEW a \in Auth, AuthFinish(a) PROVE ServerInv'
  <2>1. PICK t \in Issuable : RetryWaiting(authConnection, t)
    BY <1>11 DEF AuthFinish
  <2>2. issued' # 0 /\ authConnection # None
    BY <1>11 DEF AuthFinish, TypeOK
  <2> QED BY <2>1, <2>2, RetryWaitingServes
<1>12. ASSUME NEW a \in Auth, AuthFinishMutates(a) PROVE ServerInv'
  BY <1>12, RaiseServes DEF AuthFinishMutates
<1>13. ASSUME NEW a \in Auth, AuthFinishNoToken(a) PROVE ServerInv'
  <2>1. CASE Raise("noToken") /\ UNCHANGED retryVars
    BY <2>1, RaiseServes
  <2>2. CASE RetryWaiting(a, NoToken) /\ UNCHANGED issued
    BY <1>13, <2>2, RetryWaitingServes DEF AuthFinishNoToken
  <2> QED BY <1>13, <2>1, <2>2 DEF AuthFinishNoToken
<1>14. ASSUME NEW a \in Auth, AuthRetryLater(a) PROVE ServerInv'
  <2>1. a = authConnection /\ issued # 0
    BY <1>14 DEF AuthRetryLater, ServerInv
  <2>2. \A b \in Auth : conn'[b].net = "none"
    BY <1>0, <1>14, <2>1, ConnType DEF AuthRetryLater, ServerInv, Live, Stopped
  <2>3. timers' > 0
    BY <1>14 DEF AuthRetryLater, TypeOK
  <2> QED BY <1>14, <2>1, <2>2, <2>3 DEF AuthRetryLater, ServerInv, Live, Running
<1>15. ASSUME NEW a \in Auth, AuthFail(a) \/ AuthNetworkFailure(a) PROVE ServerInv'
  <2>1. /\ a = authConnection /\ authConnection' = None
        /\ conn' = [conn EXCEPT ![a] = Stopped]
        /\ waiting' = {} \/ (context[a] = "request" /\ waiting' = waiting)
        /\ token' \in {token, NoToken}
        /\ UNCHANGED <<issued, timers>>
    BY <1>15 DEF AuthFail, AuthNetworkFailure, GiveUp, TokenAfter
  <2>2. \A b \in Auth : conn'[b].net = "none"
    BY <1>0, <2>1, ConnType DEF ServerInv, Live, Stopped
  <2>3. waiting' = {}
    BY <2>1 DEF ServerInv
  <2> QED BY <2>1, <2>2, <2>3 DEF ServerInv, Live
<1>16. ASSUME NEW a \in Auth, OrphanEnds(a) PROVE ServerInv'
  BY <1>16 DEF OrphanEnds, ServerInv
<1>17. CASE TimerFires
  <2>1. issued # 0
    BY <1>17 DEF TimerFires, ServerInv
  <2>2. CASE RefreshAndRetry({}, conn) /\ UNCHANGED <<tokenVars, appVars, authenticating>>
    BY <2>1, <2>2, ConnType, RefreshAndRetryServes
  <2>3. CASE Raise("invalidState")
    BY <2>1, <2>3, RaiseServes
  <2> QED BY <1>17, <2>2, <2>3 DEF TimerFires
<1>18. CASE UNCHANGED vars
  BY <1>18 DEF vars, ServerInv, Live, Running
<1> QED
  BY <1>1, <1>2, <1>3, <1>4, <1>5, <1>6, <1>7, <1>8, <1>9, <1>10, <1>11, <1>12,
     <1>13, <1>14, <1>15, <1>16, <1>17, <1>18 DEF Next, Network, AuthStep

\* As long as the application logs in on pending clients only and the token
\* endpoint never answers with expired_token, connections in the waiting queue
\* always have a refresh on the wire or a pending retry, and there is never
\* more than one token exchange.
THEOREM WaitingAlwaysHasServer ==
    ASSUME ~Relogin, "expired" \notin AuthReplies
    PROVE  Spec => [](WaitingHasServer /\ OneTokenExchange)
<1>1. Init => ServerInv
  BY ConstantsAssumption DEF Init, ServerInv, Live, Stopped, Connection
<1>2. TypeOK /\ ServerInv => WaitingHasServer /\ OneTokenExchange
  BY DEF ServerInv, WaitingHasServer, OneTokenExchange, TypeOK
<1>3. TypeOK /\ ServerInv /\ [Next]_vars => ServerInv'
  BY ServerStep
<1> QED BY <1>1, <1>2, <1>3, TypeCorrect, PTL DEF Spec

\* However many connections find the token expired, one token exchange is on
\* the wire at a time (under the same two conditions).
THEOREM TokenExchangesAreSingle ==
    ASSUME ~Relogin, "expired" \notin AuthReplies
    PROVE  Spec => []OneTokenExchange
<1>1. Spec => [](WaitingHasServer /\ OneTokenExchange)
  BY WaitingAlwaysHasServer
<1> QED BY <1>1, PTL

\* Under any server and any use of the client, a connection that waits for
\* authorisation is not on the wire.
THEOREM QueuedAreStopped == Spec => []QueuedIsStopped
BY RequestsCompleteOnce, PTL

-----------------------------------------------------------------------------
(* No request is forgotten                                                 *)

\* A token that is still valid when it arrives sends nothing back to the queue.
LEMMA NothingRequeued ==
    ASSUME NEW t, t.expiry # "passed" PROVE Requeued(t) = {}
BY DEF Requeued, NeedsRefresh

\* Where a retry takes the requests that waited.
LEMMA RetryWaitingLaunches ==
    ASSUME TypeOK, NEW a \in Auth, NEW t, RetryWaiting(a, t), NEW c \in Req
    PROVE  /\ c \notin waiting => conn'[c] = conn[c]
           /\ c \in Requeued(t) => conn'[c] = Stopped
           /\ c \in waiting \ Requeued(t) => conn'[c] = Launched(t.id)
<1>1. c # a /\ c \in Connection /\ ~IsRefresh(c)
  BY ConstantsAssumption DEF IsRefresh, Connection
<1>2. Requeued(t) \subseteq waiting
  BY DEF Requeued
<1>3. conn' = [k \in Connection |->
                CASE k = a -> Stopped
                  [] k \in Requeued(t) -> Stopped
                  [] k \in waiting \ Requeued(t) -> Launched(IF IsRefresh(k) THEN 0 ELSE t.id)
                  [] OTHER -> conn[k]]
  BY DEF RetryWaiting
<1>4. conn'[c] = CASE c = a -> Stopped
                   [] c \in Requeued(t) -> Stopped
                   [] c \in waiting \ Requeued(t) -> Launched(IF IsRefresh(c) THEN 0 ELSE t.id)
                   [] OTHER -> conn[c]
  BY <1>1, <1>3
<1> QED BY <1>1, <1>2, <1>4

\* Every step keeps NothingForgotten when tokens are valid on arrival.
LEMMA ForgottenStep ==
    ASSUME "passed" \notin IssuedExpiry
    PROVE  TypeOK /\ NothingForgotten /\ [Next]_vars => NothingForgotten'
<1> USE ConstantsAssumption
<1> SUFFICES ASSUME TypeOK, NothingForgotten, [Next]_vars PROVE NothingForgotten'
  OBVIOUS
<1> USE DEF retryVars, tokenVars, appVars, netVars
<1>0. /\ conn \in [Connection -> [net : Net, sig : 0..issued]]
      /\ Req \subseteq Connection /\ Auth \subseteq Connection
      /\ DOMAIN req = Req /\ \A c \in Req : c \notin Auth /\ c # authConnection
  BY DEF TypeOK, Connection
<1>1. ASSUME NEW c \in Req, Perform(c) PROVE NothingForgotten'
  <2>1. Running /\ req' = [req EXCEPT ![c] = "open"]
    BY <1>1 DEF Perform
  <2>2. CASE RefreshAndRetry({c}, conn)
    <3>1. {c} \in SUBSET Connection
      BY <1>0
    <3>2. waiting' = waiting \cup {c} /\ \A d \in Req : conn'[d] = conn[d]
      BY <2>2, <3>1, ConnType, RefreshAndRetryEffect
    <3> QED BY <1>0, <2>1, <3>2 DEF NothingForgotten, Live
  <2>3. CASE conn' = [conn EXCEPT ![c] = Launched(token.id)] /\ waiting' = waiting
    BY <1>0, <2>1, <2>3 DEF NothingForgotten, Live, Launched
  <2> QED BY <1>1, <2>2, <2>3 DEF Perform
<1>2. ASSUME NEW c \in Req, Cancel(c) PROVE NothingForgotten'
  BY <1>0, <1>2 DEF Cancel, NothingForgotten, Live
<1>3. ASSUME NEW c \in Req, FinishRequest(c) \/ NetworkFailure(c) PROVE NothingForgotten'
  BY <1>0, <1>3 DEF FinishRequest, NetworkFailure, Complete, NothingForgotten, Live
<1>4. CASE AppRefresh
  <2>1. Running /\ RefreshAndRetry({}, conn) /\ req' = req
    BY <1>4 DEF AppRefresh
  <2>2. waiting' = waiting /\ \A d \in Req : conn'[d] = conn[d]
    BY <2>1, RefreshAloneEffect
  <2> QED BY <2>1, <2>2 DEF NothingForgotten, Live
<1>5. CASE Login
  <2> DEFINE stopped == [k \in Connection |->
                              IF k = authConnection THEN Stopped ELSE conn[k]]
  <2>1. PICK t \in Free :
          /\ waiting \ {authConnection} \subseteq waiting'
          /\ \/ conn' = [stopped EXCEPT ![t] = Launched(token.id)]
             \/ conn' = stopped
             \/ \E r \in Free : conn' = [conn EXCEPT ![r] = Launched(0)]
    BY <1>5 DEF Login
  <2>2. Running /\ req' = req /\ Free \subseteq Auth
    BY <1>5 DEF Login, Free
  <2>3. ASSUME NEW c \in Req PROVE conn'[c] = conn[c]
    <3>1. stopped[c] = conn[c] /\ DOMAIN stopped = Connection
      BY <1>0
    <3> HIDE DEF stopped
    <3> QED BY <1>0, <2>1, <2>2, <3>1
  <2> QED BY <1>0, <2>1, <2>2, <2>3 DEF NothingForgotten, Live
<1>6. ASSUME NEW x, x # "none", Raise(x) PROVE NothingForgotten'
  BY <1>6 DEF Raise, NothingForgotten, Running
<1>7. CASE TokenExpires
  BY <1>7 DEF TokenExpires, NothingForgotten, Live, Running
<1>8. ASSUME NEW k \in Connection, ReceiveExpired(k) PROVE NothingForgotten'
  <2> DEFINE cn == [conn EXCEPT ![k] = Stopped]
  <2>1. cn \in [Connection -> [net : Net, sig : 0..issued]]
    BY <1>0, StoppedType DEF TypeOK
  <2>2. Running /\ RefreshAndRetry({k}, cn) /\ req' = req
    BY <1>8 DEF ReceiveExpired
  <2>3. \A j \in Connection : j # k => cn[j] = conn[j]
    BY <1>0
  <2> HIDE DEF cn
  <2>4. {k} \in SUBSET Connection
    OBVIOUS
  <2>5. waiting' = waiting \cup {k} /\ \A d \in Req : conn'[d] = cn[d]
    BY <2>1, <2>2, <2>4, RefreshAndRetryEffect
  <2> QED BY <1>0, <2>2, <2>3, <2>5 DEF NothingForgotten, Live
<1>9. ASSUME NEW k \in Connection, NEW r \in Replies, ReceiveResponse(k, r)
      PROVE  NothingForgotten'
  BY <1>0, <1>9 DEF ReceiveResponse, NothingForgotten, Live, Replies, Running
<1>10. ASSUME NEW k \in Connection, NEW n \in {0, token.id}, Redirect(k, n)
       PROVE  NothingForgotten'
  BY <1>0, <1>10 DEF Redirect, NothingForgotten, Live, Running
<1>11. ASSUME NEW a \in Auth, NEW t, t.expiry # "passed", RetryWaiting(a, t), Running
       PROVE  NothingForgotten'
  <2>1. \A c \in Req : /\ c \notin waiting => conn'[c] = conn[c]
                       /\ c \in waiting => conn'[c] = Launched(t.id)
    BY <1>11, NothingRequeued, RetryWaitingLaunches
  <2>2. req' = req /\ Launched(t.id).net # "none"
    BY <1>11 DEF RetryWaiting, Launched
  <2> QED BY <1>11, <2>1, <2>2 DEF NothingForgotten, Live
<1>12. ASSUME NEW a \in Auth, AuthFinish(a) PROVE NothingForgotten'
  <2>1. PICK t \in Issuable : RetryWaiting(a, t)
    BY <1>12 DEF AuthFinish
  <2>2. t.expiry # "passed"
    BY DEF Issuable
  <2> QED BY <1>11, <1>12, <2>1, <2>2 DEF AuthFinish
<1>13. ASSUME NEW a \in Auth, AuthFinishNoToken(a) PROVE NothingForgotten'
  <2>1. NoToken.expiry # "passed" /\ Running
    BY <1>13 DEF NoToken, AuthFinishNoToken
  <2> QED BY <1>6, <1>11, <1>13, <2>1 DEF AuthFinishNoToken
<1>14. ASSUME NEW a \in Auth, AuthRetryLater(a) PROVE NothingForgotten'
  BY <1>0, <1>14 DEF AuthRetryLater, NothingForgotten, Live, Running
<1>15. ASSUME NEW a \in Auth, AuthFail(a) \/ AuthNetworkFailure(a) PROVE NothingForgotten'
  <2>1. /\ conn' = [conn EXCEPT ![a] = Stopped] /\ Running
        /\ \/ waiting' = {} /\ req' = [c \in Req |-> IF c \in waiting THEN "closed" ELSE req[c]]
           \/ UNCHANGED <<waiting, req>>
    BY <1>15 DEF AuthFail, AuthNetworkFailure, GiveUp
  <2>2. \A c \in Req : conn'[c] = conn[c]
    BY <1>0, <2>1
  <2> QED BY <2>1, <2>2 DEF NothingForgotten, Live
<1>16. ASSUME NEW a \in Auth, OrphanEnds(a) PROVE NothingForgotten'
  BY <1>0, <1>16 DEF OrphanEnds, NothingForgotten, Live, Running
<1>17. CASE TimerFires
  <2>1. CASE RefreshAndRetry({}, conn) /\ UNCHANGED <<tokenVars, appVars, authenticating>>
    <3>1. Running /\ req' = req
      BY <1>17, <2>1 DEF TimerFires
    <3>2. waiting' = waiting /\ \A d \in Req : conn'[d] = conn[d]
      BY <2>1, RefreshAloneEffect
    <3> QED BY <3>1, <3>2 DEF NothingForgotten, Live
  <2>2. CASE Raise("invalidState")
    BY <1>6, <2>2
  <2> QED BY <1>17, <2>1, <2>2 DEF TimerFires
<1>18. CASE LoginAssertionFails \/ \E a \in Auth : AuthFinishMutates(a)
  BY <1>6, <1>18 DEF LoginAssertionFails, AuthFinishMutates
<1>19. CASE UNCHANGED vars
  BY <1>19 DEF vars, NothingForgotten, Live, Running
<1> QED
  BY <1>1, <1>2, <1>3, <1>4, <1>5, <1>7, <1>8, <1>9, <1>10, <1>12, <1>13, <1>14,
     <1>15, <1>16, <1>17, <1>18, <1>19 DEF Next, Network, AuthStep

\* When the tokens a server issues are valid on arrival, a request that is
\* neither answered nor cancelled is on the wire or in waitingConnections,
\* however often the client is logged in again and whatever the endpoint says.
THEOREM NoRequestIsForgotten ==
    ASSUME "passed" \notin IssuedExpiry
    PROVE  Spec => []NothingForgotten
<1>1. Init => NothingForgotten
  BY DEF Init, NothingForgotten
<1>2. TypeOK /\ NothingForgotten /\ [Next]_vars => NothingForgotten'
  BY ForgottenStep
<1> QED BY <1>1, <1>2, TypeCorrect, PTL DEF Spec

-----------------------------------------------------------------------------
(* isAuthenticating                                                        *)

\* A refresh started for anyone leaves isAuthenticating accurate.
LEMMA RefreshAndRetryAccurate ==
    ASSUME TypeOK, AuthenticatingIsAccurate, Running, NEW ks, NEW cn,
           RefreshAndRetry(ks, cn), authenticating' = authenticating
    PROVE  AuthenticatingIsAccurate'
<1> USE ConstantsAssumption
<1>1. CASE authConnection # None
  BY <1>1 DEF RefreshAndRetry, AuthenticatingIsAccurate
<1>2. CASE authConnection = None
  <2>1. PICK a \in Free : /\ authConnection' = a
                          /\ context' = [context EXCEPT ![a] = "refresh"]
    BY <1>2 DEF RefreshAndRetry
  <2>2. context'[a] = "refresh"
    BY <2>1 DEF TypeOK, Free
  <2>3. ~authenticating
    BY <1>2 DEF AuthenticatingIsAccurate
  <2> QED BY <2>1, <2>2, <2>3 DEF AuthenticatingIsAccurate
<1> QED BY <1>1, <1>2

\* Every step keeps AuthenticatingIsAccurate.
LEMMA AuthenticatingStep ==
    TypeOK /\ AuthenticatingIsAccurate /\ [Next]_vars => AuthenticatingIsAccurate'
<1> USE ConstantsAssumption
<1> SUFFICES ASSUME TypeOK, AuthenticatingIsAccurate, [Next]_vars
             PROVE  AuthenticatingIsAccurate'
  OBVIOUS
<1> USE DEF retryVars, tokenVars, appVars, netVars
<1>1. ASSUME UNCHANGED <<context, authConnection, authenticating, exception>>
      PROVE  AuthenticatingIsAccurate'
  BY <1>1 DEF AuthenticatingIsAccurate, Running
<1>2. ASSUME authenticating' = FALSE, authConnection' = None
      PROVE  AuthenticatingIsAccurate'
  BY <1>2 DEF AuthenticatingIsAccurate
<1>3. ASSUME NEW x, x # "none", Raise(x) PROVE AuthenticatingIsAccurate'
  BY <1>3 DEF Raise, AuthenticatingIsAccurate, Running
<1>4. ASSUME NEW c \in Req, Perform(c) PROVE AuthenticatingIsAccurate'
  <2>1. CASE RefreshAndRetry({c}, conn)
    BY <1>4, <2>1, RefreshAndRetryAccurate DEF Perform
  <2>2. CASE ~RefreshAndRetry({c}, conn)
    BY <1>1, <1>4, <2>2 DEF Perform
  <2> QED BY <2>1, <2>2
<1>5. ASSUME NEW c \in Req, Cancel(c) \/ FinishRequest(c) \/ NetworkFailure(c)
      PROVE  AuthenticatingIsAccurate'
  BY <1>1, <1>5 DEF Cancel, FinishRequest, NetworkFailure, Complete
<1>6. CASE AppRefresh
  BY <1>6, RefreshAndRetryAccurate DEF AppRefresh
<1>7. CASE Login
  <2>1. PICK t \in Free :
          /\ authConnection' = t
          /\ \/ context' = [context EXCEPT ![t] = "request"]
             \/ \E r \in Free \ {t} :
                  context' = [context EXCEPT ![t] = "request", ![r] = "refresh"]
    BY <1>7 DEF Login
  <2>2. Free \subseteq Auth /\ authenticating' = TRUE
    BY <1>7 DEF Free, Login
  <2>3. context'[t] = "request"
    BY <2>1, <2>2 DEF TypeOK
  <2> QED BY <2>1, <2>2, <2>3 DEF AuthenticatingIsAccurate
<1>8. CASE LoginAssertionFails \/ \E a \in Auth : AuthFinishMutates(a)
  BY <1>3, <1>8 DEF LoginAssertionFails, AuthFinishMutates
<1>9. CASE TokenExpires
  BY <1>1, <1>9 DEF TokenExpires
<1>10. ASSUME NEW k \in Connection, ReceiveExpired(k) PROVE AuthenticatingIsAccurate'
  BY <1>10, RefreshAndRetryAccurate DEF ReceiveExpired
<1>11. ASSUME NEW k \in Connection, NEW r, ReceiveResponse(k, r) \/ Redirect(k, r)
       PROVE  AuthenticatingIsAccurate'
  BY <1>1, <1>11 DEF ReceiveResponse, Redirect
<1>12. ASSUME NEW a \in Auth, AuthFinish(a) \/ AuthFinishNoToken(a)
       PROVE  AuthenticatingIsAccurate'
  BY <1>2, <1>3, <1>12 DEF AuthFinish, AuthFinishNoToken, RetryWaiting
<1>13. ASSUME NEW a \in Auth, AuthRetryLater(a) PROVE AuthenticatingIsAccurate'
  BY <1>2, <1>13 DEF AuthRetryLater
<1>14. ASSUME NEW a \in Auth, AuthFail(a) \/ AuthNetworkFailure(a)
       PROVE  AuthenticatingIsAccurate'
  BY <1>2, <1>14 DEF AuthFail, AuthNetworkFailure, GiveUp
<1>15. ASSUME NEW a \in Auth, OrphanEnds(a) PROVE AuthenticatingIsAccurate'
  BY <1>1, <1>15 DEF OrphanEnds
<1>16. CASE TimerFires
  BY <1>3, <1>16, RefreshAndRetryAccurate DEF TimerFires
<1>17. CASE UNCHANGED vars
  BY <1>1, <1>17 DEF vars
<1> QED
  BY <1>4, <1>5, <1>6, <1>7, <1>8, <1>9, <1>10, <1>11, <1>12, <1>13, <1>14, <1>15,
     <1>16, <1>17 DEF Next, Network, AuthStep

\* Under any server and any use of the client, isAuthenticating says exactly
\* that a token request of the application, and no refresh, is under way.
THEOREM AuthenticatingAccurately == Spec => []AuthenticatingIsAccurate
<1>1. Init => AuthenticatingIsAccurate
  BY DEF Init, AuthenticatingIsAccurate
<1> QED BY <1>1, AuthenticatingStep, TypeCorrect, PTL DEF Spec

-----------------------------------------------------------------------------
(* Which token signs a retried request                                     *)

\* What RetriedWithNewToken says of one step.
RetriesWithNewToken ==
    \A c \in Req : c \in waiting /\ conn'[c].net = "sent" => conn'[c].sig = token'.id

\* A step that leaves a queued connection alone does not put it on the wire,
\* because it is not there before; the others are performances, for which no
\* request is queued, and retries.
LEMMA RetriedStep == TypeOK /\ RequestsSafe /\ [Next]_vars => [RetriesWithNewToken]_vars
<1> USE ConstantsAssumption
<1> SUFFICES ASSUME TypeOK, QueuedIsStopped, CompletesOnce, Next,
                    NEW c \in Req, c \in waiting, conn'[c].net = "sent"
             PROVE  conn'[c].sig = token'.id
  BY DEF RequestsSafe, RetriesWithNewToken
<1> USE DEF retryVars, tokenVars, appVars, netVars
<1>0. /\ conn \in [Connection -> [net : Net, sig : 0..issued]]
      /\ Req \subseteq Connection /\ Auth \subseteq Connection
      /\ c \notin Auth /\ c # authConnection /\ c \in Connection
      /\ req[c] = "open" /\ conn[c].net = "none"
  BY DEF TypeOK, Connection, CompletesOnce, QueuedIsStopped, Live
<1>1. ASSUME conn'[c] = conn[c] \/ conn'[c] = Stopped PROVE FALSE
  BY <1>0, <1>1 DEF Stopped
<1>2. ASSUME NEW d \in Req, Perform(d) PROVE FALSE
  <2>1. c # d
    BY <1>0, <1>2 DEF Perform
  <2>2. CASE RefreshAndRetry({d}, conn)
    <3>1. {d} \in SUBSET Connection
      BY <1>0
    <3> QED BY <1>1, <2>2, <3>1, ConnType, RefreshAndRetryEffect
  <2>3. CASE conn' = [conn EXCEPT ![d] = Launched(token.id)]
    BY <1>0, <1>1, <2>1, <2>3
  <2> QED BY <1>2, <2>2, <2>3 DEF Perform
<1>3. ASSUME NEW d \in Req, Cancel(d) \/ FinishRequest(d) \/ NetworkFailure(d) PROVE FALSE
  BY <1>0, <1>1, <1>3 DEF Cancel, FinishRequest, NetworkFailure, Complete
<1>4. CASE AppRefresh
  BY <1>1, <1>4, RefreshAloneEffect DEF AppRefresh
<1>5. CASE Login
  <2> DEFINE stopped == [k \in Connection |->
                              IF k = authConnection THEN Stopped ELSE conn[k]]
  <2>1. PICK t \in Free :
          \/ conn' = [stopped EXCEPT ![t] = Launched(token.id)]
          \/ conn' = stopped
          \/ \E r \in Free : conn' = [conn EXCEPT ![r] = Launched(0)]
    BY <1>5 DEF Login
  <2>2. Free \subseteq Auth /\ stopped[c] = conn[c] /\ DOMAIN stopped = Connection
    BY <1>0 DEF Free
  <2> HIDE DEF stopped
  <2> QED BY <1>0, <1>1, <2>1, <2>2
<1>6. CASE LoginAssertionFails \/ TokenExpires
  BY <1>1, <1>6 DEF LoginAssertionFails, TokenExpires, Raise
<1>7. ASSUME NEW k \in Connection, ReceiveExpired(k) PROVE FALSE
  <2> DEFINE cn == [conn EXCEPT ![k] = Stopped]
  <2>1. cn \in [Connection -> [net : Net, sig : 0..issued]]
    BY <1>0, StoppedType DEF TypeOK
  <2>2. cn[c] \in {conn[c], Stopped} /\ RefreshAndRetry({k}, cn)
    BY <1>0, <1>7 DEF ReceiveExpired
  <2> HIDE DEF cn
  <2>3. {k} \in SUBSET Connection
    OBVIOUS
  <2> QED BY <1>1, <2>1, <2>2, <2>3, RefreshAndRetryEffect
<1>8. ASSUME NEW k \in Connection, NEW r, ReceiveResponse(k, r) \/ Redirect(k, r) PROVE FALSE
  BY <1>0, <1>1, <1>8 DEF ReceiveResponse, Redirect
<1>9. ASSUME NEW a \in Auth, NEW t, RetryWaiting(a, t) PROVE conn'[c].sig = token'.id
  <2>1. conn'[c] = Stopped \/ conn'[c] = Launched(t.id)
    BY <1>9, RetryWaitingLaunches
  <2> QED BY <1>1, <1>9, <2>1 DEF RetryWaiting, Launched
<1>10. ASSUME NEW a \in Auth, AuthFinish(a) \/ AuthFinishMutates(a) \/ AuthFinishNoToken(a)
       PROVE  conn'[c].sig = token'.id
  BY <1>1, <1>9, <1>10 DEF AuthFinish, AuthFinishMutates, AuthFinishNoToken, Raise
<1>11. ASSUME NEW a \in Auth,
              \/ AuthRetryLater(a) \/ AuthFail(a)
              \/ AuthNetworkFailure(a) \/ OrphanEnds(a)
       PROVE  FALSE
  BY <1>0, <1>1, <1>11 DEF AuthRetryLater, AuthFail, AuthNetworkFailure, GiveUp, OrphanEnds
<1>12. CASE TimerFires
  BY <1>1, <1>12, RefreshAloneEffect DEF TimerFires, Raise
<1> QED
  BY <1>2, <1>3, <1>4, <1>5, <1>6, <1>7, <1>8, <1>10, <1>11, <1>12
  DEF Next, Network, AuthStep

\* Under any server and any use of the client, a connection that leaves the
\* queue for the wire carries the token the refresh brought.
THEOREM RetriesCarryNewToken == Spec => RetriedWithNewToken
<1>1. Init => RequestsSafe
  BY DEF Init, RequestsSafe, QueuedIsStopped, CompletesOnce, Live, Stopped, Connection
<1>2. [RetriesWithNewToken]_vars <=> [\A c \in Req : c \in waiting /\ conn'[c].net = "sent"
           => conn'[c].sig = token'.id]_vars
  BY DEF RetriesWithNewToken
<1> QED BY <1>1, <1>2, RequestsStep, RetriedStep, TypeCorrect, PTL DEF Spec, RetriedWithNewToken
=============================================================================
