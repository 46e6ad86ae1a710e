------------------------- MODULE AccountStoreProofs -------------------------
(***************************************************************************)
(* The accounts that survive the program, for any set of account types,    *)
(* accounts and user data and any redirects.                               *)
(***************************************************************************)
EXTENDS AccountStore, TLAPS

\* The type of the keychain item.
Item == [ids : SUBSET Account, content : [Account -> Content]]

\* What is archived has the type of the item.
LEMMA ArchiveType ==
    ASSUME NEW s \in SUBSET Account, NEW acc \in [Account -> Content]
    PROVE  /\ Archive(s, acc) \in Item
           /\ Archive(s, acc).ids = s
           /\ \A a \in s : Archive(s, acc).content[a] = acc[a]
           /\ Empty \in Item
           /\ Empty.ids = {}
<1>1. Blank \in Content
  BY StoreAssumption DEF Blank, Content
<1> QED
  BY <1>1 DEF Archive, Empty, Item

\* A save leaves the new accounts in the keychain or none, and none only if the
\* process was killed or the keychain refuses items (storeAccountsInDefaultKeychain:).
LEMMA SaveEffect ==
    ASSUME NEW s \in SUBSET Account, NEW acc \in [Account -> Content], Save(s, acc), Running
    PROVE  /\ keychain' \in Item
           /\ process' \in {"up", "down"}
           /\ \/ /\ keychain'.ids = s
                 /\ \A a \in s : keychain'.content[a] = acc[a]
                 /\ process' = "up"
              \/ /\ keychain' = Empty
                 /\ AddFails \/ process' = "down"
<1>1. /\ Archive(s, acc) \in Item
      /\ Archive(s, acc).ids = s
      /\ \A a \in s : Archive(s, acc).content[a] = acc[a]
      /\ Empty \in Item
      /\ Empty.ids = {}
  BY ArchiveType
<1>2. CASE keychain' = Archive(s, acc) /\ UNCHANGED process
  BY <1>1, <1>2 DEF Running
<1>3. CASE AddFails /\ keychain' = Empty /\ UNCHANGED process
  BY <1>1, <1>3 DEF Running
<1>4. CASE keychain' = Empty /\ process' = "down"
  BY <1>1, <1>4
<1> QED
  BY <1>2, <1>3, <1>4 DEF Save

\* The token or the user data of an account may be replaced by others.
LEMMA ContentUpdate ==
    ASSUME NEW acc \in [Account -> Content], NEW a \in Account,
           NEW t \in 0..MaxToken, NEW d \in Data \cup {NoData}
    PROVE  /\ [acc EXCEPT ![a].token = t] \in [Account -> Content]
           /\ [acc EXCEPT ![a].data = d] \in [Account -> Content]
           /\ [acc EXCEPT ![a] = [token |-> t, data |-> d]] \in [Account -> Content]
<1>1. /\ [acc[a] EXCEPT !.token = t] \in Content
      /\ [acc[a] EXCEPT !.data = d] \in Content
      /\ [token |-> t, data |-> d] \in Content
  BY DEF Content
<1> QED
  BY <1>1

\* The token of a client may be replaced by another.
LEMMA ClientUpdate ==
    ASSUME NEW cl \in [Account -> Client], NEW a \in Account, NEW t \in 0..MaxToken
    PROVE  [cl EXCEPT ![a].token = t] \in [Account -> Client]
<1>1. [cl[a] EXCEPT !.token = t] \in Client
  BY DEF Client
<1> QED
  BY <1>1

-----------------------------------------------------------------------------
(* Every step either leaves what is saved alone, or saves, or launches.    *)

Quiet ==
    /\ UNCHANGED <<keychain, store>>
    /\ \A a \in store : account'[a].data = account[a].data
    /\ process' # "up" \/ process = "up"

\* At most one account comes or goes.
OneMoves == store' = store \/ \E a \in Account : store' \in {store \cup {a}, store \ {a}}

OneLeaves == store' = store \/ \E a \in Account : store' = store \ {a}

Saves ==
    /\ process = "up"
    /\ OneMoves
    /\ \/ Mirrors' /\ (process' = "up" \/ OneLeaves)
       \/ keychain' = Empty /\ (AddFails \/ process' # "up")

\* A save of the accounts as they are after the step.
LEMMA SaveStep ==
    ASSUME TypeOK, Running, OneMoves,
           store' \in SUBSET Account, account' \in [Account -> Content],
           Save(store', account')
    PROVE  /\ keychain' \in Item
           /\ process' \in {"up", "down"}
           /\ Saves
<1>1. /\ keychain' \in Item
      /\ process' \in {"up", "down"}
      /\ \/ /\ keychain'.ids = store'
            /\ \A a \in store' : keychain'.content[a] = account'[a]
            /\ process' = "up"
         \/ /\ keychain' = Empty
            /\ AddFails \/ process' = "down"
  BY SaveEffect
<1>2. CASE /\ keychain'.ids = store'
           /\ \A a \in store' : keychain'.content[a] = account'[a]
           /\ process' = "up"
  <2>1. Mirrors'
    BY <1>2 DEF Mirrors
  <2> QED
    BY <1>1, <1>2, <2>1 DEF Saves, Running
<1>3. CASE keychain' = Empty /\ (AddFails \/ process' = "down")
  BY <1>1, <1>3 DEF Saves, Running
<1> QED
  BY <1>1, <1>2, <1>3

\* What a step does to types and to the keychain.
Effect == TypeOK' /\ (Quiet \/ Saves \/ Launch)

\* Requests and failures of pending clients touch only the pending clients.
LEMMA RequestEffect ==
    ASSUME TypeOK, NEW t \in Type,
           \/ RequestAccess(t) \/ RequestToken(t) \/ PendingFails(t) \/ PendingGetsNothing(t)
    PROVE  Effect
<1>1. pending' \in [Type -> {"none", "idle", "exchanging"}]
  BY DEF TypeOK, RequestAccess, RequestToken, PendingFails, PendingGetsNothing
<1>2. UNCHANGED <<process, orphan, store, held, account, client, keychain, issued>>
  BY DEF RequestAccess, RequestToken, PendingFails, PendingGetsNothing
<1> QED
  BY <1>1, <1>2 DEF Effect, TypeOK, Quiet

\* So do redirects, which may also orphan a client.
LEMMA RedirectEffect ==
    ASSUME TypeOK, NEW ts \in Redirects,
           RedirectCode(ts) \/ RedirectError(ts) \/ RedirectNothing(ts)
    PROVE  Effect
<1>1. ts \subseteq Type
  BY StoreAssumption
<1>2. pending' \in [Type -> {"none", "idle", "exchanging"}] /\ orphan' \in {"none", "live"}
  <2>1. CASE RedirectCode(ts)
    BY <1>1, <2>1 DEF TypeOK, RedirectCode
  <2>2. CASE RedirectError(ts)
    BY <2>2 DEF TypeOK, RedirectError
  <2>3. CASE RedirectNothing(ts)
    BY <2>3 DEF TypeOK, RedirectNothing
  <2> QED
    BY <2>1, <2>2, <2>3
<1>3. UNCHANGED <<process, store, held, account, client, keychain, issued>>
  BY DEF RedirectCode, RedirectError, RedirectNothing
<1> QED
  BY <1>2, <1>3 DEF Effect, TypeOK, Quiet

\* An exception ends the process and saves nothing.
LEMMA RaiseEffect == TypeOK /\ NilKeyRaises => Effect
BY DEF TypeOK, NilKeyRaises, memory, Effect, Quiet

\* So does a kill.
LEMMA KillEffect == TypeOK /\ Kill => Effect
BY DEF TypeOK, Kill, memory, Effect, Quiet

\* A launch restores what the type of the keychain item promises (init).
LEMMA LaunchEffect == TypeOK /\ Launch => Effect
<1> SUFFICES ASSUME TypeOK, Launch PROVE TypeOK'
  BY DEF Effect
<1>1. NoClient \in Client
  BY StoreAssumption DEF NoClient, Client
<1>2. keychain.ids \in SUBSET Account /\ keychain.content \in [Account -> Content]
  BY DEF TypeOK
<1> QED
  BY <1>1, <1>2 DEF TypeOK, Launch

\* References and the making of a client change nothing that is saved.
LEMMA HoldEffect ==
    ASSUME TypeOK, NEW a \in Account, Hold(a) \/ Release(a) \/ MakeClient(a)
    PROVE  Effect
<1>1. NoClient \in Client /\ Blank \in Content
  BY StoreAssumption DEF NoClient, Client, Blank, Content
<1>2. CASE Hold(a)
  BY <1>2 DEF TypeOK, Hold, Effect, Quiet
<1>3. CASE Release(a)
  <2>1. account' \in [Account -> Content] /\ client' \in [Account -> Client]
    BY <1>1, <1>3 DEF TypeOK, Release
  <2>2. \A b \in store : account'[b].data = account[b].data
    BY <1>3 DEF TypeOK, Release
  <2> QED
    BY <1>3, <2>1, <2>2 DEF TypeOK, Release, Effect, Quiet
<1>4. CASE MakeClient(a)
  <2>1. [made |-> "yes", token |-> account[a].token, delegate |-> "account"] \in Client
    BY DEF TypeOK, Content, Client
  <2>2. client' \in [Account -> Client]
    BY <1>4, <2>1 DEF TypeOK, MakeClient
  <2> QED
    BY <1>4, <2>2 DEF TypeOK, MakeClient, Effect, Quiet
<1> QED
  BY <1>2, <1>3, <1>4

\* setUserData: saves (accountsDict is as before).
LEMMA UserDataEffect ==
    ASSUME TypeOK, NEW a \in Account, NEW d \in Data, SetUserData(a, d)
    PROVE  Effect
<1>1. account \in [Account -> Content] /\ 0 \in 0..MaxToken
  BY StoreAssumption DEF TypeOK
<1>2. account' \in [Account -> Content]
  BY <1>1, ContentUpdate DEF SetUserData
<1>3. UNCHANGED <<pending, orphan, store, held, client, issued>> /\ Running /\ Save(store', account')
  BY DEF SetUserData, Save
<1>4. OneMoves /\ store' \in SUBSET Account
  BY <1>3 DEF TypeOK, OneMoves
<1>5. keychain' \in Item /\ process' \in {"up", "down"} /\ Saves
  BY <1>2, <1>3, <1>4, SaveStep
<1> QED
  BY <1>2, <1>3, <1>5 DEF TypeOK, Item, Effect

\* removeAccount: and addAccount: move one account and save.
LEMMA MoveEffect ==
    ASSUME TypeOK, NEW a \in Account, RemoveAccount(a) \/ AddAccount(a)
    PROVE  Effect
<1>1. /\ UNCHANGED <<pending, orphan, held, account, client, issued>>
      /\ Running
      /\ store' \in {store \cup {a}, store \ {a}}
  BY DEF RemoveAccount, AddAccount
<1>2. Save(store', account')
  BY <1>1 DEF RemoveAccount, AddAccount, Save
<1>3. OneMoves /\ store' \in SUBSET Account /\ account' \in [Account -> Content]
  BY <1>1 DEF TypeOK, OneMoves
<1>4. keychain' \in Item /\ process' \in {"up", "down"} /\ Saves
  BY <1>1, <1>2, <1>3, SaveStep
<1> QED
  BY <1>1, <1>3, <1>4 DEF TypeOK, Item, Effect

\* A pending client that gets a token becomes an account, which is saved.
LEMMA PendingGetsEffect ==
    ASSUME TypeOK, NEW t \in Type, PendingGets(t)
    PROVE  Effect
<1>1. PICK a \in Account :
         /\ store' = store \cup {a}
         /\ account' = [account EXCEPT ![a] = [token |-> issued', data |-> NoData]]
         /\ client' = [client EXCEPT ![a] = [made |-> "yes", token |-> issued', delegate |-> "store"]]
         /\ Save(store', account')
  BY DEF PendingGets
<1>2. /\ UNCHANGED <<orphan, held>> /\ Running
      /\ pending' = [pending EXCEPT ![t] = "none"]
      /\ issued' \in 0..MaxToken
  BY StoreAssumption DEF PendingGets, TypeOK
<1>3. account' \in [Account -> Content]
  BY <1>1, <1>2, ContentUpdate DEF TypeOK
<1>4. client' \in [Account -> Client]
  <2>1. [made |-> "yes", token |-> issued', delegate |-> "store"] \in Client
    BY <1>2 DEF Client
  <2> QED
    BY <1>1, <2>1 DEF TypeOK
<1>5. OneMoves /\ store' \in SUBSET Account
  BY <1>1 DEF TypeOK, OneMoves
<1>6. keychain' \in Item /\ process' \in {"up", "down"} /\ Saves
  BY <1>1, <1>2, <1>3, <1>5, SaveStep
<1> QED
  BY <1>2, <1>3, <1>4, <1>5, <1>6 DEF TypeOK, Item, Effect

\* A refreshed token is saved if the account hears of it.
LEMMA RefreshEffect ==
    ASSUME TypeOK, NEW a \in Account, ClientRefreshes(a)
    PROVE  Effect
<1>1. /\ UNCHANGED <<pending, orphan, store, held>> /\ Running
      /\ issued' \in 0..MaxToken
      /\ client' = [client EXCEPT ![a].token = issued']
  BY StoreAssumption DEF ClientRefreshes, TypeOK
<1>2. client' \in [Account -> Client]
  BY <1>1, ClientUpdate DEF TypeOK
<1>3. CASE account' = [account EXCEPT ![a].token = issued'] /\ Save(store, account')
  <2>1. account' \in [Account -> Content] /\ Save(store', account')
    <3>1. NoData \in Data \cup {NoData}
      OBVIOUS
    <3> QED
      BY <1>1, <1>3, <3>1, ContentUpdate DEF TypeOK, Save
  <2>2. OneMoves /\ store' \in SUBSET Account
    BY <1>1 DEF TypeOK, OneMoves
  <2>3. keychain' \in Item /\ process' \in {"up", "down"} /\ Saves
    BY <1>1, <2>1, <2>2, SaveStep
  <2> QED
    BY <1>1, <1>2, <2>1, <2>3 DEF TypeOK, Item, Effect
<1>4. CASE UNCHANGED <<account, keychain, process>>
  BY <1>1, <1>2, <1>4 DEF TypeOK, Effect, Quiet
<1> QED
  BY <1>3, <1>4 DEF ClientRefreshes

\* A client that gets a token after it had lost one.
LEMMA GetsEffect ==
    ASSUME TypeOK, NEW a \in Account, ClientGets(a)
    PROVE  Effect
<1>1. CASE NilKeyRaises
  BY <1>1, RaiseEffect
<1>2. CASE ~NilKeyRaises
  <2>1. /\ UNCHANGED <<pending, orphan, store, held>> /\ Running
        /\ issued' \in 0..MaxToken
        /\ client' = [client EXCEPT ![a].token = issued']
        /\ account' = [account EXCEPT ![a].token = issued']
        /\ Save(store', account')
    BY <1>2, StoreAssumption DEF ClientGets, TypeOK, Save
  <2>2. client' \in [Account -> Client]
    BY <2>1, ClientUpdate DEF TypeOK
  <2>3. account' \in [Account -> Content]
    <3>1. NoData \in Data \cup {NoData}
      OBVIOUS
    <3> QED
      BY <2>1, <3>1, ContentUpdate DEF TypeOK
  <2>4. OneMoves /\ store' \in SUBSET Account
    BY <2>1 DEF TypeOK, OneMoves
  <2>5. keychain' \in Item /\ process' \in {"up", "down"} /\ Saves
    BY <2>1, <2>3, <2>4, SaveStep
  <2> QED
    BY <2>1, <2>2, <2>3, <2>5 DEF TypeOK, Item, Effect
<1> QED
  BY <1>1, <1>2

\* A failed token request: the account forgets its token and nothing is saved.
LEMMA FailsEffect ==
    ASSUME TypeOK, NEW a \in Account, ClientFails(a)
    PROVE  Effect
<1>1. CASE NilKeyRaises
  BY <1>1, RaiseEffect
<1>2. CASE ~NilKeyRaises
  <2>1. /\ UNCHANGED <<process, pending, orphan, store, held, client, keychain, issued>>
        /\ account' = [account EXCEPT ![a].token = 0]
    BY <1>2 DEF ClientFails
  <2>2. account' \in [Account -> Content]
    <3>1. NoData \in Data \cup {NoData} /\ 0 \in 0..MaxToken
      BY StoreAssumption
    <3> QED
      BY <2>1, <3>1, ContentUpdate DEF TypeOK
  <2>3. \A b \in store : account'[b].data = account[b].data
    BY <2>1 DEF TypeOK, Content
  <2> QED
    BY <2>1, <2>2, <2>3 DEF TypeOK, Effect, Quiet
<1> QED
  BY <1>1, <1>2

\* An account that loses its token leaves the store.
LEMMA LosesType ==
    ASSUME TypeOK, NEW a \in Account, AccountLoses(a)
    PROVE  /\ store' = store \ {a}
           /\ store' \in SUBSET Account
           /\ account' \in [Account -> Content]
           /\ client' \in [Account -> Client]
           /\ UNCHANGED <<pending, orphan, held, issued>>
<1>1. NoClient \in Client /\ Blank \in Content
  BY StoreAssumption DEF NoClient, Client, Blank, Content
<1>2. [account[a] EXCEPT !.token = 0] \in Content
  BY StoreAssumption DEF TypeOK, Content
<1>3. [client[a] EXCEPT !.token = 0] \in Client
  BY StoreAssumption DEF TypeOK, Client
<1>4. account' \in [Account -> Content]
  BY <1>1, <1>2 DEF TypeOK, AccountLoses
<1>5. client' \in [Account -> Client]
  BY <1>1, <1>3 DEF TypeOK, AccountLoses
<1> QED
  BY <1>4, <1>5 DEF TypeOK, AccountLoses

\* The loss is saved, if the account hears of it.
LEMMA LosesEffect ==
    ASSUME TypeOK, NEW a \in Account, ClientLoses(a)
    PROVE  Effect
<1>1. CASE AccountLoses(a) /\ Save(store', account')
  <2>1. /\ store' = store \ {a}
        /\ store' \in SUBSET Account
        /\ account' \in [Account -> Content]
        /\ client' \in [Account -> Client]
        /\ UNCHANGED <<pending, orphan, held, issued>>
    BY <1>1, LosesType
  <2>2. OneMoves /\ Running
    BY <2>1 DEF OneMoves, ClientLoses
  <2>3. keychain' \in Item /\ process' \in {"up", "down"} /\ Saves
    BY <1>1, <2>1, <2>2, SaveStep
  <2> QED
    BY <2>1, <2>3 DEF TypeOK, Item, Effect
<1>2. CASE /\ client' = [client EXCEPT ![a].token = 0]
           /\ UNCHANGED <<process, pending, orphan, store, held, account, keychain, issued>>
  <2>1. 0 \in 0..MaxToken
    BY StoreAssumption
  <2>2. client' \in [Account -> Client]
    BY <1>2, <2>1, ClientUpdate DEF TypeOK
  <2> QED
    BY <1>2, <2>2 DEF TypeOK, Effect, Quiet
<1> QED
  BY <1>1, <1>2 DEF ClientLoses

\* A 401 for a token request: the loss is saved, or the process dies on it.
LEMMA RefusedEffect ==
    ASSUME TypeOK, NEW a \in Account, ClientRefused(a)
    PROVE  Effect
<1>1. CASE NilKeyRaises
  BY <1>1, RaiseEffect
<1>2. CASE AccountLoses(a)
  <2>1. /\ store' = store \ {a}
        /\ store' \in SUBSET Account
        /\ account' \in [Account -> Content]
        /\ client' \in [Account -> Client]
        /\ UNCHANGED <<pending, orphan, held, issued>>
    BY <1>2, LosesType
  <2>2. OneMoves /\ OneLeaves /\ Running
    BY <2>1 DEF OneMoves, OneLeaves, ClientRefused
  <2>3. CASE Save(store', account')
    <3>1. keychain' \in Item /\ process' \in {"up", "down"} /\ Saves
      BY <2>1, <2>2, <2>3, SaveStep
    <3> QED
      BY <2>1, <3>1 DEF TypeOK, Item, Effect
  <2>4. CASE keychain' = Archive(store', account') /\ process' = "dangling"
    <3>1. /\ keychain' \in Item
          /\ keychain'.ids = store'
          /\ \A b \in store' : keychain'.content[b] = account'[b]
      <4>1. Blank \in Content
        BY StoreAssumption DEF Blank, Content
      <4>2. keychain'.ids = store' /\ \A b \in store' : keychain'.content[b] = account'[b]
        BY <2>1, <2>4 DEF Archive
      <4>3. keychain' \in Item
        BY <2>1, <2>4, <4>1 DEF Archive, Item
      <4> QED
        BY <4>2, <4>3
    <3>2. Mirrors'
      BY <3>1 DEF Mirrors
    <3>3. TypeOK'
      BY <2>1, <2>4, <3>1 DEF TypeOK, Item
    <3>4. Saves
      BY <2>2, <3>2 DEF Saves, Running
    <3> QED
      BY <3>3, <3>4 DEF Effect
  <2>5. CASE NilKeyRaises
    BY <2>5, RaiseEffect
  <2> QED
    BY <2>3, <2>4, <2>5 DEF ClientRefused
<1> QED
  BY <1>1, <1>2 DEF ClientRefused

\* Every step of the store, the accounts, their clients and the process.
LEMMA StepEffect == TypeOK /\ [Next]_vars => Effect
<1> SUFFICES ASSUME TypeOK, [Next]_vars PROVE Effect
  OBVIOUS
<1>1. CASE UNCHANGED vars
  BY <1>1 DEF vars, TypeOK, Effect, Quiet
<1>2. CASE \E t \in Type :
             \/ RequestAccess(t) \/ RequestToken(t)
             \/ PendingGets(t) \/ PendingFails(t) \/ PendingGetsNothing(t)
  BY <1>2, RequestEffect, PendingGetsEffect
<1>3. CASE \E ts \in Redirects : RedirectCode(ts) \/ RedirectError(ts) \/ RedirectNothing(ts)
  BY <1>3, RedirectEffect
<1>4. CASE OrphanReports
  BY <1>4, RaiseEffect DEF OrphanReports
<1>5. CASE \E a \in Account :
             \/ \E d \in Data : SetUserData(a, d)
             \/ Hold(a) \/ Release(a) \/ RemoveAccount(a) \/ AddAccount(a) \/ MakeClient(a)
             \/ ClientRefreshes(a) \/ ClientLoses(a) \/ ClientRefused(a)
             \/ ClientFails(a) \/ ClientGets(a)
  <2>1. PICK a \in Account :
             \/ \E d \in Data : SetUserData(a, d)
             \/ Hold(a) \/ Release(a) \/ RemoveAccount(a) \/ AddAccount(a) \/ MakeClient(a)
             \/ ClientRefreshes(a) \/ ClientLoses(a) \/ ClientRefused(a)
             \/ ClientFails(a) \/ ClientGets(a)
    BY <1>5
  <2>2. CASE \E d \in Data : SetUserData(a, d)
    BY <2>2, UserDataEffect
  <2>3. CASE Hold(a) \/ Release(a) \/ MakeClient(a)
    BY <2>3, HoldEffect
  <2>4. CASE RemoveAccount(a) \/ AddAccount(a)
    BY <2>4, MoveEffect
  <2>5. CASE ClientRefreshes(a)
    BY <2>5, RefreshEffect
  <2>6. CASE ClientLoses(a)
    BY <2>6, LosesEffect
  <2>7. CASE ClientRefused(a)
    BY <2>7, RefusedEffect
  <2>8. CASE ClientFails(a)
    BY <2>8, FailsEffect
  <2>9. CASE ClientGets(a)
    BY <2>9, GetsEffect
  <2> QED
    BY <2>1, <2>2, <2>3, <2>4, <2>5, <2>6, <2>7, <2>8, <2>9
<1>6. CASE Kill
  BY <1>6, KillEffect
<1>7. CASE Launch
  BY <1>7, LaunchEffect
<1> QED
  BY <1>1, <1>2, <1>3, <1>4, <1>5, <1>6, <1>7 DEF Next

-----------------------------------------------------------------------------
\* The inductive invariant.  That a launch brings nothing back needs the keychain
\* to hold no account that the store has not; that holds also when an item could
\* not be added and when the process is down.
Durable == keychain.ids \subseteq store

StoreInv ==
    /\ TypeOK
    /\ Durable
    /\ SavedAllOrNothing
    /\ AddFails \/ SavedIsStored

\* The first launch finds an empty keychain.
LEMMA InitInv == Init => StoreInv
<1> SUFFICES ASSUME Init PROVE StoreInv
  OBVIOUS
<1>1. Blank \in Content /\ NoClient \in Client /\ 0 \in 0..MaxToken
  BY StoreAssumption DEF Blank, Content, NoClient, Client
<1>2. TypeOK
  BY <1>1 DEF Init, TypeOK, Empty
<1>3. keychain.ids = {} /\ store = {}
  BY DEF Init, Empty
<1> QED
  BY <1>2, <1>3 DEF Init, StoreInv, Durable, SavedAllOrNothing, SavedIsStored, Mirrors

\* Every step preserves it.
LEMMA NextInv == StoreInv /\ [Next]_vars => StoreInv'
<1> SUFFICES ASSUME StoreInv, [Next]_vars PROVE StoreInv'
  OBVIOUS
<1>1. Effect
  BY StepEffect DEF StoreInv
<1>2. CASE Quiet
  <2>1. Durable'
    BY <1>2 DEF StoreInv, Durable, Quiet
  <2>2. Mirrors => Mirrors'
    BY <1>2 DEF Mirrors, Quiet
  <2>3. Running' => Running
    BY <1>2 DEF Quiet, Running
  <2>4. keychain' = keychain
    BY <1>2 DEF Quiet
  <2>5. SavedAllOrNothing'
    BY <2>2, <2>3, <2>4 DEF StoreInv, SavedAllOrNothing, Empty
  <2>6. AddFails \/ SavedIsStored'
    BY <2>2, <2>3 DEF StoreInv, SavedIsStored
  <2> QED
    BY <1>1, <2>1, <2>5, <2>6 DEF StoreInv, Effect
<1>3. CASE Mirrors'
  <2>1. Durable'
    BY <1>3 DEF Durable, Mirrors
  <2> QED
    BY <1>1, <1>3, <2>1 DEF StoreInv, Effect, SavedAllOrNothing, SavedIsStored
<1>4. CASE keychain' = Empty /\ (AddFails \/ process' # "up")
  <2>1. Durable'
    BY <1>4 DEF Durable, Empty
  <2>2. SavedAllOrNothing' /\ (AddFails \/ SavedIsStored')
    BY <1>4 DEF SavedAllOrNothing, SavedIsStored, Running, Empty
  <2> QED
    BY <1>1, <2>1, <2>2 DEF StoreInv, Effect
<1>5. CASE Launch
  <2>1. Mirrors'
    BY <1>5 DEF Launch, Mirrors
  <2> QED
    BY <2>1, <1>3
<1> QED
  BY <1>1, <1>2, <1>3, <1>4, <1>5 DEF Effect, Saves

\* The invariant holds in every state.
LEMMA StoreInvariant == Spec => []StoreInv
BY InitInv, NextInv, PTL DEF Spec

\* The state of the store, its accounts and the keychain item stays well-formed.
THEOREM StoreTypeCorrect == Spec => []TypeOK
<1>1. StoreInv => TypeOK
  BY DEF StoreInv
<1> QED
  BY <1>1, StoreInvariant, PTL

\* With a keychain that works, whatever the application, the servers and kills do,
\* the keychain holds exactly the stored accounts and their user data.
THEOREM NothingStoredIsUnsaved == ~AddFails => (Spec => []SavedIsStored)
<1> SUFFICES ASSUME ~AddFails PROVE Spec => []SavedIsStored
  OBVIOUS
<1>1. StoreInv => SavedIsStored
  BY DEF StoreInv
<1> QED
  BY <1>1, StoreInvariant, PTL

\* Also with a keychain that does not: all accounts are saved or none.
THEOREM SavesAllOrNothing == Spec => []SavedAllOrNothing
<1>1. StoreInv => SavedAllOrNothing
  BY DEF StoreInv
<1> QED
  BY <1>1, StoreInvariant, PTL

\* A removed account does not come back with a launch, whatever goes wrong.
THEOREM NoAccountComesBack == Spec => RemovedStaysRemoved
<1>1. StoreInv /\ [Next]_vars => [~Running /\ Running' => store' \subseteq store]_vars
  <2> SUFFICES ASSUME StoreInv, [Next]_vars, ~Running, Running' PROVE store' \subseteq store
    OBVIOUS
  <2>1. Effect
    BY StepEffect DEF StoreInv
  <2>2. ~Quiet /\ ~Saves
    BY DEF Quiet, Saves, Running
  <2>3. Launch
    BY <2>1, <2>2 DEF Effect
  <2> QED
    BY <2>3 DEF Launch, StoreInv, Durable
<1> QED
  BY <1>1, StoreInvariant, PTL DEF Spec, RemovedStaysRemoved

-----------------------------------------------------------------------------
\* With a keychain that works, the saved accounts behave like the abstract vault:
\* one account at a time, and only a death during a save loses more.
THEOREM StoreImplementsVault == ~AddFails => (Spec => ImplementsVault)
<1> SUFFICES ASSUME ~AddFails PROVE Spec => ImplementsVault
  OBVIOUS
<1>1. Init => Vault!VaultInit
  BY DEF Init, Empty, Running, Vault!VaultInit
<1>2. StoreInv /\ [Next]_vars => [Vault!VaultNext]_(Vault!vaultVars)
  <2> SUFFICES ASSUME StoreInv, [Next]_vars
               PROVE  Vault!VaultNext \/ UNCHANGED Vault!vaultVars
    OBVIOUS
  <2> DEFINE up == IF Running THEN "up" ELSE "down"
  <2>1. Effect
    BY StepEffect DEF StoreInv
  <2>2. Running => keychain.ids = store
    BY DEF StoreInv, SavedIsStored, Mirrors
  <2>3. CASE Quiet
    <3>1. keychain' = keychain /\ (Running' => Running)
      BY <2>3 DEF Quiet, Running
    <3>2. CASE Running /\ ~Running'
      BY <3>1, <3>2 DEF Vault!VaultNext, Vault!Die
    <3>3. CASE Running <=> Running'
      <4>1. up' = up /\ keychain'.ids = keychain.ids
        BY <3>1, <3>3
      <4> QED
        BY <4>1 DEF Vault!vaultVars
    <3> QED
      BY <3>1, <3>2, <3>3
  <2>4. CASE Launch
    BY <2>4 DEF Launch, Running, Vault!VaultNext, Vault!Start
  <2>5. CASE Saves
    <3>1. Running /\ keychain.ids = store
      BY <2>2, <2>5 DEF Saves, Running
    <3>2. CASE keychain' = Empty /\ ~Running'
      <4>1. keychain'.ids = {}
        BY <3>2 DEF Empty
      <4> QED
        BY <3>1, <3>2, <4>1 DEF Vault!VaultNext, Vault!Die
    <3>3. CASE Mirrors' /\ Running'
      <4>1. keychain'.ids = store' /\ OneMoves
        BY <2>5, <3>3 DEF Mirrors, Saves
      <4>2. CASE store' = store
        BY <3>1, <3>3, <4>1, <4>2 DEF Vault!vaultVars
      <4>3. CASE \E a \in Account : store' \in {store \cup {a}, store \ {a}}
        BY <3>1, <3>3, <4>1, <4>3 DEF Vault!VaultNext, Vault!Put, Vault!Drop
      <4> QED
        BY <4>1, <4>2, <4>3 DEF OneMoves
    <3>4. CASE Mirrors' /\ ~Running' /\ OneLeaves
      <4>1. keychain'.ids = store'
        BY <3>4 DEF Mirrors
      <4>2. keychain'.ids \in {keychain.ids, {}} \cup {keychain.ids \ {a} : a \in Account}
        BY <3>1, <3>4, <4>1 DEF OneLeaves
      <4> QED
        BY <3>1, <3>4, <4>2 DEF Vault!VaultNext, Vault!Die
    <3> QED
      BY <2>5, <3>2, <3>3, <3>4 DEF Saves, Running
  <2> QED
    BY <2>1, <2>3, <2>4, <2>5 DEF Effect
<1> QED
  BY <1>1, <1>2, StoreInvariant, PTL DEF Spec, ImplementsVault, Vault!VaultSpec

-----------------------------------------------------------------------------
(* The tokens that are saved                                               *)

\* The account is told what its client does to the token.
Owns(a) == client[a].made = "yes" /\ client[a].delegate = "account"

\* In memory, an account that hears of its client has the client's token, or
\* none after a failed refresh.
TokenInMemory == \A a \in Object : Owns(a) => account[a].token \in {0, client[a].token}

\* OwnTokenSaved is not inductive: a client made later takes its token from the
\* account, and any other account's save writes the account's token.  So the
\* saved token is the account's own as long as there is no client.
TokenInv ==
    /\ TokenInMemory
    /\ Running => \A a \in store :
         /\ client[a].made = "no" => keychain.content[a].token = account[a].token
         /\ Owns(a) => keychain.content[a].token \in {0, client[a].token}

\* A save writes what is in memory.
LEMMA SaveTokens ==
    ASSUME ~AddFails, Running, store' \in SUBSET Account,
           account' \in [Account -> Content], Save(store', account'), TokenInMemory'
    PROVE  TokenInv'
<1>1. Running' => \A a \in store' : keychain'.content[a] = account'[a]
  BY SaveEffect DEF Running
<1> QED BY <1>1 DEF TokenInv, TokenInMemory, Object

\* A step that touches no token, no client and nothing saved.
LEMMA TokensUntouched ==
    ASSUME TokenInv, UNCHANGED <<store, account, client, keychain>>,
           held' \subseteq Object, Running' => Running
    PROVE  TokenInv'
BY DEF TokenInv, TokenInMemory, Object, Owns

\* An account and its client get the same new token.
LEMMA BothTokens ==
    ASSUME TypeOK, TokenInMemory, NEW a \in Account, NEW n \in 0..MaxToken,
           client' = [client EXCEPT ![a].token = n],
           account' = [account EXCEPT ![a].token = n],
           UNCHANGED <<store, held>>
    PROVE  TokenInMemory' /\ account' \in [Account -> Content]
<1>1. account' \in [Account -> Content]
  BY ContentUpdate DEF TypeOK
<1>2. ASSUME NEW b \in Object', Owns(b)' PROVE account'[b].token \in {0, client'[b].token}
  <2>1. b \in Account /\ b \in Object
    BY DEF TypeOK, Object
  <2>2. CASE b = a
    BY <2>1, <2>2 DEF TypeOK, Content, Client
  <2>3. CASE b # a
    BY <1>2, <2>1, <2>3 DEF TypeOK, TokenInMemory, Owns
  <2> QED BY <2>2, <2>3
<1> QED BY <1>1, <1>2 DEF TokenInMemory

\* An account that loses its token leaves no other account's token behind.
LEMMA LosesTokens ==
    ASSUME TypeOK, TokenInMemory, NEW a \in Account, AccountLoses(a)
    PROVE  TokenInMemory'
<1>1. ASSUME NEW b \in Object', Owns(b)' PROVE account'[b].token \in {0, client'[b].token}
  <2>1. b \in Account /\ b \in Object
    BY DEF TypeOK, Object, AccountLoses
  <2>2. CASE b = a
    <3>1. b \in held
      BY <2>2 DEF Object, AccountLoses
    <3>2. account'[b] = [account[b] EXCEPT !.token = 0]
      BY <2>1, <2>2, <3>1 DEF AccountLoses, TypeOK
    <3> QED BY <2>1, <3>2 DEF TypeOK, Content
  <2>3. CASE b # a
    BY <1>1, <2>1, <2>3 DEF TypeOK, TokenInMemory, Owns, AccountLoses
  <2> QED BY <2>2, <2>3
<1> QED BY <1>1 DEF TokenInMemory

\* Every step keeps TokenInv when the keychain works.
LEMMA TokenStep ==
    ASSUME ~AddFails PROVE TypeOK /\ TokenInv /\ [Next]_vars => TokenInv'
<1> SUFFICES ASSUME TypeOK, TokenInv, [Next]_vars PROVE TokenInv'
  OBVIOUS
<1>0. TokenInMemory /\ store \in SUBSET Account /\ account \in [Account -> Content]
  BY DEF TokenInv, TypeOK
<1>1. ASSUME NilKeyRaises PROVE TokenInv'
  BY <1>1, TokensUntouched DEF NilKeyRaises, memory, Object, Running
<1>2. ASSUME NEW t \in Type,
             \/ RequestAccess(t) \/ RequestToken(t) \/ PendingFails(t) \/ PendingGetsNothing(t)
      PROVE  TokenInv'
  BY <1>2, TokensUntouched
  DEF RequestAccess, RequestToken, PendingFails, PendingGetsNothing, Object, Running
<1>3. ASSUME NEW ts \in Redirects,
             RedirectCode(ts) \/ RedirectError(ts) \/ RedirectNothing(ts)
      PROVE  TokenInv'
  BY <1>3, TokensUntouched
  DEF RedirectCode, RedirectError, RedirectNothing, Object, Running
<1>4. ASSUME NEW t \in Type, PendingGets(t) PROVE TokenInv'
  <2>1. PICK a \in Account \ Object :
         /\ store' = store \cup {a}
         /\ account' = [account EXCEPT ![a] = [token |-> issued', data |-> NoData]]
         /\ client' = [client EXCEPT ![a] = [made |-> "yes", token |-> issued',
                                             delegate |-> "store"]]
         /\ Save(store', account')
    BY <1>4 DEF PendingGets
  <2>2. Running /\ held' = held /\ issued' \in 0..MaxToken
    BY <1>4, StoreAssumption DEF PendingGets, TypeOK
  <2>3. account' \in [Account -> Content]
    BY <1>0, <2>1, <2>2, ContentUpdate
  <2>4. ASSUME NEW b \in Object', Owns(b)' PROVE account'[b].token \in {0, client'[b].token}
    <3>1. b \in Account /\ (b = a \/ b \in Object)
      BY <2>1, <2>2 DEF TypeOK, Object
    <3>2. b # a
      BY <2>1, <2>4 DEF TypeOK, Owns
    <3> QED BY <1>0, <2>1, <2>4, <3>1, <3>2 DEF TypeOK, TokenInMemory, Owns
  <2>5. TokenInMemory' /\ store' \in SUBSET Account
    BY <1>0, <2>1, <2>4 DEF TokenInMemory
  <2> QED BY <2>1, <2>2, <2>3, <2>5, SaveTokens
<1>5. CASE OrphanReports
  BY <1>1, <1>5 DEF OrphanReports
<1>6. ASSUME NEW a \in Account, NEW d \in Data, SetUserData(a, d) PROVE TokenInv'
  <2>1. /\ Running /\ account' = [account EXCEPT ![a].data = d]
        /\ UNCHANGED <<store, held, client>> /\ Save(store', account')
    BY <1>6 DEF SetUserData, Save
  <2>2. account' \in [Account -> Content]
    <3>1. 0 \in 0..MaxToken
      BY StoreAssumption
    <3> QED BY <1>0, <2>1, <3>1, ContentUpdate
  <2>3. \A b \in Account : account'[b].token = account[b].token
    BY <1>0, <2>1 DEF Content
  <2>4. TokenInMemory'
    BY <1>0, <2>1, <2>3 DEF TokenInMemory, Object, Owns, TypeOK
  <2> QED BY <1>0, <2>1, <2>2, <2>4, SaveTokens
<1>7. ASSUME NEW a \in Account, Hold(a) PROVE TokenInv'
  BY <1>7, TokensUntouched DEF Hold, Object, Running
<1>8. ASSUME NEW a \in Account, Release(a) PROVE TokenInv'
  <2>1. UNCHANGED <<store, keychain, process>> /\ Object' \subseteq Object
    BY <1>8 DEF Release, Object
  <2>2. ASSUME NEW b \in Object' PROVE account'[b] = account[b] /\ client'[b] = client[b]
    <3>1. b \in Account /\ (b # a \/ b \in store)
      BY <1>8 DEF Release, Object, TypeOK
    <3> QED BY <1>8, <3>1 DEF Release, TypeOK
  <2> QED BY <2>1, <2>2 DEF TokenInv, TokenInMemory, Object, Owns, Running
<1>9. ASSUME NEW a \in Account, RemoveAccount(a) \/ AddAccount(a) PROVE TokenInv'
  <2>1. /\ Running /\ UNCHANGED <<held, account, client>>
        /\ store' \in SUBSET Account /\ Object' \subseteq Object
    BY <1>0, <1>9 DEF RemoveAccount, AddAccount, Object
  <2>2. Save(store', account')
    BY <1>9, <2>1 DEF RemoveAccount, AddAccount, Save
  <2>3. TokenInMemory'
    BY <1>0, <2>1 DEF TokenInMemory, Owns
  <2> QED BY <1>0, <2>1, <2>2, <2>3, SaveTokens
<1>10. ASSUME NEW a \in Account, MakeClient(a) PROVE TokenInv'
  <2>1. /\ client[a].made = "no" /\ UNCHANGED <<process, store, held, account, keychain>>
        /\ client' = [client EXCEPT ![a] = [made |-> "yes", token |-> account[a].token,
                                            delegate |-> "account"]]
    BY <1>10 DEF MakeClient
  <2>2. client'[a] = [made |-> "yes", token |-> account[a].token, delegate |-> "account"]
    BY <2>1 DEF TypeOK
  <2>3. \A b \in Account : b # a => client'[b] = client[b]
    BY <2>1 DEF TypeOK
  <2>4. TokenInMemory'
    BY <1>0, <2>1, <2>2, <2>3 DEF TokenInMemory, Object, Owns, TypeOK
  <2>5. ASSUME Running, NEW b \in store
        PROVE  /\ client'[b].made = "no" => keychain.content[b].token = account[b].token
               /\ Owns(b)' => keychain.content[b].token \in {0, client'[b].token}
    <3>1. b \in Account
      BY <1>0
    <3>2. /\ client[b].made = "no" => keychain.content[b].token = account[b].token
          /\ Owns(b) => keychain.content[b].token \in {0, client[b].token}
      BY <2>5 DEF TokenInv
    <3> QED BY <2>1, <2>2, <2>3, <3>1, <3>2 DEF Owns
  <2> QED BY <2>1, <2>4, <2>5 DEF TokenInv, Running
<1>11. ASSUME NEW a \in Account, ClientRefreshes(a) PROVE TokenInv'
  <2>1. /\ Running /\ UNCHANGED <<store, held>> /\ issued' \in 0..MaxToken
        /\ client' = [client EXCEPT ![a].token = issued']
    BY <1>11, StoreAssumption DEF ClientRefreshes, TypeOK
  <2>2. CASE account' = [account EXCEPT ![a].token = issued'] /\ Save(store, account')
    <3>1. TokenInMemory' /\ account' \in [Account -> Content]
      BY <1>0, <2>1, <2>2, BothTokens
    <3>2. Save(store', account') /\ store' \in SUBSET Account
      BY <1>0, <2>1, <2>2
    <3> QED BY <2>1, <3>1, <3>2, SaveTokens
  <2>3. CASE client[a].delegate = "store" /\ UNCHANGED <<account, keychain, process>>
    <3>1. \A b \in Account : Owns(b)' => b # a
      BY <2>1, <2>3 DEF Owns, TypeOK, Client
    <3>2. \A b \in Account : b # a => client'[b] = client[b]
      BY <2>1 DEF TypeOK
    <3>3. \A b \in Account : client'[b].made = client[b].made
      BY <2>1 DEF TypeOK, Client
    <3>4. TokenInMemory'
      BY <1>0, <2>1, <2>3, <3>1, <3>2 DEF TokenInMemory, Object, Owns, TypeOK
    <3> QED
      BY <1>0, <2>1, <2>3, <3>1, <3>2, <3>3, <3>4 DEF TokenInv, Owns, Running
  <2> QED BY <1>11, <2>2, <2>3 DEF ClientRefreshes
<1>12. ASSUME NEW a \in Account, AccountLoses(a), Running, Save(store', account')
       PROVE  TokenInv'
  BY <1>0, <1>12, LosesType, LosesTokens, SaveTokens
<1>13. ASSUME NEW a \in Account, ClientLoses(a) PROVE TokenInv'
  <2>1. CASE AccountLoses(a) /\ Save(store', account')
    BY <1>12, <1>13, <2>1 DEF ClientLoses
  <2>2. CASE /\ client[a].delegate = "store"
             /\ client' = [client EXCEPT ![a].token = 0]
             /\ UNCHANGED <<process, store, held, account, keychain>>
    <3>1. \A b \in Account : Owns(b)' => b # a
      BY <2>2 DEF Owns, TypeOK, Client
    <3>2. \A b \in Account : b # a => client'[b] = client[b]
      BY <2>2 DEF TypeOK
    <3>3. \A b \in Account : client'[b].made = client[b].made
      BY <2>2 DEF TypeOK, Client
    <3>4. TokenInMemory'
      BY <1>0, <2>2, <3>1, <3>2 DEF TokenInMemory, Object, Owns, TypeOK
    <3> QED
      BY <1>0, <2>2, <3>1, <3>2, <3>3, <3>4 DEF TokenInv, Owns, Running
  <2> QED BY <1>13, <2>1, <2>2 DEF ClientLoses
<1>14. ASSUME NEW a \in Account, ClientRefused(a) PROVE TokenInv'
  <2>1. CASE AccountLoses(a) /\ process' = "dangling"
    <3>1. TokenInMemory' /\ ~Running'
      BY <1>0, <2>1, LosesTokens DEF Running
    <3> QED BY <3>1 DEF TokenInv
  <2> QED BY <1>1, <1>12, <1>14, <2>1 DEF ClientRefused
<1>15. ASSUME NEW a \in Account, ClientFails(a) PROVE TokenInv'
  <2>1. CASE /\ client[a].made = "yes"
             /\ account' = [account EXCEPT ![a].token = 0]
             /\ UNCHANGED <<process, store, held, client, keychain>>
    <3>1. account'[a].token = 0 /\ \A b \in Account : b # a => account'[b] = account[b]
      BY <2>1 DEF TypeOK, Content
    <3>2. TokenInMemory'
      BY <1>0, <2>1, <3>1 DEF TokenInMemory, Object, Owns, TypeOK
    <3> QED BY <1>0, <2>1, <3>1, <3>2 DEF TokenInv, Owns, Running
  <2> QED BY <1>1, <1>15, <2>1 DEF ClientFails, Established
<1>16. ASSUME NEW a \in Account, ClientGets(a) PROVE TokenInv'
  <2>1. CASE NilKeyRaises
    BY <1>1, <2>1
  <2>2. CASE ~NilKeyRaises
    <3>1. /\ UNCHANGED <<store, held>> /\ Running /\ issued' \in 0..MaxToken
          /\ client' = [client EXCEPT ![a].token = issued']
          /\ account' = [account EXCEPT ![a].token = issued']
          /\ Save(store', account') /\ store' \in SUBSET Account
      BY <1>0, <1>16, <2>2, StoreAssumption DEF ClientGets, TypeOK, Save
    <3>2. TokenInMemory' /\ account' \in [Account -> Content]
      BY <1>0, <3>1, BothTokens
    <3> QED BY <3>1, <3>2, SaveTokens
  <2> QED BY <2>1, <2>2
<1>17. CASE Kill
  BY <1>17, TokensUntouched DEF Kill, memory, Object, Running
<1>18. CASE Launch
  <2>1. /\ store' \in SUBSET Account /\ held' = {} /\ account' = keychain'.content
        /\ \A a \in Account : client'[a].made = "no"
    BY <1>18 DEF Launch, NoClient, TypeOK
  <2> QED BY <2>1 DEF TokenInv, TokenInMemory, Object, Owns
<1>19. CASE UNCHANGED vars
  BY <1>19, TokensUntouched DEF vars, Object, Running
<1> QED
  BY <1>2, <1>3, <1>4, <1>5, <1>6, <1>7, <1>8, <1>9, <1>10, <1>11, <1>13, <1>14, <1>15,
     <1>16, <1>17, <1>18, <1>19 DEF Next

\* With a keychain that works, the saved token of an account that hears of its
\* client is never stale: the client's token of now, or none.
THEOREM SavedTokenIsCurrent == ~AddFails => (Spec => []OwnTokenSaved)
<1> SUFFICES ASSUME ~AddFails PROVE Spec => []OwnTokenSaved
  OBVIOUS
<1>1. Init => TokenInv
  BY DEF Init, TokenInv, TokenInMemory, Object
<1>2. TypeOK /\ TokenInv /\ [Next]_vars => TokenInv'
  BY TokenStep
<1>3. TokenInv => OwnTokenSaved
  BY DEF TokenInv, OwnTokenSaved, Established, Owns
<1> QED BY <1>1, <1>2, <1>3, StoreTypeCorrect, PTL DEF Spec
=============================================================================
