---------------------------- MODULE AccountStore ----------------------------
(***************************************************************************)
(* NXOAuth2AccountStore, the NXOAuth2Accounts it keeps, and the keychain   *)
(* item it saves them in.  The clients appear only by what they tell their *)
(* delegates (OAuthClient has their insides): they get, refresh and lose   *)
(* tokens and fail to.  The process may be killed at any moment, also      *)
(* between the two halves of a save; the next launch reads the keychain.   *)
(* The build is a Release build: NSAsserts are compiled out.               *)
(***************************************************************************)
EXTENDS Naturals

CONSTANTS
    Type,           \* account types
    Account,        \* a pool of names for accounts (their UUIDs)
    Data,           \* user data
    NoData,         \* nil
    Redirects,      \* the sets of account types that a redirect URL matches
    MaxToken,       \* bound: tokens issued in a behaviour
    Relogin,        \* may the application get a token on an account's own client?
    AddFails        \* may SecItemAdd fail (unnoticed in a Release build)?

ASSUME StoreAssumption ==
    /\ Redirects \subseteq SUBSET Type
    /\ NoData \notin Data
    /\ MaxToken \in Nat
    /\ Relogin \in BOOLEAN
    /\ AddFails \in BOOLEAN

VARIABLES
    process,    \* "up", "down", or the exception that ended it
    pending,    \* pendingOAuthClients, and whether a client is on the network
    orphan,     \* a client dropped from pendingOAuthClients is on the network
    store,      \* accountsDict
    held,       \* the accounts the application has references to
    account,    \* accessToken and userData of each account
    client,     \* the oauthClient of each account
    keychain,   \* the saved dictionary: which accounts, and each one's content
    issued      \* how many tokens there have been

vars == <<process, pending, orphan, store, held, account, client, keychain, issued>>

memory == <<pending, orphan, store, held, account, client>>

-----------------------------------------------------------------------------
Content == [token : 0..MaxToken, data : Data \cup {NoData}]

Blank == [token |-> 0, data |-> NoData]

\* An account's client: not made yet, or made with a token and a delegate.
Client == [made : {"no", "yes"}, token : 0..MaxToken, delegate : {"store", "account"}]

NoClient == [made |-> "no", token |-> 0, delegate |-> "account"]

Running == process = "up"

Object == store \cup held

TypeOK ==
    /\ process \in {"up", "down", "nilKey", "dangling"}
    /\ pending \in [Type -> {"none", "idle", "exchanging"}]
    /\ orphan \in {"none", "live"}
    /\ store \subseteq Account
    /\ held \subseteq Account
    /\ account \in [Account -> Content]
    /\ client \in [Account -> Client]
    /\ keychain \in [ids : SUBSET Account, content : [Account -> Content]]
    /\ issued \in 0..MaxToken

Empty == [ids |-> {}, content |-> [a \in Account |-> Blank]]

\* What is archived of the accounts s: token and user data, but no client.
Archive(s, acc) ==
    [ids |-> s, content |-> [a \in Account |-> IF a \in s THEN acc[a] ELSE Blank]]

\* The first launch after installation.
Init ==
    /\ process = "up"
    /\ pending = [t \in Type |-> "none"]
    /\ orphan = "none"
    /\ store = {}
    /\ held = {}
    /\ account = [a \in Account |-> Blank]
    /\ client = [a \in Account |-> NoClient]
    /\ keychain = Empty
    /\ issued = 0

\* Mutant: the old item is not deleted, so that adding the new one is refused.
Save_WithoutDelete(s, acc) ==
    /\ keychain' = IF keychain = Empty THEN Archive(s, acc) ELSE keychain
    /\ UNCHANGED process

\* storeAccountsInDefaultKeychain: deletes the item and adds a new one.  The
\* process may be killed after the deletion, and the addition may fail.
Save(s, acc) ==
    \/ keychain' = Archive(s, acc) /\ UNCHANGED process
    \/ AddFails /\ keychain' = Empty /\ UNCHANGED process
    \/ keychain' = Empty /\ process' = "down"

\* An exception that nobody catches: removeObjectForKey: of nil.
NilKeyRaises ==
    /\ process' = "nilKey"
    /\ UNCHANGED <<memory, keychain, issued>>

-----------------------------------------------------------------------------
(* The application and the user                                            *)

\* requestAccessToAccountWithType: makes the pending client, which has no token
\* and has the authorisation page opened.
RequestAccess(t) ==
    /\ Running
    /\ pending' = [pending EXCEPT ![t] = IF @ = "none" THEN "idle" ELSE @]
    /\ UNCHANGED <<process, orphan, store, held, account, client, keychain, issued>>

\* The flows with a password, an assertion or the client's credentials go to
\* the network at once; an exchange that is running is replaced.
RequestToken(t) ==
    /\ Running
    /\ pending' = [pending EXCEPT ![t] = "exchanging"]
    /\ UNCHANGED <<process, orphan, store, held, account, client, keychain, issued>>

\* handleRedirectURL: with a code, which the first of the matching types takes
\* (in the arbitrary order of a set).
RedirectCode(ts) ==
    /\ Running
    /\ \E t \in ts : pending' = [pending EXCEPT ![t] = "exchanging"]
    /\ UNCHANGED <<process, orphan, store, held, account, client, keychain, issued>>

\* handleRedirectURL: with a known error: the clients of all matching types
\* fail and are dropped, also the ones that are on the network.
RedirectError(ts) ==
    /\ Running
    /\ orphan' = IF \E t \in ts : pending[t] = "exchanging" THEN "live" ELSE orphan
    /\ pending' = [t \in Type |-> IF t \in ts THEN "none" ELSE pending[t]]
    /\ UNCHANGED <<process, store, held, account, client, keychain, issued>>

\* handleRedirectURL: with neither: the clients are made and not used.
RedirectNothing(ts) ==
    /\ Running
    /\ pending' = [t \in Type |-> IF t \in ts /\ pending[t] = "none" THEN "idle" ELSE pending[t]]
    /\ UNCHANGED <<process, orphan, store, held, account, client, keychain, issued>>

\* The application takes an account from the store's accounts.
Hold(a) ==
    /\ Running
    /\ a \in store
    /\ held' = held \cup {a}
    /\ UNCHANGED <<process, pending, orphan, store, account, client, keychain, issued>>

\* The application lets go of an account, which ends one that is not stored.
Release(a) ==
    /\ Running
    /\ a \in held
    /\ held' = held \ {a}
    /\ account' = [account EXCEPT ![a] = IF a \in store THEN @ ELSE Blank]
    /\ client' = [client EXCEPT ![a] = IF a \in store THEN @ ELSE NoClient]
    /\ UNCHANGED <<process, pending, orphan, store, keychain, issued>>

\* setUserData: posts a notification on which the store saves all accounts.
SetUserData(a, d) ==
    /\ Running
    /\ a \in held
    /\ account[a].data # d
    /\ account' = [account EXCEPT ![a].data = d]
    /\ Save(store, account')
    /\ UNCHANGED <<pending, orphan, store, held, client, issued>>

\* Mutant: the removal is not saved.
RemoveAccount_NotSaved(a) ==
    /\ Running
    /\ a \in held
    /\ store' = store \ {a}
    /\ UNCHANGED <<process, pending, orphan, held, account, client, keychain, issued>>

RemoveAccount(a) ==
    /\ Running
    /\ a \in held
    /\ store' = store \ {a}
    /\ Save(store', account)
    /\ UNCHANGED <<pending, orphan, held, account, client, issued>>

\* addAccount: by the application, of an account that left the store and still
\* has its token.
AddAccount(a) ==
    /\ Running
    /\ a \in held
    /\ account[a].token # 0
    /\ store' = store \cup {a}
    /\ Save(store', account)
    /\ UNCHANGED <<pending, orphan, held, account, client, issued>>

\* Mutant: the client is made without a delegate.
MakeClient_NoDelegate(a) ==
    /\ Running
    /\ a \in held
    /\ client[a].made = "no"
    /\ client' = [client EXCEPT ![a] = [made |-> "yes", token |-> account[a].token,
                                        delegate |-> "nil"]]
    /\ UNCHANGED <<process, pending, orphan, store, held, account, keychain, issued>>

\* The oauthClient accessor makes the client, with the account's token and the
\* account as its delegate.
MakeClient(a) ==
    /\ Running
    /\ a \in held
    /\ client[a].made = "no"
    /\ client' = [client EXCEPT ![a] = [made |-> "yes", token |-> account[a].token,
                                        delegate |-> "account"]]
    /\ UNCHANGED <<process, pending, orphan, store, held, account, keychain, issued>>

-----------------------------------------------------------------------------
(* What a pending client tells the store                                   *)

\* oauthClientDidGetAccessToken: the client stops being pending and becomes the
\* client of a new account, which is saved.  initAccountWithAccessToken: sets
\* the delegate of an oauthClient that is still nil, so the client's delegate
\* stays the store.
PendingGets(t) ==
    /\ Running
    /\ pending[t] = "exchanging"
    /\ issued < MaxToken
    /\ issued' = issued + 1
    /\ pending' = [pending EXCEPT ![t] = "none"]
    /\ \E a \in Account \ Object :
         /\ store' = store \cup {a}
         /\ account' = [account EXCEPT ![a] = [token |-> issued', data |-> NoData]]
         /\ client' = [client EXCEPT ![a] = [made |-> "yes", token |-> issued',
                                             delegate |-> "store"]]
         /\ Save(store', account')
    /\ UNCHANGED <<orphan, held>>

\* oauthClient:didFailToGetAccessTokenWithError: of a pending client.
PendingFails(t) ==
    /\ Running
    /\ pending[t] = "exchanging"
    /\ pending' = [pending EXCEPT ![t] = "none"]
    /\ UNCHANGED <<process, orphan, store, held, account, client, keychain, issued>>

\* An answer without a token: a Release build goes on without telling anybody.
PendingGetsNothing(t) ==
    /\ Running
    /\ pending[t] = "exchanging"
    /\ pending' = [pending EXCEPT ![t] = "idle"]
    /\ UNCHANGED <<process, orphan, store, held, account, client, keychain, issued>>

\* A client that is not pending any more gets a token or fails: the store looks
\* for its account type, finds nil and removes that from a dictionary.
OrphanReports ==
    /\ Running
    /\ orphan = "live"
    /\ NilKeyRaises

-----------------------------------------------------------------------------
(* What an account's client tells its delegate                             *)

Established(a) == a \in Object /\ client[a].made = "yes"

\* Mutant: the account does not take the refreshed token over.
ClientRefreshes_NotTaken(a) ==
    /\ Running
    /\ Established(a)
    /\ client[a].token # 0
    /\ issued < MaxToken
    /\ issued' = issued + 1
    /\ client' = [client EXCEPT ![a].token = issued']
    /\ \/ client[a].delegate = "account" /\ Save(store, account)
       \/ client[a].delegate = "store" /\ UNCHANGED <<keychain, process>>
    /\ UNCHANGED <<pending, orphan, store, held, account>>

\* A refreshed token.  The account takes it over and has all accounts saved; the
\* store does not implement oauthClientDidRefreshAccessToken:.
ClientRefreshes(a) ==
    /\ Running
    /\ Established(a)
    /\ client[a].token # 0
    /\ issued < MaxToken
    /\ issued' = issued + 1
    /\ client' = [client EXCEPT ![a].token = issued']
    /\ \/ /\ client[a].delegate = "account"
          /\ account' = [account EXCEPT ![a].token = issued']
          /\ Save(store, account')
       \/ /\ client[a].delegate = "store"
          /\ UNCHANGED <<account, keychain, process>>
    /\ UNCHANGED <<pending, orphan, store, held>>

\* An account drops its token and the store drops the account, which ends it if
\* nobody else has a reference.
AccountLoses(a) ==
    /\ store' = store \ {a}
    /\ account' = [account EXCEPT ![a] = IF a \in held THEN [@ EXCEPT !.token = 0] ELSE Blank]
    /\ client' = [client EXCEPT ![a] = IF a \in held THEN [@ EXCEPT !.token = 0] ELSE NoClient]
    /\ UNCHANGED <<pending, orphan, held, issued>>

\* An API answer or an empty token answer costs the client its token.  The store
\* as the delegate looks for a pending client and finds none.
ClientLoses(a) ==
    /\ Running
    /\ Established(a)
    /\ client[a].token # 0
    /\ \/ /\ client[a].delegate = "account"
          /\ AccountLoses(a)
          /\ Save(store', account')
       \/ /\ client[a].delegate = "store"
          /\ client' = [client EXCEPT ![a].token = 0]
          /\ UNCHANGED <<process, pending, orphan, store, held, account, keychain, issued>>

\* A token request is answered with a 401: the client loses its token and then
\* reports the failure, to an account that may be gone by now.
ClientRefused(a) ==
    /\ Running
    /\ Established(a)
    /\ client[a].token # 0
    /\ \/ /\ client[a].delegate = "account"
          /\ AccountLoses(a)
          /\ \/ Save(store', account')
             \/ /\ a \notin held
                /\ keychain' = Archive(store', account')
                /\ process' = "dangling"
       \/ client[a].delegate = "store" /\ NilKeyRaises

\* A token request fails in another way: the client keeps its token, the account
\* forgets its own and nothing is saved.
ClientFails(a) ==
    /\ Running
    /\ Established(a)
    /\ client[a].token # 0 \/ Relogin
    /\ \/ /\ client[a].delegate = "account"
          /\ account' = [account EXCEPT ![a].token = 0]
          /\ UNCHANGED <<process, pending, orphan, store, held, client, keychain, issued>>
       \/ client[a].delegate = "store" /\ NilKeyRaises

\* A client without a token gets one (the application asked the client itself).
\* The account takes it over, whether it is in the store or not.
ClientGets(a) ==
    /\ Running
    /\ Relogin
    /\ Established(a)
    /\ client[a].token = 0
    /\ \/ /\ client[a].delegate = "account"
          /\ issued < MaxToken
          /\ issued' = issued + 1
          /\ client' = [client EXCEPT ![a].token = issued']
          /\ account' = [account EXCEPT ![a].token = issued']
          /\ Save(store, account')
          /\ UNCHANGED <<pending, orphan, store, held>>
       \/ client[a].delegate = "store" /\ NilKeyRaises

-----------------------------------------------------------------------------
(* The process                                                             *)

Kill ==
    /\ Running
    /\ process' = "down"
    /\ UNCHANGED <<memory, keychain, issued>>

\* init loads the accounts from the keychain, without clients.
Launch ==
    /\ ~Running
    /\ process' = "up"
    /\ pending' = [t \in Type |-> "none"]
    /\ orphan' = "none"
    /\ store' = keychain.ids
    /\ held' = {}
    /\ account' = keychain.content
    /\ client' = [a \in Account |-> NoClient]
    /\ UNCHANGED <<keychain, issued>>

Next ==
    \/ \E t \in Type :
         \/ RequestAccess(t) \/ RequestToken(t)
         \/ PendingGets(t) \/ PendingFails(t) \/ PendingGetsNothing(t)
    \/ \E ts \in Redirects : RedirectCode(ts) \/ RedirectError(ts) \/ RedirectNothing(ts)
    \/ OrphanReports
    \/ \E a \in Account :
         \/ \E d \in Data : SetUserData(a, d)
         \/ Hold(a) \/ Release(a) \/ RemoveAccount(a) \/ AddAccount(a) \/ MakeClient(a)
         \/ ClientRefreshes(a) \/ ClientLoses(a) \/ ClientRefused(a)
         \/ ClientFails(a) \/ ClientGets(a)
    \/ Kill \/ Launch

Spec == Init /\ [][Next]_vars

-----------------------------------------------------------------------------
(* Properties                                                              *)

\* The keychain holds the accounts of the store and their user data.
Mirrors == /\ keychain.ids = store
           /\ \A a \in store : keychain.content[a].data = account[a].data

\* While the program runs, the keychain holds exactly the accounts of the store
\* with their current user data, so that a kill at any moment outside a save
\* loses nothing (addAccount:, removeAccount:, the notification handlers).
SavedIsStored == Running => Mirrors

\* With a keychain that may refuse to add an item there is no partial or stale
\* save: all accounts are there or none is.
SavedAllOrNothing == Running => keychain = Empty \/ Mirrors

\* A launch never brings back an account that was removed before.
RemovedStaysRemoved == [][~Running /\ Running' => store' \subseteq store]_vars

\* The saved token of an account that is its client's delegate is never stale: it
\* is the token the client has now, or none after a failed refresh.
OwnTokenSaved ==
    Running => \A a \in store :
        Established(a) /\ client[a].delegate = "account"
          => keychain.content[a].token \in {0, client[a].token}

\* The store is no delegate of established clients: none of them ever makes it
\* look for a pending client that is not there.
StoreHearsOnlyPending == process # "nilKey"

\* The store implements the abstract vault.
Vault == INSTANCE AccountVault
    WITH vault <- keychain.ids, up <- IF Running THEN "up" ELSE "down"

\* Durable accounts change one at a time; only a kill during a save loses more.
ImplementsVault == Vault!VaultSpec
=============================================================================
