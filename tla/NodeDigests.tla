---------------------------- MODULE NodeDigests ----------------------------
(***************************************************************************)
(* The Hmac, Hash, Sign and Verify objects of node_crypto.cc.  Each is a   *)
(* digest context with a flag, initialised_, that init sets and the call   *)
(* that takes the result clears; a call in between can fail and leave the  *)
(* context as it is.  OpenSSL is external: a digest stands for what went   *)
(* into it, and a signature for that and the private key.                  *)
(***************************************************************************)
EXTENDS Integers, FiniteSets, Sequences

CONSTANTS
    Chunk,          \* data of an update
    Key,            \* keys, and the key pairs of Sign and Verify
    DigestMaxCalls        \* bound: calls of init, update and digest on an object

ASSUME DigestAssumption == DigestMaxCalls \in [{"Hmac", "Hash", "Sign", "Verify"} -> Nat]

VARIABLES
    digests,        \* the objects: flag, key and data of the context
    history,        \* the calls on each object and what they returned, in order
    signatures,     \* signatures that the application has got from Sign
    inUse           \* the classes that the application uses

digestVars == <<digests, history, signatures, inUse>>

-----------------------------------------------------------------------------
DigestClass == {"Hmac", "Hash", "Sign", "Verify"}

NoKey == "none"

\* An object that was never initialised.
NewDigest == [initialised |-> FALSE, key |-> NoKey, data |-> <<>>]

DigestsTypeOK ==
    /\ inUse \in {{"Hmac"}, {"Hash"}, {"Sign", "Verify"}}
    /\ digests \in [DigestClass -> [initialised : BOOLEAN, key : Key \cup {NoKey}, data : Seq(Chunk)]]
    /\ signatures \subseteq [of : Seq(Chunk), key : Key]

\* Hash is initialised when it is made, unless its type is unknown.
DigestsInit ==
    /\ inUse \in {{"Hmac"}, {"Hash"}, {"Sign", "Verify"}}
    /\ \E known \in BOOLEAN :
         digests = [k \in DigestClass |-> [NewDigest EXCEPT !.initialised = (k = "Hash" /\ known)]]
    /\ history = [k \in DigestClass |-> <<>>]
    /\ signatures = {}

\* The application makes one more call.
DigestCalled(k, call) ==
    /\ k \in inUse
    /\ Len(history[k]) < DigestMaxCalls[k]
    /\ history' = [history EXCEPT ![k] = Append(history[k], call)]
    /\ UNCHANGED inUse

\* A call that takes a result, and the result: a value of some data under a key, or
\* none ("" or undefined).
Result(is, of, key) == [do |-> "digest", is |-> is, of |-> of, key |-> key]

NoResult == Result("none", <<>>, NoKey)

-----------------------------------------------------------------------------
\* Mutant: an object that is initialised again keeps its data.
Started_KeepsData(k, key) ==
    digests' = [digests EXCEPT ![k].initialised = TRUE, ![k].key = key]

\* A new context of a known digest.
Started(k, key) ==
    digests' = [digests EXCEPT ![k] = [initialised |-> TRUE, key |-> key, data |-> <<>>]]

\* init; of an unknown digest it throws and the object stays as it was.
HmacInit(key) ==
    /\ DigestCalled("Hmac", [do |-> "init"])
    /\ Started("Hmac", key)
    /\ UNCHANGED signatures

SignInit ==
    /\ DigestCalled("Sign", [do |-> "init"])
    /\ Started("Sign", NoKey)
    /\ UNCHANGED signatures

VerifyInit ==
    /\ DigestCalled("Verify", [do |-> "init"])
    /\ Started("Verify", NoKey)
    /\ UNCHANGED signatures

\* update of an initialised object; otherwise it throws.
Update(k, d) ==
    /\ digests[k].initialised
    /\ DigestCalled(k, [do |-> "update", data |-> d])
    /\ digests' = [digests EXCEPT ![k] = [digests[k] EXCEPT !.data = Append(digests[k].data, d)]]
    /\ UNCHANGED signatures

HmacUpdate(d) == Update("Hmac", d)

HashUpdate(d) == Update("Hash", d)

SignUpdate(d) == Update("Sign", d)

VerifyUpdate(d) == Update("Verify", d)

\* The context is cleaned up.
Finished(k) == digests' = [digests EXCEPT ![k] = [digests[k] EXCEPT !.initialised = FALSE]]

\* digest of Hmac: "" without an initialised object, nothing in an unknown encoding.
HmacDigest(known) ==
    LET o == digests["Hmac"] IN
    /\ IF o.initialised THEN Finished("Hmac") ELSE UNCHANGED digests
    /\ DigestCalled("Hmac", IF o.initialised /\ known THEN Result("value", o.data, o.key) ELSE NoResult)
    /\ UNCHANGED signatures

\* digest of Hash throws where that of Hmac returns "".
HashDigest(known) ==
    LET o == digests["Hash"] IN
    /\ o.initialised
    /\ Finished("Hash")
    /\ DigestCalled("Hash", IF known THEN Result("value", o.data, NoKey) ELSE NoResult)
    /\ UNCHANGED signatures

\* sign with a private key, or with something that is none: then it returns ""
\* and the context stays open for another try.  An unknown encoding loses the
\* signature.
SignFinal(key, known) ==
    LET o == digests["Sign"] IN
    IF o.initialised /\ key # NoKey
    THEN /\ Finished("Sign")
         /\ DigestCalled("Sign", IF known THEN Result("value", o.data, key) ELSE NoResult)
         /\ signatures' = IF known THEN signatures \cup {[of |-> o.data, key |-> key]} ELSE signatures
    ELSE DigestCalled("Sign", NoResult) /\ UNCHANGED <<digests, signatures>>

\* What EVP makes of a signature.
Verifies(key, s) == s = [of |-> digests["Verify"].data, key |-> key]

\* verify of the signature s in the encoding it has, in another one or in an unknown
\* one, with the certificate of key or something that is none.  Only the first two with
\* a certificate finish the context.
VerifyFinal(key, s, encoding) ==
    LET Returns(r) == DigestCalled("Verify", Result(r, s.of, key)) IN
    /\ \/ encoding = "unknown" /\ Returns("-1") /\ UNCHANGED digests
       \/ /\ encoding # "unknown"
          /\ ~digests["Verify"].initialised \/ key = NoKey
          /\ Returns("0") /\ UNCHANGED digests
       \/ /\ encoding # "unknown"
          /\ digests["Verify"].initialised /\ key # NoKey
          /\ \E r \in IF encoding = "same" /\ Verifies(key, s) THEN {"1"} ELSE {"0", "-1"} : Returns(r)
          /\ Finished("Verify")
    /\ UNCHANGED signatures

-----------------------------------------------------------------------------
HmacNext == \/ \E key \in Key : HmacInit(key)
            \/ \E d \in Chunk : HmacUpdate(d)
            \/ \E known \in BOOLEAN : HmacDigest(known)

HashNext == \/ \E d \in Chunk : HashUpdate(d)
            \/ \E known \in BOOLEAN : HashDigest(known)

SignNext == \/ SignInit
            \/ \E d \in Chunk : SignUpdate(d)
            \/ \E key \in Key \cup {NoKey}, known \in BOOLEAN : SignFinal(key, known)

VerifyNext == \/ VerifyInit
              \/ \E d \in Chunk : VerifyUpdate(d)
              \/ \E key \in Key \cup {NoKey}, s \in signatures, e \in {"same", "other", "unknown"} :
                   VerifyFinal(key, s, e)

DigestsNext == HmacNext \/ HashNext \/ SignNext \/ VerifyNext

DigestsSpec == DigestsInit /\ [][DigestsNext]_digestVars

-----------------------------------------------------------------------------
\* The updates among the first n calls of h since the last init.
UpdatesSince(h, n) == {i \in 1..n : h[i].do = "update" /\ \A j \in i..n : h[j].do # "init"}

\* Whether data is what these updates gave, in their order: each is at its rank.
IsGivenBy(data, h, n) ==
    LET updates == UpdatesSince(h, n) IN
    /\ Len(data) = Cardinality(updates)
    /\ \A i \in updates : data[Cardinality({j \in updates : j <= i})] = h[i].data

\* The calls of h that gave a result, or for Verify a yes.
Taken(h) == {n \in DOMAIN h : h[n].do = "digest" /\ h[n].is \in {"value", "1"}}

\* A digest or a signature is of all the data since the last init and of nothing else,
\* after failed attempts and a second init too.
DigestOfItsData ==
    \A k \in {"Hmac", "Hash", "Sign"} : \A n \in Taken(history[k]) : IsGivenBy(history[k][n].of, history[k], n)

\* verify returns 1 only for the data it was given, when Sign signed just that with the
\* private key of the certificate.
VerifiedWasSigned ==
    \A n \in Taken(history["Verify"]) :
        LET yes == history["Verify"][n] IN
        /\ IsGivenBy(yes.of, history["Verify"], n)
        /\ [of |-> yes.of, key |-> yes.key] \in signatures

\* Between two inits at most one result is taken out of an object.
OneResultPerInit ==
    \A k \in DigestClass : \A m, n \in Taken(history[k]) :
        m < n => \E i \in m..n : history[k][i].do = "init"

\* Hash, Hmac, Sign and Verify: a result is of the data of its own init, verify agrees only
\* with what was signed, and an object that has given its result gives no other.
DigestsSafe ==
    /\ DigestsTypeOK
    /\ DigestOfItsData
    /\ VerifiedWasSigned
    /\ OneResultPerInit
=============================================================================
