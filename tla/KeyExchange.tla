---------------------------- MODULE KeyExchange -----------------------------
(***************************************************************************)
(* The key exchange of the messenger, src/src/app/ipmsg_manager.cpp: two   *)
(* devices send each other public keys and each computes the secret of the *)
(* pair.  A device has a key pair of its own, in two members of which an   *)
(* initiation writes only the public one, and every key it receives is     *)
(* answered with its public key.  A key pair is the number it was          *)
(* generated under, a secret the set of the two public keys.  Commands     *)
(* have connections of their own: they overtake each other and get lost.   *)
(***************************************************************************)
EXTENDS Naturals, FiniteSets

CONSTANTS
  Again,    \* a device that has a key pair initiates again
  MaxInits, \* bound: initiations
  MaxLost   \* bound: failed connections

VARIABLES
  private,  \* device -> localPrivateKey, None when empty
  public,   \* device -> localPublicKey
  sessions,  \* device -> sharedSecret, verified and whether there is an entry
  wire,     \* keys under way
  inits, lost,
  generated \* key pairs so far

vars == <<private, public, sessions, wire, inits, lost, generated>>

Devices == {"a", "b"}
Peer(d) == IF d = "a" THEN "b" ELSE "a"
None == 0
NoSecret == {}
MaxKeys == MaxInits + Cardinality(Devices)
Keys == 1 .. MaxKeys
Message == [to : Devices, key : Keys]

\* Mutant: the two keys in the order of each caller.
SecretUnsorted(peerKey, privateKey) == {<<peerKey, privateKey>>}

Secret(peerKey, privateKey) == {peerKey, privateKey}
Entry(secret) == [secret |-> secret, verified |-> FALSE, there |-> TRUE]

Init ==
  /\ private = [d \in Devices |-> None] /\ public = [d \in Devices |-> None]
  /\ sessions = [d \in Devices |-> [secret |-> NoSecret, verified |-> FALSE, there |-> FALSE]]
  /\ wire = {} /\ inits = 0 /\ lost = 0 /\ generated = 0

\* initiateKeyExchange: the private key goes into the session only, which the
\* answer replaces.
Initiate(d) ==
  /\ inits < MaxInits /\ inits' = inits + 1
  /\ Again \/ private[d] = None
  /\ generated' = generated + 1
  /\ public' = [public EXCEPT ![d] = generated']
  /\ sessions' = [sessions EXCEPT ![d] = Entry(NoSecret)]
  /\ wire' = wire \cup {[to |-> Peer(d), key |-> generated']}
  /\ UNCHANGED <<private, lost>>

\* KEY_EXCHANGE: always answered.
ReceiveKey(m) ==
  /\ m \in wire
  /\ LET d == m.to
         fresh == private[d] = None \/ public[d] = None
     IN  /\ generated' = IF fresh THEN generated + 1 ELSE generated
         /\ private' = [private EXCEPT ![d] = IF fresh THEN generated' ELSE @]
         /\ public' = [public EXCEPT ![d] = IF fresh THEN generated' ELSE @]
         /\ sessions' = [sessions EXCEPT ![d] = Entry(Secret(m.key, private'[d]))]
         /\ wire' = (wire \ {m}) \cup {[to |-> Peer(d), key |-> public'[d]]}
  /\ UNCHANGED <<inits, lost>>

LoseKey(m) ==
  /\ m \in wire /\ lost < MaxLost /\ lost' = lost + 1
  /\ wire' = wire \ {m}
  /\ UNCHANGED <<private, public, sessions, inits, generated>>

\* verifySession, unverifySession: the user compared fingerprints.
Verify(d) ==
  /\ sessions[d].there
  /\ sessions' = [sessions EXCEPT ![d].verified = ~@]
  /\ UNCHANGED <<private, public, wire, inits, lost, generated>>

Next ==
  \/ \E d \in Devices : Initiate(d) \/ Verify(d)
  \/ \E m \in wire : ReceiveKey(m) \/ LoseKey(m)

\* A command that is neither lost nor overtaken for ever is read.
Spec == Init /\ [][Next]_vars /\ \A m \in Message : WF_vars(ReceiveKey(m))

-----------------------------------------------------------------------------
(* Both ends come to the same secret and keep it, whoever initiated, in    *)
(* whatever order the keys arrive, when no connection failed.              *)
(* (computeSharedSecret, ipmsg_manager.cpp:2465; the handler, :2882)       *)
Agreed ==
  \/ inits = 0 \/ lost > 0
  \/ sessions["a"].secret = sessions["b"].secret /\ sessions["a"].secret # NoSecret
SecretsMeet == <>[]Agreed
=============================================================================
