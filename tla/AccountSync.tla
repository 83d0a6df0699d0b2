---------------------------- MODULE AccountSync -----------------------------
(***************************************************************************)
(* Two installations of the messenger with one account merge what they     *)
(* keep, src/src/app/ipmsg_manager.cpp and database_manager.cpp: a request *)
(* is answered with a snapshot, the snapshot is applied and answered with  *)
(* the merged one, that one is applied and acknowledged.  Rows of devices, *)
(* groups and settings carry the second of their last change and the later *)
(* one wins; messages are put under their id.  Every command has a TCP     *)
(* connection of its own: commands overtake each other and get lost.       *)
(***************************************************************************)
EXTENDS Naturals, FiniteSets

CONSTANTS
  Rows,      \* keys of the rows that carry a time
  Mail,      \* message ids
  MaxClock,  \* bound: seconds
  MaxEdits,  \* bound: changes by the users
  MaxSyncs   \* bound: requests

VARIABLES
  row,      \* peer -> key -> time and value of the row, Absent when there is none
  mail,     \* peer -> message id -> what the peer has of it
  account,  \* peer -> m_syncAccountHash with m_syncKeyHash
  pending,  \* peer -> m_pendingSyncs has the other one
  net,      \* commands under way
  clock, edits, syncs,
  undisturbed  \* no change since the one request under way

vars == <<row, mail, account, pending, net, clock, edits, syncs, undisturbed>>

Peers == {"a", "b"}
Other(p) == IF p = "a" THEN "b" ELSE "a"
Absent == [at |-> 0, value |-> 0]
Row == {Absent} \cup [at : 1 .. MaxClock, value : 1 .. MaxEdits]
Accounts == {"same", "changed"}

\* A message is on a peer's disk or not; its pin and its picture stay local.
Copy == {"none", "plain", "pinned"}

Snapshot(p) == [row |-> row[p], mail |-> {m \in Mail : mail[p][m] # "none"}]
Request(p) == [type |-> "REQUEST", to |-> Other(p), account |-> account[p]]
SnapshotOf(p, reply, r, ids) ==
  [type |-> "SNAPSHOT", to |-> Other(p), account |-> account[p], reply |-> reply,
   row |-> r, mail |-> ids]
Ack(p, success) == [type |-> "ACK", to |-> Other(p), success |-> success]

Init ==
  /\ row = [p \in Peers |-> [k \in Rows |-> Absent]]
  /\ mail = [p \in Peers |-> [m \in Mail |-> "none"]]
  /\ account = [p \in Peers |-> "same"]
  /\ pending = [p \in Peers |-> FALSE]
  /\ net = {} /\ clock = 1 /\ edits = 0 /\ syncs = 0 /\ undisturbed = FALSE

-----------------------------------------------------------------------------
(* Local changes.                                                          *)

Edit == edits < MaxEdits /\ edits' = edits + 1 /\ undisturbed' = FALSE

\* saveDevice, addFriend, saveGroup, setSetting: stamped with the second.
ChangeRow(p, k) ==
  /\ Edit
  /\ row' = [row EXCEPT ![p][k] = [at |-> clock, value |-> edits']]
  /\ UNCHANGED <<mail, account, pending, net, clock, syncs>>

\* removeDevice, deleteGroup.
DeleteRow(p, k) ==
  /\ Edit /\ row[p][k] # Absent
  /\ row' = [row EXCEPT ![p][k] = Absent]
  /\ UNCHANGED <<mail, account, pending, net, clock, syncs>>

\* saveMessage, pinMessage.
ChangeMail(p, m) ==
  /\ Edit
  /\ mail' = [mail EXCEPT ![p][m] = IF @ = "none" THEN "plain" ELSE "pinned"]
  /\ UNCHANGED <<row, account, pending, net, clock, syncs>>

\* setAccount, with another account or another key.
SetAccount(p) ==
  /\ Edit
  /\ account' = [account EXCEPT ![p] = "changed"]
  /\ UNCHANGED <<row, mail, pending, net, clock, syncs>>

Second ==
  /\ clock < MaxClock /\ clock' = clock + 1
  /\ UNCHANGED <<row, mail, account, pending, net, edits, syncs, undisturbed>>

-----------------------------------------------------------------------------
(* Applying a snapshot.                                                    *)

\* Mutant: a row of the same second stays.
LaterMine(mine, theirs) == IF theirs = Absent \/ mine.at >= theirs.at THEN mine ELSE theirs

\* Mutant: the snapshot's row always wins.
LaterTheirs(mine, theirs) == IF theirs = Absent THEN mine ELSE theirs

\* A row the snapshot does not have stays; the snapshot's wins a tie.
Later(mine, theirs) == IF theirs = Absent \/ mine.at > theirs.at THEN mine ELSE theirs

Merged(p, m) == [k \in Rows |-> Later(row[p][k], m.row[k])]

\* A message of the snapshot replaces the one on disk, with its pin and picture.
MergedMail(p, m) == [id \in Mail |-> IF id \in m.mail THEN "plain" ELSE mail[p][id]]

-----------------------------------------------------------------------------
(* The commands.                                                           *)

SyncWith(p) ==
  /\ syncs < MaxSyncs /\ syncs' = syncs + 1
  /\ pending' = [pending EXCEPT ![p] = TRUE]
  /\ net' = net \cup {Request(p)}
  /\ undisturbed' = (net = {})
  /\ UNCHANGED <<row, mail, account, clock, edits>>

\* syncPeerValid.
PeerValid(m) == m.account = account[m.to]

ReceiveRequest(m) ==
  /\ m \in net /\ m.type = "REQUEST"
  /\ net' = (net \ {m}) \cup
       {IF PeerValid(m) THEN SnapshotOf(m.to, FALSE, row[m.to], Snapshot(m.to).mail)
                        ELSE Ack(m.to, FALSE)}
  /\ UNCHANGED <<row, mail, account, pending, clock, edits, syncs, undisturbed>>

ReceiveSnapshot(m) ==
  /\ m \in net /\ m.type = "SNAPSHOT" /\ PeerValid(m)
  /\ row' = [row EXCEPT ![m.to] = Merged(m.to, m)]
  /\ mail' = [mail EXCEPT ![m.to] = MergedMail(m.to, m)]
  /\ net' = (net \ {m}) \cup
       {IF m.reply THEN Ack(m.to, TRUE)
        ELSE SnapshotOf(m.to, TRUE, row'[m.to], {id \in Mail : mail'[m.to][id] # "none"})}
  /\ UNCHANGED <<account, pending, clock, edits, syncs, undisturbed>>

RefuseSnapshot(m) ==
  /\ m \in net /\ m.type = "SNAPSHOT" /\ ~PeerValid(m)
  /\ net' = (net \ {m}) \cup {Ack(m.to, FALSE)}
  /\ UNCHANGED <<row, mail, account, pending, clock, edits, syncs, undisturbed>>

\* syncCompleted or syncFailed.
ReceiveAck(m) ==
  /\ m \in net /\ m.type = "ACK"
  /\ net' = net \ {m}
  /\ pending' = [pending EXCEPT ![m.to] = FALSE]
  /\ UNCHANGED <<row, mail, account, clock, edits, syncs, undisturbed>>

\* The connection fails, or the text of a command arrives in two reads and
\* neither is a document.  Only the requester learns of an error.
Lose(m) ==
  /\ m \in net
  /\ net' = net \ {m}
  /\ \/ m.type = "REQUEST" /\ pending' = [pending EXCEPT ![Other(m.to)] = FALSE]
     \/ UNCHANGED pending
  /\ UNCHANGED <<row, mail, account, clock, edits, syncs, undisturbed>>

\* Ten seconds.
Timeout(p) ==
  /\ pending[p] /\ pending' = [pending EXCEPT ![p] = FALSE]
  /\ UNCHANGED <<row, mail, account, net, clock, edits, syncs, undisturbed>>

Next ==
  \/ \E p \in Peers : \/ \E k \in Rows : ChangeRow(p, k) \/ DeleteRow(p, k)
                      \/ \E m \in Mail : ChangeMail(p, m)
                      \/ SetAccount(p) \/ SyncWith(p) \/ Timeout(p)
  \/ Second
  \/ \E m \in net : \/ ReceiveRequest(m) \/ ReceiveSnapshot(m) \/ RefuseSnapshot(m)
                    \/ ReceiveAck(m) \/ Lose(m)

Spec == Init /\ [][Next]_vars

-----------------------------------------------------------------------------
TypeOK ==
  /\ row \in [Peers -> [Rows -> Row]] /\ mail \in [Peers -> [Mail -> Copy]]
  /\ account \in [Peers -> Accounts] /\ pending \in [Peers -> BOOLEAN]
  /\ clock \in 1 .. MaxClock

(* When a sync that nothing disturbed is acknowledged, the two             *)
(* installations have the same rows and the same messages, ties of a       *)
(* second included.  (applySyncSnapshot, database_manager.cpp:2988; the    *)
(* answers, ipmsg_manager.cpp:3079)                                        *)
SyncedAgree ==
  (undisturbed /\ \E m \in net : m.type = "ACK" /\ m.success)
    => /\ row["a"] = row["b"]
       /\ Snapshot("a").mail = Snapshot("b").mail

(* Commands that cross, overtake each other or come twice never put an     *)
(* older row in the place of a newer one and never take a message away.    *)
NothingOlder ==
  [][\A p \in Peers :
       /\ edits' = edits => \A k \in Rows : row'[p][k].at >= row[p][k].at
       /\ \A m \in Mail : mail[p][m] # "none" => mail'[p][m] # "none"]_vars
=============================================================================
