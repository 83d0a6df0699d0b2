-------------------------- MODULE MessengerCommands ---------------------------
(***************************************************************************)
(* The commands of the messenger besides text, files, keys and             *)
(* synchronisation, src/src/app/ipmsg_manager.cpp: one JSON document on a  *)
(* TCP connection of its own, so that any two may overtake each other.     *)
(* A document is a function from its keys to values with their JSON type;  *)
(* each value is the name of the parameter it was made of.                 *)
(***************************************************************************)
EXTENDS Naturals, Sequences, FiniteSets, SequencesExt

CONSTANTS
  Users,         \* the devices
  Creator,       \* the one that has a group: groups are known to their creator only
  Speakers,      \* bound: those of them that act, the creator among them
  Commands,      \* what is sent in a behaviour
  FreshList,     \* whether a contact offered for a group is still in m_devices
  MaxActs        \* bound: commands, changes of the group, devices found or lost, restarts

VARIABLES
  known,         \* user -> m_devices
  met,           \* user -> the rows of its table devices
  friends,       \* user -> m_friends
  stored,        \* user -> rows of devices with is_friend
  asking,        \* user -> those whose friend request is shown
  group,         \* {} or {the creator's group}: its memberIds and memberNames
  underway,      \* documents sent and not yet read
  mail,          \* documents put into offline_messages
  saved,         \* rows of messages
  shown,         \* what the document read last handed to the windows
  acts

people == <<known, met, friends, stored, asking>>
talk == <<underway, mail, saved>>
talkVars == <<people, group, talk, shown, acts>>

-----------------------------------------------------------------------------
(* What a sender writes into a document, key by key.                       *)

\* The fields of both, those of f where they share one.
Merge(f, g) == [x \in DOMAIN f \cup DOMAIN g |-> IF x \in DOMAIN f THEN f[x] ELSE g[x]]

Text(v)   == [type |-> "string", of |-> v]
Num(v)    == [type |-> "number", of |-> v]
Array(v)  == [type |-> "array", of |-> v]
Base64(v) == [type |-> "base64", of |-> v]

Talk ==
  [MSG |-> [message |-> Text("message"), recallId |-> Text("recallId")],
   REPLY |-> [message |-> Text("message"), replyTo |-> Text("replyTo"),
              replyContent |-> Text("replyContent")],
   IMAGE |-> [fileName |-> Text("fileName"), imageData |-> Base64("imageData")],
   RECALL |-> [recallId |-> Text("recallId"), senderName |-> Text("senderName")],
   READ |-> [messageId |-> Text("messageId")],
   TYPING |-> << >>]
Befriending == [FRIEND_REQUEST |-> [message |-> Text("message")], FRIEND_ACCEPT |-> << >>,
                FRIEND_REJECT |-> << >>]
Media ==
  [VOICE_MSG |-> [voiceData |-> Base64("voiceData"), voiceDuration |-> Num("duration")],
   VIDEO_MSG |-> [videoData |-> Base64("videoData"), videoDuration |-> Num("duration"),
                  videoWidth |-> Num("width"), videoHeight |-> Num("height")],
   LOCATION_MSG |-> [latitude |-> Text("lat"), longitude |-> Text("lon"),
                     locationName |-> Text("name")],
   CARD_MSG |-> [vcard |-> Text("vCardData")]]
Calls ==
  [CALL_INVITE |-> [callType |-> Text("callType"), sdp |-> Text("none")],
   CALL_ACCEPT |-> [sdp |-> Text("none")], CALL_REJECT |-> << >>, CALL_END |-> << >>,
   ICE_CANDIDATE |-> [sdp |-> Base64("sdp")]]
ToGroup ==
  [GROUP_ANNOUNCEMENT |-> [groupId |-> Text("groupId"), groupName |-> Text("groupName"),
                           announcement |-> Text("announcement")],
   GROUP_MENTION |-> [groupId |-> Text("groupId"), groupName |-> Text("groupName"),
                      message |-> Text("message"), mentionedMembers |-> Array("mentionedMembers")],
   GROUP_VOTE |-> [groupId |-> Text("groupId"), groupName |-> Text("groupName"),
                   voteTitle |-> Text("voteTitle"), options |-> Array("options"),
                   durationSeconds |-> Num("durationSeconds")]]
Written == Merge(Talk, Merge(Befriending, Merge(Media, Merge(Calls, ToGroup))))

Document(d, command) ==
  Merge(Written[command], [id |-> Text(d), name |-> Text("senderName"), timestamp |-> Num("timestamp")])

-----------------------------------------------------------------------------
(* What the receiver reads: for each parameter of the signal it emits the  *)
(* key and the type it expects there.                                      *)

From(k)   == [key |-> k, type |-> "string"]
FromNum(k) == [key |-> k, type |-> "number"]
FromArray(k) == [key |-> k, type |-> "array"]
FromBase64(k) == [key |-> k, type |-> "base64"]

Message(fields) ==
  Merge(fields, [sender |-> From("id"), senderName |-> From("name"), timestamp |-> FromNum("timestamp")])

ReadsTalk ==
  [MSG |-> Message([message |-> From("message"), recallId |-> From("recallId")]),
   RECALL |-> [recallId |-> From("recallId"), senderName |-> From("senderName")],
   READ |-> [messageId |-> From("messageId"), senderName |-> From("name")],
   TYPING |-> [senderName |-> From("name")]]
ReadsImage ==
  [IMAGE |-> Message([message |-> From("message"), replyTo |-> From("replyTo"),
                      replyContent |-> From("replyContent")])]
Sender == [sender |-> From("id"), senderName |-> From("name")]
ReadsBefriending ==
  [FRIEND_REQUEST |-> Merge(Sender, [message |-> From("message")]),
   FRIEND_ACCEPT |-> Sender, FRIEND_REJECT |-> Sender]
ReadsMedia ==
  [VOICE_MSG |-> Message([voiceData |-> FromBase64("voiceData"),
                          duration |-> FromNum("voiceDuration")]),
   VIDEO_MSG |-> Message([videoData |-> FromBase64("videoData"),
                          duration |-> FromNum("videoDuration"), width |-> FromNum("videoWidth"),
                          height |-> FromNum("videoHeight")]),
   LOCATION_MSG |-> Message([lat |-> From("latitude"), lon |-> From("longitude"),
                             name |-> From("locationName")]),
   CARD_MSG |-> Message([vCardData |-> From("vcard")])]
ReadsCalls ==
  [CALL_INVITE |-> Sender, CALL_ACCEPT |-> [sender |-> From("id")],
   CALL_REJECT |-> [sender |-> From("id")], CALL_END |-> [sender |-> From("id")],
   ICE_CANDIDATE |-> [sender |-> From("id"), sdp |-> FromBase64("sdp")]]
ReadsGroup ==
  [GROUP_ANNOUNCEMENT |-> [groupId |-> From("groupId"), announcement |-> From("announcement"),
                           senderName |-> From("name")],
   GROUP_MENTION |-> [groupId |-> From("groupId"), mentionedMembers |-> FromArray("mentionedMembers"),
                      message |-> From("message"), senderName |-> From("name")],
   GROUP_VOTE |-> [groupId |-> From("groupId"), voteTitle |-> From("voteTitle"),
                   options |-> FromArray("options"), durationSeconds |-> FromNum("durationSeconds"),
                   senderName |-> From("name")]]
Understood ==
  Merge(ReadsTalk, Merge(ReadsImage, Merge(ReadsBefriending, Merge(ReadsMedia, Merge(ReadsCalls, ReadsGroup)))))

\* A key that is missing or of another type gives a default value.
Value(document, want) ==
  IF want.key \in DOMAIN document /\ document[want.key].type = want.type
  THEN document[want.key].of ELSE "default"

Wants(command) ==
  LET understood == Understood
  IN IF command \in DOMAIN understood THEN understood[command] ELSE << >>
Read(w) ==
  LET wants == Wants(w.command)
  IN [f \in DOMAIN wants |-> Value(w.document, wants[f])]

-----------------------------------------------------------------------------
Init ==
  /\ known \in {[d \in Users |-> {}], [d \in Users |-> Users \ {d}]}
  /\ met = known
  /\ friends = [d \in Users |-> {}] /\ stored = friends /\ asking = friends
  /\ group = {}
  /\ underway = {} /\ mail = {} /\ saved = {} /\ shown = {}
  /\ acts = 0

-----------------------------------------------------------------------------
(* Who is there.                                                           *)

Act == acts < MaxActs /\ acts' = acts + 1 /\ shown' = {}

\* HELLO: the row is replaced, and with it what it said of friendship.
Hello(d, e) ==
  /\ Act
  /\ known' = [known EXCEPT ![d] = @ \cup {e}]
  /\ met' = [met EXCEPT ![d] = @ \cup {e}]
  /\ stored' = [stored EXCEPT ![d] = @ \ {e}]
  /\ UNCHANGED <<friends, asking, group, talk>>

\* Not heard of for thirty seconds.
Stale(d, e) ==
  /\ Act
  /\ e \in known[d]
  /\ known' = [known EXCEPT ![d] = @ \ {e}]
  /\ UNCHANGED <<met, friends, stored, asking, group, talk>>

\* stop and start, or the end of the process, which loses what it had not sent: the rest
\* is loaded from the tables.  Groups are saved at every change.
Restart(d) ==
  /\ Act
  /\ known' = [known EXCEPT ![d] = met[d]]
  /\ friends' = [friends EXCEPT ![d] = stored[d]]
  /\ asking' = [asking EXCEPT ![d] = {}]
  /\ underway' \in {underway, {w \in underway : w.from # d}}
  /\ UNCHANGED <<met, stored, group, mail, saved>>

-----------------------------------------------------------------------------
(* Sending.                                                                *)

\* What fails is queued for these, and these are kept by the sender.
Queued == {"MSG", "VOICE_MSG", "VIDEO_MSG"}
Kept == {"MSG"} \cup DOMAIN Media

Letter(d, e, command) ==
  [from |-> d, to |-> e, command |-> command, document |-> Document(d, command),
   named |-> e \in known[d]]

Save(d, e, command) ==
  IF command \in Kept /\ e \in known[d] THEN saved \cup {<<d, command, e>>} ELSE saved

Send(d, e, command) ==
  /\ Act
  /\ underway' = underway \cup {Letter(d, e, command)}
  /\ saved' = Save(d, e, command)
  /\ UNCHANGED mail

Direct == DOMAIN Written \ (DOMAIN ToGroup \cup {"FRIEND_ACCEPT", "FRIEND_REJECT"})

Say(d, e, command) ==
  /\ Send(d, e, command)
  /\ command \in Direct
  /\ UNCHANGED <<people, group>>

\* The answer to a request that is shown; a friend is noted in the table alone.
AcceptFriend(d, e) ==
  /\ e \in asking[d]
  /\ Send(d, e, "FRIEND_ACCEPT")
  /\ asking' = [asking EXCEPT ![d] = @ \ {e}]
  /\ stored' = IF e \in known[d] THEN [stored EXCEPT ![d] = @ \cup {e}] ELSE stored
  /\ UNCHANGED <<known, met, friends, group>>

RejectFriend(d, e) ==
  /\ e \in asking[d]
  /\ Send(d, e, "FRIEND_REJECT")
  /\ asking' = [asking EXCEPT ![d] = @ \ {e}]
  /\ UNCHANGED <<known, met, friends, stored, group>>

\* sendGroupMessage: a text for every member that is there.
TextToMembers(g) ==
  {Letter(Creator, m, "MSG") : m \in (ToSet(g.ids) \ {Creator}) \cap known[Creator]}
TextKept(g) ==
  {<<Creator, "MSG", "group">>}
    \cup {<<Creator, "MSG", m>> : m \in (ToSet(g.ids) \ {Creator}) \cap known[Creator]}

\* The creator is a member who is not in m_devices: mentions and votes are queued for
\* itself, a mention only if a name that m_devices does not have is mentioned.
TellGroup(command) ==
  \E g \in group :
    LET members == ToSet(g.ids)
        absent == (IF command = "GROUP_ANNOUNCEMENT" THEN members \ {Creator} ELSE members)
                    \ known[Creator]
    IN /\ Act
       /\ command \in DOMAIN ToGroup
       /\ underway' = underway
            \cup {Letter(Creator, m, command) : m \in members \cap known[Creator]}
            \cup (IF command = "GROUP_ANNOUNCEMENT" THEN {} ELSE TextToMembers(g))
       /\ mail' = IF command = "GROUP_MENTION" THEN mail
                  ELSE mail \cup {Letter(Creator, m, command) : m \in absent}
       /\ saved' = IF command = "GROUP_ANNOUNCEMENT" THEN saved ELSE saved \cup TextKept(g)
       /\ UNCHANGED <<people, group>>

SayToGroup ==
  \E g \in group :
    /\ Act
    /\ underway' = underway \cup TextToMembers(g)
    /\ saved' = saved \cup TextKept(g)
    /\ UNCHANGED <<mail, people, group>>

-----------------------------------------------------------------------------
(* Receiving.                                                              *)

\* A document is read when its connection has it; REPLY is not understood.
Receive(w) ==
  /\ w \in underway /\ underway' = underway \ {w} /\ UNCHANGED acts
  /\ LET read == Read(w)
         d == w.to
         e == w.document.id.of
     IN /\ shown' = {[letter |-> w, read |-> read]}
        /\ saved' = IF w.command \in {"MSG", "IMAGE"} \cup DOMAIN Media
                    THEN saved \cup {<<d, w.command, e>>} ELSE saved
        /\ asking' = IF w.command = "FRIEND_REQUEST"
                     THEN [asking EXCEPT ![d] = @ \cup {e}] ELSE asking
        /\ IF w.command = "FRIEND_ACCEPT"
           THEN /\ friends' = [friends EXCEPT ![d] = @ \cup {e}]
                /\ stored' = IF e \in met[d] THEN [stored EXCEPT ![d] = @ \cup {e}] ELSE stored
           ELSE UNCHANGED <<friends, stored>>
  /\ UNCHANGED <<known, met, group, mail>>

Fail(w) ==
  /\ w \in underway /\ underway' = underway \ {w} /\ UNCHANGED acts
  /\ mail' = IF w.command \in Queued /\ w.named THEN mail \cup {w} ELSE mail
  /\ shown' = {}
  /\ UNCHANGED <<saved, people, group>>

-----------------------------------------------------------------------------
(* The group: two lists side by side.                                      *)

NameOf(m) == IF m \in known[Creator] \cup {Creator} THEN m ELSE "Unknown"

Edit == Act /\ UNCHANGED <<people, talk>>

CreateGroup(members) ==
  /\ Edit /\ group = {} /\ members # {}
  /\ group' = {[ids |-> s, names |-> [i \in DOMAIN s |-> NameOf(s[i])]] :
                 s \in {<<Creator>> \o SetToSeq(members)}}

Invite(m) ==
  \E g \in group :
    /\ Edit /\ m \notin ToSet(g.ids)
    /\ FreshList => m \in known[Creator]
    /\ group' = {[ids |-> Append(g.ids, m),
                  names |-> IF m \in known[Creator] THEN Append(g.names, m) ELSE g.names]}

RemoveMemberOnly(m) ==
  \E g \in group :
    /\ Edit /\ m \in ToSet(g.ids) \ {Creator}
    /\ LET i == CHOOSE j \in DOMAIN g.ids : g.ids[j] = m
       IN group' = {[ids |-> RemoveAt(g.ids, i), names |-> g.names]}
RemoveMember(m) ==
  \E g \in group :
    /\ Edit /\ m \in ToSet(g.ids) \ {Creator}
    /\ LET i == CHOOSE j \in DOMAIN g.ids : g.ids[j] = m
       IN group' = {[ids |-> RemoveAt(g.ids, i),
                     names |-> IF i <= Len(g.names) THEN RemoveAt(g.names, i) ELSE g.names]}

Dissolve == Edit /\ group # {} /\ group' = {}

Next ==
  \/ \E d \in Speakers : Restart(d) \/ \E e \in Users \ {d} : Hello(d, e) \/ Stale(d, e)
  \/ \E d, e \in Speakers :
       /\ d # e
       /\ AcceptFriend(d, e) \/ RejectFriend(d, e) \/ \E c \in Commands : Say(d, e, c)
  \/ \E c \in Commands : TellGroup(c)
  \/ SayToGroup
  \/ \E w \in underway : Receive(w) \/ Fail(w)
  \/ \E ms \in SUBSET (Users \ {Creator}) : CreateGroup(ms)
  \/ \E m \in Users \ {Creator} : Invite(m) \/ RemoveMember(m)
  \/ Dissolve

-----------------------------------------------------------------------------
(* The parameters of the function that sends a command.                    *)
Given(command) ==
  LET fields == Written[command]
  IN {fields[k].of : k \in DOMAIN fields} \ {"none", "groupName"}

(* Whoever gets a command gets every parameter its sender was given, under *)
(* its own name, and the sender's identity.                                *)
RoundTrip ==
  \A s \in shown :
    /\ Given(s.letter.command) \subseteq DOMAIN s.read
    /\ \A f \in DOMAIN s.read : s.read[f] = IF f = "sender" THEN s.letter.from ELSE f

(* The names of a group stay beside the members they belong to, through    *)
(* invitations and removals while devices come and go: the sender of a     *)
(* vote is found by the place of its name.                                 *)
NamesMatchMembers ==
  \A g \in group :
    /\ Len(g.names) = Len(g.ids)
    /\ \A i \in DOMAIN g.ids : g.names[i] \in {g.ids[i], "Unknown"}
=============================================================================
