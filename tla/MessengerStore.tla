--------------------------- MODULE MessengerStore ---------------------------
(***************************************************************************)
(* What the messenger keeps in SQLite, src/src/app/database_manager.cpp:   *)
(* one table per kind of record, each with a statement that saves a whole  *)
(* record under its key, statements that update some columns, and readers. *)
(*                                                                         *)
(* INSERT OR REPLACE deletes the row of the key and inserts one that has   *)
(* the columns of the statement and the defaults of the others.  A column  *)
(* holds the number of the operation that gave it its value; Default is    *)
(* the table's default or a constant of the statement.                     *)
(***************************************************************************)
EXTENDS Naturals, Functions

CONSTANTS
  Keys,    \* primary keys
  MaxOps   \* bound: operations on the store

VARIABLES
  name,    \* the kind of record this behaviour is about
  rows,    \* its table: key -> column -> value
  chats,   \* recent_chats, which saving a message writes too
  given,   \* key -> column -> the value callers gave last
  ops

vars == <<name, rows, chats, given, ops>>

Default == 0

-----------------------------------------------------------------------------
(* The tables.  saved: the columns a save binds to the record's fields;    *)
(* fixed: those it binds to a constant; read: those a reader gives back;   *)
(* updates: for each updating statement the columns it sets.               *)

Table(saved, fixed, read, updates) ==
  [saved |-> saved, fixed |-> fixed, read |-> read, updates |-> updates]

MessageColumns ==
  {"sender_id", "sender_name", "sender_ip", "content", "timestamp", "is_file", "file_path",
   "file_size", "is_directory", "is_image", "image_data", "image_file_name", "reply_to",
   "reply_content", "recall_id", "is_recalled"}

\* Recall, read mark, pin; is_read is saved as 0.
Messages ==
  Table(MessageColumns \cup {"message_id", "target_id", "is_group"}, {"is_read"},
        MessageColumns \cup {"is_read", "is_pinned"},
        {{"is_recalled", "content"}, {"is_read", "read_by"}, {"is_pinned"}})

\* last_seen, friend on or off, remark; is_friend is saved as 0.
DeviceRows ==
  Table({"device_id", "name", "ip", "port", "last_seen"}, {"is_friend"},
        {"device_id", "name", "ip", "port", "last_seen", "is_friend", "friend_remark"},
        {{"last_seen"}, {"is_friend"}, {"friend_remark"}})

GroupRows ==
  LET own == {"group_id", "name", "member_ids", "member_names", "created_at"}
  IN  Table(own \cup {"owner_id"}, {}, own, {})

Settings == Table({"key", "value"}, {}, {"value"}, {})

\* Mutant: the save statement of before resumable transfers.
TransfersUnresumable ==
  LET own == {"file_id", "file_name", "file_size", "md5", "local_path", "remote_path",
              "transferred_size", "status", "start_time", "end_time", "is_sender", "target_id",
              "is_group"}
  IN  Table(own, {}, own \cup {"checksum", "resume_offset", "session_id"},
            {{"transferred_size", "status", "resume_offset"}})

Transfers ==
  LET own == {"file_id", "file_name", "file_size", "md5", "local_path", "remote_path",
              "transferred_size", "status", "start_time", "end_time", "is_sender", "target_id",
              "is_group", "checksum", "resume_offset", "session_id"}
      progress == {"transferred_size", "status", "resume_offset"}
  IN  Table(own, {}, own, {progress, progress \cup {"end_time"}})

\* Delivered, tried again.
OfflineMessages ==
  LET own == {"id", "target_device_id", "payload", "retry_count", "created_at", "expires_at"}
  IN  Table(own, {"max_retries"}, own \cup {"delivered_at"}, {{"delivered_at"}, {"retry_count"}})

Sessions ==
  LET own == {"device_id", "public_key", "shared_secret", "session_id", "established_at",
              "last_activity", "encryption_algorithm", "nonce", "is_active"}
  IN  Table(own, {}, own, {{"is_active"}})

\* Rich messages: one table each, marked read one by one.
Rich(own) ==
  LET columns == own \cup {"message_id", "sender_id", "sender_name", "timestamp", "is_read",
                           "target_id", "is_group"}
  IN  Table(columns, {}, columns, {{"is_read"}})

VoiceMessages == Rich({"voice_data", "voice_file_name", "duration"})
VideoMessages == Rich({"video_data", "video_file_name", "duration", "width", "height"})
LocationMessages == Rich({"latitude", "longitude", "location_name"})
CardMessages == Rich({"vcard_data"})
MergeForwards == Rich({"merged_data"})

\* What a group shares: saved once, listed by group.
Shared(own, updates) ==
  LET columns == own \cup {"id", "group_id", "group_name", "timestamp"}
  IN  Table(columns, {}, columns, updates)

Announcements == Shared({"announcement", "announcer_id", "announcer_name"}, {})
Mentions ==
  Shared({"message", "mentioned_member_ids", "mentioned_member_names", "sender_id", "sender_name"}, {})
Votes == Shared({"vote_title", "options", "duration_seconds", "creator_id", "creator_name"}, {})
GroupFiles ==
  Shared({"file_id", "file_name", "file_size", "md5", "uploader_id", "uploader_name"}, {})
Albums ==
  Shared({"album_id", "album_name", "file_ids", "file_names", "creator_id", "creator_name"}, {})
Todos ==
  Shared({"todo_id", "title", "description", "status", "priority", "assignee_id", "assignee_name",
          "creator_id", "creator_name", "due_date"}, {{"status"}})

SyncRequests ==
  LET own == {"request_id", "account_hash", "sync_key_hash", "timestamp"} IN Table(own, {}, own, {})
SyncAcks ==
  LET own == {"request_id", "success", "applied_count", "error_message"}
  IN  Table(own, {"timestamp"}, own, {})
SyncSnapshots ==
  LET own == {"version", "data"} IN Table(own, {"timestamp"}, own, {})

BlockedUsers == Table({"device_id", "reason"}, {}, {"device_id"}, {})
BlacklistedIps == LET own == {"ip", "reason"} IN Table(own, {}, own, {})
DevicePermissions ==
  LET own == {"device_id", "level", "cap_mask", "note"} IN Table(own, {}, own, {})

Tables ==
  [messages |-> Messages, devices |-> DeviceRows, groups |-> GroupRows, settings |-> Settings,
   file_transfers |-> Transfers, offline_messages |-> OfflineMessages, e2ee_sessions |-> Sessions,
   voice_messages |-> VoiceMessages, video_messages |-> VideoMessages,
   location_messages |-> LocationMessages, card_messages |-> CardMessages,
   merge_forward_messages |-> MergeForwards, group_announcements |-> Announcements,
   group_mentions |-> Mentions, group_votes |-> Votes, group_files |-> GroupFiles,
   group_albums |-> Albums, group_todos |-> Todos, sync_requests |-> SyncRequests,
   sync_acks |-> SyncAcks, sync_snapshots |-> SyncSnapshots, blocked_users |-> BlockedUsers,
   blacklisted_ips |-> BlacklistedIps, device_permissions |-> DevicePermissions]

Layout == Tables[name]
Columns == Layout.saved \cup Layout.fixed \cup Layout.read \cup UNION Layout.updates

\* The columns of `read' that no record has a field for: only updates give them
\* a value, and they are read with the record or by readers of their own.
Apart == [n \in DOMAIN Tables |->
            CASE n = "messages" -> {"is_read", "is_pinned"}
              [] n = "devices" -> {"is_friend", "friend_remark"}
              [] n = "offline_messages" -> {"delivered_at"}
              [] OTHER -> {}]

Init ==
  /\ name \in DOMAIN Tables
  /\ rows = [k \in {} |-> 0] /\ given = [k \in {} |-> 0]
  /\ chats = Default /\ ops = 0

With(map, k, row) == [x \in DOMAIN map \cup {k} |-> IF x = k THEN row ELSE map[x]]

\* saveX, and updateGroup and updateE2EESession, which call it.
Save(k) ==
  /\ ops < MaxOps /\ ops' = ops + 1
  /\ rows' = With(rows, k, [c \in Columns |-> IF c \in Layout.saved THEN ops' ELSE Default])
  /\ given' = With(given, k, [c \in Layout.read |-> IF c \in Apart[name] THEN Default ELSE ops'])
  /\ chats' = IF name = "messages" THEN ops' ELSE chats
  /\ UNCHANGED name

\* UPDATE ... WHERE key: nothing happens to a key that is not there.
Update(k, columns) ==
  /\ ops < MaxOps /\ ops' = ops + 1
  /\ k \in DOMAIN rows /\ columns \in Layout.updates
  \* The first reader of a message stays its reader.
  /\ "read_by" \in columns => rows[k]["is_read"] = Default
  /\ rows' = [rows EXCEPT ![k] = [c \in Columns |-> IF c \in columns THEN ops' ELSE @[c]]]
  /\ given' = [given EXCEPT ![k] = [c \in Layout.read |-> IF c \in columns THEN ops' ELSE @[c]]]
  /\ UNCHANGED <<name, chats>>

Removable == {"devices", "groups", "e2ee_sessions", "blocked_users", "blacklisted_ips",
              "device_permissions"}

Remove(k) ==
  /\ ops < MaxOps /\ ops' = ops + 1
  /\ name \in Removable /\ k \in DOMAIN rows
  /\ rows' = Restrict(rows, DOMAIN rows \ {k})
  /\ given' = Restrict(given, DOMAIN given \ {k})
  /\ UNCHANGED <<name, chats>>

\* cleanupExpiredOfflineMessages: what was delivered, and what is too old.
CleanupExpired(old) ==
  /\ ops < MaxOps /\ ops' = ops + 1
  /\ name = "offline_messages"
  /\ LET gone == old \cup {k \in DOMAIN rows : rows[k]["delivered_at"] # Default}
     IN  /\ rows' = Restrict(rows, DOMAIN rows \ gone)
         /\ given' = Restrict(given, DOMAIN given \ gone)
  /\ UNCHANGED <<name, chats>>

Next ==
  \/ \E k \in Keys : Save(k) \/ Remove(k) \/ \E c \in Layout.updates : Update(k, c)
  \/ \E old \in SUBSET DOMAIN rows : CleanupExpired(old)

Spec == Init /\ [][Next]_vars

-----------------------------------------------------------------------------
(* Whatever the sequence of saves, updates and removals, a reader of any   *)
(* table gets for every column the value given last for that key: no save  *)
(* leaves out a column a reader gives back, no update reaches another      *)
(* column.  Saving a record again loses exactly the columns of `Apart'.    *)
(* (the save, update and load functions of database_manager.cpp)           *)
StoreRemembers ==
  \A k \in DOMAIN given : \A c \in Layout.read : rows[k][c] = given[k][c]
=============================================================================
