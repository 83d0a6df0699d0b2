------------------------------- MODULE WireCodec -------------------------------
(***************************************************************************)
(* The payloads of core/protocol_manager.cpp: what each encode function    *)
(* writes, and what the matching decode function makes of it.              *)
(*                                                                         *)
(* A payload is a sequence of bytes, a byte a number below Base.  The real *)
(* base is 256: a smaller one keeps every width, and brings the places     *)
(* where a length field overflows within reach.  The layout of a message   *)
(* is the sequence of its fields in the order of the stream, and a message *)
(* gives each of them a number, a text (a sequence of bytes) or a list.  A *)
(* text is its encoded bytes: UTF-8 and UTF-16 are taken as the bijections *)
(* they are on valid text.                                                 *)
(***************************************************************************)
EXTENDS Naturals, Sequences, SequencesExt

CONSTANTS Base,        \* the number of values of a byte
          MaxDevices   \* devices in the table of device permissions

VARIABLES message,    \* what the sender was given
          wire,       \* the payload, << >> before it is encoded
          decoded     \* {what the receiver got}, empty before

vars == << message, wire, decoded >>

-----------------------------------------------------------------------------
(* The fields of a layout *)

Field(k, f, w) == [kind |-> k, name |-> f, arg |-> w]

\* Numbers of 1, 2, 4 and 8 bytes, and truth values.
U8(f)   == Field("number", f, 1)
U16(f)  == Field("number", f, 2)
U32(f)  == Field("number", f, 4)
U64(f)  == Field("number", f, 8)
Flag(f) == Field("number", f, 1)
\* A length of four bytes and that many bytes.
Text(f) == Field("text", f, 4)
\* The same, but the reader copies the bytes and stays in front of them.
TextUnskipped(f) == Field("unskipped", f, 4)
\* A count of four bytes and that many records.
Many(f, layout) == Field("many", f, layout)
\* Fields a reader takes only if the stream is not at its end.
Newer(f) == Field("newer", f, 4)

-----------------------------------------------------------------------------
(* Streams *)

Zeros(n) == [i \in 1 .. n |-> 0]

\* The highest byte comes first.  rest[k] is the number without its k lowest
\* bytes, upTo[k] what the first k bytes make.
Bytes(n, w) ==
  LET rest[k \in 0 .. w] == IF k = 0 THEN n ELSE rest[k - 1] \div Base
  IN [i \in 1 .. w |-> rest[w - i] % Base]
Number(bytes) ==
  LET upTo[k \in 0 .. Len(bytes)] == IF k = 0 THEN 0 ELSE upTo[k - 1] * Base + bytes[k]
  IN upTo[Len(bytes)]

\* QByteArray::mid: what there is of the n bytes behind position at.
Mid(data, at, n) == SubSeq(data, at + 1, IF at + n > Len(data) THEN Len(data) ELSE at + n)

\* The elements of a list are put and read like the fields of a layout that
\* has the layout of an element in every place.
Repeated(of, n) == [i \in 1 .. n |-> of]

PutAll(Put(_, _), layout, value) == FlattenSeq([i \in DOMAIN layout |-> Put(layout[i], value[i])])
PutWith(Element(_, _), f, x) ==
  CASE f.kind = "number" -> Bytes(x, f.arg)
    [] f.kind = "many" -> Bytes(Len(x), 4) \o PutAll(Element, Repeated(f.arg, Len(x)), x)
    [] OTHER -> Bytes(Len(x), f.arg) \o x

\* A message may hold lists, and their elements lists: there are no deeper ones.
PutNoList(layout, value) == << >>
PutInner(f, x) == PutWith(PutNoList, f, x)
EncodeInner(layout, value) == PutAll(PutInner, layout, value)
PutMiddle(f, x) == PutWith(EncodeInner, f, x)
EncodeElement(layout, value) == PutAll(PutMiddle, layout, value)
PutOuter(f, x) == PutWith(EncodeElement, f, x)
Encode(layout, value) == PutAll(PutOuter, layout, value)

\* What is read is a value and the position it leaves the stream at.  Reading a
\* number beyond the end gives zero and leaves the stream at its end.
Got(value, at) == [value |-> value, at |-> at]

ReadNumber(data, at, w) ==
  IF at + w > Len(data) THEN Got(0, Len(data)) ELSE Got(Number(Mid(data, at, w)), at + w)

ReadText(data, at, w, skip) ==
  LET size == ReadNumber(data, at, w)
      end == size.at + size.value
  IN Got(Mid(data, size.at, size.value),
         IF ~skip THEN size.at ELSE IF end > Len(data) THEN Len(data) ELSE end)

Then(r, g) == Got(Append(r.value, g.value), g.at)
GetAll(Get(_, _, _), layout, data, start) ==
  LET upTo[k \in 0 .. Len(layout)] ==
        IF k = 0 THEN Got(<< >>, start)
        ELSE LET r == upTo[k - 1] IN Then(r, Get(layout[k], data, r.at))
  IN upTo[Len(layout)]
GetWith(Element(_, _, _), f, data, at) ==
  LET count == ReadNumber(data, at, 4)
  IN CASE f.kind = "number" -> ReadNumber(data, at, f.arg)
       [] f.kind = "text" -> ReadText(data, at, f.arg, TRUE)
       [] f.kind = "unskipped" -> ReadText(data, at, f.arg, FALSE)
       [] f.kind = "many" -> GetAll(Element, Repeated(f.arg, count.value), data, count.at)
       [] f.kind = "newer" -> IF at = Len(data) THEN Got(<< >>, at) ELSE ReadText(data, at, f.arg, TRUE)

GetNoList(layout, data, at) == Got(<< >>, at)
GetInner(f, data, at) == GetWith(GetNoList, f, data, at)
ReadInner(layout, data, start) == GetAll(GetInner, layout, data, start)
GetMiddle(f, data, at) == GetWith(ReadInner, f, data, at)
ReadElement(layout, data, start) == GetAll(GetMiddle, layout, data, start)
GetOuter(f, data, at) == GetWith(ReadElement, f, data, at)
ReadFrom(layout, data, start) == GetAll(GetOuter, layout, data, start)

Decode(layout, data) == ReadFrom(layout, data, 0).value
-----------------------------------------------------------------------------
(* Remote desktop *)

DeviceInfo == << Text("deviceId"), Text("deviceName"), Text("ipAddress"), U16("port"),
                 Text("version"), U64("timestamp"), Newer("accessCode") >>
MouseEvent == << U32("x"), U32("y"), U32("action"), U32("button"), U32("delta") >>
KeyEvent == << U32("keyCode"), Flag("pressed"), U32("modifiers"), Text("text") >>
ScreenFrame == << U32("width"), U32("height"), U32("format"), U64("timestamp"), TextUnskipped("data") >>
ScreenTile == << U32("x"), U32("y"), U32("w"), U32("h"), U32("seq"), U32("frameWidth"), U32("frameHeight"),
                 Flag("isKeyFrame"), U8("encoding"), U8("format"), U64("timestamp"), Text("hash"),
                 TextUnskipped("data") >>
ScreenTileRequest == << U32("frameWidth"), U32("frameHeight"), Many("tiles", << U32("x"), U32("y") >>) >>
ScreenAck == << U64("timestamp"), U64("roundTripMs"), U32("tilesReceived"), U32("tilesLost"), U32("bufferLevel") >>
ClipboardData == << Text("mimeType"), Text("data"), U64("timestamp") >>
MonitorInfo == << U32("index"), Text("name"), U32("x"), U32("y"), U32("width"), U32("height"), Flag("isPrimary") >>
\* Each monitor travels as a byte array of its own: its length comes first.
MonitorList == << U32("currentMonitorIndex"), Many("monitors", << Text("info") >>) >>
ChatMessage == << Text("sender"), Text("content"), U64("timestamp") >>
EncryptionKeyExchange == << Text("publicKey"), Text("nonce") >>
TerminalData == << Text("data"), U32("cols"), U32("rows"), Text("shellType") >>
RecordControl == << Text("filePath"), U32("fps") >>
SysInfo == << U64("cpuUsage"), U64("memoryUsage"), U64("memoryTotal"), U64("memoryAvailable"), U64("diskUsage"),
              U64("diskTotal"), U64("diskFree"), U64("networkRx"), U64("networkTx"), Text("osName"),
              Text("osVersion"), Text("cpuName"), U64("uptime"), U32("processCount") >>
ProcessListResponse == << Flag("success"), Text("errorMessage"),
                          Many("entries", << U64("pid"), Text("name"), U64("memoryBytes") >>) >>
ProcessKillRequest == << U64("pid") >>
ProcessKillResponse == << Flag("success"), U64("pid"), Text("errorMessage") >>
ProcessStartRequest == << Text("command"), Text("workingDir") >>
ProcessStartResponse == << Flag("success"), U64("pid"), Text("errorMessage") >>
PrivacyScreen == << Flag("enabled") >>
AnnotationUpdate ==
  << U32("frameWidth"), U32("frameHeight"),
     Many("strokes", << U32("color"), U32("width"), Many("points", << U32("x"), U32("y") >>) >>) >>
QualityInfo == << U32("jpegQuality"), U32("captureFps"), U32("targetFps"), U32("bandwidthKbps"), U64("roundTripMs") >>
QualityRequest == << U8("level"), Flag("gameMode") >>

(* Files *)

FileRequest == << Text("fileId"), Text("fileName"), Text("path"), U64("fileSize"), U64("offset"), Flag("isUpload") >>
FileData == << Text("fileId"), U64("offset"), TextUnskipped("data") >>
FileChecksum == << Text("fileId"), Text("checksum") >>
FileBrowserRequest == << Text("path"), Newer("filter") >>
FileBrowserEntry == << Text("name"), Text("path"), Flag("isDir"), U64("fileSize"), Text("lastModified") >>
FileBrowserResponse == << Text("path"), Flag("success"), Text("errorMessage"), Many("entries", FileBrowserEntry) >>
FileOpRequest == << U8("op"), Text("path"), Text("newPath") >>
FileOpResponse == << U8("op"), Text("path"), Flag("success"), Text("errorMessage") >>
SyncPair == << Text("hostDir"), Text("localDir") >>
SyncNotify == << Text("hostDir"), Text("hostFilePath"), Text("localDir"), U64("size"), U64("mtime") >>

(* Accounts and permissions *)

Consent == << Flag("allowed"), TextUnskipped("deviceName") >>
PermissionDenied == << U32("capability"), TextUnskipped("reason") >>
UserListResponse == << Many("users", << Text("username"), U8("level"), Flag("enabled"), U64("lastLogin") >>) >>
DevicePermissionResponse ==
  << Many("devices", << Text("deviceId"), U32("level"), U32("capMask"), TextUnskipped("note") >>) >>
PermissionToggleResponse == << U32("toggles") >>
PermissionToggleRequest == << U32("capability"), Flag("enabled") >>
UserMutation == << Text("username"), Text("password"), U8("level"), Flag("enabled"), U8("fields") >>
AuditLogResponse == << Text("json") >>
TemporaryGrant == << Text("deviceId"), U32("level"), U32("capMask"), U64("expiresAt") >>

(* Messenger and calls *)

VoiceMessage == << Text("messageId"), Text("senderId"), Text("senderName"), Text("voiceData"), Text("voiceFileName"),
                   U32("duration"), U64("timestamp"), Flag("isRead") >>
VideoMessage == << Text("messageId"), Text("senderId"), Text("senderName"), Text("videoData"), Text("videoFileName"),
                   U32("duration"), U64("width"), U64("height"), U64("timestamp"), Flag("isRead") >>
LocationMessage == << Text("messageId"), Text("senderId"), Text("senderName"), Text("latitude"), Text("longitude"),
                      Text("locationName"), U64("timestamp"), Flag("isRead") >>
CardMessage == << Text("messageId"), Text("senderId"), Text("senderName"), Text("vCardData"), U64("timestamp"),
                  Flag("isRead") >>
MergeForwardMessage ==
  << Text("messageId"), Text("senderId"), Text("senderName"),
     Many("messages", << Text("messageId"), Text("senderId"), Text("senderName"), Text("content"),
                         U64("timestamp"), U32("msgType") >>),
     U64("timestamp"), Flag("isRead") >>
CallInvite == << Text("callId"), Text("callerId"), Text("callerName"), Text("callType"), Text("sdp"), U64("timestamp") >>
CallAccept == << Text("callId"), Text("calleeId"), Text("sdp"), U64("timestamp") >>
CallReject == << Text("callId"), Text("calleeId"), Text("reason"), U64("timestamp") >>
CallEnd == << Text("callId"), Text("peerId"), U64("timestamp") >>
IceCandidate == << Text("callId"), Text("candidate"), U64("timestamp") >>
VideoCallStart == << Text("callId"), Text("callerId"), Text("callerName"), U32("width"), U32("height"), U32("fps"),
                     U64("timestamp") >>
VideoCallStop == << Text("callId"), Text("peerId"), U64("timestamp") >>
VideoCallFrame == << Text("callId"), Text("frameData"), U64("timestamp"), U32("sequenceNumber"), Flag("isKeyFrame"),
                     U64("captureTime") >>
ScreenShareStart == << Text("sessionId"), Text("callerId"), Text("callerName"), U32("width"), U32("height"), U32("fps"),
                       U64("timestamp") >>
ScreenShareStop == << Text("sessionId"), Text("peerId"), U64("timestamp") >>
ScreenShareFrame == << Text("sessionId"), Text("frameData"), U64("timestamp"), U32("sequenceNumber"),
                       Flag("isKeyFrame"), U64("captureTime") >>
GroupAnnouncement == << Text("groupId"), Text("groupName"), Text("announcement"), Text("announcerId"),
                        Text("announcerName"), U64("timestamp") >>
GroupMention == << Text("groupId"), Text("groupName"), Text("message"), Many("mentionedMemberIds", << Text("id") >>),
                   Many("mentionedMemberNames", << Text("name") >>), Text("senderId"), Text("senderName"),
                   U64("timestamp") >>
GroupVote == << Text("groupId"), Text("groupName"), Text("voteTitle"), Many("options", << Text("opt") >>),
                U32("durationSeconds"), Text("creatorId"), Text("creatorName"), U64("timestamp") >>
GroupFile == << Text("groupId"), Text("groupName"), Text("fileId"), Text("fileName"), U64("fileSize"), Text("md5"),
                Text("uploaderId"), Text("uploaderName"), U64("timestamp") >>
GroupAlbum == << Text("groupId"), Text("groupName"), Text("albumId"), Text("albumName"), Many("fileIds", << Text("id") >>),
                 Many("fileNames", << Text("name") >>), Text("creatorId"), Text("creatorName"), U64("timestamp") >>
GroupTodo == << Text("groupId"), Text("groupName"), Text("todoId"), Text("title"), Text("description"), U32("status"),
                U32("priority"), Text("assigneeId"), Text("assigneeName"), Text("creatorId"), Text("creatorName"),
                U64("dueDate"), U64("timestamp") >>
SyncRequest == << Text("requestId"), Text("accountHash"), Text("syncKeyHash"), U64("timestamp") >>
SyncAck == << Text("requestId"), Flag("success"), U32("appliedCount"), Text("errorMessage") >>
SyncSnapshot ==
  << U64("version"),
     Many("devices", << Text("deviceId"), Text("name"), Text("ip"), U16("port"), U64("lastSeen"), U64("updatedAt"),
                        Flag("isFriend") >>),
     Many("groups", << Text("groupId"), Text("name"), Many("memberIds", << Text("id") >>),
                       Many("memberNames", << Text("name") >>), U64("createdAt"), U64("updatedAt") >>),
     Many("settings", << Text("key"), Text("value"), U64("updatedAt") >>),
     Many("messages", << Text("messageId"), Text("senderId"), Text("senderName"), Text("senderIp"), Text("content"),
                         U64("timestamp"), Flag("isFile"), Text("filePath"), U64("fileSize"), Flag("isDirectory"),
                         Flag("isImage"), Text("imageFileName"), Text("replyTo"), Text("replyContent"),
                         Text("recallId"), Flag("isRecalled"), Text("targetId"), Flag("isGroup"), Flag("isRead"),
                         Text("readBy") >>) >>
E2EEKeyExchange == << Text("sessionId"), Text("publicKey") >>
E2EEKeyResponse == << Text("sessionId"), Text("publicKey"), Text("encryptedSharedSecret") >>
E2EESessionEstablished == << Text("sessionId"), Text("encryptedNonce") >>
E2EEMessage == << Text("sessionId"), Text("nonce"), Text("encryptedPayload") >>
E2EEAck == << Text("sessionId"), Text("messageId") >>

-----------------------------------------------------------------------------
(* Authentication.  A request of version 2 starts with the byte 2 and gives *)
(* the lengths of the name in one byte, of the password in two; any other   *)
(* payload is a password of the old kind.                                    *)

Cut(s, n) == Mid(s, 0, n)
Padded(s, n) == Cut(s, n) \o Zeros(n - Len(Cut(s, n)))

\* Mutant: the length of a long name overflows its byte.
EncodeAuthRequestUncut(r) ==
  IF r.legacy THEN r.password
  ELSE << 2 >> \o Bytes(Len(r.username), 1) \o r.username \o Bytes(Len(r.password), 2) \o r.password

EncodeAuthRequest(r) ==
  IF r.legacy THEN r.password
  ELSE LET user == Cut(r.username, Base - 1)
       IN << 2 >> \o Bytes(Len(user), 1) \o user \o Bytes(Len(r.password), 2) \o r.password

DecodeAuthRequest(data) ==
  IF Len(data) >= 4 /\ data[1] = 2
  THEN LET user == ReadText(data, 1, 1, TRUE)
       IN [legacy |-> FALSE, username |-> user.value, password |-> ReadText(data, user.at, 2, FALSE).value]
  ELSE [legacy |-> TRUE, username |-> << >>, password |-> data]

\* "OK", a key and a vector of fixed sizes, and since version 1.8 the level
\* and the capabilities, which a reader takes if they are there.
KeySize == 3
IvSize == 2
OK == << 1, 1 >>
Failed == << 3 >>

EncodeAuthResponse(r) ==
  IF ~r.ok THEN Failed
  ELSE OK \o Padded(r.sessionKey, KeySize) \o Padded(r.iv, IvSize) \o Bytes(r.grantedLevel, 1) \o Bytes(r.grantedCaps, 4)

DecodeAuthResponse(data) ==
  LET tail == Len(OK) + KeySize + IvSize
      whole == Len(data) >= tail + 5
  IN IF Cut(data, 2) # OK THEN [ok |-> FALSE]
     ELSE [ok |-> TRUE, sessionKey |-> Mid(data, 2, KeySize), iv |-> Mid(data, 2 + KeySize, IvSize),
           grantedLevel |-> IF whole THEN ReadNumber(data, tail, 1).value ELSE 0,
           grantedCaps |-> IF whole THEN ReadNumber(data, tail + 1, 4).value ELSE 0]

-----------------------------------------------------------------------------
(* One message from a sender to a receiver.  An older sender knows neither   *)
(* the fields a reader takes as Newer nor the level and the capabilities of  *)
(* an answer.                                                                *)

Layouts ==
  << DeviceInfo, MouseEvent, KeyEvent, ScreenFrame, ScreenTile, ScreenTileRequest, ScreenAck, ClipboardData,
     MonitorInfo, MonitorList, ChatMessage, EncryptionKeyExchange, TerminalData, RecordControl, SysInfo,
     ProcessListResponse, ProcessKillRequest, ProcessKillResponse, ProcessStartRequest, ProcessStartResponse,
     PrivacyScreen, AnnotationUpdate, QualityInfo, QualityRequest, FileRequest, FileData, FileChecksum,
     FileBrowserRequest, FileBrowserResponse, FileOpRequest, FileOpResponse, SyncPair, SyncNotify, Consent,
     PermissionDenied, UserListResponse, DevicePermissionResponse, PermissionToggleResponse,
     PermissionToggleRequest, UserMutation, AuditLogResponse, TemporaryGrant, VoiceMessage, VideoMessage,
     LocationMessage, CardMessage, MergeForwardMessage, CallInvite, CallAccept, CallReject, CallEnd, IceCandidate,
     VideoCallStart, VideoCallStop, VideoCallFrame, ScreenShareStart, ScreenShareStop, ScreenShareFrame,
     GroupAnnouncement, GroupMention, GroupVote, GroupFile, GroupAlbum, GroupTodo, SyncRequest, SyncAck,
     SyncSnapshot, E2EEKeyExchange, E2EEKeyResponse, E2EESessionEstablished, E2EEMessage, E2EEAck >>

\* Values to send: every field zero or empty but at most two.  Two elements
\* in a list are enough for one to be read in the place of the other.
EmptyOf(layout) == [i \in DOMAIN layout |-> IF layout[i].kind = "number" THEN 0 ELSE << >>]

NoValue(f) == {}
FilledWith(Inner(_), f) ==
  CASE f.kind = "number" -> {IF f.arg = 1 THEN 1 ELSE Base + 2}
    [] f.kind = "many" ->
         LET none == EmptyOf(f.arg)
         IN UNION {UNION {LET e == [none EXCEPT ![i] = x] IN {<< e >>, << e, none >>, << none, e >>} :
                            x \in Inner(f.arg[i])} : i \in DOMAIN f.arg}
    [] OTHER -> {<< 1, 2 >>}
FilledInner(f) == FilledWith(NoValue, f)
FilledElement(f) == FilledWith(FilledInner, f)
Filled(f) == FilledWith(FilledElement, f)

Samples(layout) ==
  UNION {{[EmptyOf(layout) EXCEPT ![i] = x, ![j] = y] :
            x \in Filled(layout[i]), y \in Filled(layout[j])} : i, j \in DOMAIN layout}

\* A host's table of device permissions has at most MaxDevices entries.
Fits(layout, value) == layout = DevicePermissionResponse => Len(value[1]) <= MaxDevices

Strings == {Cut(<< 1, 2, 3, 1, 2 >>, n) : n \in 0 .. Base + 1}
AuthRequests ==
  [legacy : {FALSE}, username : Strings, password : Strings]
    \cup [legacy : {TRUE}, username : {<< >>}, password : Strings]
AuthResponses ==
  [ok : {TRUE}, sessionKey : {<< 1, 2, 3 >>}, iv : {<< 3, 1 >>}, grantedLevel : 0 .. Base - 1, grantedCaps : {0, Base + 2}]
    \cup [ok : {FALSE}]

Init ==
  /\ \/ \E k \in DOMAIN Layouts : \E v \in Samples(Layouts[k]) :
          Fits(Layouts[k], v) /\ message = [type |-> "payload", layout |-> k, value |-> v, older |-> FALSE]
     \/ \E v \in AuthRequests : message = [type |-> "AuthRequest", layout |-> 0, value |-> v, older |-> FALSE]
     \/ \E v \in AuthResponses : message = [type |-> "AuthResponse", layout |-> 0, value |-> v, older |-> FALSE]
  /\ wire = << >> /\ decoded = {}

IsNewer(f) == f.kind = "newer"
Older(layout) == IF IsNewer(Last(layout)) THEN Front(layout) ELSE layout

Payload(m) ==
  CASE m.type = "payload" -> Encode(IF m.older THEN Older(Layouts[m.layout]) ELSE Layouts[m.layout], m.value)
    [] m.type = "AuthRequest" -> EncodeAuthRequest(m.value)
    [] m.type = "AuthResponse" ->
         LET p == EncodeAuthResponse(m.value) IN IF m.older /\ m.value.ok THEN Cut(p, Len(p) - 5) ELSE p

Send ==
  /\ wire = << >> /\ decoded = {}
  /\ \E older \in BOOLEAN : message' = [message EXCEPT !.older = older]
  /\ wire' = Payload(message')
  /\ UNCHANGED decoded

Receive ==
  /\ wire # << >> /\ decoded = {}
  /\ decoded' = {CASE message.type = "payload" -> Decode(Layouts[message.layout], wire)
                   [] message.type = "AuthRequest" -> DecodeAuthRequest(wire)
                   [] message.type = "AuthResponse" -> DecodeAuthResponse(wire)}
  /\ UNCHANGED << message, wire >>

Next == Send \/ Receive

Spec == Init /\ [][Next]_vars
-----------------------------------------------------------------------------
\* What the receiver should make of a message: the message, but for a name cut
\* to what its length byte can hold and the fields an older sender left out.
Meant(m) ==
  CASE m.type = "payload" /\ m.older ->
         [i \in DOMAIN m.value |-> IF IsNewer(Layouts[m.layout][i]) THEN << >> ELSE m.value[i]]
    [] m.type = "AuthRequest" -> [m.value EXCEPT !.username = Cut(@, Base - 1)]
    [] m.type = "AuthResponse" /\ m.older /\ m.value.ok -> [m.value EXCEPT !.grantedLevel = 0, !.grantedCaps = 0]
    [] OTHER -> m.value

\* Every payload is read back as it was meant, from senders of this version
\* and of older ones: no field is read in the place of another, whatever the
\* lengths of the texts and lists before it.
RoundTrip == decoded \subseteq {Meant(message)}
=============================================================================
