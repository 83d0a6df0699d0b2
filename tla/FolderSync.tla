----------------------------- MODULE FolderSync -----------------------------
(***************************************************************************)
(* Directories kept in step during a remote session.  A FileSyncManager    *)
(* (src/src/app/file_sync_manager.cpp) watches the source; what it finds   *)
(* changed is, 400 ms after the last change, uploaded by the controller    *)
(* (forward), or announced by the host and then downloaded by the          *)
(* controller (reverse).  The transfers are those of FileTransferManager   *)
(* (src/src/app/file_transfer_manager.cpp) and of src/src/app/host.cpp:    *)
(* chunks without acknowledgement over one stream.                         *)
(* A file is a version; odd versions take two chunks, even ones one.  The  *)
(* copy is the sequence of the versions its chunks are of.                 *)
(***************************************************************************)
EXTENDS Naturals, Sequences, SequencesExt, FiniteSets, Functions

CONSTANTS
  Files, Root, Sub, \* files, the watched directory and one below it
  DirOf(_),
  MaxChanges, \* bound: changes of files
  MaxBreaks   \* bound: connections that end, syncs the user stops

VARIABLES
  direction,
  source,    \* file -> version
  snapshot,  \* file -> version the watcher knows, None without entry
  signalled, \* directories the system reported
  pending, debounce, \* m_pendingUploads and the debounce timer
  watching,
  wanted,    \* reverse: the pair is in m_reversePairs
  connected,
  toTarget, toSource,
  uploads,   \* forward: transfer -> file, version opened, chunks sent
  incoming,  \* transfer -> file, chunks announced and received
  copy,
  missed,    \* forward: a connection ended since the whole was last uploaded
  ids, changes, breaks

watch == <<snapshot, signalled, pending, debounce, watching>>
net == <<toTarget, toSource>>
vars ==
  <<direction, source, watch, wanted, connected, net, uploads, incoming, copy, missed,
    ids, changes, breaks>>

None == 0
Size(v) == IF v % 2 = 1 THEN 2 ELSE 1
Content(v) == [i \in 1 .. Size(v) |-> v]
Forward == direction = "forward"

\* m_canUpload; the host's watchers always may.
CanUpload == Forward => connected

\* seek and write: what lies between is a hole.
Written(c, i, v) ==
  [j \in 1 .. (IF i > Len(c) THEN i ELSE Len(c)) |->
     IF j = i THEN v ELSE IF j <= Len(c) THEN c[j] ELSE None]

Sent(stream, m) == IF connected THEN Append(stream, m) ELSE stream

Init ==
  /\ direction \in {"forward", "reverse"}
  /\ source \in [Files -> {1, 2}] /\ snapshot = [f \in Files |-> None]
  /\ signalled = {} /\ pending = {} /\ debounce = FALSE /\ watching = FALSE
  /\ wanted = FALSE /\ connected = FALSE /\ toTarget = <<>> /\ toSource = <<>>
  /\ uploads = <<>> /\ incoming = <<>> /\ copy = [f \in Files |-> <<>>]
  /\ missed = TRUE /\ ids = 0 /\ changes = 0 /\ breaks = 0

-----------------------------------------------------------------------------
(* The watcher.                                                            *)

Change(f) ==
  /\ changes < MaxChanges /\ changes' = changes + 1
  /\ source' = [source EXCEPT ![f] = @ + 1]
  /\ signalled' = IF watching THEN signalled \cup {DirOf(f)} ELSE signalled
  /\ UNCHANGED <<direction, snapshot, pending, debounce, watching, wanted, connected, net,
                 uploads, incoming, copy, missed, ids, breaks>>

\* scanDir: the entries of all other directories are dropped as deleted.
Scan(d) ==
  LET found == {f \in Files : DirOf(f) = d /\ snapshot[f] # source[f]}
  IN  /\ snapshot' = [f \in Files |-> IF DirOf(f) = d THEN source[f] ELSE None]
      /\ pending' = pending \cup found
      /\ debounce' = (debounce \/ (found # {} /\ CanUpload))

DirectoryChanged(d) ==
  /\ d \in signalled /\ signalled' = signalled \ {d}
  /\ Scan(d)
  /\ UNCHANGED <<direction, source, watching, wanted, connected, net, uploads, incoming,
                 copy, missed, ids, changes, breaks>>

SnapshotOf(kept) == snapshot' = [f \in Files |-> IF f \in kept THEN source[f] ELSE None]

\* Mutant: a watch begins with what changes after it.
ScanAllLater(can) ==
  /\ \E kept \in SUBSET {f \in Files : DirOf(f) = Root} : SnapshotOf(kept)
  /\ pending' = {} /\ debounce' = FALSE /\ signalled' = {}

\* start, addPair: everything below the directory is new to the snapshot; what
\* is listed before a directory below is dropped again when that is scanned.
ScanAll(can) ==
  /\ \E kept \in SUBSET {f \in Files : DirOf(f) = Root} : SnapshotOf(kept)
  /\ pending' = Files /\ debounce' = can /\ signalled' = {}

Forget == pending' = {} /\ debounce' = FALSE /\ signalled' = {} /\ UNCHANGED snapshot

\* uploadFileTo, or sendSyncNotify: a message per pending file.
Announced(f, id) ==
  IF Forward THEN [type |-> "upload", id |-> id, file |-> f, size |-> Size(source[f])]
  ELSE [type |-> "notify", id |-> None, file |-> f, size |-> Size(source[f])]

DebounceTimer ==
  /\ debounce /\ debounce' = FALSE /\ pending' = {}
  /\ LET due == IF CanUpload THEN SetToSeq(pending) ELSE <<>>
     IN  /\ toTarget' = IF connected
                        THEN toTarget \o [i \in 1 .. Len(due) |-> Announced(due[i], ids + i)]
                        ELSE toTarget
         /\ IF Forward /\ connected
            THEN /\ uploads' = uploads \o [i \in 1 .. Len(due) |->
                       [file |-> due[i], sent |-> 0, open |-> TRUE]]
                 /\ ids' = ids + Len(due)
            ELSE UNCHANGED <<uploads, ids>>
  /\ UNCHANGED <<direction, source, snapshot, signalled, watching, wanted, connected,
                 toSource, incoming, copy, missed, changes, breaks>>

-----------------------------------------------------------------------------
(* The transfers.                                                          *)

\* The next chunk of an upload, or nothing behind the end; the file is written
\* in place and read as it is now.
NextChunk(id) ==
  LET u == uploads[id]
      v == source[u.file]
  IN  IF u.open /\ u.sent < Size(v)
      THEN <<[type |-> "chunk", id |-> id, at |-> u.sent + 1, version |-> v]>> ELSE <<>>

\* onSendTimer: a chunk of each upload, the last is followed by the end.
SendTimer ==
  /\ \E id \in DOMAIN uploads : uploads[id].open
  /\ toTarget' = toTarget \o FlattenSeq([id \in DOMAIN uploads |-> NextChunk(id)])
  /\ uploads' = [id \in DOMAIN uploads |->
                   [uploads[id] EXCEPT !.sent = @ + Len(NextChunk(id)),
                                       !.open = NextChunk(id) # <<>>]]
  /\ UNCHANGED <<direction, source, watch, wanted, connected, toSource, incoming, copy, missed, ids,
                 changes, breaks>>

\* The target file is opened anew and is empty.
Open(id, f, size) ==
  /\ incoming' = [k \in DOMAIN incoming \cup {id} |->
                    IF k = id THEN [file |-> f, size |-> size, got |-> 0] ELSE incoming[k]]
  /\ copy' = [copy EXCEPT ![f] = <<>>]

Close(id) == incoming' = Restrict(incoming, DOMAIN incoming \ {id})

Received(type) == toTarget # <<>> /\ Head(toTarget).type = type /\ toTarget' = Tail(toTarget)
TargetKeeps == UNCHANGED <<direction, source, watch, wanted, connected, uploads, missed, changes, breaks>>

\* handleFileRequest of the host, the upload.
ReceiveUpload ==
  /\ Received("upload")
  /\ LET m == Head(toTarget) IN Open(m.id, m.file, m.size)
  /\ TargetKeeps /\ UNCHANGED <<toSource, ids>>

\* onSyncNotifyReceived of the controller, with downloadFile.
ReceiveNotify ==
  /\ Received("notify") /\ wanted
  /\ LET m == Head(toTarget)
     IN  /\ ids' = ids + 1 /\ Open(ids', m.file, m.size)
         /\ toSource' = Append(toSource, [type |-> "download", id |-> ids', file |-> m.file])
  /\ TargetKeeps

\* handleFileData, processFileData: the size announced ends the transfer.
ReceiveChunk ==
  /\ Received("chunk") /\ Head(toTarget).id \in DOMAIN incoming
  /\ LET m == Head(toTarget)
         i == incoming[m.id]
     IN  /\ copy' = [copy EXCEPT ![i.file] = Written(@, m.at, m.version)]
         /\ IF i.got + 1 >= i.size THEN Close(m.id)
            ELSE incoming' = [incoming EXCEPT ![m.id].got = @ + 1]
  /\ TargetKeeps /\ UNCHANGED <<toSource, ids>>

\* The empty chunk behind a download.
ReceiveEnd ==
  /\ Received("end") /\ Head(toTarget).id \in DOMAIN incoming
  /\ Close(Head(toTarget).id)
  /\ TargetKeeps /\ UNCHANGED <<copy, toSource, ids>>

\* Of no sync, or of no transfer any more.
ReceiveUnknown ==
  /\ \/ Received("notify") /\ ~wanted
     \/ (Received("chunk") \/ Received("end")) /\ Head(toTarget).id \notin DOMAIN incoming
  /\ TargetKeeps /\ UNCHANGED <<incoming, copy, toSource, ids>>

Asked(type) == toSource # <<>> /\ Head(toSource).type = type /\ toSource' = Tail(toSource)
SourceKeeps ==
  UNCHANGED <<direction, source, wanted, connected, uploads, incoming, copy, missed, ids, changes, breaks>>

\* addReverseSync: a watch is replaced.
ReceiveSyncAdd ==
  /\ Asked("add")
  /\ watching' = TRUE /\ ScanAll(CanUpload)
  /\ SourceKeeps /\ UNCHANGED toTarget

ReceiveSyncRemove ==
  /\ Asked("remove")
  /\ watching' = FALSE /\ Forget
  /\ SourceKeeps /\ UNCHANGED toTarget

\* handleFileRequest of the host, the download: all chunks and the end at once.
ReceiveDownload ==
  /\ Asked("download")
  /\ LET m == Head(toSource)
         v == source[m.file]
     IN  toTarget' = toTarget
           \o [i \in 1 .. Size(v) |-> [type |-> "chunk", id |-> m.id, at |-> i, version |-> v]]
           \o <<[type |-> "end", id |-> m.id]>>
  /\ SourceKeeps /\ UNCHANGED watch

-----------------------------------------------------------------------------
(* The user and the connection.                                            *)

\* onSyncToggleClicked, forward.
StartSync ==
  /\ Forward /\ ~watching
  /\ watching' = TRUE /\ ScanAll(CanUpload)
  /\ missed' = ~connected
  /\ UNCHANGED <<direction, source, wanted, connected, net, uploads, incoming, copy, ids, changes, breaks>>

StopSync ==
  /\ Forward /\ watching /\ breaks < MaxBreaks /\ breaks' = breaks + 1
  /\ watching' = FALSE /\ Forget
  /\ UNCHANGED <<direction, source, wanted, connected, net, uploads, incoming, copy, missed,
                 ids, changes>>

\* onAddReverseSyncClicked, onRemoveReverseSyncClicked.
AddReverseSync ==
  /\ ~Forward /\ ~wanted
  /\ wanted' = TRUE /\ toSource' = Sent(toSource, [type |-> "add"])
  /\ UNCHANGED <<direction, source, watch, connected, toTarget, uploads, incoming, copy, missed, ids,
                 changes, breaks>>

RemoveReverseSync ==
  /\ ~Forward /\ wanted /\ breaks < MaxBreaks /\ breaks' = breaks + 1
  /\ wanted' = FALSE /\ toSource' = Sent(toSource, [type |-> "remove"])
  /\ UNCHANGED <<direction, source, watch, connected, toTarget, uploads, incoming, copy, missed, ids,
                 changes>>

\* onRemoteConnected: forward nothing is looked at again.
Connect ==
  /\ ~connected /\ connected' = TRUE
  /\ toSource' = IF wanted THEN <<[type |-> "add"]>> ELSE <<>>
  /\ UNCHANGED <<direction, source, snapshot, signalled, pending, debounce, watching, wanted, toTarget,
                 uploads, incoming, copy, missed, ids, changes, breaks>>

\* onRemoteDisconnected, and removeReverseSyncForClient at the host.  What is
\* left of a transfer is read or written on, but for nobody: the other side
\* does not know its id any more.
Disconnect ==
  /\ connected /\ breaks < MaxBreaks /\ breaks' = breaks + 1
  /\ connected' = FALSE /\ toTarget' = <<>> /\ toSource' = <<>> /\ missed' = TRUE
  /\ uploads' = <<>> /\ incoming' = <<>> /\ ids' = 0
  /\ pending' = {} /\ debounce' = FALSE
  /\ IF Forward THEN UNCHANGED <<snapshot, signalled, watching>>
     ELSE watching' = FALSE /\ signalled' = {} /\ UNCHANGED snapshot
  /\ UNCHANGED <<direction, source, wanted, copy, changes>>

Next ==
  \/ \E f \in Files : Change(f)
  \/ \E d \in {Root, Sub} : DirectoryChanged(d)
  \/ DebounceTimer \/ SendTimer
  \/ ReceiveUpload \/ ReceiveNotify \/ ReceiveChunk \/ ReceiveEnd \/ ReceiveUnknown
  \/ ReceiveSyncAdd \/ ReceiveSyncRemove \/ ReceiveDownload
  \/ StartSync \/ StopSync \/ AddReverseSync \/ RemoveReverseSync \/ Connect \/ Disconnect

\* The system reports changes, timers fire and what arrives is read.
Step ==
  \/ \E d \in {Root, Sub} : DirectoryChanged(d)
  \/ DebounceTimer \/ SendTimer
  \/ ReceiveUpload \/ ReceiveNotify \/ ReceiveChunk \/ ReceiveEnd \/ ReceiveUnknown
  \/ ReceiveSyncAdd \/ ReceiveSyncRemove \/ ReceiveDownload

Spec == Init /\ [][Next]_vars /\ WF_vars(Step)

-----------------------------------------------------------------------------
(* The copies come to have the content of the files, whatever transfers of *)
(* earlier versions were under way: reverse whenever a connection stays,   *)
(* whatever was cut before, forward when none ended since the sync was     *)
(* started.  (onDebounceTimer, file_sync_manager.cpp:202; addReverseSync,  *)
(* host.cpp:1047; onSyncNotifyReceived, file_transfer_widget.cpp:505)      *)
InStep == \A f \in Files : copy[f] = Content(source[f])
Active == connected /\ IF Forward THEN watching /\ ~missed ELSE wanted
FoldersConverge == <>[](Active => InStep)
=============================================================================
