-------------------------- MODULE DirectoryDownload --------------------------
(***************************************************************************)
(* Downloading a directory of the host, src/src/ui/file_transfer_widget.cpp*)
(* The controller lists one directory after the other with the same        *)
(* request, and gets the same response, as the pane in which the user      *)
(* browses: what the path of a response belongs to is looked up when it    *)
(* comes.  A directory stands for the files in it, which are downloaded    *)
(* when it is listed.                                                      *)
(***************************************************************************)
EXTENDS Naturals, Sequences, SequencesExt, FiniteSets, Functions

CONSTANTS
  Dirs, Under(_), \* directories of the host and those directly in each
  MaxClicks,      \* bound: downloads and listings the user asks for
  MaxCuts         \* bound: connections that end

VARIABLES
  gone,      \* directories that cannot be listed
  scans,     \* m_activeScans and m_dirScanMap: directory -> the download it is for
  queue,     \* m_dirScanQueue
  requests, responses,
  shown,     \* m_currentRemotePath
  asked,     \* downloads
  fetched,   \* download and directory
  tangled,   \* a download of what another was just listing
  clicks, cuts

vars == <<gone, scans, queue, requests, responses, shown, asked, fetched, tangled, clicks, cuts>>

Nowhere == "nowhere"
Below(d) ==
  LET below[e \in Dirs] == {e} \cup UNION {below[c] : c \in Under(e)} IN below[d]

Init ==
  /\ gone \in SUBSET Dirs
  /\ scans = [d \in {} |-> Nowhere] /\ queue = <<>> /\ requests = <<>> /\ responses = <<>>
  /\ shown = Nowhere /\ asked = {} /\ fetched = {} /\ tangled = FALSE /\ clicks = 0 /\ cuts = 0

\* scanNextDir with the queue q.
ScanNext(q) ==
  IF q = <<>> THEN queue' = q /\ UNCHANGED requests
  ELSE queue' = Tail(q) /\ requests' = Append(requests, Head(q))

Scanning(table, ds, download) ==
  [d \in DOMAIN table \cup ds |-> IF d \in ds THEN download ELSE table[d]]

Click == clicks < MaxClicks /\ clicks' = clicks + 1

\* startDirectoryDownload.
StartDownload(d) ==
  /\ Click
  /\ IF d \in DOMAIN scans
     THEN UNCHANGED <<scans, queue, requests>>
     ELSE /\ scans' = Scanning(scans, {d}, d)
          /\ IF queue = <<>> THEN ScanNext(<<d>>) ELSE queue' = Append(queue, d) /\ UNCHANGED requests
  /\ asked' = asked \cup {d}
  /\ tangled' = (tangled \/ d \in asked \/ \E s \in DOMAIN scans : d \in Below(s) \/ s \in Below(d))
  /\ UNCHANGED <<gone, responses, shown, fetched, cuts>>

\* The user opens a directory, goes up, refreshes.
Browse(d) ==
  /\ Click
  /\ requests' = Append(requests, d)
  /\ UNCHANGED <<gone, scans, queue, responses, shown, asked, fetched, tangled, cuts>>

\* handleFileBrowserRequest: answered whether it can be listed or not.
HostLists ==
  /\ requests # <<>>
  /\ requests' = Tail(requests) /\ responses' = Append(responses, Head(requests))
  /\ UNCHANGED <<gone, scans, queue, shown, asked, fetched, tangled, clicks, cuts>>

\* Mutant: a directory that cannot be listed ends the scan.
ReceiveListingOrEnd ==
  /\ responses # <<>> /\ responses' = Tail(responses)
  /\ LET d == Head(responses)
         children == IF d \in gone THEN {} ELSE Under(d)
     IN  IF d \in DOMAIN scans
         THEN /\ fetched' = IF d \in gone THEN fetched ELSE fetched \cup {<<scans[d], d>>}
              /\ scans' = Restrict(Scanning(scans, children, scans[d]),
                                   (DOMAIN scans \cup children) \ {d})
              /\ IF d \in gone THEN UNCHANGED <<queue, requests>>
                 ELSE ScanNext(queue \o SetToSeq(children))
              /\ UNCHANGED shown
         ELSE /\ shown' = IF d \in gone THEN shown ELSE d
              /\ UNCHANGED <<scans, fetched, queue, requests>>
  /\ UNCHANGED <<gone, asked, tangled, clicks, cuts>>

\* onFileBrowserReceived.
ReceiveListing ==
  /\ responses # <<>> /\ responses' = Tail(responses)
  /\ LET d == Head(responses)
         children == IF d \in gone THEN {} ELSE Under(d)
     IN  IF d \in DOMAIN scans
         THEN /\ fetched' = IF d \in gone THEN fetched ELSE fetched \cup {<<scans[d], d>>}
              /\ scans' = Restrict(Scanning(scans, children, scans[d]),
                                   (DOMAIN scans \cup children) \ {d})
              /\ ScanNext(queue \o SetToSeq(children))
              /\ UNCHANGED shown
         ELSE /\ shown' = IF d \in gone THEN shown ELSE d
              /\ UNCHANGED <<scans, fetched, queue, requests>>
  /\ UNCHANGED <<gone, asked, tangled, clicks, cuts>>

\* A connection ends and is made again: the tables stay.
Reconnect ==
  /\ cuts < MaxCuts /\ cuts' = cuts + 1
  /\ requests' = <<>> /\ responses' = <<>>
  /\ UNCHANGED <<gone, scans, queue, shown, asked, fetched, tangled, clicks>>

Next ==
  \/ \E d \in Dirs : StartDownload(d) \/ Browse(d)
  \/ HostLists \/ ReceiveListing \/ Reconnect

Spec == Init /\ [][Next]_vars /\ WF_vars(HostLists \/ ReceiveListing)

-----------------------------------------------------------------------------
(* A download gets every directory below the one asked for that can be     *)
(* listed, whatever the user browses meanwhile and whatever other          *)
(* directories are downloaded, if the connection stays and no other        *)
(* download is just listing the same directories.                          *)
(* (onFileBrowserReceived, file_transfer_widget.cpp:234; scanNextDir, :574)*)
Reachable(d) ==
  LET reach[e \in Dirs] == IF e \in gone THEN {} ELSE {e} \cup UNION {reach[c] : c \in Under(e)}
  IN  reach[d]
DirectoriesArrive ==
  <>[](cuts = 0 /\ ~tangled => \A t \in asked, d \in Dirs : d \in Reachable(t) => <<t, d>> \in fetched)
=============================================================================
