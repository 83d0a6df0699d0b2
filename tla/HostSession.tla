----------------------------- MODULE HostSession -----------------------------
(***************************************************************************)
(* app/host.cpp: the sessions of the controllers connected to a host, from *)
(* accept to disconnect, and everything that decides what they may do: the *)
(* authentication, the approval of the user in front of the host, the      *)
(* host's capability switches, the per-device overrides, the time-limited  *)
(* grants and their sweeper, and what follows from them: the set of        *)
(* sockets that get frames and whether frames travel as tiles.             *)
(*                                                                         *)
(* All of it runs on the host's main thread, so a handler is one step.     *)
(* The consent dialogs of ui/main_window.cpp are windows that stay open    *)
(* between steps.  The model has no silent mode (XRK_ENABLE_SILENT is not  *)
(* defined in a normal build) and no account table: an authentication      *)
(* ends with any level of AuthLevels, and a failed one changes nothing.    *)
(***************************************************************************)
EXTENDS Naturals, PermissionModel

CONSTANTS Clients,        \* connection identities, "<ip>:<port>"
          Peers,          \* IP addresses of controllers
          PeerOf,         \* the address of each connection
          TileClients,    \* connections of controllers that decode tiles
          DefaultLevel,   \* m_defaultPermLevel
          AuthLevels,     \* levels of the user accounts
          DeviceEntries,  \* overrides an admin may store
          GrantTerms,     \* level and mask of the grants an admin may give
          KeepLevel,      \* TemporaryGrant.level = -1
          Switches,       \* capabilities an admin may switch
          NoEntry,        \* no override, no grant for an address
          PasswordSet,    \* the host was started with a password
          ApprovalUi,     \* the host runs under MainWindow, not as a service
          MaxDialogs      \* bound on the open consent dialogs of a connection

Masks == {RoleMask} \cup SUBSET Capabilities

ASSUME HostAssumption ==
  /\ PeerOf \in [Clients -> Peers]
  /\ TileClients \subseteq Clients
  /\ DefaultLevel \in Levels \ {"None"}
  /\ AuthLevels \subseteq Levels \ {"None"}
  /\ DeviceEntries \subseteq DeviceOverride
  /\ GrantTerms \subseteq [level : Levels \cup {KeepLevel}, capMask : Masks]
  /\ KeepLevel \notin Levels
  /\ Switches \subseteq Capabilities
  /\ NoEntry \notin DeviceOverride
  /\ NoEntry \notin [level : Levels \cup {KeepLevel}, capMask : Masks, expired : BOOLEAN]
  /\ PasswordSet \in BOOLEAN
  /\ ApprovalUi \in BOOLEAN
  /\ MaxDialogs \in Nat

VARIABLES
  running,          \* m_running
  clients,          \* the keys of m_clients
  session,          \* the values of m_clients
  dialogs,          \* consent dialogs open for each connection
  requireApproval,  \* m_requireApproval
  trusted,          \* m_trustedIps
  toggles,          \* m_capabilityToggles
  devPerm,          \* the device_permissions table
  grant,            \* m_tempGrants
  viewers,          \* the clients of the NetworkWorker
  jpeg,             \* m_activeEncoderType is JPEG
  tiled             \* m_tiledTransport

vars == <<running, clients, session, dialogs, requireApproval, trusted, toggles,
          devPerm, grant, viewers, jpeg, tiled>>

settings == <<requireApproval, trusted, toggles, devPerm, jpeg>>

-----------------------------------------------------------------------------
\* ClientInfo.  "told" is the mask of the last AUTH_RESP the controller was
\* sent, and "resolved" the level its last authentication ended with.
Session ==
  [authenticated : BOOLEAN, permLevel : Levels, caps : SUBSET Capabilities,
   awaitingApproval : BOOLEAN, pendingLevel : Levels, tileCapable : BOOLEAN,
   told : SUBSET Capabilities, resolved : Levels]

Blank ==
  [authenticated |-> FALSE, permLevel |-> "None", caps |-> {},
   awaitingApproval |-> FALSE, pendingLevel |-> "None", tileCapable |-> FALSE,
   told |-> {}, resolved |-> "None"]

Grant == [level : Levels \cup {KeepLevel}, capMask : Masks, expired : BOOLEAN]

TypeOK ==
  /\ running \in BOOLEAN
  /\ clients \subseteq Clients
  /\ session \in [Clients -> Session]
  /\ dialogs \in [Clients -> 0..MaxDialogs]
  /\ requireApproval \in BOOLEAN
  /\ trusted \subseteq Peers
  /\ toggles \subseteq Capabilities
  /\ devPerm \in [Peers -> DeviceOverride \cup {NoEntry}]
  /\ grant \in [Peers -> Grant \cup {NoEntry}]
  /\ viewers \subseteq Clients
  /\ jpeg \in BOOLEAN
  /\ tiled \in BOOLEAN

IsActive(c) == c \in clients /\ session[c].permLevel # "None"

Expired(p) == grant[p] # NoEntry /\ grant[p].expired

\* The grants without those of the addresses P that ran out: applyTempGrant
\* and onTempGrantExpiry erase them.
WithoutExpired(g, P) ==
  [p \in Peers |-> IF p \in P /\ g[p] # NoEntry /\ g[p].expired THEN NoEntry ELSE g[p]]

-----------------------------------------------------------------------------
\* The level and the override a session of address p gets from a stored
\* override d and a grant g in force.
PinnedLevel(g, level) ==
  IF g # NoEntry /\ g.level # KeepLevel THEN g.level ELSE level

OverrideOf(d, g) ==
  IF g = NoEntry
  THEN IF d = NoEntry THEN NoOverride ELSE d
  ELSE [level |-> PinnedLevel(g, IF d = NoEntry THEN "None" ELSE d.level),
        capMask |-> IF g.capMask # RoleMask THEN g.capMask
                    ELSE IF d = NoEntry THEN RoleMask ELSE d.capMask]

\* grantAccess on record s of a connection from p: the stored override pins
\* the level, the grant stacks on it, and AUTH_RESP carries the result.
Started(s, p, level) ==
  LET d == devPerm[p]
      g == WithoutExpired(grant, {p})[p]
      l == PinnedLevel(g, IF d = NoEntry THEN level ELSE d.level)
      granted == Evaluate(l, toggles, OverrideOf(d, g))
  IN [s EXCEPT !.authenticated = TRUE, !.permLevel = l, !.caps = granted, !.told = granted]

GrantAccess(c, s, level) ==
  /\ session' = [session EXCEPT ![c] = Started(s, PeerOf[c], level)]
  /\ grant' = WithoutExpired(grant, {PeerOf[c]})

\* Whether beginApproval parks the session, and what parking does.
NeedsApproval(c) == requireApproval /\ PeerOf[c] \notin trusted

Park(c, s, level) ==
  /\ dialogs[c] < MaxDialogs
  /\ session' = [session EXCEPT ![c] =
                   [s EXCEPT !.awaitingApproval = TRUE, !.pendingLevel = level]]
  /\ dialogs' = [dialogs EXCEPT ![c] = @ + 1]
  /\ UNCHANGED grant

\* updateTileTransportMode: JPEG, and each authenticated client decodes tiles.
TilesFit(C, s, j) ==
  LET A == {c \in C : s[c].authenticated}
  IN j /\ A # {} /\ \A c \in A : s[c].tileCapable

\* updateNetworkWorkerClients, with m_clients as the handler leaves it.
UpdateNetworkWorkerClients(C) ==
  /\ viewers' = {c \in C : "ViewScreen" \in session'[c].caps}
  /\ tiled' = TilesFit(C, session', jpeg)

\* Mutant: the new mask is enforced and not sent.
RefreshedUntold(c, t, d, g) ==
  LET s == session[c]
      p == PeerOf[c]
      l == PinnedLevel(g[p], s.permLevel)
  IN [s EXCEPT !.permLevel = l, !.caps = Evaluate(l, t, OverrideOf(d[p], g[p]))]

\* The session of c after a refresh under switches t, overrides d, grants g.
Refreshed(c, t, d, g) ==
  LET s == session[c]
      p == PeerOf[c]
      l == PinnedLevel(g[p], s.permLevel)
      now == Evaluate(l, t, OverrideOf(d[p], g[p]))
  IN [s EXCEPT !.permLevel = l, !.caps = now,
               !.told = IF now = s.caps THEN @ ELSE now]

\* Mutant: refreshClientPermissions without its test of isActive.
RefreshEveryone(t, d, g) ==
  LET left == WithoutExpired(g, {PeerOf[c] : c \in clients})
  IN /\ session' = [c \in Clients |->
                      IF c \in clients THEN Refreshed(c, t, d, left) ELSE session[c]]
     /\ grant' = left

\* refreshClientPermissions, with the new tables.
Refresh(t, d, g) ==
  LET A == {c \in clients : IsActive(c)}
      left == WithoutExpired(g, {PeerOf[c] : c \in A})
  IN /\ session' = [c \in Clients |-> IF c \in A THEN Refreshed(c, t, d, left) ELSE session[c]]
     /\ grant' = left

-----------------------------------------------------------------------------
Init ==
  /\ running = FALSE
  /\ clients = {}
  /\ session = [c \in Clients |-> Blank]
  /\ dialogs = [c \in Clients |-> 0]
  /\ requireApproval = FALSE
  /\ trusted \in SUBSET Peers
  /\ toggles \in {Capabilities \ S : S \in SUBSET Switches}
  /\ devPerm \in [Peers -> DeviceEntries \cup {NoEntry}]
  /\ grant = [p \in Peers |-> NoEntry]
  /\ viewers = {}
  /\ jpeg = TRUE
  /\ tiled = FALSE

\* start: m_capabilityToggles is read again, and is what the table holds.
StartHost ==
  /\ ~running
  /\ running' = TRUE
  /\ UNCHANGED <<clients, session, dialogs, settings, grant, viewers, tiled>>

\* The dialog that MainWindow closes when it hears that a client of C is gone:
\* the last one opened (m_consentDialog), if it belongs to that client.
DismissDialog(C) ==
  \/ UNCHANGED dialogs
  \/ \E c \in C : dialogs[c] > 0 /\ dialogs' = [dialogs EXCEPT ![c] = @ - 1]

\* stop: close() reports the disconnection of some sockets before m_clients is
\* cleared, and tiled keeps the value of the last such report, with the
\* clients of R still there, or the value it had.
StopHost ==
  /\ running
  /\ running' = FALSE
  /\ clients' = {}
  /\ session' = [c \in Clients |-> Blank]
  /\ grant' = [p \in Peers |-> NoEntry]
  /\ viewers' = {}
  /\ \/ UNCHANGED <<tiled, dialogs>>
     \/ \E R \in SUBSET clients :
          /\ R # clients
          /\ tiled' = TilesFit(R, session, jpeg)
          /\ DismissDialog(clients \ R)
  /\ UNCHANGED settings

\* acceptExternalSocket.  A connection identity comes back only when no dialog
\* of its former use is open.  Without a password the client counts as
\* authenticated and requestConsent parks or starts the session.
Accept(c) ==
  /\ running
  /\ c \notin clients
  /\ dialogs[c] = 0
  /\ clients' = clients \cup {c}
  /\ IF PasswordSet
     THEN session' = [session EXCEPT ![c] = Blank] /\ UNCHANGED <<dialogs, grant>>
     ELSE LET s == [Blank EXCEPT !.authenticated = TRUE, !.resolved = DefaultLevel]
          IN \/ NeedsApproval(c) /\ Park(c, s, DefaultLevel)
             \/ ~NeedsApproval(c) /\ GrantAccess(c, s, DefaultLevel) /\ UNCHANGED dialogs
  /\ UpdateNetworkWorkerClients(clients')
  /\ UNCHANGED <<running, settings>>

\* processAuthRequest with good credentials: a user account has a level, the
\* shared password stands for the default level.  Parking does not look at the
\* viewers again.
AuthRequest(c, level) ==
  /\ running
  /\ c \in clients
  /\ LET s == [session[c] EXCEPT !.authenticated = TRUE, !.resolved = level]
     IN \/ /\ NeedsApproval(c)
           /\ Park(c, s, level)
           /\ UNCHANGED <<viewers, tiled>>
        \/ /\ ~NeedsApproval(c)
           /\ GrantAccess(c, s, level)
           /\ UpdateNetworkWorkerClients(clients)
           /\ UNCHANGED dialogs
  /\ UNCHANGED <<running, clients, settings>>

\* Mutant: the parked flag stays set after the answer.
GrantConsentStillParked(c) ==
  LET s == session[c]
      level == IF s.awaitingApproval /\ s.pendingLevel # "None" THEN s.pendingLevel
               ELSE DefaultLevel
  IN /\ GrantAccess(c, s, level)
     /\ UpdateNetworkWorkerClients(clients)

\* grantConsent on a connected client: a parked session gets the level it is
\* waiting for, any other the default one.
GrantConsent(c) ==
  LET s == session[c]
      level == IF s.awaitingApproval /\ s.pendingLevel # "None" THEN s.pendingLevel
               ELSE DefaultLevel
  IN /\ GrantAccess(c, [s EXCEPT !.awaitingApproval = FALSE, !.pendingLevel = "None"], level)
     /\ UpdateNetworkWorkerClients(clients)

\* The user allows the connection in a dialog, and may tick "remember".
Allow(c, remember) ==
  /\ dialogs[c] > 0
  /\ dialogs' = [dialogs EXCEPT ![c] = @ - 1]
  /\ trusted' = IF remember THEN trusted \cup {PeerOf[c]} ELSE trusted
  /\ IF c \in clients THEN GrantConsent(c)
     ELSE UNCHANGED <<session, grant, viewers, tiled>>
  /\ UNCHANGED <<running, clients, requireApproval, toggles, devPerm, jpeg>>

\* Mutant: the network worker keeps the client.
RemoveUnnoticed(c) ==
  /\ clients' = clients \ {c}
  /\ session' = [session EXCEPT ![c] = Blank]
  /\ UNCHANGED <<viewers, tiled>>

Remove(c) ==
  /\ clients' = clients \ {c}
  /\ session' = [session EXCEPT ![c] = Blank]
  /\ UpdateNetworkWorkerClients(clients')

\* The user denies the connection, or closes the dialog: denyConsent.
Deny(c) ==
  /\ dialogs[c] > 0
  /\ dialogs' = [dialogs EXCEPT ![c] = @ - 1]
  /\ IF c \in clients THEN Remove(c) ELSE UNCHANGED <<clients, session, viewers, tiled>>
  /\ UNCHANGED <<running, settings, grant>>

\* Mutant: MainWindow closes a dialog of the client whether or not it has one.
DisconnectDismissing(c) ==
  /\ c \in clients
  /\ Remove(c)
  /\ dialogs' = [dialogs EXCEPT ![c] = @ - 1]
  /\ UNCHANGED <<running, settings, grant>>

\* onClientDisconnected.
Disconnect(c) ==
  /\ c \in clients
  /\ Remove(c)
  /\ DismissDialog({c})
  /\ UNCHANGED <<running, settings, grant>>

\* SCREEN_KEYFRAME: only a controller that decodes tiles sends it.
KeyFrameRequest(c) ==
  /\ c \in clients \cap TileClients
  /\ session[c].authenticated
  /\ ~session[c].tileCapable
  /\ session' = [session EXCEPT ![c].tileCapable = TRUE]
  /\ tiled' = TilesFit(clients, session', jpeg)
  /\ UNCHANGED <<running, clients, dialogs, settings, grant, viewers>>

\* Mutant: the tile mode is not looked at again.
SwitchEncoderOnly ==
  /\ running
  /\ jpeg' = ~jpeg
  /\ UNCHANGED <<running, clients, session, dialogs, requireApproval, trusted, toggles,
                 devPerm, grant, viewers, tiled>>

\* setEncoderType and onEncoderChanged.
SwitchEncoder ==
  /\ running
  /\ jpeg' = ~jpeg
  /\ tiled' = TilesFit(clients, session, jpeg')
  /\ UNCHANGED <<running, clients, session, dialogs, requireApproval, trusted, toggles,
                 devPerm, grant, viewers>>

-----------------------------------------------------------------------------
\* requireCap(UserManage), the gate of handlePermissionMessage.
Administers(a) == IsActive(a) /\ "UserManage" \in session[a].caps

\* PERMISSION_TOGGLE_REQ and setCapabilityToggle.
SetToggle(cap, on) ==
  /\ \E a \in clients : Administers(a)
  /\ toggles' = IF on THEN toggles \cup {cap} ELSE toggles \ {cap}
  /\ Refresh(toggles', devPerm, grant)
  /\ UpdateNetworkWorkerClients(clients)
  /\ UNCHANGED <<running, clients, dialogs, requireApproval, trusted, devPerm, jpeg>>

\* Mutant: the override is stored and reaches the live sessions later.
StoreDevicePerm(p, entry) ==
  /\ \E a \in clients : Administers(a)
  /\ devPerm' = [devPerm EXCEPT ![p] = entry]
  /\ UNCHANGED <<running, clients, session, dialogs, requireApproval, trusted, toggles,
                 grant, viewers, jpeg, tiled>>

\* DEVICE_PERM_SET_REQ: store an override, or clear it.
SetDevicePerm(p, entry) ==
  /\ \E a \in clients : Administers(a)
  /\ devPerm' = [devPerm EXCEPT ![p] = entry]
  /\ Refresh(toggles, devPerm', grant)
  /\ UpdateNetworkWorkerClients(clients)
  /\ UNCHANGED <<running, clients, dialogs, requireApproval, trusted, toggles, jpeg>>

\* TEMP_GRANT_REQ: set a grant, which may have run out already, or clear it.
SetGrant(p, g) ==
  /\ \E a \in clients : Administers(a)
  /\ Refresh(toggles, devPerm, [grant EXCEPT ![p] = g])
  /\ UpdateNetworkWorkerClients(clients)
  /\ UNCHANGED <<running, clients, dialogs, settings>>

\* The clock passes expiresAt.
TimePasses(p) ==
  /\ grant[p] # NoEntry /\ ~grant[p].expired
  /\ grant' = [grant EXCEPT ![p].expired = TRUE]
  /\ UNCHANGED <<running, clients, session, dialogs, settings, viewers, tiled>>

\* onTempGrantExpiry, every 15 s; it refreshes only what it changed.
Sweep ==
  /\ running
  /\ \E p \in Peers : Expired(p)
  /\ Refresh(toggles, devPerm, WithoutExpired(grant, Peers))
  /\ UpdateNetworkWorkerClients(clients)
  /\ UNCHANGED <<running, clients, dialogs, settings>>

-----------------------------------------------------------------------------
\* The menu entry and the trust list of the main window; an open consent
\* dialog is modal and blocks both.
WindowUsable == ApprovalUi /\ \A c \in Clients : dialogs[c] = 0

SetRequireApproval ==
  /\ WindowUsable
  /\ requireApproval' = ~requireApproval
  /\ UNCHANGED <<running, clients, session, dialogs, trusted, toggles, devPerm, grant,
                 viewers, jpeg, tiled>>

ChangeTrust(p) ==
  /\ WindowUsable
  /\ trusted' = IF p \in trusted THEN trusted \ {p} ELSE trusted \cup {p}
  /\ UNCHANGED <<running, clients, session, dialogs, requireApproval, toggles, devPerm,
                 grant, viewers, jpeg, tiled>>

Next ==
  \/ StartHost \/ StopHost \/ SwitchEncoder \/ Sweep \/ SetRequireApproval
  \/ \E c \in Clients :
       \/ Accept(c) \/ Deny(c) \/ Disconnect(c) \/ KeyFrameRequest(c)
       \/ \E level \in AuthLevels \cup {DefaultLevel} : AuthRequest(c, level)
       \/ \E remember \in BOOLEAN : Allow(c, remember)
  \/ \E p \in Peers :
       \/ TimePasses(p) \/ ChangeTrust(p) \/ SetGrant(p, NoEntry)
       \/ \E entry \in DeviceEntries \cup {NoEntry} : SetDevicePerm(p, entry)
       \/ \E term \in GrantTerms, late \in BOOLEAN :
            SetGrant(p, [level |-> term.level, capMask |-> term.capMask, expired |-> late])
  \/ \E cap \in Switches, on \in BOOLEAN : SetToggle(cap, on)

Spec == Init /\ [][Next]_vars

-----------------------------------------------------------------------------
\* A session without a level can do nothing, however levels, masks, overrides
\* and grants were combined (grantAccess, refreshClientPermissions).
NoLevelNoCaps ==
  \A c \in clients : session[c].permLevel = "None" => session[c].caps = {}

\* A switch that is off is off for every session, old or new, but for
\* UserManage (setCapabilityToggle, PermissionModel::evaluate).
TogglesConverge == \A c \in clients : session[c].caps \subseteq toggles \cup {"UserManage"}

\* What a live session may do is what the tables say now: no path that changes
\* a switch, an override or a grant leaves a session on the old answer.
CapsCurrent ==
  \A c \in clients : IsActive(c) =>
    session[c].caps =
      Evaluate(session[c].permLevel, toggles, OverrideOf(devPerm[PeerOf[c]], grant[PeerOf[c]]))

\* An admin whose address has no override keeps user management whatever is
\* switched off (the self-lock protection of PermissionModel::evaluate).
AdminKeepsUserManage ==
  \A c \in clients :
    (/\ session[c].permLevel = "Admin"
     /\ devPerm[PeerOf[c]] = NoEntry
     /\ grant[PeerOf[c]] = NoEntry) => "UserManage" \in session[c].caps

\* A controller knows what it may do: the last AUTH_RESP it was sent carries
\* the mask the host enforces (sendAuthKeyTo in grantAccess and in the refresh).
ControllerKnowsCaps == \A c \in clients : session[c].told = session[c].caps

\* Frames go to the connected sessions that may view the screen and to nobody
\* else (updateNetworkWorkerClients after every change).
FramesNeedViewScreen == viewers = {c \in clients : "ViewScreen" \in session[c].caps}

\* Tiles are sent only while the encoder is JPEG and every authenticated
\* client decodes them (host.h, ClientInfo::tileCapable).
TilesOnlyIfAllDecode ==
  tiled /\ clients # {} =>
    jpeg /\ \A c \in clients : session[c].authenticated => session[c].tileCapable

\* What is sent is computed from the sessions and the encoder whenever they change:
\* it reaches those who may see it and nobody else, in a form all of them can show
\* (updateNetworkWorkerClients, updateTileTransportMode).
ScreenFitsViewers == FramesNeedViewScreen /\ TilesOnlyIfAllDecode

\* A session that waits for approval has a dialog that can end the wait
\* (beginApproval, MainWindow::onConsentRequested).
ParkedHasDialog == \A c \in clients : session[c].awaitingApproval => dialogs[c] > 0

\* A connection that has proved nothing holds nothing: no refresh, grant or
\* override reaches it before its authentication.
NothingBeforeAuthentication ==
  \A c \in clients : ~session[c].authenticated =>
    session[c].permLevel = "None" /\ session[c].caps = {} /\ c \notin viewers

\* With approval on, the session of an address that is not trusted starts by
\* an answer of the host's user and in no other way.
StartsOnlyByApproval ==
  [][\A c \in Clients :
       (~IsActive(c) /\ IsActive(c)' /\ NeedsApproval(c)) => dialogs'[c] < dialogs[c]]_vars

-----------------------------------------------------------------------------
\* What the documents promise.

\* docs/07_change_log.md: the host takes a time-limited grant back when it
\* runs out.  Without a grant or an override for its address, a session has
\* no more than the level it authenticated with gives.
GrantEndsWithExpiry ==
  \A c \in clients :
    (devPerm[PeerOf[c]] = NoEntry /\ grant[PeerOf[c]] = NoEntry) =>
      session[c].caps \subseteq RoleCapabilities[session[c].resolved]

\* docs/07_change_log.md: after the approval the session gets its target level,
\* the one it authenticated with, if no override and no grant pins another.
ApprovalGivesResolvedLevel ==
  \A c \in clients :
    (/\ IsActive(c)
     /\ ~session[c].awaitingApproval
     /\ devPerm[PeerOf[c]] = NoEntry
     /\ grant[PeerOf[c]] = NoEntry) => session[c].permLevel = session[c].resolved
=============================================================================
