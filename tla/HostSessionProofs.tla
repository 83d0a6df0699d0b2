-------------------------- MODULE HostSessionProofs --------------------------
(***************************************************************************)
(* HostSession, for any connections, addresses, overrides, grants and      *)
(* switches: its type, what a session may hold, who gets frames, and that  *)
(* approval cannot be passed by.                                           *)
(***************************************************************************)
EXTENDS HostSession, TLAPS

Overrides == DeviceOverride \cup {NoOverride}
Entries == DeviceOverride \cup {NoEntry}
Grants == Grant \cup {NoEntry}

-----------------------------------------------------------------------------
\* PermissionModel::evaluate never gives a capability that is switched off,
\* except UserManage.
LEMMA EvaluateBounds ==
  ASSUME NEW level \in Levels, NEW t \in SUBSET Capabilities, NEW o \in Overrides
  PROVE  /\ Evaluate(level, t, o) \in SUBSET Capabilities
         /\ Evaluate(level, t, o) \subseteq t \cup {"UserManage"}
<1>1. \A l \in Levels : RoleCapabilities[l] \subseteq Capabilities
  BY DEF RoleCapabilities, Levels, Capabilities, OperatorCapabilities, ViewerCapabilities
<1>2. o # NoOverride => o.level \in Levels
  BY DEF Overrides, DeviceOverride
<1>3. BaseCapabilities(level, o) \subseteq Capabilities
  BY <1>1, <1>2 DEF BaseCapabilities
<1>. QED
  BY <1>3 DEF Evaluate

\* A session with no level gets nothing, if the override has no level either.
LEMMA EvaluateNone ==
  ASSUME NEW t, NEW o, o = NoOverride \/ o.level = "None" \/ o.capMask # RoleMask
  PROVE  Evaluate("None", t, o) = {}
<1>1. RoleCapabilities["None"] = {}
  BY DEF RoleCapabilities, Levels
<1>2. BaseCapabilities("None", o) = {}
  BY <1>1 DEF BaseCapabilities
<1>. QED
  BY <1>2 DEF Evaluate

LEMMA PinnedLevelType ==
  ASSUME NEW g \in Grants, NEW l \in Levels
  PROVE  PinnedLevel(g, l) \in Levels
BY DEF Grants, Grant, PinnedLevel

LEMMA OverrideType ==
  ASSUME NEW d \in Entries, NEW g \in Grants
  PROVE  OverrideOf(d, g) \in Overrides
<1>1. ASSUME g = NoEntry PROVE OverrideOf(d, g) \in Overrides
  BY <1>1 DEF OverrideOf, Overrides, Entries
<1>2. ASSUME g # NoEntry PROVE OverrideOf(d, g) \in Overrides
  <2>1. g.level \in Levels \cup {KeepLevel} /\ g.capMask \in Masks
    BY <1>2 DEF Grants, Grant
  <2>2. d # NoEntry => d.level \in Levels /\ d.capMask \in Masks
    BY DEF Entries, DeviceOverride, Masks
  <2>3. PinnedLevel(g, IF d = NoEntry THEN "None" ELSE d.level) \in Levels
    BY <2>2, PinnedLevelType DEF Levels
  <2>4. (IF g.capMask # RoleMask THEN g.capMask
         ELSE IF d = NoEntry THEN RoleMask ELSE d.capMask) \in Masks
    BY <2>1, <2>2 DEF Masks
  <2>. QED
    BY <1>2, <2>3, <2>4 DEF OverrideOf, Overrides, DeviceOverride, Masks
<1>. QED
  BY <1>1, <1>2

LEMMA WithoutExpiredType ==
  ASSUME NEW g \in [Peers -> Grants], NEW P
  PROVE  WithoutExpired(g, P) \in [Peers -> Grants]
BY DEF WithoutExpired, Grants
-----------------------------------------------------------------------------
\* What is true of every record of m_clients under switches t.
Sound(s, t) ==
  /\ s \in Session
  /\ s.told = s.caps
  /\ s.caps \subseteq t \cup {"UserManage"}
  /\ s.permLevel = "None" => s.caps = {}
  /\ ~s.authenticated => s.permLevel = "None"

LEMMA BlankSound == \A t : Sound(Blank, t)
BY DEF Sound, Blank, Session, Levels

LEMMA StartedSound ==
  ASSUME TypeOK, NEW p \in Peers, NEW level \in Levels, NEW s \in Session
  PROVE  Sound(Started(s, p, level), toggles)
<1> DEFINE d == devPerm[p]
           g == WithoutExpired(grant, {p})[p]
           base == IF d = NoEntry THEN level ELSE d.level
           l == PinnedLevel(g, base)
           caps == Evaluate(l, toggles, OverrideOf(d, g))
<1>1. d \in Entries /\ g \in Grants
  BY WithoutExpiredType DEF TypeOK, Entries, Grants
<1>2. base \in Levels
  BY <1>1 DEF Entries, DeviceOverride
<1>3. l \in Levels
  BY <1>1, <1>2, PinnedLevelType
<1>4. toggles \in SUBSET Capabilities
  BY DEF TypeOK
<1>5. caps \in SUBSET Capabilities /\ caps \subseteq toggles \cup {"UserManage"}
  BY <1>1, <1>3, <1>4, OverrideType, EvaluateBounds
<1>6. l = "None" => caps = {}
  <2>. SUFFICES ASSUME l = "None" PROVE caps = {}
    OBVIOUS
  <2>1. OverrideOf(d, g) = NoOverride \/ OverrideOf(d, g).level = "None"
    BY HostAssumption DEF OverrideOf, PinnedLevel
  <2>. QED
    BY <2>1, EvaluateNone
<1>7. Started(s, p, level) =
        [s EXCEPT !.authenticated = TRUE, !.permLevel = l, !.caps = caps, !.told = caps]
  BY DEF Started
<1>. HIDE DEF caps, l
<1>. QED
  BY <1>3, <1>5, <1>6, <1>7 DEF Sound, Session

LEMMA RefreshedSound ==
  ASSUME NEW c \in Clients, PeerOf[c] \in Peers, session[c] \in Session,
         Sound(session[c], toggles), session[c].permLevel # "None",
         NEW t \in SUBSET Capabilities, NEW dd \in [Peers -> Entries],
         NEW gg \in [Peers -> Grants]
  PROVE  Sound(Refreshed(c, t, dd, gg), t)
<1> DEFINE s == session[c]
           d == dd[PeerOf[c]]
           g == gg[PeerOf[c]]
           l == PinnedLevel(g, s.permLevel)
           caps == Evaluate(l, t, OverrideOf(d, g))
           told == IF caps = s.caps THEN s.told ELSE caps
<1>1. d \in Entries /\ g \in Grants /\ s.permLevel \in Levels
  BY DEF Session
<1>2. l \in Levels
  BY <1>1, PinnedLevelType
<1>3. caps \in SUBSET Capabilities /\ caps \subseteq t \cup {"UserManage"}
  BY <1>1, <1>2, OverrideType, EvaluateBounds
<1>4. l = "None" => caps = {}
  <2>. SUFFICES ASSUME l = "None" PROVE caps = {}
    OBVIOUS
  <2>1. OverrideOf(d, g).level = "None"
    BY DEF OverrideOf, PinnedLevel
  <2>. QED
    BY <2>1, EvaluateNone
<1>5. told = caps
  BY DEF Sound
<1>6. Refreshed(c, t, dd, gg) = [s EXCEPT !.permLevel = l, !.caps = caps, !.told = told]
  BY DEF Refreshed
<1>7. s \in Session /\ s.authenticated
  BY DEF Sound
<1>. HIDE DEF caps, l, told, s
<1>. QED
  BY <1>2, <1>3, <1>4, <1>5, <1>6, <1>7 DEF Sound, Session
-----------------------------------------------------------------------------
SessionsOK(S, C, t) ==
  /\ S \in [Clients -> Session]
  /\ \A c \in Clients : Sound(S[c], t)
  /\ \A c \in Clients \ C : S[c] = Blank

\* The inductive invariant.
Inv == TypeOK /\ SessionsOK(session, clients, toggles) /\ FramesNeedViewScreen

LEMMA GrantAccessInv ==
  ASSUME Inv, NEW c \in Clients, NEW s \in Session, NEW level \in Levels,
         GrantAccess(c, s, level)
  PROVE  /\ SessionsOK(session', clients \cup {c}, toggles)
         /\ grant' \in [Peers -> Grants]
<1>1. PeerOf[c] \in Peers
  BY HostAssumption
<1>2. Sound(Started(s, PeerOf[c], level), toggles)
  BY <1>1, StartedSound DEF Inv
<1>3. grant' \in [Peers -> Grants]
  BY WithoutExpiredType DEF GrantAccess, Inv, TypeOK, Grants
<1>4. session' = [session EXCEPT ![c] = Started(s, PeerOf[c], level)]
  BY DEF GrantAccess
<1>5. Started(s, PeerOf[c], level) \in Session
  BY <1>2 DEF Sound
<1>. QED
  BY <1>2, <1>3, <1>4, <1>5 DEF SessionsOK, Inv

LEMMA ParkInv ==
  ASSUME Inv, NEW c \in Clients, NEW s, Sound(s, toggles), NEW level \in Levels,
         Park(c, s, level)
  PROVE  /\ SessionsOK(session', clients \cup {c}, toggles)
         /\ dialogs' \in [Clients -> 0..MaxDialogs]
         /\ grant' \in [Peers -> Grants]
<1> DEFINE r == [s EXCEPT !.awaitingApproval = TRUE, !.pendingLevel = level]
<1>1. Sound(r, toggles)
  BY DEF Sound, Session
<1>2. session' = [session EXCEPT ![c] = r]
  BY DEF Park
<1>3. SessionsOK(session', clients \cup {c}, toggles)
  <2>. HIDE DEF r
  <2>. QED
    BY <1>1, <1>2 DEF SessionsOK, Inv, Sound
<1>4. dialogs' \in [Clients -> 0..MaxDialogs]
  BY HostAssumption DEF Park, Inv, TypeOK
<1>. QED
  BY <1>3, <1>4 DEF Park, Inv, TypeOK, Grants

LEMMA RefreshInv ==
  ASSUME Inv, NEW t \in SUBSET Capabilities, NEW d \in [Peers -> Entries],
         NEW g \in [Peers -> Grants], Refresh(t, d, g)
  PROVE  /\ SessionsOK(session', clients, t)
         /\ grant' \in [Peers -> Grants]
<1> DEFINE A == {c \in clients : IsActive(c)}
           left == WithoutExpired(g, {PeerOf[c] : c \in A})
<1>1. left \in [Peers -> Grants]
  BY WithoutExpiredType
<1>2. session' = [c \in Clients |-> IF c \in A THEN Refreshed(c, t, d, left) ELSE session[c]]
  BY DEF Refresh
<1>3. grant' = left
  BY DEF Refresh
<1>. HIDE DEF left
<1>4. ASSUME NEW c \in Clients PROVE Sound(session'[c], t)
  <2>1. CASE c \in A
    <3>1. /\ PeerOf[c] \in Peers /\ session[c] \in Session
          /\ Sound(session[c], toggles) /\ session[c].permLevel # "None"
      BY <2>1, HostAssumption DEF Inv, SessionsOK, IsActive
    <3>. QED
      BY <1>1, <1>2, <2>1, <3>1, RefreshedSound
  <2>2. CASE c \notin A
    <3>1. session'[c] = session[c] /\ Sound(session[c], toggles)
      BY <1>2, <2>2 DEF Inv, SessionsOK
    <3>2. CASE c \in clients
      BY <3>1, <3>2, <2>2 DEF Sound, IsActive
    <3>3. CASE c \notin clients
      BY <3>1, <3>3, BlankSound DEF Inv, SessionsOK
    <3>. QED
      BY <3>2, <3>3
  <2>. QED
    BY <2>1, <2>2
<1>5. session' \in [Clients -> Session]
  <2>. HIDE DEF A
  <2>1. \A c \in Clients : session'[c] \in Session
    BY <1>4 DEF Sound
  <2>. QED
    BY <1>2, <2>1
<1>6. \A c \in Clients \ clients : session'[c] = Blank
  BY <1>2 DEF Inv, SessionsOK
<1>. QED
  BY <1>1, <1>3, <1>4, <1>5, <1>6 DEF SessionsOK

LEMMA UpdateInv ==
  ASSUME NEW C \in SUBSET Clients, clients' = C, UpdateNetworkWorkerClients(C)
  PROVE  viewers' \subseteq Clients /\ tiled' \in BOOLEAN /\ FramesNeedViewScreen'
BY DEF UpdateNetworkWorkerClients, TilesFit, FramesNeedViewScreen

LEMMA RemoveInv ==
  ASSUME Inv, NEW c \in Clients, Remove(c)
  PROVE  /\ SessionsOK(session', clients', toggles)
         /\ clients' \subseteq Clients
         /\ viewers' \subseteq Clients /\ tiled' \in BOOLEAN /\ FramesNeedViewScreen'
<1>1. clients' = clients \ {c} /\ clients' \subseteq Clients
  BY DEF Remove, Inv, TypeOK
<1>2. SessionsOK(session', clients', toggles)
  BY <1>1, BlankSound DEF Remove, Inv, SessionsOK, Sound
<1>. QED
  BY <1>1, <1>2, UpdateInv DEF Remove

LEMMA DismissInv ==
  ASSUME TypeOK, NEW C \in SUBSET Clients, DismissDialog(C)
  PROVE  dialogs' \in [Clients -> 0..MaxDialogs]
BY HostAssumption DEF DismissDialog, TypeOK
-----------------------------------------------------------------------------
LEMMA InvInit == Init => Inv
<1>. SUFFICES ASSUME Init PROVE Inv
  OBVIOUS
<1>1. toggles \in SUBSET Capabilities
  BY DEF Init
<1>2. Blank \in Session
  BY DEF Blank, Session, Levels
<1>3. TypeOK
  <2>1. dialogs \in [Clients -> 0..MaxDialogs]
    <3>1. MaxDialogs \in Nat
      BY HostAssumption
    <3>. QED
      BY <3>1 DEF Init
  <2>2. devPerm \in [Peers -> DeviceOverride \cup {NoEntry}]
    <3>1. DeviceEntries \subseteq DeviceOverride
      BY HostAssumption
    <3>. QED
      BY <3>1 DEF Init
  <2>. QED
    BY <1>1, <1>2, <2>1, <2>2 DEF Init, TypeOK
<1>4. SessionsOK(session, clients, toggles)
  BY <1>2, BlankSound DEF Init, SessionsOK
<1>. QED
  BY <1>3, <1>4 DEF Init, Inv, FramesNeedViewScreen

LEMMA AcceptInv ==
  ASSUME Inv, NEW c \in Clients, Accept(c)
  PROVE  Inv'
<1> DEFINE s == [Blank EXCEPT !.authenticated = TRUE, !.resolved = DefaultLevel]
<1>1. DefaultLevel \in Levels
  BY HostAssumption
<1>2. Sound(s, toggles) /\ s \in Session
  BY <1>1 DEF Sound, Blank, Session, Levels
<1>3. clients' = clients \cup {c} /\ clients' \subseteq Clients
  BY DEF Accept, Inv, TypeOK
<1>. HIDE DEF s
<1>4. /\ SessionsOK(session', clients', toggles)
      /\ grant' \in [Peers -> Grants]
      /\ dialogs' \in [Clients -> 0..MaxDialogs]
  <2>1. CASE PasswordSet
    <3>1. session' = [session EXCEPT ![c] = Blank] /\ UNCHANGED <<dialogs, grant>>
      BY <2>1 DEF Accept
    <3>. QED
      BY <3>1, <1>3, BlankSound DEF Inv, TypeOK, SessionsOK, Sound, Grants
  <2>2. CASE ~PasswordSet /\ Park(c, s, DefaultLevel)
    BY <2>2, <1>1, <1>2, <1>3, ParkInv
  <2>3. CASE ~PasswordSet /\ GrantAccess(c, s, DefaultLevel) /\ UNCHANGED dialogs
    BY <2>3, <1>1, <1>2, <1>3, GrantAccessInv DEF Inv, TypeOK
  <2>. QED
    BY <2>1, <2>2, <2>3 DEF Accept, s
<1>5. viewers' \subseteq Clients /\ tiled' \in BOOLEAN /\ FramesNeedViewScreen'
  BY <1>3, UpdateInv DEF Accept
<1>. QED
  BY <1>3, <1>4, <1>5 DEF Accept, Inv, TypeOK, SessionsOK, settings, Grants

LEMMA AuthRequestInv ==
  ASSUME Inv, NEW c \in Clients, NEW level \in Levels, AuthRequest(c, level)
  PROVE  Inv'
<1> DEFINE s == [session[c] EXCEPT !.authenticated = TRUE, !.resolved = level]
<1>1. Sound(s, toggles) /\ s \in Session
  BY DEF Inv, SessionsOK, Sound, Session
<1>2. clients' = clients /\ clients = clients \cup {c}
  BY DEF AuthRequest
<1>3. CASE Park(c, s, level) /\ UNCHANGED <<viewers, tiled>>
  <2>1. /\ SessionsOK(session', clients, toggles)
        /\ dialogs' \in [Clients -> 0..MaxDialogs]
        /\ grant' \in [Peers -> Grants]
    <3>. HIDE DEF s
    <3>. QED
      BY <1>1, <1>2, <1>3, ParkInv
  <2>2. session'[c].caps = session[c].caps
    BY <1>3 DEF Park, Inv, TypeOK, Session
  <2>3. \A b \in Clients \ {c} : session'[b] = session[b]
    BY <1>3 DEF Park, Inv, TypeOK
  <2>4. FramesNeedViewScreen'
    BY <1>2, <1>3, <2>2, <2>3 DEF FramesNeedViewScreen, Inv, TypeOK
  <2>. QED
    BY <1>2, <1>3, <2>1, <2>4 DEF AuthRequest, Inv, TypeOK, SessionsOK, settings, Grants
<1>4. CASE /\ GrantAccess(c, s, level)
           /\ UpdateNetworkWorkerClients(clients)
           /\ UNCHANGED dialogs
  <2>. HIDE DEF s
  <2>1. SessionsOK(session', clients, toggles) /\ grant' \in [Peers -> Grants]
    BY <1>1, <1>2, <1>4, GrantAccessInv
  <2>2. viewers' \subseteq Clients /\ tiled' \in BOOLEAN /\ FramesNeedViewScreen'
    BY <1>2, <1>4, UpdateInv DEF Inv, TypeOK
  <2>. QED
    BY <1>2, <1>4, <2>1, <2>2 DEF AuthRequest, Inv, TypeOK, SessionsOK, settings, Grants
<1>. QED
  BY <1>3, <1>4 DEF AuthRequest

LEMMA AllowInv ==
  ASSUME Inv, NEW c \in Clients, NEW remember \in BOOLEAN, Allow(c, remember)
  PROVE  Inv'
<1>1. /\ dialogs' \in [Clients -> 0..MaxDialogs]
      /\ trusted' \subseteq Peers
      /\ clients' = clients
  <2>1. MaxDialogs \in Nat /\ PeerOf[c] \in Peers
    BY HostAssumption
  <2>2. dialogs[c] \in 0..MaxDialogs /\ dialogs[c] > 0
    BY DEF Allow, Inv, TypeOK
  <2>3. dialogs[c] - 1 \in 0..MaxDialogs
    BY <2>1, <2>2
  <2>4. clients' = clients
    BY DEF Allow, GrantConsent
  <2>. QED
    BY <2>1, <2>3, <2>4 DEF Allow, Inv, TypeOK
<1>2. CASE c \in clients /\ GrantConsent(c)
  <2> DEFINE s == [session[c] EXCEPT !.awaitingApproval = FALSE, !.pendingLevel = "None"]
             level == IF session[c].awaitingApproval /\ session[c].pendingLevel # "None"
                      THEN session[c].pendingLevel ELSE DefaultLevel
  <2>1. s \in Session /\ level \in Levels
    <3>1. session[c] \in Session /\ "None" \in Levels /\ DefaultLevel \in Levels
      BY HostAssumption DEF Inv, TypeOK, Levels
    <3>. QED
      BY <3>1 DEF Session
  <2>2. GrantAccess(c, s, level) /\ UpdateNetworkWorkerClients(clients)
    BY <1>2 DEF GrantConsent
  <2>. HIDE DEF s, level
  <2>3. clients = clients \cup {c}
    BY <1>2
  <2>4. SessionsOK(session', clients, toggles) /\ grant' \in [Peers -> Grants]
    BY <2>1, <2>2, <2>3, GrantAccessInv
  <2>5. viewers' \subseteq Clients /\ tiled' \in BOOLEAN /\ FramesNeedViewScreen'
    BY <1>1, <2>2, UpdateInv DEF Inv, TypeOK
  <2>. QED
    BY <1>1, <2>4, <2>5 DEF Allow, Inv, TypeOK, SessionsOK, Grants
<1>3. CASE UNCHANGED <<session, grant, viewers, tiled>>
  BY <1>1, <1>3 DEF Allow, Inv, TypeOK, SessionsOK, FramesNeedViewScreen
<1>. QED
  BY <1>2, <1>3 DEF Allow

\* A handler that refreshes the sessions under new tables keeps the invariant.
LEMMA RefreshStepInv ==
  ASSUME Inv, NEW t \in SUBSET Capabilities, NEW d \in [Peers -> Entries],
         NEW g \in [Peers -> Grants], Refresh(t, d, g),
         UpdateNetworkWorkerClients(clients), toggles' = t, devPerm' = d,
         UNCHANGED <<running, clients, dialogs, requireApproval, trusted, jpeg>>
  PROVE  Inv'
<1>1. SessionsOK(session', clients, t) /\ grant' \in [Peers -> Grants]
  BY RefreshInv
<1>2. viewers' \subseteq Clients /\ tiled' \in BOOLEAN /\ FramesNeedViewScreen'
  BY UpdateInv DEF Inv, TypeOK
<1>. QED
  BY <1>1, <1>2 DEF Inv, TypeOK, SessionsOK, Grants, Entries
LEMMA InvStep == Inv /\ [Next]_vars => Inv'
<1>. SUFFICES ASSUME Inv, [Next]_vars PROVE Inv'
  OBVIOUS
<1>t. /\ TypeOK /\ SessionsOK(session, clients, toggles) /\ FramesNeedViewScreen
      /\ devPerm \in [Peers -> Entries] /\ grant \in [Peers -> Grants]
      /\ toggles \in SUBSET Capabilities
  BY DEF Inv, TypeOK, Entries, Grants
<1>1. CASE StartHost
  BY <1>1, <1>t DEF StartHost, settings, Inv, TypeOK, SessionsOK, FramesNeedViewScreen
<1>2. CASE StopHost
  <2>1. /\ running' = FALSE /\ clients' = {} /\ viewers' = {}
        /\ session' = [c \in Clients |-> Blank] /\ grant' = [p \in Peers |-> NoEntry]
        /\ UNCHANGED settings
    BY <1>2 DEF StopHost
  <2>2. dialogs' \in [Clients -> 0..MaxDialogs] /\ tiled' \in BOOLEAN
    <3>1. CASE UNCHANGED <<tiled, dialogs>>
      BY <3>1, <1>t DEF TypeOK
    <3>2. ASSUME NEW R \in SUBSET clients, tiled' = TilesFit(R, session, jpeg),
                 DismissDialog(clients \ R)
          PROVE  dialogs' \in [Clients -> 0..MaxDialogs] /\ tiled' \in BOOLEAN
      BY <3>2, <1>t, DismissInv DEF TilesFit, TypeOK
    <3>. QED
      BY <1>2, <3>1, <3>2 DEF StopHost
  <2>3. SessionsOK(session', clients', toggles')
    BY <2>1, <1>t, BlankSound DEF SessionsOK, Sound, settings
  <2>. QED
    BY <2>1, <2>2, <2>3, <1>t DEF settings, Inv, TypeOK, SessionsOK, FramesNeedViewScreen
<1>3. CASE SwitchEncoder
  BY <1>3, <1>t
  DEF SwitchEncoder, TilesFit, Inv, TypeOK, SessionsOK, FramesNeedViewScreen
<1>4. CASE Sweep
  <2>1. WithoutExpired(grant, Peers) \in [Peers -> Grants]
    BY <1>t, WithoutExpiredType
  <2>2. /\ Refresh(toggles, devPerm, WithoutExpired(grant, Peers))
        /\ UpdateNetworkWorkerClients(clients)
        /\ UNCHANGED <<running, clients, dialogs, settings>>
    BY <1>4 DEF Sweep
  <2>. QED
    BY <2>1, <2>2, <1>t, RefreshStepInv DEF settings
<1>5. CASE SetRequireApproval
  BY <1>5, <1>t DEF SetRequireApproval, Inv, TypeOK, SessionsOK, FramesNeedViewScreen
<1>6. ASSUME NEW c \in Clients, Accept(c) PROVE Inv'
  BY <1>6, AcceptInv
<1>7. ASSUME NEW c \in Clients, Deny(c) PROVE Inv'
  <2>1. dialogs' \in [Clients -> 0..MaxDialogs]
    <3>1. MaxDialogs \in Nat
      BY HostAssumption
    <3>2. dialogs[c] - 1 \in 0..MaxDialogs
      BY <1>7, <1>t, <3>1 DEF Deny, TypeOK
    <3>. QED
      BY <1>7, <1>t, <3>2 DEF Deny, TypeOK
  <2>2. UNCHANGED <<running, settings, grant>>
    BY <1>7 DEF Deny
  <2>3. CASE Remove(c)
    BY <2>1, <2>2, <2>3, <1>t, RemoveInv DEF settings, Inv, TypeOK, SessionsOK
  <2>4. CASE UNCHANGED <<clients, session, viewers, tiled>>
    BY <2>1, <2>2, <2>4, <1>t
    DEF settings, Inv, TypeOK, SessionsOK, FramesNeedViewScreen
  <2>. QED
    BY <1>7, <2>3, <2>4 DEF Deny
<1>8. ASSUME NEW c \in Clients, Disconnect(c) PROVE Inv'
  <2>1. Remove(c) /\ DismissDialog({c}) /\ UNCHANGED <<running, settings, grant>>
    BY <1>8 DEF Disconnect
  <2>2. dialogs' \in [Clients -> 0..MaxDialogs]
    BY <2>1, <1>t, DismissInv
  <2>. QED
    BY <2>1, <2>2, <1>t, RemoveInv DEF settings, Inv, TypeOK, SessionsOK
<1>9. ASSUME NEW c \in Clients, KeyFrameRequest(c) PROVE Inv'
  <2>1. /\ session' = [session EXCEPT ![c] = [session[c] EXCEPT !.tileCapable = TRUE]]
        /\ c \in clients /\ tiled' \in BOOLEAN
        /\ UNCHANGED <<running, clients, dialogs, settings, grant, viewers>>
    BY <1>9, <1>t DEF KeyFrameRequest, TilesFit, TypeOK
  <2>2. Sound([session[c] EXCEPT !.tileCapable = TRUE], toggles)
    BY <1>t DEF SessionsOK, Sound, Session
  <2>3. SessionsOK(session', clients, toggles)
    BY <2>1, <2>2, <1>t DEF SessionsOK, Sound
  <2>4. \A b \in Clients : session'[b].caps = session[b].caps
    BY <2>1, <1>t DEF TypeOK, Session
  <2>. QED
    BY <2>1, <2>3, <2>4, <1>t
    DEF settings, Inv, TypeOK, SessionsOK, FramesNeedViewScreen
<1>10. ASSUME NEW c \in Clients, NEW level \in AuthLevels \cup {DefaultLevel},
              AuthRequest(c, level)
       PROVE  Inv'
  <2>1. level \in Levels
    BY HostAssumption
  <2>. QED
    BY <1>10, <2>1, AuthRequestInv
<1>11. ASSUME NEW c \in Clients, NEW remember \in BOOLEAN, Allow(c, remember)
       PROVE  Inv'
  BY <1>11, AllowInv
<1>12. ASSUME NEW p \in Peers, TimePasses(p) PROVE Inv'
  <2>1. grant' \in [Peers -> Grants]
    BY <1>12, <1>t DEF TimePasses, Grants, Grant
  <2>. QED
    BY <1>12, <2>1, <1>t
    DEF TimePasses, settings, Inv, TypeOK, SessionsOK, FramesNeedViewScreen, Grants
<1>13. ASSUME NEW p \in Peers, ChangeTrust(p) PROVE Inv'
  BY <1>13, <1>t DEF ChangeTrust, Inv, TypeOK, SessionsOK, FramesNeedViewScreen
<1>14. ASSUME NEW p \in Peers, NEW g \in Grants, SetGrant(p, g) PROVE Inv'
  <2>1. [grant EXCEPT ![p] = g] \in [Peers -> Grants]
    BY <1>t
  <2>. QED
    BY <1>14, <2>1, <1>t, RefreshStepInv DEF SetGrant, settings
<1>15. ASSUME NEW p \in Peers, NEW entry \in DeviceEntries \cup {NoEntry},
              SetDevicePerm(p, entry)
       PROVE  Inv'
  <2>1. entry \in Entries
    BY HostAssumption DEF Entries
  <2>2. devPerm' \in [Peers -> Entries]
    BY <1>15, <2>1, <1>t DEF SetDevicePerm
  <2>. QED
    BY <1>15, <2>2, <1>t, RefreshStepInv DEF SetDevicePerm
<1>16. ASSUME NEW cap \in Switches, NEW on \in BOOLEAN, SetToggle(cap, on) PROVE Inv'
  <2>1. cap \in Capabilities
    BY HostAssumption
  <2>2. toggles' \in SUBSET Capabilities
    BY <1>16, <2>1, <1>t DEF SetToggle
  <2>. QED
    BY <1>16, <2>2, <1>t, RefreshStepInv DEF SetToggle
<1>17. CASE UNCHANGED vars
  BY <1>17, <1>t DEF vars, settings, Inv, TypeOK, SessionsOK, FramesNeedViewScreen
<1>18. NoEntry \in Grants
  BY DEF Grants
<1>19. ASSUME NEW term \in GrantTerms, NEW late \in BOOLEAN
       PROVE  [level |-> term.level, capMask |-> term.capMask, expired |-> late] \in Grants
  <2>1. term \in [level : Levels \cup {KeepLevel}, capMask : Masks]
    BY HostAssumption
  <2>. QED
    BY <2>1 DEF Grants, Grant
<1>. QED
  BY <1>1, <1>2, <1>3, <1>4, <1>5, <1>6, <1>7, <1>8, <1>9, <1>10, <1>11, <1>12,
     <1>13, <1>14, <1>15, <1>16, <1>17, <1>18, <1>19 DEF Next

-----------------------------------------------------------------------------
\* Type correctness (host.h, ClientInfo and the permission state of Host).
THEOREM TypeCorrect == Spec => []TypeOK
<1>1. Inv => TypeOK
  BY DEF Inv
<1>. QED
  BY <1>1, InvInit, InvStep, PTL DEF Spec

\* However switches, overrides, grants, authentications and answers of the
\* user are interleaved, a session holds nothing that is switched off, its
\* controller was told exactly what it holds, a session without a level or
\* without authentication holds nothing, and frames go to those who may view.
THEOREM SessionSafety ==
  Spec => [](/\ TogglesConverge
             /\ ControllerKnowsCaps
             /\ NoLevelNoCaps
             /\ NothingBeforeAuthentication
             /\ FramesNeedViewScreen)
<1>1. Inv => /\ TogglesConverge
             /\ ControllerKnowsCaps
             /\ NoLevelNoCaps
             /\ NothingBeforeAuthentication
             /\ FramesNeedViewScreen
  BY DEF Inv, TypeOK, SessionsOK, Sound, TogglesConverge, ControllerKnowsCaps,
         NoLevelNoCaps, NothingBeforeAuthentication, FramesNeedViewScreen
<1>. QED
  BY <1>1, InvInit, InvStep, PTL DEF Spec
-----------------------------------------------------------------------------
LEMMA RefreshKeepsInactive ==
  ASSUME Inv, NEW t, NEW d, NEW g, Refresh(t, d, g), NEW c \in Clients, ~IsActive(c)
  PROVE  session'[c] = session[c]
BY DEF Refresh

LEMMA InactiveLevel ==
  ASSUME Inv, NEW c \in Clients, ~IsActive(c)
  PROVE  session[c].permLevel = "None"
BY DEF Inv, SessionsOK, IsActive, Blank

LEMMA ApprovalStep ==
  ASSUME Inv, [Next]_vars, NEW c \in Clients,
         ~IsActive(c), IsActive(c)', NeedsApproval(c)
  PROVE  dialogs'[c] < dialogs[c]
<1>. SUFFICES ASSUME ~(dialogs'[c] < dialogs[c]) PROVE FALSE
  OBVIOUS
<1>a. session[c].permLevel = "None" /\ session'[c].permLevel # "None" /\ c \in clients'
  BY InactiveLevel DEF IsActive
<1>b. session \in [Clients -> Session] /\ dialogs \in [Clients -> 0..MaxDialogs]
  BY DEF Inv, TypeOK
<1>r. ASSUME NEW t, NEW d, NEW g, Refresh(t, d, g) PROVE FALSE
  BY <1>r, <1>a, RefreshKeepsInactive
<1>1. ~(StartHost \/ StopHost \/ SwitchEncoder \/ SetRequireApproval \/ UNCHANGED vars)
  BY <1>a DEF StartHost, StopHost, SwitchEncoder, SetRequireApproval, vars
<1>2. ~Sweep
  BY <1>r DEF Sweep
<1>3. ASSUME NEW b \in Clients, Accept(b) PROVE FALSE
  <2>1. CASE b = c
    <3>1. CASE PasswordSet
      BY <1>3, <1>a, <1>b, <2>1, <3>1 DEF Accept, Blank
    <3>2. CASE ~PasswordSet
      <4>1. session'[c].permLevel = "None"
        BY <1>3, <1>b, <2>1, <3>2 DEF Accept, Park, Blank
      <4>. QED
        BY <4>1, <1>a
    <3>. QED
      BY <3>1, <3>2
  <2>2. CASE b # c
    <3>1. session'[c] = session[c]
      BY <1>3, <1>b, <2>2 DEF Accept, Park, GrantAccess
    <3>. QED
      BY <3>1, <1>a
  <2>. QED
    BY <2>1, <2>2
<1>4. ASSUME NEW b \in Clients, NEW level, AuthRequest(b, level) PROVE FALSE
  <2>1. CASE b = c
    <3> DEFINE s == [session[c] EXCEPT !.authenticated = TRUE, !.resolved = level]
    <3>1. session'[c] = [s EXCEPT !.awaitingApproval = TRUE, !.pendingLevel = level]
      BY <1>4, <1>b, <2>1 DEF AuthRequest, Park
    <3>2. session[c] \in Session
      BY <1>b
    <3>3. session'[c].permLevel = session[c].permLevel
      BY <3>1, <3>2 DEF Session
    <3>. QED
      BY <3>3, <1>a
  <2>2. CASE b # c
    <3>1. session'[c] = session[c]
      BY <1>4, <1>b, <2>2 DEF AuthRequest, Park, GrantAccess
    <3>. QED
      BY <3>1, <1>a
  <2>. QED
    BY <2>1, <2>2
<1>5. ASSUME NEW b \in Clients, NEW remember, Allow(b, remember) PROVE FALSE
  <2>1. CASE b = c
    <3>1. MaxDialogs \in Nat
      BY HostAssumption
    <3>2. dialogs'[c] = dialogs[c] - 1 /\ dialogs[c] \in Nat
      BY <1>5, <1>b, <2>1, <3>1 DEF Allow
    <3>. QED
      BY <3>2
  <2>2. CASE b # c
    <3>1. session'[c] = session[c]
      BY <1>5, <1>b, <2>2 DEF Allow, GrantConsent, GrantAccess
    <3>. QED
      BY <3>1, <1>a
  <2>. QED
    BY <2>1, <2>2
<1>6. ASSUME NEW b \in Clients, Remove(b) PROVE FALSE
  BY <1>6, <1>a, <1>b DEF Remove
<1>7. ASSUME NEW b \in Clients, Deny(b) PROVE FALSE
  BY <1>7, <1>6, <1>a DEF Deny
<1>8. ASSUME NEW b \in Clients, Disconnect(b) PROVE FALSE
  BY <1>8, <1>6 DEF Disconnect
<1>9. ASSUME NEW b \in Clients, KeyFrameRequest(b) PROVE FALSE
  <2>1. session'[c].permLevel = session[c].permLevel
    BY <1>9, <1>b DEF KeyFrameRequest, Session
  <2>. QED
    BY <2>1, <1>a
<1>10. ASSUME NEW p \in Peers, TimePasses(p) \/ ChangeTrust(p) PROVE FALSE
  BY <1>10, <1>a DEF TimePasses, ChangeTrust
<1>11. ASSUME NEW p, NEW g, SetGrant(p, g) PROVE FALSE
  BY <1>11, <1>r DEF SetGrant
<1>12. ASSUME NEW p, NEW entry, SetDevicePerm(p, entry) PROVE FALSE
  BY <1>12, <1>r DEF SetDevicePerm
<1>13. ASSUME NEW cap, NEW on, SetToggle(cap, on) PROVE FALSE
  BY <1>13, <1>r DEF SetToggle
<1>. QED
  BY <1>1, <1>2, <1>3, <1>4, <1>5, <1>7, <1>8, <1>9, <1>10, <1>11, <1>12, <1>13 DEF Next

\* With approval on, no order of authentications, refreshes, grants and
\* overrides starts the session of an address that is not trusted: an answer
\* of the host's user does (beginApproval, refreshClientPermissions).
THEOREM ApprovalHolds == Spec => StartsOnlyByApproval
<1>1. Inv /\ [Next]_vars =>
        [\A c \in Clients :
           (~IsActive(c) /\ IsActive(c)' /\ NeedsApproval(c)) => dialogs'[c] < dialogs[c]]_vars
  BY ApprovalStep
<1>. QED
  BY <1>1, InvInit, InvStep, PTL DEF Spec, StartsOnlyByApproval
-----------------------------------------------------------------------------
OneClientPerAddress == \A b, c \in Clients : PeerOf[b] = PeerOf[c] => b = c

\* CapsCurrent for one record.
Current(s, p, t, d, g) ==
  s.permLevel # "None" => s.caps = Evaluate(s.permLevel, t, OverrideOf(d[p], g[p]))

AllCurrent == \A c \in Clients : Current(session[c], PeerOf[c], toggles, devPerm, grant)

LEMMA GrantAccessCurrent ==
  ASSUME OneClientPerAddress, Inv, AllCurrent, NEW c \in Clients, NEW s \in Session,
         NEW level, GrantAccess(c, s, level), UNCHANGED <<toggles, devPerm>>
  PROVE  AllCurrent'
<1>. SUFFICES ASSUME NEW b \in Clients
     PROVE  Current(session'[b], PeerOf[b], toggles, devPerm, grant')
  BY DEF AllCurrent
<1>1. PeerOf \in [Clients -> Peers] /\ session \in [Clients -> Session]
  BY HostAssumption DEF Inv, TypeOK
<1>2. CASE b = c
  <2> DEFINE p == PeerOf[c]
             g == WithoutExpired(grant, {p})[p]
             l == PinnedLevel(g, IF devPerm[p] = NoEntry THEN level ELSE devPerm[p].level)
             caps == Evaluate(l, toggles, OverrideOf(devPerm[p], g))
  <2>1. session'[c] =
          [s EXCEPT !.authenticated = TRUE, !.permLevel = l, !.caps = caps, !.told = caps]
    BY <1>1 DEF GrantAccess, Started
  <2>2. grant'[p] = g
    BY <1>1 DEF GrantAccess
  <2>. HIDE DEF g, l
  <2>3. session'[c].permLevel = l /\ session'[c].caps = caps
    <3>. HIDE DEF caps
    <3>. QED
      BY <2>1 DEF Session
  <2>. QED
    BY <1>2, <2>2, <2>3 DEF Current
<1>3. CASE b # c
  <2>1. session'[b] = session[b]
    BY <1>1, <1>3 DEF GrantAccess
  <2>2. PeerOf[b] # PeerOf[c] /\ PeerOf[b] \in Peers
    BY <1>1, <1>3 DEF OneClientPerAddress
  <2>3. grant'[PeerOf[b]] = grant[PeerOf[b]]
    BY <2>2 DEF GrantAccess, WithoutExpired
  <2>. QED
    BY <2>1, <2>3 DEF AllCurrent, Current
<1>. QED
  BY <1>2, <1>3

LEMMA RefreshCurrent ==
  ASSUME Inv, NEW t, NEW d, NEW g, Refresh(t, d, g), toggles' = t, devPerm' = d
  PROVE  AllCurrent'
<1>. SUFFICES ASSUME NEW c \in Clients
     PROVE  Current(session'[c], PeerOf[c], t, d, grant')
  BY DEF AllCurrent
<1>1. session[c] \in Session
  BY DEF Inv, TypeOK
<1>2. CASE IsActive(c)
  <2> DEFINE left == WithoutExpired(g, {PeerOf[b] : b \in {b \in clients : IsActive(b)}})
             p == PeerOf[c]
             l == PinnedLevel(left[p], session[c].permLevel)
             caps == Evaluate(l, t, OverrideOf(d[p], left[p]))
             told == IF caps = session[c].caps THEN session[c].told ELSE caps
  <2>1. session'[c] = Refreshed(c, t, d, left) /\ grant' = left
    BY <1>2 DEF Refresh, IsActive
  <2>. HIDE DEF left
  <2>2. session'[c] = [session[c] EXCEPT !.permLevel = l, !.caps = caps, !.told = told]
    BY <2>1 DEF Refreshed
  <2>3. session'[c].permLevel = l /\ session'[c].caps = caps
    <3>. HIDE DEF l, caps, told
    <3>. QED
      BY <1>1, <2>2 DEF Session
  <2>. HIDE DEF l
  <2>. QED
    BY <2>1, <2>3 DEF Current
<1>3. CASE ~IsActive(c)
  BY <1>3, RefreshKeepsInactive, InactiveLevel DEF Current
<1>. QED
  BY <1>2, <1>3
\* A step that leaves levels, masks and tables alone.
LEMMA SameCurrent ==
  ASSUME AllCurrent, UNCHANGED <<toggles, devPerm>>,
         \A c \in Clients : \/ session'[c].permLevel = "None"
                            \/ /\ session'[c].permLevel = session[c].permLevel
                               /\ session'[c].caps = session[c].caps
                               /\ grant'[PeerOf[c]] = grant[PeerOf[c]]
  PROVE  AllCurrent'
BY DEF AllCurrent, Current

LEMMA ParkCurrent ==
  ASSUME Inv, AllCurrent, NEW c \in Clients, NEW s \in Session, NEW level,
         Park(c, s, level), UNCHANGED <<toggles, devPerm>>,
         s.permLevel = session[c].permLevel \/ s.permLevel = "None",
         s.permLevel # "None" => s.caps = session[c].caps
  PROVE  AllCurrent'
<1>1. session' = [session EXCEPT ![c] = [s EXCEPT !.awaitingApproval = TRUE, !.pendingLevel = level]]
  BY DEF Park
<1>2. session \in [Clients -> Session] /\ grant' = grant
  BY DEF Inv, TypeOK, Park
<1>3. session'[c].permLevel = s.permLevel /\ session'[c].caps = s.caps
  BY <1>1, <1>2 DEF Session
<1>4. \A b \in Clients \ {c} : session'[b] = session[b]
  BY <1>1, <1>2
<1>. QED
  BY <1>2, <1>3, <1>4, SameCurrent

LEMMA CurrentStep ==
  ASSUME OneClientPerAddress
  PROVE  Inv /\ AllCurrent /\ [Next]_vars => AllCurrent'
<1>. SUFFICES ASSUME Inv, AllCurrent, [Next]_vars PROVE AllCurrent'
  OBVIOUS
<1>s. session \in [Clients -> Session] /\ PeerOf \in [Clients -> Peers]
  BY HostAssumption DEF Inv, TypeOK
<1>b. Blank \in Session /\ Blank.permLevel = "None"
  BY DEF Blank, Session, Levels
<1>1. CASE StartHost \/ SwitchEncoder \/ SetRequireApproval \/ UNCHANGED vars
  BY <1>1, SameCurrent
  DEF StartHost, SwitchEncoder, SetRequireApproval, vars, settings
<1>2. CASE StopHost
  <2>1. \A c \in Clients : session'[c].permLevel = "None"
    BY <1>2, <1>b DEF StopHost
  <2>. QED
    BY <1>2, <2>1, SameCurrent DEF StopHost, settings
<1>3. CASE Sweep
  BY <1>3, RefreshCurrent DEF Sweep, settings
<1>4. ASSUME NEW c \in Clients, Accept(c) PROVE AllCurrent'
  <2> DEFINE s == [Blank EXCEPT !.authenticated = TRUE, !.resolved = DefaultLevel]
  <2>1. s \in Session /\ s.permLevel = "None"
    BY <1>b, HostAssumption DEF Blank, Session
  <2>2. UNCHANGED <<toggles, devPerm>>
    BY <1>4 DEF Accept, settings
  <2>. HIDE DEF s
  <2>3. CASE PasswordSet
    <3>1. session' = [session EXCEPT ![c] = Blank] /\ grant' = grant
      BY <1>4, <2>3 DEF Accept
    <3>. QED
      BY <3>1, <2>2, <1>s, <1>b, SameCurrent
  <2>4. CASE Park(c, s, DefaultLevel)
    BY <2>1, <2>2, <2>4, ParkCurrent
  <2>5. CASE GrantAccess(c, s, DefaultLevel)
    BY <2>1, <2>2, <2>5, GrantAccessCurrent
  <2>. QED
    BY <1>4, <2>3, <2>4, <2>5 DEF Accept, s
<1>5. ASSUME NEW c \in Clients, NEW level \in AuthLevels \cup {DefaultLevel},
             AuthRequest(c, level)
      PROVE  AllCurrent'
  <2> DEFINE s == [session[c] EXCEPT !.authenticated = TRUE, !.resolved = level]
  <2>1. /\ s \in Session
        /\ s.permLevel = session[c].permLevel /\ s.caps = session[c].caps
    <3>1. level \in Levels
      BY HostAssumption
    <3>. QED
      BY <3>1, <1>s DEF Session
  <2>2. UNCHANGED <<toggles, devPerm>>
    BY <1>5 DEF AuthRequest, settings
  <2>3. Park(c, s, level) \/ GrantAccess(c, s, level)
    BY <1>5 DEF AuthRequest
  <2>. HIDE DEF s
  <2>. QED
    BY <2>1, <2>2, <2>3, ParkCurrent, GrantAccessCurrent
<1>6. ASSUME NEW c \in Clients, NEW remember \in BOOLEAN, Allow(c, remember)
      PROVE  AllCurrent'
  <2>1. UNCHANGED <<toggles, devPerm>>
    BY <1>6 DEF Allow
  <2>2. CASE GrantConsent(c)
    <3> DEFINE s == [session[c] EXCEPT !.awaitingApproval = FALSE, !.pendingLevel = "None"]
               level == IF session[c].awaitingApproval /\ session[c].pendingLevel # "None"
                        THEN session[c].pendingLevel ELSE DefaultLevel
    <3>1. s \in Session
      BY <1>s DEF Session, Levels
    <3>2. GrantAccess(c, s, level)
      BY <2>2 DEF GrantConsent
    <3>. HIDE DEF s, level
    <3>. QED
      BY <2>1, <3>1, <3>2, GrantAccessCurrent
  <2>3. CASE UNCHANGED <<session, grant>>
    BY <2>1, <2>3, SameCurrent
  <2>. QED
    BY <1>6, <2>2, <2>3 DEF Allow
<1>7. ASSUME NEW c \in Clients, Remove(c), UNCHANGED <<settings, grant>> PROVE AllCurrent'
  BY <1>7, <1>s, <1>b, SameCurrent DEF Remove, settings
<1>8. ASSUME NEW c \in Clients, Deny(c) PROVE AllCurrent'
  <2>1. CASE Remove(c)
    BY <1>7, <1>8, <2>1 DEF Deny
  <2>2. CASE UNCHANGED session
    BY <1>8, <2>2, SameCurrent DEF Deny, settings
  <2>. QED
    BY <1>8, <2>1, <2>2 DEF Deny
<1>9. ASSUME NEW c \in Clients, Disconnect(c) PROVE AllCurrent'
  BY <1>7, <1>9 DEF Disconnect
<1>10. ASSUME NEW c \in Clients, KeyFrameRequest(c) PROVE AllCurrent'
  <2>1. \A b \in Clients : /\ session'[b].permLevel = session[b].permLevel
                           /\ session'[b].caps = session[b].caps
    BY <1>10, <1>s DEF KeyFrameRequest, Session
  <2>. QED
    BY <1>10, <2>1, SameCurrent DEF KeyFrameRequest, settings
<1>11. ASSUME NEW p \in Peers, TimePasses(p) PROVE AllCurrent'
  <2>1. \A q \in Peers : \A d : OverrideOf(d, grant'[q]) = OverrideOf(d, grant[q])
    <3>. SUFFICES ASSUME NEW q \in Peers, NEW d
                  PROVE  OverrideOf(d, grant'[q]) = OverrideOf(d, grant[q])
      OBVIOUS
    <3>1. grant[q] \in Grants /\ NoEntry \notin Grant
      BY HostAssumption DEF Inv, TypeOK, Grants, Grant
    <3>2. q # p => grant'[q] = grant[q]
      BY <1>11 DEF TimePasses, Inv, TypeOK
    <3>3. /\ grant[p] \in Grant
          /\ grant'[p] = [grant[p] EXCEPT !.expired = TRUE]
      BY <1>11 DEF TimePasses, Inv, TypeOK
    <3>4. /\ grant'[p].level = grant[p].level /\ grant'[p].capMask = grant[p].capMask
          /\ grant'[p] \in Grant
      BY <3>3 DEF Grant
    <3>. QED
      BY <3>1, <3>2, <3>3, <3>4 DEF OverrideOf, PinnedLevel
  <2>. QED
    BY <1>11, <1>s, <2>1 DEF TimePasses, AllCurrent, Current, settings
<1>12. ASSUME NEW p \in Peers, ChangeTrust(p) PROVE AllCurrent'
  BY <1>12, SameCurrent DEF ChangeTrust
<1>13. ASSUME NEW p, NEW g, SetGrant(p, g) PROVE AllCurrent'
  BY <1>13, RefreshCurrent DEF SetGrant, settings
<1>14. ASSUME NEW p, NEW entry, SetDevicePerm(p, entry) PROVE AllCurrent'
  BY <1>14, RefreshCurrent DEF SetDevicePerm
<1>15. ASSUME NEW cap, NEW on, SetToggle(cap, on) PROVE AllCurrent'
  BY <1>15, RefreshCurrent DEF SetToggle
<1>. QED
  BY <1>1, <1>2, <1>3, <1>4, <1>5, <1>6, <1>8, <1>9, <1>10, <1>11, <1>12,
     <1>13, <1>14, <1>15 DEF Next

\* While no two connections share an address, what a live session may do is
\* what the switches, the overrides and the grants say (grantAccess,
\* refreshClientPermissions).
THEOREM CapabilitiesCurrent ==
  ASSUME OneClientPerAddress
  PROVE  Spec => []CapsCurrent
<1>1. Init => AllCurrent
  BY DEF Init, AllCurrent, Current, Blank
<1>2. Inv /\ AllCurrent /\ [Next]_vars => AllCurrent'
  BY CurrentStep
<1>3. Inv /\ AllCurrent => CapsCurrent
  BY DEF Inv, TypeOK, AllCurrent, Current, CapsCurrent, IsActive
<1>. QED
  BY <1>1, <1>2, <1>3, InvInit, InvStep, PTL DEF Spec

-----------------------------------------------------------------------------
\* What a refresh and grantAccess leave alone in a record of m_clients.
LEMMA RefreshKeeps ==
  ASSUME Inv, NEW t, NEW d, NEW g, Refresh(t, d, g), NEW c \in Clients
  PROVE  /\ session'[c].awaitingApproval = session[c].awaitingApproval
         /\ session'[c].authenticated = session[c].authenticated
         /\ session'[c].tileCapable = session[c].tileCapable
<1> DEFINE left == WithoutExpired(g, {PeerOf[b] : b \in {b \in clients : IsActive(b)}})
           l == PinnedLevel(left[PeerOf[c]], session[c].permLevel)
           caps == Evaluate(l, t, OverrideOf(d[PeerOf[c]], left[PeerOf[c]]))
           told == IF caps = session[c].caps THEN session[c].told ELSE caps
<1>1. session[c] \in Session
  BY DEF Inv, TypeOK
<1>2. CASE IsActive(c)
  <2>1. session'[c] = Refreshed(c, t, d, left)
    BY <1>2 DEF Refresh, IsActive
  <2>. HIDE DEF left
  <2>2. session'[c] = [session[c] EXCEPT !.permLevel = l, !.caps = caps, !.told = told]
    BY <2>1 DEF Refreshed
  <2>. HIDE DEF l, caps, told
  <2>. QED
    BY <1>1, <2>2 DEF Session
<1>. QED
  BY <1>2, RefreshKeepsInactive

LEMMA GrantAccessKeeps ==
  ASSUME Inv, NEW c \in Clients, NEW s \in Session, NEW level, GrantAccess(c, s, level)
  PROVE  /\ session'[c].authenticated
         /\ session'[c].awaitingApproval = s.awaitingApproval
         /\ session'[c].tileCapable = s.tileCapable
         /\ \A b \in Clients \ {c} : session'[b] = session[b]
<1> DEFINE p == PeerOf[c]
           g == WithoutExpired(grant, {p})[p]
           l == PinnedLevel(g, IF devPerm[p] = NoEntry THEN level ELSE devPerm[p].level)
           caps == Evaluate(l, toggles, OverrideOf(devPerm[p], g))
<1>1. session \in [Clients -> Session]
  BY DEF Inv, TypeOK
<1>2. session' = [session EXCEPT ![c] = Started(s, p, level)]
  BY DEF GrantAccess
<1>3. Started(s, p, level) =
        [s EXCEPT !.authenticated = TRUE, !.permLevel = l, !.caps = caps, !.told = caps]
  BY DEF Started
<1>. HIDE DEF p, l, caps
<1>. QED
  BY <1>1, <1>2, <1>3 DEF Session

LEMMA ParkKeeps ==
  ASSUME Inv, NEW c \in Clients, NEW s \in Session, NEW level, Park(c, s, level)
  PROVE  /\ session'[c].authenticated = s.authenticated
         /\ session'[c].tileCapable = s.tileCapable
         /\ dialogs'[c] > 0
         /\ \A b \in Clients \ {c} : session'[b] = session[b] /\ dialogs'[b] = dialogs[b]
<1>1. session \in [Clients -> Session] /\ dialogs \in [Clients -> 0..MaxDialogs]
  BY DEF Inv, TypeOK
<1>2. MaxDialogs \in Nat
  BY HostAssumption
<1>. QED
  BY <1>1, <1>2 DEF Park, Session

-----------------------------------------------------------------------------
LEMMA SameParked ==
  ASSUME ParkedHasDialog,
         \A c \in clients' :
           session'[c].awaitingApproval =>
             c \in clients /\ session[c].awaitingApproval /\ dialogs'[c] = dialogs[c]
  PROVE  ParkedHasDialog'
BY DEF ParkedHasDialog

LEMMA ParkedStep == Inv /\ ParkedHasDialog /\ [Next]_vars => ParkedHasDialog'
<1>. SUFFICES ASSUME Inv, ParkedHasDialog, [Next]_vars PROVE ParkedHasDialog'
  OBVIOUS
<1>s. /\ session \in [Clients -> Session] /\ clients \subseteq Clients
      /\ dialogs \in [Clients -> 0..MaxDialogs] /\ MaxDialogs \in Nat
      /\ \A c \in Clients \ clients : session[c] = Blank
  BY HostAssumption DEF Inv, TypeOK, SessionsOK
<1>b. Blank \in Session /\ ~Blank.awaitingApproval
  BY DEF Blank, Session, Levels
<1>1. CASE StartHost \/ SwitchEncoder \/ SetRequireApproval \/ UNCHANGED vars
  BY <1>1, SameParked DEF StartHost, SwitchEncoder, SetRequireApproval, vars
<1>2. CASE StopHost
  BY <1>2 DEF StopHost, ParkedHasDialog
<1>3. ASSUME NEW t, NEW d, NEW g, Refresh(t, d, g), UNCHANGED <<clients, dialogs>>
      PROVE  ParkedHasDialog'
  BY <1>3, <1>s, RefreshKeeps, SameParked
<1>4. ASSUME NEW c \in Clients, NEW s \in Session, NEW level, Park(c, s, level),
             clients' = clients \cup {c}
      PROVE  ParkedHasDialog'
  BY <1>4, <1>s, ParkKeeps DEF ParkedHasDialog
<1>5. ASSUME NEW c \in Clients, NEW s \in Session, NEW level, GrantAccess(c, s, level),
             UNCHANGED dialogs, clients' = clients \cup {c},
             s.awaitingApproval => session[c].awaitingApproval
      PROVE  ParkedHasDialog'
  BY <1>5, <1>s, <1>b, GrantAccessKeeps, SameParked
<1>6. ASSUME NEW c \in Clients, Accept(c) PROVE ParkedHasDialog'
  <2> DEFINE s == [Blank EXCEPT !.authenticated = TRUE, !.resolved = DefaultLevel]
  <2>1. s \in Session /\ ~s.awaitingApproval
    BY HostAssumption DEF Blank, Session, Levels
  <2>2. clients' = clients \cup {c}
    BY <1>6 DEF Accept
  <2>3. CASE session' = [session EXCEPT ![c] = Blank] /\ UNCHANGED dialogs
    BY <2>2, <2>3, <1>s, <1>b, SameParked
  <2>. HIDE DEF s
  <2>4. CASE Park(c, s, DefaultLevel)
    BY <2>1, <2>2, <2>4, <1>4
  <2>5. CASE GrantAccess(c, s, DefaultLevel) /\ UNCHANGED dialogs
    BY <2>1, <2>2, <2>5, <1>5
  <2>. QED
    BY <1>6, <2>3, <2>4, <2>5 DEF Accept, s
<1>7. ASSUME NEW c \in Clients, NEW level \in AuthLevels \cup {DefaultLevel},
             AuthRequest(c, level)
      PROVE  ParkedHasDialog'
  <2> DEFINE s == [session[c] EXCEPT !.authenticated = TRUE, !.resolved = level]
  <2>1. s \in Session /\ s.awaitingApproval = session[c].awaitingApproval
    <3>1. level \in Levels
      BY HostAssumption
    <3>. QED
      BY <3>1, <1>s DEF Session
  <2>2. clients' = clients \cup {c}
    BY <1>7 DEF AuthRequest
  <2>3. Park(c, s, level) \/ (GrantAccess(c, s, level) /\ UNCHANGED dialogs)
    BY <1>7 DEF AuthRequest
  <2>. HIDE DEF s
  <2>. QED
    BY <2>1, <2>2, <2>3, <1>4, <1>5
<1>8. ASSUME NEW c \in Clients, NEW remember \in BOOLEAN, Allow(c, remember)
      PROVE  ParkedHasDialog'
  <2>1. clients' = clients /\ \A b \in Clients \ {c} : dialogs'[b] = dialogs[b]
    BY <1>8, <1>s DEF Allow
  <2>2. CASE c \in clients /\ GrantConsent(c)
    <3> DEFINE s == [session[c] EXCEPT !.awaitingApproval = FALSE, !.pendingLevel = "None"]
               level == IF session[c].awaitingApproval /\ session[c].pendingLevel # "None"
                        THEN session[c].pendingLevel ELSE DefaultLevel
    <3>1. s \in Session /\ ~s.awaitingApproval
      BY <1>s DEF Session, Levels
    <3>2. GrantAccess(c, s, level)
      BY <2>2 DEF GrantConsent
    <3>. HIDE DEF s, level
    <3>. QED
      BY <2>1, <3>1, <3>2, <1>s, GrantAccessKeeps, SameParked
  <2>3. CASE c \notin clients /\ UNCHANGED session
    BY <2>1, <2>3, <1>s, SameParked
  <2>. QED
    BY <1>8, <2>2, <2>3 DEF Allow
<1>9. ASSUME NEW c \in Clients, Deny(c) \/ Disconnect(c) PROVE ParkedHasDialog'
  <2>1. \A b \in Clients \ {c} : dialogs'[b] = dialogs[b]
    BY <1>9, <1>s DEF Deny, Disconnect, DismissDialog
  <2>2. CASE Remove(c)
    BY <2>1, <2>2, <1>s, SameParked DEF Remove
  <2>3. CASE c \notin clients /\ UNCHANGED <<clients, session>>
    BY <2>1, <2>3, <1>s, SameParked
  <2>. QED
    BY <1>9, <2>2, <2>3 DEF Deny, Disconnect
<1>10. ASSUME NEW c \in Clients, KeyFrameRequest(c) PROVE ParkedHasDialog'
  <2>1. \A b \in Clients : session'[b].awaitingApproval = session[b].awaitingApproval
    BY <1>10, <1>s DEF KeyFrameRequest, Session
  <2>. QED
    BY <1>10, <2>1, <1>s, SameParked DEF KeyFrameRequest
<1>11. ASSUME NEW p \in Peers, TimePasses(p) \/ ChangeTrust(p) PROVE ParkedHasDialog'
  BY <1>11, SameParked DEF TimePasses, ChangeTrust
<1>12. CASE Sweep
  BY <1>12, <1>3 DEF Sweep
<1>13. ASSUME NEW p, NEW g, SetGrant(p, g) PROVE ParkedHasDialog'
  BY <1>13, <1>3 DEF SetGrant
<1>14. ASSUME NEW p, NEW entry, SetDevicePerm(p, entry) PROVE ParkedHasDialog'
  BY <1>14, <1>3 DEF SetDevicePerm
<1>15. ASSUME NEW cap, NEW on, SetToggle(cap, on) PROVE ParkedHasDialog'
  BY <1>15, <1>3 DEF SetToggle
<1>. QED
  BY <1>1, <1>2, <1>6, <1>7, <1>8, <1>9, <1>10, <1>11, <1>12, <1>13, <1>14, <1>15 DEF Next

\* A session never waits for an answer that no open dialog can give, however
\* authentications, answers, dismissed dialogs and reconnections of the same
\* address are interleaved (beginApproval, MainWindow::onConsentRequested).
THEOREM WaitCanEnd == Spec => []ParkedHasDialog
<1>1. Init => ParkedHasDialog
  BY DEF Init, ParkedHasDialog
<1>. QED
  BY <1>1, InvInit, InvStep, ParkedStep, PTL DEF Spec

-----------------------------------------------------------------------------
\* While tiles are sent the encoder is JPEG, and every controller that is sent
\* frames decodes tiles.
ViewersDecode == tiled => jpeg /\ \A c \in viewers : session[c].tileCapable

\* Without a password a client counts as authenticated from the start, and
\* without the main window nobody turns approval on: in both cases no
\* authentication is parked.
NobodyParkedLater ==
  /\ ~PasswordSet => \A c \in clients : session[c].authenticated
  /\ ~ApprovalUi => ~requireApproval

\* What updateTileTransportMode leaves behind.
LEMMA ComputedTilesFit ==
  ASSUME Inv', tiled' = TilesFit(clients', session', jpeg')
  PROVE  ViewersDecode' /\ TilesOnlyIfAllDecode'
<1>1. ASSUME NEW c \in viewers' PROVE c \in clients' /\ session'[c].authenticated
  BY <1>1, BlankSound DEF Inv, SessionsOK, Sound, FramesNeedViewScreen, TypeOK
<1>. QED
  BY <1>1 DEF TilesFit, ViewersDecode, TilesOnlyIfAllDecode

\* A step that changes neither the receivers nor what they can do.
LEMMA SameTiles ==
  ASSUME UNCHANGED <<clients, viewers, tiled, jpeg>>,
         \A c \in Clients : /\ session'[c].tileCapable = session[c].tileCapable
                            /\ session'[c].authenticated => session[c].authenticated,
         Inv
  PROVE  (ViewersDecode => ViewersDecode') /\ (TilesOnlyIfAllDecode => TilesOnlyIfAllDecode')
BY DEF ViewersDecode, TilesOnlyIfAllDecode, Inv, TypeOK

\* Every step but the parking of an authentication leaves the tiles as
\* updateTileTransportMode computes them, or touches nothing they depend on.
LEMMA TilesStep ==
  ASSUME Inv, Inv', [Next]_vars, ViewersDecode
  PROVE  /\ ViewersDecode'
         /\ \/ TilesOnlyIfAllDecode => TilesOnlyIfAllDecode'
            \/ \E c \in clients, level \in AuthLevels \cup {DefaultLevel} :
                 /\ AuthRequest(c, level) /\ NeedsApproval(c)
                 /\ Park(c, [session[c] EXCEPT !.authenticated = TRUE, !.resolved = level], level)
                 /\ UNCHANGED <<clients, viewers, tiled, jpeg>>
<1> DEFINE Parks(c, level) ==
             /\ AuthRequest(c, level) /\ NeedsApproval(c)
             /\ Park(c, [session[c] EXCEPT !.authenticated = TRUE, !.resolved = level], level)
             /\ UNCHANGED <<clients, viewers, tiled, jpeg>>
           Goal == /\ ViewersDecode'
                   /\ \/ TilesOnlyIfAllDecode => TilesOnlyIfAllDecode'
                      \/ \E c \in clients, level \in AuthLevels \cup {DefaultLevel} :
                           Parks(c, level)
<1>. SUFFICES Goal
  OBVIOUS
<1>s. session \in [Clients -> Session] /\ clients \subseteq Clients /\ viewers \subseteq Clients
  BY DEF Inv, TypeOK
<1>f. ASSUME tiled' = TilesFit(clients', session', jpeg') PROVE Goal
  BY <1>f, ComputedTilesFit
<1>u. ASSUME UpdateNetworkWorkerClients(clients'), jpeg' = jpeg PROVE Goal
  BY <1>f, <1>u DEF UpdateNetworkWorkerClients
<1>k. ASSUME UNCHANGED <<clients, viewers, tiled, jpeg, session>> PROVE Goal
  BY <1>k, SameTiles
<1>1. CASE StartHost \/ SetRequireApproval \/ UNCHANGED vars
  BY <1>1, <1>k DEF StartHost, SetRequireApproval, vars, settings
<1>2. CASE StopHost
  <2>1. viewers' = {} /\ clients' = {} /\ jpeg' = jpeg
    BY <1>2 DEF StopHost, settings
  <2>2. tiled' => jpeg
    BY <1>2 DEF StopHost, TilesFit, ViewersDecode
  <2>. QED
    BY <2>1, <2>2 DEF ViewersDecode, TilesOnlyIfAllDecode
<1>3. CASE SwitchEncoder
  BY <1>3, <1>f DEF SwitchEncoder
<1>4. ASSUME NEW c \in Clients, KeyFrameRequest(c) PROVE Goal
  BY <1>4, <1>f DEF KeyFrameRequest, settings
<1>5. ASSUME NEW c \in Clients, Accept(c) PROVE Goal
  BY <1>5, <1>u DEF Accept, settings
<1>6. ASSUME NEW c \in Clients, NEW level \in AuthLevels \cup {DefaultLevel},
             AuthRequest(c, level)
      PROVE  Goal
  <2> DEFINE s == [session[c] EXCEPT !.authenticated = TRUE, !.resolved = level]
  <2>1. s \in Session /\ s.tileCapable = session[c].tileCapable
    <3>1. level \in Levels
      BY HostAssumption
    <3>. QED
      BY <3>1, <1>s DEF Session
  <2>2. CASE UpdateNetworkWorkerClients(clients)
    BY <1>6, <2>2, <1>u DEF AuthRequest, settings
  <2>3. CASE NeedsApproval(c) /\ Park(c, s, level) /\ UNCHANGED <<viewers, tiled>>
    <3>1. Parks(c, level) /\ c \in clients
      BY <1>6, <2>3 DEF AuthRequest, settings
    <3>2. \A b \in Clients : session'[b].tileCapable = session[b].tileCapable
      <4>. HIDE DEF s
      <4>. QED
        BY <2>1, <2>3, ParkKeeps
    <3>3. ViewersDecode'
      BY <3>1, <3>2, <1>s DEF ViewersDecode
    <3>. QED
      BY <3>1, <3>3
  <2>. QED
    BY <1>6, <2>2, <2>3 DEF AuthRequest
<1>7. ASSUME NEW c \in Clients, NEW remember \in BOOLEAN, Allow(c, remember) PROVE Goal
  <2>1. UNCHANGED <<clients, jpeg>>
    BY <1>7 DEF Allow
  <2>. QED
    BY <1>7, <2>1, <1>u, <1>k DEF Allow, GrantConsent
<1>8. ASSUME NEW c \in Clients, Deny(c) \/ Disconnect(c) PROVE Goal
  BY <1>8, <1>u, <1>k DEF Deny, Disconnect, Remove, settings
<1>9. ASSUME NEW p \in Peers, TimePasses(p) \/ ChangeTrust(p) PROVE Goal
  BY <1>9, <1>k DEF TimePasses, ChangeTrust, settings
<1>10. CASE Sweep
  BY <1>10, <1>u DEF Sweep, settings
<1>11. ASSUME NEW p, NEW g, SetGrant(p, g) PROVE Goal
  BY <1>11, <1>u DEF SetGrant, settings
<1>12. ASSUME NEW p, NEW entry, SetDevicePerm(p, entry) PROVE Goal
  BY <1>12, <1>u DEF SetDevicePerm
<1>13. ASSUME NEW cap, NEW on, SetToggle(cap, on) PROVE Goal
  BY <1>13, <1>u DEF SetToggle
<1>. QED
  BY <1>1, <1>2, <1>3, <1>4, <1>5, <1>6, <1>7, <1>8, <1>9, <1>10, <1>11, <1>12, <1>13
  DEF Next

\* Frames go to those who may view the screen and to nobody else, and a frame
\* is never sent as tiles to a controller that cannot show them
\* (updateNetworkWorkerClients, updateTileTransportMode).
THEOREM TilesReachDecoders == Spec => [](FramesNeedViewScreen /\ ViewersDecode)
<1>1. Init => ViewersDecode
  BY DEF Init, ViewersDecode
<1>2. Inv /\ Inv' /\ ViewersDecode /\ [Next]_vars => ViewersDecode'
  BY TilesStep
<1>3. Inv => FramesNeedViewScreen
  BY DEF Inv
<1>. QED
  BY <1>1, <1>2, <1>3, InvInit, InvStep, PTL DEF Spec

LEMMA SameAuthenticated ==
  ASSUME NobodyParkedLater, UNCHANGED requireApproval,
         \A c \in clients' : \/ session'[c].authenticated
                             \/ c \in clients /\ session'[c].authenticated = session[c].authenticated
  PROVE  NobodyParkedLater'
BY DEF NobodyParkedLater

LEMMA OneAuthenticated ==
  ASSUME NobodyParkedLater, UNCHANGED requireApproval, NEW c, session'[c].authenticated,
         \A b \in clients' \ {c} : b \in clients /\ session'[b] = session[b]
  PROVE  NobodyParkedLater'
BY DEF NobodyParkedLater

LEMMA ParkedLaterStep == Inv /\ NobodyParkedLater /\ [Next]_vars => NobodyParkedLater'
<1>. SUFFICES ASSUME Inv, NobodyParkedLater, [Next]_vars PROVE NobodyParkedLater'
  OBVIOUS
<1>s. session \in [Clients -> Session] /\ clients \subseteq Clients
  BY DEF Inv, TypeOK
<1>1. CASE StartHost \/ SwitchEncoder \/ UNCHANGED vars
  BY <1>1, SameAuthenticated DEF StartHost, SwitchEncoder, vars, settings
<1>2. CASE StopHost
  BY <1>2, SameAuthenticated DEF StopHost, settings
<1>3. CASE SetRequireApproval
  BY <1>3 DEF SetRequireApproval, WindowUsable, NobodyParkedLater
<1>4. ASSUME NEW t, NEW d, NEW g, Refresh(t, d, g), UNCHANGED <<clients, requireApproval>>
      PROVE  NobodyParkedLater'
  BY <1>4, <1>s, RefreshKeeps, SameAuthenticated
<1>5. ASSUME NEW c \in Clients, Accept(c) PROVE NobodyParkedLater'
  <2> DEFINE s == [Blank EXCEPT !.authenticated = TRUE, !.resolved = DefaultLevel]
  <2>1. s \in Session /\ s.authenticated
    BY HostAssumption DEF Blank, Session, Levels
  <2>2. clients' = clients \cup {c} /\ UNCHANGED requireApproval
    BY <1>5 DEF Accept, settings
  <2>3. CASE PasswordSet
    BY <2>2, <2>3 DEF NobodyParkedLater
  <2>4. CASE ~PasswordSet
    <3>1. Park(c, s, DefaultLevel) \/ GrantAccess(c, s, DefaultLevel)
      BY <1>5, <2>4 DEF Accept
    <3>. HIDE DEF s
    <3>2. session'[c].authenticated /\ \A b \in Clients \ {c} : session'[b] = session[b]
      BY <2>1, <3>1, ParkKeeps, GrantAccessKeeps
    <3>. QED
      BY <2>2, <3>2, <1>s, OneAuthenticated
  <2>. QED
    BY <2>3, <2>4
<1>6. ASSUME NEW c \in Clients, NEW level \in AuthLevels \cup {DefaultLevel},
             AuthRequest(c, level)
      PROVE  NobodyParkedLater'
  <2> DEFINE s == [session[c] EXCEPT !.authenticated = TRUE, !.resolved = level]
  <2>1. s \in Session /\ s.authenticated
    <3>1. level \in Levels
      BY HostAssumption
    <3>. QED
      BY <3>1, <1>s DEF Session
  <2>2. UNCHANGED <<clients, requireApproval>>
    BY <1>6 DEF AuthRequest, settings
  <2>3. Park(c, s, level) \/ GrantAccess(c, s, level)
    BY <1>6 DEF AuthRequest
  <2>. HIDE DEF s
  <2>4. session'[c].authenticated /\ \A b \in Clients \ {c} : session'[b] = session[b]
    BY <2>1, <2>3, ParkKeeps, GrantAccessKeeps
  <2>. QED
    BY <2>2, <2>4, <1>s, OneAuthenticated
<1>7. ASSUME NEW c \in Clients, NEW remember \in BOOLEAN, Allow(c, remember)
      PROVE  NobodyParkedLater'
  <2>1. UNCHANGED <<clients, requireApproval>>
    BY <1>7 DEF Allow
  <2>2. CASE GrantConsent(c)
    <3> DEFINE s == [session[c] EXCEPT !.awaitingApproval = FALSE, !.pendingLevel = "None"]
               level == IF session[c].awaitingApproval /\ session[c].pendingLevel # "None"
                        THEN session[c].pendingLevel ELSE DefaultLevel
    <3>1. s \in Session
      BY <1>s DEF Session, Levels
    <3>2. GrantAccess(c, s, level)
      BY <2>2 DEF GrantConsent
    <3>. HIDE DEF s, level
    <3>3. session'[c].authenticated /\ \A b \in Clients \ {c} : session'[b] = session[b]
      BY <3>1, <3>2, GrantAccessKeeps
    <3>. QED
      BY <2>1, <3>3, <1>s, OneAuthenticated
  <2>. QED
    BY <1>7, <2>1, <2>2, SameAuthenticated DEF Allow
<1>8. ASSUME NEW c \in Clients, Deny(c) \/ Disconnect(c) PROVE NobodyParkedLater'
  <2>1. UNCHANGED requireApproval
    BY <1>8 DEF Deny, Disconnect, settings
  <2>2. CASE Remove(c)
    BY <2>1, <2>2, <1>s, SameAuthenticated DEF Remove
  <2>. QED
    BY <1>8, <2>1, <2>2, SameAuthenticated DEF Deny, Disconnect
<1>9. ASSUME NEW c \in Clients, KeyFrameRequest(c) PROVE NobodyParkedLater'
  <2>1. \A b \in Clients : session'[b].authenticated = session[b].authenticated
    BY <1>9, <1>s DEF KeyFrameRequest, Session
  <2>. QED
    BY <1>9, <2>1, <1>s, SameAuthenticated DEF KeyFrameRequest, settings
<1>10. ASSUME NEW p \in Peers, TimePasses(p) \/ ChangeTrust(p) PROVE NobodyParkedLater'
  BY <1>10, SameAuthenticated DEF TimePasses, ChangeTrust, settings
<1>11. CASE Sweep
  BY <1>11, <1>4 DEF Sweep, settings
<1>12. ASSUME NEW p, NEW g, SetGrant(p, g) PROVE NobodyParkedLater'
  BY <1>12, <1>4 DEF SetGrant, settings
<1>13. ASSUME NEW p, NEW entry, SetDevicePerm(p, entry) PROVE NobodyParkedLater'
  BY <1>13, <1>4 DEF SetDevicePerm
<1>14. ASSUME NEW cap, NEW on, SetToggle(cap, on) PROVE NobodyParkedLater'
  BY <1>14, <1>4 DEF SetToggle
<1>. QED
  BY <1>1, <1>2, <1>3, <1>5, <1>6, <1>7, <1>8, <1>9, <1>10, <1>11, <1>12, <1>13, <1>14
  DEF Next

\* Where no authentication can be parked (no password, or no main window),
\* tiles are sent only while every authenticated client decodes them, viewer
\* or not (host.h, ClientInfo::tileCapable).  With both, a client that is
\* parked while the others get tiles is an exception until the next change.
THEOREM ScreenFits ==
  ASSUME ~(PasswordSet /\ ApprovalUi)
  PROVE  Spec => []ScreenFitsViewers
<1>1. Init => NobodyParkedLater /\ ViewersDecode /\ TilesOnlyIfAllDecode
  BY DEF Init, NobodyParkedLater, ViewersDecode, TilesOnlyIfAllDecode
<1>2. /\ Inv /\ Inv' /\ [Next]_vars
      /\ NobodyParkedLater /\ ViewersDecode /\ TilesOnlyIfAllDecode
      => ViewersDecode' /\ TilesOnlyIfAllDecode'
  <2>. SUFFICES ASSUME Inv, Inv', [Next]_vars,
                       NobodyParkedLater, ViewersDecode, TilesOnlyIfAllDecode
                PROVE  ViewersDecode' /\ TilesOnlyIfAllDecode'
    OBVIOUS
  <2>1. ASSUME NEW c \in clients, NEW level \in AuthLevels \cup {DefaultLevel}, NeedsApproval(c),
               Park(c, [session[c] EXCEPT !.authenticated = TRUE, !.resolved = level], level),
               UNCHANGED <<clients, viewers, tiled, jpeg>>
        PROVE  TilesOnlyIfAllDecode'
    <3> DEFINE s == [session[c] EXCEPT !.authenticated = TRUE, !.resolved = level]
    <3>1. session[c].authenticated /\ c \in Clients
      BY <2>1 DEF NeedsApproval, NobodyParkedLater, Inv, TypeOK
    <3>2. level \in Levels /\ session[c] \in Session
      BY <3>1, HostAssumption DEF Inv, TypeOK
    <3>3. /\ s \in Session /\ s.authenticated = session[c].authenticated
          /\ s.tileCapable = session[c].tileCapable
      BY <3>1, <3>2 DEF Session
    <3>4. Park(c, s, level)
      BY <2>1
    <3>. HIDE DEF s
    <3>5. \A b \in Clients : /\ session'[b].authenticated = session[b].authenticated
                             /\ session'[b].tileCapable = session[b].tileCapable
      BY <3>1, <3>3, <3>4, ParkKeeps
    <3>. QED
      BY <2>1, <3>5, SameTiles
  <2>. QED
    BY <2>1, TilesStep
<1>3. Inv /\ TilesOnlyIfAllDecode => ScreenFitsViewers
  BY DEF Inv, ScreenFitsViewers
<1>. QED
  BY <1>1, <1>2, <1>3, InvInit, InvStep, ParkedLaterStep, PTL DEF Spec
=============================================================================
