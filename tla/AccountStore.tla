---------------------------- MODULE AccountStore ----------------------------
(***************************************************************************)
(* Accounts, capability toggles and device overrides of a host, kept in    *)
(* SQLite by src/src/app/database_manager.cpp: the start-up that creates   *)
(* the tables and migrates them one statement at a time, the operations    *)
(* the host's administration messages call, and backup and restore.  A     *)
(* statement is atomic; the process may end between any two of them.       *)
(***************************************************************************)
EXTENDS Naturals, FiniteSets, Functions

CONSTANTS
  Names,      \* account names
  Admin,      \* "admin", the seeded account
  Passwords,  \* Legacy is the password of the settings before version 5
  Legacy,
  Caps,       \* capabilities of the host-wide toggles
  Devices,    \* devices an override is for
  MaxOps,     \* bound: administration, backup and restore
  MaxStops    \* bound: the process ends, in order or not

ASSUME AccountAssumption ==
  /\ Admin \in Names /\ Legacy \in Passwords
  /\ MaxOps \in Nat /\ MaxStops \in Nat

VARIABLES
  version,    \* the row of schema_version, 0 when there is none
  hasUsers,   \* the tables users and device_permissions exist
  users,      \* users: name -> level, enabled, password
  overrides,  \* device_permissions
  toggles,    \* the setting of the capability toggles, <<>> when unset
  backup,     \* the toggles of the file last exported, {} before
  run,        \* where the process is
  current,    \* currentVersion of runMigrations
  ops, stops

tables == <<version, hasUsers, users, overrides, toggles>>
vars == <<tables, backup, run, current, ops, stops>>

Latest == 5
Levels == {"ViewOnly", "FullControl", "Admin"}
Account == [level : Levels, enabled : BOOLEAN, password : Passwords]
NoUsers == [n \in {} |-> <<>>]
Unset == <<>>
Starting == {"seed", "default", "clear", "stamp"}

EnabledAdmins(table) == {n \in DOMAIN table : table[n].level = "Admin" /\ table[n].enabled}

\* Mutant: any account left is enough.
WouldOrphanAdminsAny(table, n) == DOMAIN table = {n}

\* Without the users table the statement fails and nothing is protected.
WouldOrphanAdmins(table, n) == EnabledAdmins(table) = {n}

Init ==
  \* A new installation, or one of a version before accounts.
  /\ version \in {0, 4} /\ hasUsers = FALSE /\ users = NoUsers /\ overrides = {}
  /\ toggles = Unset /\ backup = {} /\ run = "down" /\ current = 0
  /\ ops = 0 /\ stops = 0

-----------------------------------------------------------------------------
(* Start-up.                                                               *)

CreateTables ==
  /\ run = "down"
  /\ hasUsers' = TRUE
  /\ current' = version /\ run' = "seed"
  /\ UNCHANGED <<version, users, overrides, toggles, backup, ops, stops>>

\* Mutant: INSERT OR REPLACE without counting the accounts first.
SeedAdminAlways ==
  /\ run = "seed"
  /\ users' = IF current < Latest
              THEN [n \in {Admin} \cup DOMAIN users |->
                      IF n = Admin THEN [level |-> "Admin", enabled |-> TRUE, password |-> Legacy]
                      ELSE users[n]]
              ELSE users
  /\ run' = "default"
  /\ UNCHANGED <<version, hasUsers, overrides, toggles, backup, current, ops, stops>>

SeedAdmin ==
  /\ run = "seed"
  /\ users' = IF current < Latest /\ DOMAIN users = {}
              THEN [n \in {Admin} |-> [level |-> "Admin", enabled |-> TRUE, password |-> Legacy]]
              ELSE users
  /\ run' = "default"
  /\ UNCHANGED <<version, hasUsers, overrides, toggles, backup, current, ops, stops>>

DefaultToggles ==
  /\ run = "default"
  /\ toggles' = IF current < Latest /\ toggles = Unset THEN <<Caps>> ELSE toggles
  /\ run' = "clear"
  /\ UNCHANGED <<version, hasUsers, users, overrides, backup, current, ops, stops>>

\* The version is written in two statements, whatever it was.
ClearVersion ==
  /\ run = "clear"
  /\ version' = 0 /\ run' = "stamp"
  /\ UNCHANGED <<hasUsers, users, overrides, toggles, backup, current, ops, stops>>

StampVersion ==
  /\ run = "stamp"
  /\ version' = Latest /\ run' = "up"
  /\ UNCHANGED <<hasUsers, users, overrides, toggles, backup, current, ops, stops>>

\* shutdown, or a crash at any statement.
Stop ==
  /\ run # "down" /\ stops < MaxStops
  /\ stops' = stops + 1 /\ run' = "down"
  /\ UNCHANGED <<tables, backup, current, ops>>

-----------------------------------------------------------------------------
(* Administration: what Host::handlePermissionMessage calls.               *)

Operation == run = "up" /\ ops < MaxOps /\ ops' = ops + 1
Apart == UNCHANGED <<version, hasUsers, backup, run, current, stops>>
AccountsOnly == UNCHANGED <<overrides, toggles>> /\ Apart

\* USER_ADD; an account added disabled is inserted and then disabled.
AddUser(n, level, enabled, p) ==
  /\ Operation /\ hasUsers /\ n \notin DOMAIN users
  /\ LET added == [k \in DOMAIN users \cup {n} |->
                     IF k = n THEN [level |-> level, enabled |-> TRUE, password |-> p] ELSE users[k]]
     IN  users' = IF enabled \/ WouldOrphanAdmins(added, n) THEN added
                  ELSE [added EXCEPT ![n].enabled = FALSE]
  /\ AccountsOnly

RemoveUser(n) ==
  /\ Operation /\ hasUsers
  /\ n \in DOMAIN users /\ ~WouldOrphanAdmins(users, n)
  /\ users' = Restrict(users, DOMAIN users \ {n})
  /\ AccountsOnly

SetPassword(table, n, p) == [table EXCEPT ![n].password = p]
SetLevel(table, n, level) ==
  IF level # "Admin" /\ WouldOrphanAdmins(table, n) THEN table ELSE [table EXCEPT ![n].level = level]
SetEnabled(table, n, enabled) ==
  IF ~enabled /\ WouldOrphanAdmins(table, n) THEN table ELSE [table EXCEPT ![n].enabled = enabled]

\* USER_UPDATE: the fields named, one after the other.
UpdateUser(n, fields, level, enabled, p) ==
  /\ Operation /\ hasUsers /\ n \in DOMAIN users
  /\ LET u1 == IF "password" \in fields THEN SetPassword(users, n, p) ELSE users
         u2 == IF "level" \in fields THEN SetLevel(u1, n, level) ELSE u1
     IN  users' = IF "enabled" \in fields THEN SetEnabled(u2, n, enabled) ELSE u2
  /\ AccountsOnly

\* An unset setting reads as everything enabled.
CapabilityToggles == IF toggles = Unset THEN Caps ELSE toggles[1]

SetToggle(c, enabled) ==
  /\ Operation
  /\ toggles' = <<IF enabled THEN CapabilityToggles \cup {c} ELSE CapabilityToggles \ {c}>>
  /\ UNCHANGED <<users, overrides>> /\ Apart

\* DEVICE_PERM_SET_REQ, with a level or with a negative one.
SetOverride(d) ==
  /\ Operation /\ hasUsers
  /\ overrides' \in {overrides \cup {d}, overrides \ {d}}
  /\ UNCHANGED <<users, toggles>> /\ Apart

-----------------------------------------------------------------------------
(* Backup and restore.                                                     *)

\* The tables of exportDatabase's list: settings among them, accounts,
\* overrides and the version not.
ExportDatabase ==
  /\ Operation
  /\ backup' = {toggles}
  /\ UNCHANGED <<tables, run, current, stops>>

\* The file replaces the database and is opened as it is.
ImportDatabase ==
  /\ Operation
  /\ \E t \in backup : toggles' = t
  /\ version' = 0 /\ hasUsers' = FALSE /\ users' = NoUsers /\ overrides' = {}
  /\ UNCHANGED <<backup, run, current, stops>>

\* The copy fails after the old file is removed: nothing is open any more.
ImportFails ==
  /\ Operation /\ backup # {}
  /\ version' = 0 /\ hasUsers' = FALSE /\ users' = NoUsers /\ overrides' = {}
  /\ toggles' = Unset
  /\ run' = "shut"
  /\ UNCHANGED <<backup, current, stops>>

Next ==
  \/ CreateTables \/ SeedAdmin \/ DefaultToggles \/ ClearVersion \/ StampVersion \/ Stop
  \/ \E n \in Names, l \in Levels, e \in BOOLEAN, p \in Passwords : AddUser(n, l, e, p)
  \/ \E n \in Names : RemoveUser(n)
  \/ \E n \in Names, f \in SUBSET {"password", "level", "enabled"},
        l \in Levels, e \in BOOLEAN, p \in Passwords : UpdateUser(n, f, l, e, p)
  \/ \E c \in Caps, e \in BOOLEAN : SetToggle(c, e)
  \/ \E d \in Devices : SetOverride(d)
  \/ ExportDatabase \/ ImportDatabase \/ ImportFails

Spec == Init /\ [][Next]_vars

-----------------------------------------------------------------------------
TypeOK ==
  /\ version \in {0, 4, Latest} /\ hasUsers \in BOOLEAN
  /\ DOMAIN users \subseteq Names /\ users \in [DOMAIN users -> Account]
  /\ overrides \subseteq Devices
  /\ run \in Starting \cup {"down", "up", "shut"}
  /\ current \in {0, 4, Latest} /\ ops \in Nat /\ stops \in Nat

(* A table of accounts that is in use always has an enabled administrator, *)
(* whatever the administrators do to each other, whatever stops the        *)
(* start-up half way, and after a restore and the restart it needs.        *)
(* (wouldOrphanAdmins, database_manager.cpp:37; seeding, :711)             *)
AdminRemains == run = "up" /\ hasUsers => EnabledAdmins(users) # {}

(* Starting again, after a shutdown or after a crash between any two       *)
(* statements of a start-up, changes no account, no override and no toggle *)
(* that was there.  (runMigrations, :650)                                  *)
StartupKeeps ==
  [][run # "up" => /\ \A n \in DOMAIN users : n \in DOMAIN users' /\ users'[n] = users[n]
                   /\ overrides' = overrides
                   /\ toggles # Unset => toggles' = toggles]_vars
=============================================================================
