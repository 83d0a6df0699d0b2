---------------------------- MODULE StoresProofs ----------------------------
(***************************************************************************)
(* Theorems about the run of the stores (MCStores.tla), each about one of  *)
(* its parts: a step of another part leaves it alone.  Those about the     *)
(* accounts are of their own specification, AccountStore.tla.              *)
(***************************************************************************)
EXTENDS MCStores, Sequences, FiniteSetTheorems, WellFoundedInduction, TLAPS

-----------------------------------------------------------------------------
(* AccountStore: the administrator of a host that never disappears, for    *)
(* every set of names, passwords, capabilities and devices and any bounds. *)

\* A table with accounts has an enabled administrator among them.
Guarded == DOMAIN users # {} => EnabledAdmins(users) # {}

(* The table is empty only while a start-up has not got past the seeding:  *)
(* the version that lets the seeding be skipped is written after it.       *)
Seeded ==
  /\ run \in Starting => hasUsers
  /\ run = "seed" => current = version
  /\ run \in {"default", "clear", "stamp"} => DOMAIN users # {}
  /\ version = Latest => DOMAIN users # {}
  /\ run = "up" /\ hasUsers => DOMAIN users # {}

AccountsInv == TypeOK /\ Guarded /\ Seeded

-----------------------------------------------------------------------------
(* The operations of administration on a table.                            *)

LEMMA ChangeField ==
  ASSUME NEW t, t \in [DOMAIN t -> Account], NEW n \in DOMAIN t,
         NEW l \in Levels, NEW e \in BOOLEAN, NEW p \in Passwords
  PROVE  /\ [t EXCEPT ![n].level = l] \in [DOMAIN t -> Account]
         /\ [t EXCEPT ![n].enabled = e] \in [DOMAIN t -> Account]
         /\ [t EXCEPT ![n].password = p] \in [DOMAIN t -> Account]
BY DEF Account

(* SetPassword, SetLevel and SetEnabled change an account of the table and *)
(* leave an enabled administrator where there was one.                     *)
LEMMA SettersGuard ==
  ASSUME NEW t, t \in [DOMAIN t -> Account], NEW n \in DOMAIN t,
         EnabledAdmins(t) # {},
         NEW l \in Levels, NEW e \in BOOLEAN, NEW p \in Passwords,
         NEW u, u \in {SetPassword(t, n, p), SetLevel(t, n, l), SetEnabled(t, n, e)}
  PROVE  u \in [DOMAIN t -> Account] /\ EnabledAdmins(u) # {}
<1>1. CASE u = t
  BY <1>1
<1>2. CASE u = [t EXCEPT ![n].password = p]
  <2>1. u \in [DOMAIN t -> Account]
    BY <1>2, ChangeField
  <2>2. \A k \in DOMAIN t : u[k].level = t[k].level /\ u[k].enabled = t[k].enabled
    BY <1>2 DEF Account
  <2> QED
    BY <2>1, <2>2 DEF EnabledAdmins
<1>3. CASE u = [t EXCEPT ![n].level = l] /\ (l = "Admin" \/ ~WouldOrphanAdmins(t, n))
  <2>1. u \in [DOMAIN t -> Account]
    BY <1>3, ChangeField
  <2>2. /\ \A k \in DOMAIN t : k # n => u[k] = t[k]
        /\ u[n].level = l /\ u[n].enabled = t[n].enabled
    BY <1>3 DEF Account
  <2>3. PICK m \in EnabledAdmins(t) : m # n \/ l = "Admin"
    BY <1>3 DEF WouldOrphanAdmins
  <2>4. m \in EnabledAdmins(u)
    BY <2>1, <2>2, <2>3 DEF EnabledAdmins
  <2> QED
    BY <2>1, <2>4
<1>4. CASE u = [t EXCEPT ![n].enabled = e] /\ (e \/ ~WouldOrphanAdmins(t, n))
  <2>1. u \in [DOMAIN t -> Account]
    BY <1>4, ChangeField
  <2>2. /\ \A k \in DOMAIN t : k # n => u[k] = t[k]
        /\ u[n].level = t[n].level /\ u[n].enabled = e
    BY <1>4 DEF Account
  <2>3. PICK m \in EnabledAdmins(t) : m # n \/ e
    BY <1>4 DEF WouldOrphanAdmins
  <2>4. m \in EnabledAdmins(u)
    BY <2>1, <2>2, <2>3 DEF EnabledAdmins
  <2> QED
    BY <2>1, <2>4
<1> QED
  BY <1>1, <1>2, <1>3, <1>4 DEF SetPassword, SetLevel, SetEnabled

-----------------------------------------------------------------------------
(* What an operation must do to the table of accounts.                     *)
TableOK(t) ==
  /\ DOMAIN t \subseteq Names /\ t \in [DOMAIN t -> Account]
  /\ EnabledAdmins(t) # {}

LEMMA InUse ==
  ASSUME AccountsInv, run = "up", hasUsers
  PROVE  TableOK(users)
BY DEF AccountsInv, TypeOK, Guarded, Seeded, TableOK

LEMMA TableKeeps ==
  ASSUME AccountsInv, Operation, hasUsers, TableOK(users'), AccountsOnly
  PROVE  AccountsInv'
<1>1. DOMAIN users' # {}
  BY DEF TableOK, EnabledAdmins
<1> QED
  BY <1>1 DEF AccountsInv, TypeOK, Guarded, Seeded, TableOK, Operation, AccountsOnly, Apart, Starting

LEMMA AddUserKeeps ==
  ASSUME AccountsInv, NEW n \in Names, NEW l \in Levels, NEW e \in BOOLEAN, NEW p \in Passwords,
         AddUser(n, l, e, p)
  PROVE  TableOK(users')
<1> DEFINE a == [level |-> l, enabled |-> TRUE, password |-> p]
           added == [k \in DOMAIN users \cup {n} |-> IF k = n THEN a ELSE users[k]]
<1>1. TableOK(users)
  BY InUse DEF AddUser, Operation
<1>2. a \in Account
  BY DEF Account
<1>3. n \notin DOMAIN users
  BY DEF AddUser
<1>4. /\ DOMAIN added = DOMAIN users \cup {n} /\ DOMAIN added \subseteq Names
      /\ added \in [DOMAIN added -> Account]
      /\ \A k \in DOMAIN users : added[k] = users[k]
  BY <1>1, <1>2, <1>3 DEF TableOK
<1>5. PICK m \in EnabledAdmins(users) : TRUE
  BY <1>1 DEF TableOK
<1>6. m \in DOMAIN users /\ users[m].level = "Admin" /\ users[m].enabled
  BY <1>5 DEF EnabledAdmins
<1>7. m \in EnabledAdmins(added) /\ m # n
  BY <1>3, <1>4, <1>6 DEF EnabledAdmins
<1>8. CASE users' = added
  BY <1>4, <1>7, <1>8 DEF TableOK
<1>9. CASE users' = [added EXCEPT ![n].enabled = FALSE]
  <2> HIDE DEF added
  <2>1. users' \in [DOMAIN added -> Account]
    BY <1>4, <1>9, ChangeField
  <2>2. users'[m] = added[m]
    BY <1>4, <1>6, <1>7, <1>9
  <2>3. m \in EnabledAdmins(users')
    BY <1>7, <2>1, <2>2 DEF EnabledAdmins
  <2> QED
    BY <1>4, <2>1, <2>3 DEF TableOK
<1>10. users' = added \/ users' = [added EXCEPT ![n].enabled = FALSE]
  BY DEF AddUser
<1> QED
  BY <1>8, <1>9, <1>10

LEMMA RemoveUserKeeps ==
  ASSUME AccountsInv, NEW n \in Names, RemoveUser(n)
  PROVE  TableOK(users')
<1>1. TableOK(users)
  BY InUse DEF RemoveUser, Operation
<1>2. users' = [k \in DOMAIN users \ {n} |-> users[k]]
  BY DEF RemoveUser, Restrict
<1>3. PICK m \in EnabledAdmins(users) : m # n
  BY <1>1 DEF RemoveUser, WouldOrphanAdmins, TableOK
<1>4. m \in EnabledAdmins(users')
  BY <1>2, <1>3 DEF EnabledAdmins
<1> QED
  BY <1>1, <1>2, <1>4 DEF TableOK

LEMMA UpdateUserKeeps ==
  ASSUME AccountsInv, NEW n \in Names, NEW f \in SUBSET {"password", "level", "enabled"},
         NEW l \in Levels, NEW e \in BOOLEAN, NEW p \in Passwords,
         UpdateUser(n, f, l, e, p)
  PROVE  TableOK(users')
<1> DEFINE u1 == IF "password" \in f THEN SetPassword(users, n, p) ELSE users
           u2 == IF "level" \in f THEN SetLevel(u1, n, l) ELSE u1
<1> n \in DOMAIN users
  BY DEF UpdateUser
<1>1. TableOK(users)
  BY InUse DEF UpdateUser, Operation
<1>2. u1 \in [DOMAIN users -> Account] /\ EnabledAdmins(u1) # {}
  BY <1>1, SettersGuard DEF TableOK
<1> HIDE DEF u1
<1>3. u2 \in [DOMAIN users -> Account] /\ EnabledAdmins(u2) # {}
  BY <1>2, SettersGuard
<1> HIDE DEF u2
<1>4. users' = (IF "enabled" \in f THEN SetEnabled(u2, n, e) ELSE u2)
  BY DEF UpdateUser, u1, u2
<1>5. users' \in [DOMAIN users -> Account] /\ EnabledAdmins(users') # {}
  BY <1>3, <1>4, SettersGuard
<1> QED
  BY <1>1, <1>5 DEF TableOK

-----------------------------------------------------------------------------
\* The empty table, before the first start-up and in a file just restored.
LEMMA NoUsersFacts ==
  DOMAIN NoUsers = {} /\ DOMAIN NoUsers \subseteq Names /\ NoUsers \in [DOMAIN NoUsers -> Account]
BY DEF NoUsers

LEMMA AccountsStart == Init => AccountsInv
<1> SUFFICES ASSUME Init PROVE AccountsInv
  OBVIOUS
<1>1. DOMAIN users = {} /\ DOMAIN users \subseteq Names /\ users \in [DOMAIN users -> Account]
  BY NoUsersFacts, Zenon DEF Init
<1>2. TypeOK
  BY <1>1 DEF Init, TypeOK, Starting, Latest
<1>3. Guarded
  BY <1>1 DEF Guarded
<1>4. Seeded
  BY <1>1 DEF Init, Seeded, Starting, Latest
<1> QED
  BY <1>2, <1>3, <1>4 DEF AccountsInv

LEMMA SeedAdminKeeps == AccountsInv /\ SeedAdmin => AccountsInv'
<1> SUFFICES ASSUME AccountsInv, SeedAdmin PROVE AccountsInv'
  OBVIOUS
<1> USE AccountAssumption
<1>1. CASE users' = users
  <2>1. current < Latest => DOMAIN users # {}
    <3> SUFFICES ASSUME current < Latest, DOMAIN users = {} PROVE FALSE
      OBVIOUS
    <3>1. users' = [n \in {Admin} |-> [level |-> "Admin", enabled |-> TRUE, password |-> Legacy]]
      BY DEF SeedAdmin
    <3>2. DOMAIN users' = {Admin}
      BY <3>1
    <3> QED
      BY <1>1, <3>2
  <2>2. DOMAIN users # {}
    BY <2>1 DEF AccountsInv, TypeOK, Seeded, SeedAdmin, Latest
  <2> QED
    BY <1>1, <2>2 DEF SeedAdmin, AccountsInv, TypeOK, Guarded, Seeded, Starting
<1>2. CASE users' = [n \in {Admin} |-> [level |-> "Admin", enabled |-> TRUE, password |-> Legacy]]
  <2>1. DOMAIN users' = {Admin} /\ users'[Admin].level = "Admin" /\ users'[Admin].enabled
    BY <1>2
  <2>2. users' \in [DOMAIN users' -> Account] /\ DOMAIN users' \subseteq Names
    BY <1>2 DEF Account, Levels
  <2>3. Admin \in EnabledAdmins(users')
    BY <2>1 DEF EnabledAdmins
  <2> QED
    BY <2>1, <2>2, <2>3 DEF SeedAdmin, AccountsInv, TypeOK, Guarded, Seeded, Starting
<1> QED
  BY <1>1, <1>2 DEF SeedAdmin

LEMMA StartUpKeeps ==
  AccountsInv /\ (CreateTables \/ DefaultToggles \/ ClearVersion \/ StampVersion \/ Stop) => AccountsInv'
<1> USE DEF AccountsInv, TypeOK, Guarded, Seeded, Starting, Latest
<1>1. AccountsInv /\ CreateTables => AccountsInv'
  BY DEF CreateTables
<1>2. AccountsInv /\ DefaultToggles => AccountsInv'
  BY DEF DefaultToggles
<1>3. AccountsInv /\ ClearVersion => AccountsInv'
  BY DEF ClearVersion
<1>4. AccountsInv /\ StampVersion => AccountsInv'
  BY DEF StampVersion
<1>5. AccountsInv /\ Stop => AccountsInv'
  BY DEF Stop, tables
<1> QED
  BY <1>1, <1>2, <1>3, <1>4, <1>5

LEMMA FileKeeps == AccountsInv /\ (ExportDatabase \/ ImportDatabase \/ ImportFails) => AccountsInv'
<1>1. AccountsInv /\ ExportDatabase => AccountsInv'
  BY DEF ExportDatabase, tables, AccountsInv, TypeOK, Guarded, Seeded, Starting, Operation
<1>2. ASSUME AccountsInv, ImportDatabase \/ ImportFails
      PROVE  AccountsInv'
  <2>1. /\ DOMAIN users' = {} /\ DOMAIN users' \subseteq Names
        /\ users' \in [DOMAIN users' -> Account]
    BY <1>2, NoUsersFacts, Zenon DEF ImportDatabase, ImportFails
  <2> DEFINE Rest == /\ run \in Starting \cup {"down", "up", "shut"}
                     /\ current \in {0, 4, Latest} /\ ops \in Nat /\ stops \in Nat
  <2>2. Rest
    BY <1>2 DEF AccountsInv, TypeOK
  <2>3. Rest' /\ version' \in {0, 4, Latest}
    BY <1>2, <2>2 DEF ImportDatabase, ImportFails, Operation
  <2>4. hasUsers' \in BOOLEAN /\ overrides' \subseteq Devices
    BY <1>2, Zenon DEF ImportDatabase, ImportFails
  <2>5. TypeOK'
    BY <2>1, <2>3, <2>4 DEF TypeOK
  <2>6. Guarded'
    BY <2>1 DEF Guarded
  <2>7. Seeded'
    BY <1>2, <2>1 DEF ImportDatabase, ImportFails, Operation, Seeded, Starting, Latest
  <2> QED
    BY <2>5, <2>6, <2>7 DEF AccountsInv
<1> QED
  BY <1>1, <1>2

LEMMA AccountsStepInv == AccountsInv /\ [Next]_vars => AccountsInv'
<1> SUFFICES ASSUME AccountsInv, [Next]_vars PROVE AccountsInv'
  OBVIOUS
<1>1. CASE CreateTables \/ DefaultToggles \/ ClearVersion \/ StampVersion \/ Stop
  BY <1>1, StartUpKeeps
<1>2. CASE SeedAdmin
  BY <1>2, SeedAdminKeeps
<1>3. ASSUME NEW n \in Names, NEW l \in Levels, NEW e \in BOOLEAN, NEW p \in Passwords,
             AddUser(n, l, e, p)
      PROVE  AccountsInv'
  BY <1>3, AddUserKeeps, TableKeeps DEF AddUser
<1>4. ASSUME NEW n \in Names, RemoveUser(n)
      PROVE  AccountsInv'
  BY <1>4, RemoveUserKeeps, TableKeeps DEF RemoveUser
<1>5. ASSUME NEW n \in Names, NEW f \in SUBSET {"password", "level", "enabled"},
             NEW l \in Levels, NEW e \in BOOLEAN, NEW p \in Passwords,
             UpdateUser(n, f, l, e, p)
      PROVE  AccountsInv'
  BY <1>5, UpdateUserKeeps, TableKeeps DEF UpdateUser
<1>6. ASSUME NEW c \in Caps, NEW e \in BOOLEAN, SetToggle(c, e)
      PROVE  AccountsInv'
  BY <1>6 DEF SetToggle, Operation, Apart, AccountsInv, TypeOK, Guarded, Seeded, Starting
<1>7. ASSUME NEW d \in Devices, SetOverride(d)
      PROVE  AccountsInv'
  BY <1>7 DEF SetOverride, Operation, Apart, AccountsInv, TypeOK, Guarded, Seeded, Starting
<1>8. CASE ExportDatabase \/ ImportDatabase \/ ImportFails
  BY <1>8, FileKeeps
<1>9. CASE UNCHANGED vars
  BY <1>9 DEF vars, tables, AccountsInv, TypeOK, Guarded, Seeded
<1> QED
  BY <1>1, <1>2, <1>3, <1>4, <1>5, <1>6, <1>7, <1>8, <1>9 DEF Next

\* The invariant holds of the specification.
THEOREM AccountsInvHolds == Spec => []AccountsInv
BY AccountsStart, AccountsStepInv, PTL DEF Spec

(* Every variable keeps its type: the tables hold accounts of known names, *)
(* with a level of the three and one of the passwords.                     *)
THEOREM AccountsTyped == Spec => []TypeOK
<1>1. AccountsInv => TypeOK
  BY DEF AccountsInv
<1> QED
  BY <1>1, AccountsInvHolds, PTL

(* A table of accounts in use has an enabled administrator                 *)
(* (wouldOrphanAdmins, database_manager.cpp:37; seeding, :711).            *)
THEOREM AdministratorRemains == Spec => []AdminRemains
<1>1. AccountsInv => AdminRemains
  BY DEF AccountsInv, Guarded, Seeded, AdminRemains
<1> QED
  BY <1>1, AccountsInvHolds, PTL

(* A start-up, complete or cut short anywhere, changes no account, no      *)
(* override and no toggle that was there (runMigrations, :650).            *)
THEOREM StartupChangesNothing == Spec => StartupKeeps
<1> DEFINE Keeps == run # "up" => /\ \A n \in DOMAIN users : n \in DOMAIN users' /\ users'[n] = users[n]
                                  /\ overrides' = overrides
                                  /\ toggles # Unset => toggles' = toggles
<1>1. [Next]_vars => [Keeps]_vars
  <2> SUFFICES ASSUME Next, run # "up" PROVE Keeps
    OBVIOUS
  <2>1. CASE CreateTables \/ ClearVersion \/ StampVersion \/ Stop
    BY <2>1 DEF CreateTables, ClearVersion, StampVersion, Stop, tables
  <2>2. CASE SeedAdmin
    BY <2>2 DEF SeedAdmin
  <2>3. CASE DefaultToggles
    BY <2>3 DEF DefaultToggles
  <2> QED
    BY <2>1, <2>2, <2>3 DEF Next, AddUser, RemoveUser, UpdateUser, SetToggle, SetOverride,
                            ExportDatabase, ImportDatabase, ImportFails, Operation
<1> QED
  BY <1>1, PTL DEF Spec, StartupKeeps

-----------------------------------------------------------------------------
(* DeviceRegistry: its tables.                                             *)

Texts == [group : GroupNames \cup {""}, notes : Notes \cup {""}]
Device == [group : GroupNames \cup {""}, notes : Notes \cup {""}, online : BOOLEAN, beat : Nat]
Doc ==
  [deviceId : Ids, group : GroupNames \cup {""}, notes : Notes \cup {""}, online : BOOLEAN,
   lastHeartbeat : Nat]
IsTable(t) == DOMAIN t \subseteq Ids /\ t \in [DOMAIN t -> Device]

RegistryTyped ==
  /\ running \in BOOLEAN
  /\ now \in Nat /\ due \in {0, 1} /\ started \in Nat
  /\ IsTable(table)
  /\ disk \subseteq Doc

\* How long ago a device shown online was heard, or the relay was started: the timer
\* of the relay that runs goes off within `due'.
InTime ==
  running => \A d \in DOMAIN table :
    table[d].online => now - table[d].beat <= Silence + 1 - due \/ now - started <= 1 - due

RegistryInv == RegistryTyped /\ InTime

LEMMA LoadTyped ==
  ASSUME NEW docs \in SUBSET Doc
  PROVE  IsTable(Registry!Load(docs))
<1> DEFINE ids == {doc.deviceId : doc \in docs}
           the(d) == CHOOSE doc \in docs : doc.deviceId = d
<1>1. ids \subseteq Ids
  BY DEF Doc
<1>2. ASSUME NEW d \in ids PROVE Registry!FromJson(the(d)) \in Device
  <2>1. \E doc \in docs : doc.deviceId = d
    OBVIOUS
  <2>2. the(d) \in Doc
    BY <2>1
  <2>. HIDE DEF the
  <2>. QED
    BY <2>2 DEF Registry!FromJson, Doc, Device
<1>3. Registry!Load(docs) = [d \in ids |-> Registry!FromJson(the(d))]
  BY DEF Registry!Load
<1>. HIDE DEF ids, the
<1>. QED
  BY <1>1, <1>2, <1>3 DEF IsTable

LEMMA WrittenTyped ==
  ASSUME NEW t, IsTable(t)
  PROVE  Registry!Written(t) \subseteq Doc
<1>1. ASSUME NEW d \in DOMAIN t PROVE Registry!ToJson(d, t[d]) \in Doc
  <2>1. d \in Ids /\ t[d] \in Device
    BY DEF IsTable
  <2>. QED
    BY <2>1 DEF Registry!ToJson, Device, Doc
<1>. QED
  BY <1>1 DEF Registry!Written

LEMMA SavedTyped ==
  ASSUME NEW t, IsTable(t), RegistryTyped, Registry!Saved(t)
  PROVE  table' = t /\ IsTable(table') /\ disk' \subseteq Doc
<1>1. disk' \in {Registry!Written(t), disk, {}}
  BY DEF Registry!Saved
<1>. QED
  BY <1>1, WrittenTyped DEF Registry!Saved, RegistryTyped

\* The tables the lines of the protocol make of the one there is.
LEMMA PutTyped ==
  ASSUME NEW t, IsTable(t), NEW d \in Ids, NEW r \in Device
  PROVE  /\ IsTable(Registry!With(t, d, r))
         /\ \A e \in DOMAIN Registry!With(t, d, r) :
              Registry!With(t, d, r)[e] = IF e = d THEN r ELSE t[e]
         /\ DOMAIN Registry!With(t, d, r) = DOMAIN t \cup {d}
BY DEF IsTable, Registry!With

LEMMA RestrictTyped ==
  ASSUME NEW t, IsTable(t), NEW d
  PROVE  /\ IsTable(Registry!Without(t, d))
         /\ DOMAIN Registry!Without(t, d) = DOMAIN t \ {d}
         /\ \A e \in DOMAIN t \ {d} : Registry!Without(t, d)[e] = t[e]
BY DEF IsTable, Registry!Without, Registry!Restrict

\* A step that keeps the clock, the timer and the start, and leaves every device shown
\* online heard no earlier than it was, or now.
LEMMA LinesInTime ==
  ASSUME RegistryInv, IsTable(table'), disk' \subseteq Doc, running, running' \in BOOLEAN,
         now' = now, due' = due, started' = started,
         \A d \in DOMAIN table' : table'[d].online =>
           \/ table'[d].beat = now
           \/ d \in DOMAIN table /\ table[d].online /\ table'[d].beat = table[d].beat
  PROVE  RegistryInv'
<1>1. RegistryTyped'
  BY DEF RegistryInv, RegistryTyped
<1>2. ASSUME NEW d \in DOMAIN table', table'[d].online
      PROVE  now - table'[d].beat <= Silence + 1 - due \/ now - started <= 1 - due
  <2>1. CASE table'[d].beat = now
    <3>1. now - now = 0 /\ Silence + 1 - due >= 0
      BY StoresAssumption DEF RegistryInv, RegistryTyped
    <3>. QED
      BY <2>1, <3>1
  <2>2. CASE d \in DOMAIN table /\ table[d].online /\ table'[d].beat = table[d].beat
    BY <2>2 DEF RegistryInv, InTime
  <2>. QED
    BY <1>2, <2>1, <2>2
<1>. QED
  BY <1>1, <1>2 DEF RegistryInv, InTime

LEMMA RegisterInv ==
  ASSUME RegistryInv, NEW d \in Ids, NEW t \in Texts, Registry!Register(d, t)
  PROVE  RegistryInv'
<1> DEFINE r == table'[d]
<1>1. PICK kept \in Texts : Registry!Saved(Registry!With(table, d,
        [group |-> kept.group, notes |-> kept.notes, online |-> TRUE, beat |-> now]))
  <2> DEFINE old == IF d \in Registry!Known THEN table[d] ELSE Registry!Empty
             kept == Registry!Filled(t, old)
  <2>1. old.group \in GroupNames \cup {""} /\ old.notes \in Notes \cup {""}
    BY DEF Registry!Known, Registry!Empty, Registry!None, RegistryInv, RegistryTyped, IsTable, Device
  <2>2. kept \in Texts
    BY <2>1 DEF Registry!Filled, Registry!None, Texts
  <2>3. Registry!Saved(Registry!With(table, d,
          [group |-> kept.group, notes |-> kept.notes, online |-> TRUE, beat |-> now]))
    BY DEF Registry!Register
  <2>. QED
    BY <2>2, <2>3
<1> DEFINE new == [group |-> kept.group, notes |-> kept.notes, online |-> TRUE, beat |-> now]
<1>2. new \in Device /\ new.beat = now
  BY DEF Texts, Device, RegistryInv, RegistryTyped
<1>. HIDE DEF new
<1>3. IsTable(table) /\ Registry!Saved(Registry!With(table, d, new))
  BY <1>1 DEF new, RegistryInv, RegistryTyped
<1>4. /\ IsTable(Registry!With(table, d, new))
      /\ \A e \in DOMAIN Registry!With(table, d, new) :
           Registry!With(table, d, new)[e] = IF e = d THEN new ELSE table[e]
      /\ DOMAIN Registry!With(table, d, new) = DOMAIN table \cup {d}
  BY <1>2, <1>3, PutTyped, Zenon
<1>5. table' = Registry!With(table, d, new) /\ IsTable(table') /\ disk' \subseteq Doc
  BY <1>3, <1>4, SavedTyped DEF RegistryInv
<1>6. UNCHANGED <<running, now, due, started>> /\ running
  BY DEF Registry!Register, Registry!Line
<1>. QED
  BY <1>2, <1>4, <1>5, <1>6, LinesInTime DEF RegistryInv, RegistryTyped

\* A line that changes texts of some devices.
LEMMA TextsInv ==
  ASSUME RegistryInv, running, UNCHANGED <<running, now, due, started>>,
         NEW new, Registry!Saved(new), DOMAIN new = DOMAIN table, new \in [DOMAIN table -> Device],
         \A d \in DOMAIN table : new[d].online = table[d].online /\ new[d].beat = table[d].beat
  PROVE  RegistryInv'
<1>1. IsTable(new)
  BY DEF IsTable, RegistryInv, RegistryTyped
<1>2. table' = new /\ IsTable(table') /\ disk' \subseteq Doc
  BY <1>1, SavedTyped DEF RegistryInv
<1>. QED
  BY <1>2, LinesInTime DEF RegistryInv, RegistryTyped

LEMMA UpdateInv ==
  ASSUME RegistryInv, NEW d \in Ids, NEW t \in Texts, NEW fields \in SUBSET DOMAIN t,
         Registry!Update(d, fields, t)
  PROVE  RegistryInv'
<1> DEFINE Set(r) == [f \in DOMAIN r |-> IF f \in fields THEN t[f] ELSE r[f]]
           new == [table EXCEPT ![d] = Set(@)]
<1>1. ASSUME NEW r \in Device
      PROVE  Set(r) \in Device /\ Set(r).online = r.online /\ Set(r).beat = r.beat
  <2>1. DOMAIN r = {"group", "notes", "online", "beat"} /\ fields \subseteq {"group", "notes"}
    BY DEF Device, Texts
  <2>2. /\ t["group"] \in GroupNames \cup {""} /\ t["notes"] \in Notes \cup {""}
        /\ r["group"] \in GroupNames \cup {""} /\ r["notes"] \in Notes \cup {""}
        /\ r["online"] \in BOOLEAN /\ r["beat"] \in Nat
    BY DEF Device, Texts
  <2>3. Set(r) = [group |-> IF "group" \in fields THEN t["group"] ELSE r["group"],
                  notes |-> IF "notes" \in fields THEN t["notes"] ELSE r["notes"],
                  online |-> r["online"], beat |-> r["beat"]]
    BY <2>1
  <2>. QED
    BY <2>2, <2>3 DEF Device
<1>. HIDE DEF Set
<1>2. IsTable(table) /\ d \in DOMAIN table
  BY DEF Registry!Update, Registry!Known, RegistryInv, RegistryTyped
<1>3. /\ DOMAIN new = DOMAIN table /\ new \in [DOMAIN table -> Device]
      /\ \A e \in DOMAIN table : new[e].online = table[e].online /\ new[e].beat = table[e].beat
  <2>1. \A e \in DOMAIN table : table[e] \in Device
    BY <1>2 DEF IsTable
  <2>2. new = [e \in DOMAIN table |-> IF e = d THEN Set(table[d]) ELSE table[e]]
    BY <1>2 DEF IsTable
  <2>. HIDE DEF new
  <2>. QED
    BY <1>1, <1>2, <2>1, <2>2
<1>4. Registry!Saved(new) /\ UNCHANGED <<running, now, due, started>> /\ running
  BY DEF Registry!Update, Registry!Line, Set
<1>. HIDE DEF new
<1>. QED
  BY <1>3, <1>4, TextsInv

LEMMA RegroupInv ==
  ASSUME RegistryInv, NEW old \in GroupNames \cup {""}, NEW to \in GroupNames \cup {""},
         Registry!Regroup(old, to)
  PROVE  RegistryInv'
<1> DEFINE new == [d \in DOMAIN table |->
                     IF table[d].group = old THEN [table[d] EXCEPT !.group = to] ELSE table[d]]
<1>1. Registry!Saved(new) /\ UNCHANGED <<running, now, due, started>> /\ running
  BY DEF Registry!Regroup, Registry!Line
<1>2. ASSUME NEW r \in Device
      PROVE  /\ [r EXCEPT !.group = to] \in Device
             /\ [r EXCEPT !.group = to].online = r.online /\ [r EXCEPT !.group = to].beat = r.beat
  BY DEF Device
<1>3. \A d \in DOMAIN table : table[d] \in Device
  BY DEF IsTable, RegistryInv, RegistryTyped
<1>4. /\ DOMAIN new = DOMAIN table /\ new \in [DOMAIN table -> Device]
      /\ \A d \in DOMAIN table : new[d].online = table[d].online /\ new[d].beat = table[d].beat
  BY <1>2, <1>3
<1>. HIDE DEF new
<1>. QED
  BY <1>1, <1>4, TextsInv

LEMMA HeartbeatInv ==
  ASSUME RegistryInv, NEW d \in Ids, Registry!Heartbeat(d)
  PROVE  RegistryInv'
<1> DEFINE r == [table[d] EXCEPT !.online = TRUE, !.beat = now]
<1>1. IsTable(table) /\ d \in DOMAIN table /\ running
  BY DEF Registry!Heartbeat, Registry!Line, Registry!Known, RegistryInv, RegistryTyped
<1>2. /\ table' = [e \in DOMAIN table |-> IF e = d THEN r ELSE table[e]]
      /\ UNCHANGED <<running, disk, now, due, started>>
  BY <1>1 DEF Registry!Heartbeat, IsTable
<1>3. r \in Device /\ r.beat = now
  BY <1>1 DEF IsTable, Device, RegistryInv, RegistryTyped
<1>. HIDE DEF r
<1>4. IsTable(table')
  BY <1>1, <1>2, <1>3 DEF IsTable
<1>. QED
  BY <1>1, <1>2, <1>3, <1>4, LinesInTime DEF RegistryInv, RegistryTyped

LEMMA TickInv ==
  ASSUME RegistryInv, Registry!Tick
  PROVE  RegistryInv'
<1>1. /\ now' = now + 1 /\ due' = (IF running THEN due - 1 ELSE due) /\ (running => due > 0)
      /\ UNCHANGED <<running, table, disk, started>>
  BY DEF Registry!Tick
<1>2. RegistryTyped'
  BY <1>1 DEF RegistryInv, RegistryTyped
<1>3. ASSUME running, NEW d \in DOMAIN table, table[d].online
      PROVE  now + 1 - table[d].beat <= Silence + 1 - (due - 1) \/ now + 1 - started <= 1 - (due - 1)
  <2>1. table[d].beat \in Nat /\ now \in Nat /\ started \in Nat /\ due \in Nat /\ Silence \in Nat
    <3>1. table[d] \in Device
      BY DEF RegistryInv, RegistryTyped, IsTable
    <3>2. table[d].beat \in Nat
      BY <3>1 DEF Device
    <3>. QED
      BY <3>2, StoresAssumption DEF RegistryInv, RegistryTyped
  <2>2. now - table[d].beat <= Silence + 1 - due \/ now - started <= 1 - due
    BY <1>3 DEF RegistryInv, InTime
  <2>. QED
    BY <2>1, <2>2
<1>4. InTime'
  <2>. SUFFICES ASSUME running', NEW d \in DOMAIN table', table'[d].online
                PROVE  now' - table'[d].beat <= Silence + 1 - due' \/ now' - started' <= 1 - due'
    BY DEF InTime
  <2>1. running /\ d \in DOMAIN table /\ table[d].online /\ table'[d] = table[d]
    BY <1>1
  <2>2. now' = now + 1 /\ due' = due - 1 /\ started' = started
    BY <1>1, <2>1
  <2>3. now + 1 - table[d].beat <= Silence + 1 - (due - 1)
          \/ now + 1 - started <= 1 - (due - 1)
    BY <1>3, <2>1
  <2>4. table'[d].beat = table[d].beat
    BY <2>1
  <2>5. now \in Nat /\ due \in Nat /\ started \in Nat /\ Silence \in Nat /\ table[d].beat \in Nat
    <3>1. table[d] \in Device
      BY <2>1 DEF RegistryInv, RegistryTyped, IsTable
    <3>2. table[d].beat \in Nat
      BY <3>1 DEF Device
    <3>. QED
      BY <3>2, StoresAssumption DEF RegistryInv, RegistryTyped
  <2>. QED
    BY <2>2, <2>3, <2>4, <2>5
<1>. QED
  BY <1>2, <1>4 DEF RegistryInv

\* The pass of the timer: whoever is still shown was heard within the time-out.
LEMMA CleanupInv ==
  ASSUME RegistryInv, Registry!Cleanup
  PROVE  RegistryInv'
<1>1. /\ running /\ due' = 1 /\ UNCHANGED <<running, disk, now, started>>
      /\ table' = [d \in DOMAIN table |-> [table[d] EXCEPT !.online = @ /\ d \notin Registry!Stale]]
  BY DEF Registry!Cleanup, Registry!Interval, Registry!Known
<1>2. \A d \in DOMAIN table : table[d] \in Device
  BY DEF IsTable, RegistryInv, RegistryTyped
<1>3. ASSUME NEW d \in DOMAIN table
      PROVE  table'[d] \in Device /\ table'[d].beat = table[d].beat
  <2> DEFINE on == table[d].online /\ d \notin Registry!Stale
  <2>1. table'[d] = [table[d] EXCEPT !.online = on] /\ on \in BOOLEAN
    BY <1>1
  <2>. HIDE DEF on
  <2>. QED
    BY <1>2, <2>1 DEF Device
<1>4. ASSUME NEW d \in DOMAIN table, table'[d].online
      PROVE  now - table[d].beat <= Silence
  <2> DEFINE on == table[d].online /\ d \notin Registry!Stale
  <2>1. table'[d] = [table[d] EXCEPT !.online = on]
    BY <1>1
  <2>2. table'[d].online = on
    BY <1>2, <2>1 DEF Device
  <2>3. table[d].online /\ d \notin Registry!Stale
    BY <1>4, <2>2
  <2>4. ~(now - table[d].beat > Silence)
    BY <2>3 DEF Registry!Stale, Registry!Known
  <2>5. table[d].beat \in Nat /\ now \in Nat /\ Silence \in Nat
    BY <1>2, StoresAssumption DEF RegistryInv, RegistryTyped, Device
  <2>. QED
    BY <2>4, <2>5
<1>5. IsTable(table')
  <2>1. DOMAIN table' = DOMAIN table
    BY <1>1
  <2>2. table' = [d \in DOMAIN table |-> table'[d]]
    BY <1>1
  <2>. QED
    BY <1>3, <2>1, <2>2 DEF IsTable, RegistryInv, RegistryTyped
<1>6. RegistryTyped'
  BY <1>1, <1>5 DEF RegistryInv, RegistryTyped
<1>7. \A d \in DOMAIN table' : table'[d].online => now - table'[d].beat <= Silence + 1 - due'
  <2>1. ASSUME NEW d \in DOMAIN table, table'[d].online
        PROVE  now - table'[d].beat <= Silence + 1 - due'
    <3>1. now - table'[d].beat <= Silence /\ Silence + 1 - 1 = Silence
      BY <1>3, <1>4, <2>1, StoresAssumption
    <3>. QED
      BY <1>1, <3>1
  <2>. QED
    BY <1>1, <2>1
<1>. QED
  BY <1>1, <1>6, <1>7 DEF RegistryInv, InTime

LEMMA RemoveInv ==
  ASSUME RegistryInv, NEW d \in Ids, Registry!Remove(d)
  PROVE  RegistryInv'
<1>1. IsTable(table) /\ Registry!Saved(Registry!Without(table, d)) /\ running
      /\ UNCHANGED <<running, now, due, started>>
  BY DEF Registry!Remove, Registry!Line, RegistryInv, RegistryTyped
<1>2. /\ IsTable(Registry!Without(table, d))
      /\ DOMAIN Registry!Without(table, d) = DOMAIN table \ {d}
      /\ \A e \in DOMAIN table \ {d} : Registry!Without(table, d)[e] = table[e]
  BY <1>1, RestrictTyped
<1>3. table' = Registry!Without(table, d) /\ IsTable(table') /\ disk' \subseteq Doc
  BY <1>1, <1>2, SavedTyped DEF RegistryInv
<1>. QED
  BY <1>1, <1>2, <1>3, LinesInTime DEF RegistryInv, RegistryTyped

LEMMA RestartInv ==
  ASSUME RegistryInv, Registry!Stop \/ Registry!Crash \/ Registry!Start
  PROVE  RegistryInv'
<1>1. CASE Registry!Stop
  <2>1. IsTable(table) /\ Registry!Saved(table)
    BY <1>1 DEF Registry!Stop, RegistryInv, RegistryTyped
  <2>2. IsTable(table') /\ disk' \subseteq Doc
    BY <2>1, SavedTyped DEF RegistryInv
  <2>. QED
    BY <1>1, <2>2 DEF Registry!Stop, RegistryInv, RegistryTyped, InTime
<1>2. CASE Registry!Crash
  BY <1>2 DEF Registry!Crash, RegistryInv, RegistryTyped, InTime
<1>3. CASE Registry!Start
  <2>1. IsTable(table')
    BY <1>3, LoadTyped DEF Registry!Start, RegistryInv, RegistryTyped
  <2>2. started' = now /\ due' = 1 /\ running' = TRUE /\ now' = now /\ disk' = disk
    BY <1>3 DEF Registry!Start, Registry!Interval
  <2>3. RegistryTyped'
    BY <2>1, <2>2 DEF RegistryInv, RegistryTyped
  <2>4. now - now <= 1 - 1
    BY DEF RegistryInv, RegistryTyped
  <2>. QED
    BY <2>2, <2>3, <2>4 DEF RegistryInv, InTime
<1>. QED
  BY <1>1, <1>2, <1>3

LEMMA RegistryStepInv == RegistryInv /\ [Registry!Next]_registry => RegistryInv'
<1>. SUFFICES ASSUME RegistryInv, [Registry!Next]_registry PROVE RegistryInv'
  OBVIOUS
<1>1. CASE UNCHANGED registry
  BY <1>1 DEF registry, RegistryInv, RegistryTyped, InTime
<1>2. CASE Registry!Next
  <2>1. /\ Registry!Texts = Texts
        /\ GroupNames \cup {Registry!None} = GroupNames \cup {""}
    BY DEF Registry!Texts, Texts, Registry!None
  <2>2. ASSUME NEW d \in Ids, Registry!Remove(d) \/ Registry!Heartbeat(d) PROVE RegistryInv'
    BY <2>2, RemoveInv, HeartbeatInv
  <2>3. ASSUME NEW d \in Ids, NEW t \in Texts, Registry!Register(d, t) PROVE RegistryInv'
    BY <2>3, RegisterInv
  <2>4. ASSUME NEW d \in Ids, NEW t \in Texts, NEW fields \in SUBSET DOMAIN t,
               Registry!Update(d, fields, t)
        PROVE  RegistryInv'
    BY <2>4, UpdateInv
  <2>5. ASSUME NEW old \in GroupNames \cup {""}, NEW to \in GroupNames \cup {""},
               Registry!Regroup(old, to)
        PROVE  RegistryInv'
    BY <2>5, RegroupInv
  <2>. QED
    BY <1>2, <2>1, <2>2, <2>3, <2>4, <2>5, TickInv, CleanupInv, RestartInv DEF Registry!Next
<1>. QED
  BY <1>1, <1>2

LEMMA RegistryStarts == Registry!Init => RegistryInv
<1>. SUFFICES ASSUME Registry!Init PROVE RegistryInv
  OBVIOUS
<1>1. IsTable(table)
  BY LoadTyped DEF Registry!Init
<1>2. /\ running = TRUE /\ now = 0 /\ due = 1 /\ started = 0 /\ disk = {}
  BY DEF Registry!Init, Registry!Interval
<1>. QED
  BY <1>1, <1>2 DEF RegistryInv, RegistryTyped, InTime

LEMMA RegistrySilent == RegistryInv => Registry!SilentGoOffline
<1>. SUFFICES ASSUME RegistryInv, running, NEW d \in DOMAIN table, table[d].online
              PROVE  now - table[d].beat <= Silence + 1 \/ now - started <= 1
  BY DEF Registry!SilentGoOffline, Registry!Known, Registry!Interval
<1>1. now - table[d].beat <= Silence + 1 - due \/ now - started <= 1 - due
  BY DEF RegistryInv, InTime
<1>2. now \in Nat /\ due \in Nat /\ started \in Nat /\ Silence \in Nat /\ table[d].beat \in Nat
  <2>1. table[d] \in Device
    BY DEF RegistryInv, RegistryTyped, IsTable
  <2>2. table[d].beat \in Nat
    BY <2>1 DEF Device
  <2>. QED
    BY <2>2, StoresAssumption DEF RegistryInv, RegistryTyped
<1>. QED
  BY <1>1, <1>2

-----------------------------------------------------------------------------
(* Discovery: the lookups of MAC addresses as a bag of devices.            *)

IsBag(b) == b \in [DOMAIN b -> Nat \ {0}]
Asked(b) == DOMAIN b

LEMMA AskedMore ==
  ASSUME NEW b, IsBag(b), NEW d
  PROVE  /\ IsBag(Discovered!(+)(b, Discovered!SetToBag({d})))
         /\ Asked(Discovered!(+)(b, Discovered!SetToBag({d}))) = Asked(b) \cup {d}
BY DEF IsBag, Asked, Discovered!(+), Discovered!SetToBag

LEMMA AskedLess ==
  ASSUME NEW b, IsBag(b), NEW d
  PROVE  /\ IsBag(Discovered!(-)(b, Discovered!SetToBag({d})))
         /\ Asked(b) \ {d} \subseteq Asked(Discovered!(-)(b, Discovered!SetToBag({d})))
BY DEF IsBag, Asked, Discovered!(-), Discovered!SetToBag

LEMMA AskedIsIn ==
  ASSUME NEW b, NEW d
  PROVE  Discovered!BagIn(d, b) <=> d \in Asked(b)
BY DEF Asked, Discovered!BagIn, Discovered!BagToSet

Entry == [at : Nat, code : Nat, mac : {"Pending", "Resolved", "Timeout"}]

DiscoveryTyped ==
  /\ day \in Nat /\ events \in Nat
  /\ advert \in [Machines -> Nat]
  /\ \A g \in air : g.at = day /\ g.code \in Nat
  /\ DOMAIN id = Machines /\ DOMAIN found = Machines /\ DOMAIN heard = Machines
  /\ DOMAIN lookups = Machines /\ DOMAIN listed = Machines /\ DOMAIN arpPending = Machines
  /\ found = [m \in Machines |-> found[m]] /\ heard = [m \in Machines |-> heard[m]]
  /\ lookups = [m \in Machines |-> lookups[m]] /\ listed = [m \in Machines |-> listed[m]]
  /\ arpPending = [m \in Machines |-> arpPending[m]] /\ id = [m \in Machines |-> id[m]]

DiscoveryShape ==
  /\ DiscoveryTyped
  /\ \A m \in Machines : /\ found[m] \in [DOMAIN found[m] -> Entry]
                         /\ heard[m] \in [DOMAIN heard[m] -> Nat]
                         /\ IsBag(lookups[m])

\* The devices found are those heard within the time-out, but for a pass that is due.
Lately(m) ==
  /\ DOMAIN listed[m] = DOMAIN found[m]
  /\ \A d \in DOMAIN found[m] :
       /\ d \in DOMAIN heard[m] /\ heard[m][d] = found[m][d].at
       /\ day - found[m][d].at <= Expiry + 1
       /\ m \notin overdue => day - found[m][d].at <= Expiry
  /\ \A d \in DOMAIN heard[m] : d \notin DOMAIN found[m] => day - heard[m][d] > Expiry
  /\ id[m] = <<>> => DOMAIN found[m] = {}

\* What is marked as asked for is asked for.
MacsAsked(m) ==
  /\ arpPending[m] \subseteq Asked(lookups[m])
  /\ \A d \in DOMAIN found[m] : found[m][d].mac = "Pending" => d \in Asked(lookups[m])

DiscoveryInv == DiscoveryShape /\ \A m \in Machines : Lately(m) /\ MacsAsked(m)

LEMMA MachineRests ==
  ASSUME DiscoveryInv, NEW m \in Machines, day' = day,
         found'[m] = found[m], heard'[m] = heard[m], lookups'[m] = lookups[m],
         listed'[m] = listed[m], arpPending'[m] = arpPending[m],
         m \in overdue => m \in overdue', id'[m] = id[m] \/ id[m] = <<>>
  PROVE  /\ (found[m] \in [DOMAIN found[m] -> Entry])' /\ (heard[m] \in [DOMAIN heard[m] -> Nat])'
         /\ IsBag(lookups[m])' /\ Lately(m)' /\ MacsAsked(m)'
BY DEF DiscoveryInv, DiscoveryShape, Lately, MacsAsked, IsBag, Asked

\* Programs start, advertise, and datagrams go and get lost.
LEMMA QuietDiscovery ==
  ASSUME DiscoveryInv,
         \/ \E m \in Machines : \/ Discovered!Start(m) \/ Discovered!Identify(m)
                                \/ \E kind \in {"REQ", "RESP"} : Discovered!Announce(m, kind)
         \/ \E g \in air : Discovered!Lose(g)
         \/ UNCHANGED discovery
  PROVE  DiscoveryInv'
<1>1. /\ UNCHANGED <<found, arpPending, lookups, listed, overdue, heard, day>>
      /\ DOMAIN id' = Machines /\ id' = [m \in Machines |-> id'[m]]
      /\ \A m \in Machines : id'[m] = id[m] \/ id[m] = <<>>
      /\ events' \in Nat /\ advert' \in [Machines -> Nat]
      /\ \A g \in air' : g.at = day /\ g.code \in Nat
  <2>1. CASE UNCHANGED discovery
    BY <2>1 DEF discovery, DiscoveryInv, DiscoveryShape, DiscoveryTyped
  <2>2. ASSUME NEW g \in air, Discovered!Lose(g) PROVE <1>1
    BY <2>2 DEF Discovered!Lose, DiscoveryInv, DiscoveryShape, DiscoveryTyped
  <2>3. ASSUME NEW m \in Machines, Discovered!Start(m) PROVE <1>1
    <3>1. /\ id[m] = <<>> /\ events' = events + 1
          /\ UNCHANGED <<advert, air, found, arpPending, lookups, listed, overdue, heard, day>>
      BY <2>3 DEF Discovered!Start, Discovered!Event, Discovered!On, Discovered!Off
    <3>2. PICK own : id' = [id EXCEPT ![m] = own]
      BY <2>3 DEF Discovered!Start
    <3>3. /\ DOMAIN id' = Machines /\ id' = [n \in Machines |-> id'[n]]
          /\ \A n \in Machines : id'[n] = id[n] \/ id[n] = <<>>
      BY <3>1, <3>2 DEF DiscoveryInv, DiscoveryShape, DiscoveryTyped
    <3>. QED
      BY <3>1, <3>3 DEF DiscoveryInv, DiscoveryShape, DiscoveryTyped
  <2>4. ASSUME NEW m \in Machines, Discovered!Identify(m) PROVE <1>1
    BY <2>4 DEF Discovered!Identify, Discovered!Event, DiscoveryInv, DiscoveryShape, DiscoveryTyped
  <2>5. ASSUME NEW m \in Machines, NEW kind \in {"REQ", "RESP"}, Discovered!Announce(m, kind)
        PROVE  <1>1
    <3>1. \A g \in Discovered!Broadcast(kind, m) : g.at = day /\ g.code = advert[m]
      BY DEF Discovered!Broadcast, Discovered!Datagram
    <3>2. /\ air' = air \cup Discovered!Broadcast(kind, m) /\ events' = events + 1
          /\ UNCHANGED <<id, advert, found, arpPending, lookups, listed, overdue, heard, day>>
      BY <2>5 DEF Discovered!Announce, Discovered!Event
    <3>. QED
      BY <3>1, <3>2 DEF DiscoveryInv, DiscoveryShape, DiscoveryTyped
  <2>. QED
    BY <2>1, <2>2, <2>3, <2>4, <2>5
<1>2. DiscoveryTyped'
  BY <1>1 DEF DiscoveryInv, DiscoveryShape, DiscoveryTyped
<1>3. ASSUME NEW m \in Machines
      PROVE  /\ (found[m] \in [DOMAIN found[m] -> Entry])' /\ (heard[m] \in [DOMAIN heard[m] -> Nat])'
             /\ IsBag(lookups[m])' /\ Lately(m)' /\ MacsAsked(m)'
  BY <1>1, MachineRests
<1>. QED
  BY <1>2, <1>3 DEF DiscoveryInv, DiscoveryShape

LEMMA QuitDiscovery ==
  ASSUME DiscoveryInv, NEW m \in Machines, Discovered!Quit(m)
  PROVE  DiscoveryInv'
<1> DEFINE nothing == [d \in {} |-> 0]
<1>1. /\ id' = [id EXCEPT ![m] = <<>>] /\ advert' = [advert EXCEPT ![m] = 0]
      /\ found' = [found EXCEPT ![m] = nothing] /\ listed' = [listed EXCEPT ![m] = nothing]
      /\ heard' = [heard EXCEPT ![m] = nothing] /\ arpPending' = [arpPending EXCEPT ![m] = {}]
      /\ lookups' = [lookups EXCEPT ![m] = Discovered!EmptyBag] /\ overdue' = overdue \ {m}
      /\ UNCHANGED <<air, day, events>>
  BY DEF Discovered!Quit, Discovered!Off, Discovered!Nothing
<1>2. IsBag(Discovered!EmptyBag)
  BY DEF IsBag, Discovered!EmptyBag, Discovered!SetToBag
<1>3. DOMAIN nothing = {} /\ nothing \in [{} -> Entry] /\ nothing \in [{} -> Nat]
  OBVIOUS
<1>. HIDE DEF nothing
<1>4. DiscoveryTyped'
  BY <1>1 DEF DiscoveryInv, DiscoveryShape, DiscoveryTyped
<1>5. /\ found'[m] = nothing /\ listed'[m] = nothing /\ heard'[m] = nothing /\ arpPending'[m] = {}
      /\ lookups'[m] = Discovered!EmptyBag
  BY <1>1 DEF DiscoveryInv, DiscoveryShape, DiscoveryTyped
<1>6. /\ (found[m] \in [DOMAIN found[m] -> Entry])' /\ (heard[m] \in [DOMAIN heard[m] -> Nat])'
      /\ IsBag(lookups[m])' /\ Lately(m)' /\ MacsAsked(m)'
  BY <1>2, <1>3, <1>5 DEF Lately, MacsAsked, IsBag
<1>7. ASSUME NEW n \in Machines \ {m}
      PROVE  /\ (found[n] \in [DOMAIN found[n] -> Entry])' /\ (heard[n] \in [DOMAIN heard[n] -> Nat])'
             /\ IsBag(lookups[n])' /\ Lately(n)' /\ MacsAsked(n)'
  <2>1. /\ found'[n] = found[n] /\ heard'[n] = heard[n] /\ lookups'[n] = lookups[n]
        /\ listed'[n] = listed[n] /\ arpPending'[n] = arpPending[n] /\ id'[n] = id[n]
        /\ (n \in overdue => n \in overdue') /\ day' = day
    BY <1>1 DEF DiscoveryInv, DiscoveryShape, DiscoveryTyped
  <2>. QED
    BY <2>1, MachineRests
<1>. QED
  BY <1>4, <1>6, <1>7 DEF DiscoveryInv, DiscoveryShape

\* What a machine does to its own tables leaves those of the others alone.
LEMMA OneMachine ==
  ASSUME DiscoveryInv, DiscoveryTyped', NEW m \in Machines, UNCHANGED <<id, day>>,
         \A n \in Machines \ {m} :
           /\ found'[n] = found[n] /\ heard'[n] = heard[n] /\ lookups'[n] = lookups[n]
           /\ listed'[n] = listed[n] /\ arpPending'[n] = arpPending[n]
           /\ n \in overdue => n \in overdue',
         (found[m] \in [DOMAIN found[m] -> Entry])', (heard[m] \in [DOMAIN heard[m] -> Nat])',
         IsBag(lookups[m])', Lately(m)', MacsAsked(m)'
  PROVE  DiscoveryInv'
<1>1. ASSUME NEW n \in Machines \ {m}
      PROVE  /\ (found[n] \in [DOMAIN found[n] -> Entry])' /\ (heard[n] \in [DOMAIN heard[n] -> Nat])'
             /\ IsBag(lookups[n])' /\ Lately(n)' /\ MacsAsked(n)'
  BY MachineRests
<1>. QED
  BY <1>1 DEF DiscoveryInv, DiscoveryShape

\* A datagram of another machine: its device is found now.
LEMMA NoticedInv ==
  ASSUME DiscoveryInv, NEW m \in Machines, NEW g \in air, Discovered!Receive(m, g)
  PROVE  DiscoveryInv'
<1> DEFINE d == g.from
           resolved == d \in DOMAIN found[m] /\ found[m][d].mac = "Resolved"
           entry == [at |-> g.at, code |-> g.code,
                     mac |-> IF resolved THEN "Resolved" ELSE "Pending"]
<1>1. /\ id[m] # <<>> /\ UNCHANGED <<id, advert, overdue, day, events>>
      /\ \/ UNCHANGED <<found, listed, arpPending, lookups, heard>>
         \/ Discovered!Noticed(m, g)
      /\ \A h \in air' : h.at = day /\ h.code \in Nat
  <2>1. \A h \in air' : h \in air \/ \E kind, to, by : h = Discovered!Datagram(kind, m, to)
    BY DEF Discovered!Receive
  <2>2. \A kind, to : /\ Discovered!Datagram(kind, m, to).at = day
                      /\ Discovered!Datagram(kind, m, to).code = advert[m]
    BY DEF Discovered!Datagram
  <2>. QED
    BY <2>1, <2>2 DEF Discovered!Receive, Discovered!On, Discovered!Off, DiscoveryInv, DiscoveryShape,
                      DiscoveryTyped
<1>2. CASE UNCHANGED <<found, listed, arpPending, lookups, heard>>
  <2>1. DiscoveryTyped'
    BY <1>1, <1>2 DEF DiscoveryInv, DiscoveryShape, DiscoveryTyped
  <2>2. ASSUME NEW n \in Machines
        PROVE  /\ (found[n] \in [DOMAIN found[n] -> Entry])' /\ (heard[n] \in [DOMAIN heard[n] -> Nat])'
               /\ IsBag(lookups[n])' /\ Lately(n)' /\ MacsAsked(n)'
    BY <1>1, <1>2, MachineRests
  <2>. QED
    BY <2>1, <2>2 DEF DiscoveryInv, DiscoveryShape
<1>3. CASE Discovered!Noticed(m, g)
  <2>0. /\ found[m] \in [DOMAIN found[m] -> Entry] /\ heard[m] \in [DOMAIN heard[m] -> Nat]
        /\ IsBag(lookups[m]) /\ Lately(m) /\ MacsAsked(m) /\ day \in Nat /\ g.at = day /\ g.code \in Nat
    BY DEF DiscoveryInv, DiscoveryShape, DiscoveryTyped
  <2>1. entry \in Entry /\ entry.at = day /\ (entry.mac = "Pending" <=> ~resolved)
    BY <2>0 DEF Entry
  <2>2. /\ found' = [found EXCEPT ![m] = Discovered!Put(@, d, entry)]
        /\ listed' = (IF d \notin DOMAIN found[m]
                      THEN [listed EXCEPT ![m] = Discovered!Put(@, d, g.code)] ELSE listed)
        /\ heard' = [heard EXCEPT ![m] = Discovered!Put(@, d, day)]
    BY <1>3 DEF Discovered!Noticed
  <2>3. IF resolved \/ d \in arpPending[m] THEN UNCHANGED <<arpPending, lookups>>
        ELSE /\ arpPending' = [arpPending EXCEPT ![m] = @ \cup {d}]
             /\ lookups' = [lookups EXCEPT ![m] = Discovered!(+)(@, Discovered!SetToBag({d}))]
    BY <1>3 DEF Discovered!Noticed
  <2>. HIDE DEF entry, resolved, d
  <2>4. DiscoveryTyped'
    BY <1>1, <2>2, <2>3 DEF DiscoveryInv, DiscoveryShape, DiscoveryTyped
  <2>5. /\ found'[m] = Discovered!Put(found[m], d, entry) /\ heard'[m] = Discovered!Put(heard[m], d, day)
        /\ listed'[m] = (IF d \notin DOMAIN found[m] THEN Discovered!Put(listed[m], d, g.code) ELSE listed[m])
    BY <2>2 DEF DiscoveryInv, DiscoveryShape, DiscoveryTyped
  <2>6. /\ IsBag(lookups[m])'
        /\ \/ resolved /\ arpPending'[m] = arpPending[m] /\ lookups'[m] = lookups[m]
           \/ d \in arpPending[m] /\ arpPending'[m] = arpPending[m] /\ lookups'[m] = lookups[m]
           \/ arpPending'[m] = arpPending[m] \cup {d} /\ Asked(lookups'[m]) = Asked(lookups[m]) \cup {d}
    <3>1. CASE resolved \/ d \in arpPending[m]
      BY <2>0, <2>3, <3>1 DEF IsBag
    <3>2. CASE ~(resolved \/ d \in arpPending[m])
      <4>1. /\ arpPending'[m] = arpPending[m] \cup {d}
            /\ lookups'[m] = Discovered!(+)(lookups[m], Discovered!SetToBag({d}))
        BY <2>3, <3>2 DEF DiscoveryInv, DiscoveryShape, DiscoveryTyped
      <4>2. /\ IsBag(lookups'[m])
            /\ Asked(lookups'[m]) = Asked(lookups[m]) \cup {d}
        <5>1. IsBag(lookups[m])
          BY <2>0
        <5>2. /\ IsBag(Discovered!(+)(lookups[m], Discovered!SetToBag({d})))
              /\ Asked(Discovered!(+)(lookups[m], Discovered!SetToBag({d}))) = Asked(lookups[m]) \cup {d}
          BY <5>1, AskedMore
        <5>. QED
          BY <4>1, <5>2
      <4>3. IsBag(lookups[m])'
        BY <4>2 DEF IsBag
      <4>. QED
        BY <4>1, <4>2, <4>3
    <3>. QED
      BY <3>1, <3>2
  <2>7. /\ (found[m] \in [DOMAIN found[m] -> Entry])' /\ (heard[m] \in [DOMAIN heard[m] -> Nat])'
        /\ DOMAIN found'[m] = DOMAIN found[m] \cup {d} /\ DOMAIN heard'[m] = DOMAIN heard[m] \cup {d}
        /\ found'[m][d] = entry /\ heard'[m][d] = day
        /\ \A e \in DOMAIN found[m] \ {d} : found'[m][e] = found[m][e]
        /\ \A e \in DOMAIN heard[m] \ {d} : heard'[m][e] = heard[m][e]
    BY <2>0, <2>1, <2>5 DEF Discovered!Put
  <2>8. DOMAIN listed'[m] = DOMAIN found'[m]
    BY <2>0, <2>5, <2>7 DEF Discovered!Put, Lately
  <2>9. Lately(m)'
    <3>1. day - day = 0 /\ 0 <= Expiry + 1 /\ 0 <= Expiry
      BY <2>0, StoresAssumption
    <3>. QED
      BY <1>1, <2>0, <2>1, <2>7, <2>8, <3>1 DEF Lately
  <2>10. MacsAsked(m)'
    BY <2>0, <2>1, <2>6, <2>7 DEF MacsAsked
  <2>11. \A n \in Machines \ {m} :
           /\ found'[n] = found[n] /\ heard'[n] = heard[n] /\ lookups'[n] = lookups[n]
           /\ listed'[n] = listed[n] /\ arpPending'[n] = arpPending[n]
    BY <2>2, <2>3 DEF DiscoveryInv, DiscoveryShape, DiscoveryTyped
  <2>. QED
    BY <1>1, <2>4, <2>6, <2>7, <2>9, <2>10, <2>11, OneMachine
<1>. QED
  BY <1>1, <1>2, <1>3

LEMMA ResolveInv ==
  ASSUME DiscoveryInv, NEW m \in Machines, NEW d, NEW mac \in {"Resolved", "Timeout"},
         Discovered!Resolve(m, d, mac)
  PROVE  DiscoveryInv'
<1>0. /\ found[m] \in [DOMAIN found[m] -> Entry] /\ heard[m] \in [DOMAIN heard[m] -> Nat]
      /\ IsBag(lookups[m]) /\ Lately(m) /\ MacsAsked(m)
  BY DEF DiscoveryInv, DiscoveryShape
<1>1. /\ lookups' = [lookups EXCEPT ![m] = Discovered!(-)(@, Discovered!SetToBag({d}))]
      /\ arpPending' = [arpPending EXCEPT ![m] = @ \ {d}]
      /\ UNCHANGED <<id, advert, air, listed, overdue, heard, day, events>>
      /\ found' = IF d \in DOMAIN found[m] /\ found[m][d].mac # "Resolved"
                  THEN [found EXCEPT ![m][d].mac = mac] ELSE found
  BY DEF Discovered!Resolve
<1>2. DiscoveryTyped'
  BY <1>1 DEF DiscoveryInv, DiscoveryShape, DiscoveryTyped
<1>3. \A n \in Machines \ {m} :
        /\ found'[n] = found[n] /\ heard'[n] = heard[n] /\ lookups'[n] = lookups[n]
        /\ listed'[n] = listed[n] /\ arpPending'[n] = arpPending[n]
  BY <1>1 DEF DiscoveryInv, DiscoveryShape, DiscoveryTyped
<1>4. IsBag(lookups'[m]) /\ Asked(lookups[m]) \ {d} \subseteq Asked(lookups'[m])
  <2>1. lookups'[m] = Discovered!(-)(lookups[m], Discovered!SetToBag({d}))
    BY <1>1 DEF DiscoveryInv, DiscoveryShape, DiscoveryTyped
  <2>. QED
    BY <1>0, <2>1, AskedLess
<1>5. /\ (found[m] \in [DOMAIN found[m] -> Entry])' /\ DOMAIN found'[m] = DOMAIN found[m]
      /\ \A e \in DOMAIN found[m] : found'[m][e].at = found[m][e].at
      /\ \A e \in DOMAIN found[m] : e # d => found'[m][e] = found[m][e]
      /\ d \in DOMAIN found[m] => found'[m][d].mac # "Pending"
  <2>1. CASE d \in DOMAIN found[m] /\ found[m][d].mac # "Resolved"
    <3> DEFINE entry == [found[m][d] EXCEPT !.mac = mac]
    <3>1. entry \in Entry /\ entry.at = found[m][d].at /\ entry.mac # "Pending"
      BY <1>0, <2>1 DEF Entry
    <3>2. found'[m] = [found[m] EXCEPT ![d] = entry]
      BY <1>1, <2>1 DEF DiscoveryInv, DiscoveryShape, DiscoveryTyped
    <3>. HIDE DEF entry
    <3>. QED
      BY <1>0, <2>1, <3>1, <3>2
  <2>2. CASE ~(d \in DOMAIN found[m] /\ found[m][d].mac # "Resolved")
    <3>1. found' = found
      BY <1>1, <2>2
    <3>. QED
      BY <1>0, <2>2, <3>1
  <2>. QED
    BY <2>1, <2>2
<1>6. Lately(m)'
  BY <1>0, <1>1, <1>5 DEF Lately
<1>7. MacsAsked(m)'
  <2>1. arpPending'[m] = arpPending[m] \ {d}
    BY <1>1 DEF DiscoveryInv, DiscoveryShape, DiscoveryTyped
  <2>. QED
    BY <1>0, <1>4, <1>5, <2>1 DEF MacsAsked
<1>8. IsBag(lookups[m])' /\ (heard[m] \in [DOMAIN heard[m] -> Nat])'
  BY <1>0, <1>1, <1>4 DEF IsBag
<1>. QED
  BY <1>1, <1>2, <1>3, <1>5, <1>6, <1>7, <1>8, OneMachine

\* A day passes only when every pass of the last one is done.
LEMMA DayInv ==
  ASSUME DiscoveryInv, Discovered!Tick
  PROVE  DiscoveryInv'
<1>1. /\ air = {} /\ overdue = {} /\ day' = day + 1
      /\ overdue' = {m \in Machines : id[m] # <<>>}
      /\ UNCHANGED <<id, advert, air, found, arpPending, lookups, listed, heard, events>>
  BY DEF Discovered!Tick, Discovered!On, Discovered!Off
<1>2. DiscoveryTyped'
  BY <1>1 DEF DiscoveryInv, DiscoveryShape, DiscoveryTyped
<1>3. day \in Nat /\ Expiry \in Nat
  BY StoresAssumption DEF DiscoveryInv, DiscoveryShape, DiscoveryTyped
<1>4. ASSUME NEW m \in Machines
      PROVE  Lately(m)' /\ MacsAsked(m)'
  <2>1. /\ found[m] \in [DOMAIN found[m] -> Entry] /\ heard[m] \in [DOMAIN heard[m] -> Nat]
        /\ Lately(m) /\ MacsAsked(m)
    BY DEF DiscoveryInv, DiscoveryShape
  <2>2. \A d \in DOMAIN found[m] : day' - found[m][d].at <= Expiry + 1 /\ m \in overdue'
    <3>1. ASSUME NEW d \in DOMAIN found[m]
          PROVE  day' - found[m][d].at <= Expiry + 1 /\ m \in overdue'
      <4>1. found[m][d].at \in Nat /\ day - found[m][d].at <= Expiry /\ id[m] # <<>>
        BY <1>1, <2>1 DEF Lately, Entry
      <4>. QED
        BY <1>1, <1>3, <4>1
    <3>. QED
      BY <3>1
  <2>3. \A d \in DOMAIN heard[m] : d \notin DOMAIN found[m] => day' - heard[m][d] > Expiry
    <3>1. ASSUME NEW d \in DOMAIN heard[m], d \notin DOMAIN found[m]
          PROVE  day' - heard[m][d] > Expiry
      <4>1. heard[m][d] \in Nat /\ day - heard[m][d] > Expiry
        BY <2>1, <3>1 DEF Lately
      <4>. QED
        BY <1>1, <1>3, <4>1
    <3>. QED
      BY <3>1
  <2>4. /\ \A d \in DOMAIN found[m] : day' - found[m][d].at <= Expiry + 1 /\ m \in overdue'
        /\ \A d \in DOMAIN heard[m] : d \notin DOMAIN found[m] => day' - heard[m][d] > Expiry
        /\ UNCHANGED <<id, found, arpPending, lookups, listed, heard>>
    BY <1>1, <2>2, <2>3
  <2>5. \A d \in DOMAIN found[m] : d \in DOMAIN heard[m] /\ heard[m][d] = found[m][d].at
    BY <2>1 DEF Lately
  <2>6. DOMAIN listed[m] = DOMAIN found[m] /\ (id[m] = <<>> => DOMAIN found[m] = {})
    BY <2>1 DEF Lately
  <2>7. Lately(m)'
    BY <2>4, <2>5, <2>6 DEF Lately
  <2>8. MacsAsked(m)'
    BY <2>1, <2>4 DEF MacsAsked
  <2>. QED
    BY <2>7, <2>8
<1>. QED
  BY <1>1, <1>2, <1>4 DEF DiscoveryInv, DiscoveryShape, IsBag

LEMMA OldDevicesInv ==
  ASSUME DiscoveryInv, NEW m \in Machines, Discovered!CleanupOldDevices(m)
  PROVE  DiscoveryInv'
<1> DEFINE gone == Discovered!Expired(m)
<1>0. /\ found[m] \in [DOMAIN found[m] -> Entry] /\ heard[m] \in [DOMAIN heard[m] -> Nat]
      /\ IsBag(lookups[m]) /\ Lately(m) /\ MacsAsked(m) /\ day \in Nat /\ Expiry \in Nat
  BY StoresAssumption DEF DiscoveryInv, DiscoveryShape, DiscoveryTyped
<1>1. /\ overdue' = overdue \ {m} /\ arpPending' = [arpPending EXCEPT ![m] = @ \ gone]
      /\ found' = [found EXCEPT ![m] = Discovered!Restrict(@, DOMAIN @ \ gone)]
      /\ listed' = [listed EXCEPT ![m] = Discovered!Restrict(@, DOMAIN @ \ gone)]
      /\ UNCHANGED <<id, advert, air, lookups, heard, day, events>>
  BY DEF Discovered!CleanupOldDevices
<1>2. gone = {d \in DOMAIN found[m] : day - found[m][d].at > Expiry}
  BY DEF Discovered!Expired
<1>. HIDE DEF gone
<1>3. DiscoveryTyped'
  BY <1>1 DEF DiscoveryInv, DiscoveryShape, DiscoveryTyped
<1>4. \A n \in Machines \ {m} :
        /\ found'[n] = found[n] /\ heard'[n] = heard[n] /\ lookups'[n] = lookups[n]
        /\ listed'[n] = listed[n] /\ arpPending'[n] = arpPending[n]
        /\ n \in overdue => n \in overdue'
  BY <1>1 DEF DiscoveryInv, DiscoveryShape, DiscoveryTyped
<1>5. /\ found'[m] = [d \in DOMAIN found[m] \ gone |-> found[m][d]]
      /\ DOMAIN listed'[m] = DOMAIN listed[m] \ gone /\ arpPending'[m] \subseteq arpPending[m]
      /\ lookups'[m] = lookups[m] /\ heard'[m] = heard[m]
  BY <1>1 DEF DiscoveryInv, DiscoveryShape, DiscoveryTyped, Discovered!Restrict
<1>6. /\ (found[m] \in [DOMAIN found[m] -> Entry])' /\ DOMAIN found'[m] = DOMAIN found[m] \ gone
      /\ \A d \in DOMAIN found'[m] : found'[m][d] = found[m][d]
  BY <1>0, <1>5
<1>7. ASSUME NEW d \in DOMAIN found[m], d \notin gone
      PROVE  day - found[m][d].at <= Expiry
  <2>1. found[m][d].at \in Nat /\ ~(day - found[m][d].at > Expiry)
    BY <1>0, <1>2, <1>7 DEF Entry
  <2>. QED
    BY <1>0, <2>1
<1>8. Lately(m)'
  <2>1. DOMAIN listed'[m] = DOMAIN found'[m] /\ (id'[m] = <<>> => DOMAIN found'[m] = {})
    BY <1>0, <1>1, <1>5, <1>6 DEF Lately
  <2>2. ASSUME NEW d \in DOMAIN found'[m]
        PROVE  /\ d \in DOMAIN heard'[m] /\ heard'[m][d] = found'[m][d].at
               /\ day' - found'[m][d].at <= Expiry /\ day' - found'[m][d].at <= Expiry + 1
    <3>1. d \in DOMAIN found[m] /\ d \notin gone /\ found'[m][d] = found[m][d]
      BY <1>6, <2>2
    <3>2. found[m][d].at \in Nat
      BY <1>0, <3>1 DEF Entry
    <3>3. day - found[m][d].at <= Expiry /\ day - found[m][d].at <= Expiry + 1
      BY <1>0, <1>7, <3>1, <3>2
    <3>4. d \in DOMAIN heard[m] /\ heard[m][d] = found[m][d].at
      BY <1>0, <3>1 DEF Lately
    <3>. QED
      BY <1>1, <3>1, <3>3, <3>4
  <2>3. ASSUME NEW d \in DOMAIN heard'[m], d \notin DOMAIN found'[m]
        PROVE  day' - heard'[m][d] > Expiry
    <3>1. d \in DOMAIN heard[m] /\ heard'[m][d] = heard[m][d] /\ day' = day
      BY <1>1, <2>3
    <3>2. CASE d \notin DOMAIN found[m]
      BY <1>0, <3>1, <3>2 DEF Lately
    <3>3. CASE d \in DOMAIN found[m]
      <4>1. d \in gone
        BY <1>6, <2>3, <3>3
      <4>2. day - found[m][d].at > Expiry
        BY <1>2, <4>1
      <4>3. heard[m][d] = found[m][d].at
        BY <1>0, <3>3 DEF Lately
      <4>. QED
        BY <3>1, <4>2, <4>3
    <3>. QED
      BY <3>2, <3>3
  <2>. QED
    BY <2>1, <2>2, <2>3 DEF Lately
<1>9. MacsAsked(m)' /\ IsBag(lookups[m])' /\ (heard[m] \in [DOMAIN heard[m] -> Nat])'
  BY <1>0, <1>5, <1>6 DEF MacsAsked, IsBag
<1>. QED
  BY <1>1, <1>3, <1>4, <1>6, <1>8, <1>9, OneMachine

LEMMA DiscoveryStepInv == DiscoveryInv /\ [Discovered!Next]_discovery => DiscoveryInv'
<1>. SUFFICES ASSUME DiscoveryInv, [Discovered!Next]_discovery PROVE DiscoveryInv'
  OBVIOUS
<1>1. CASE UNCHANGED discovery
  BY <1>1, QuietDiscovery
<1>2. CASE Discovered!Next
  BY <1>2, QuietDiscovery, QuitDiscovery, NoticedInv, ResolveInv, DayInv, OldDevicesInv
     DEF Discovered!Next
<1>. QED
  BY <1>1, <1>2

LEMMA DiscoveryStarts == Discovered!Init => DiscoveryInv
<1>. SUFFICES ASSUME Discovered!Init PROVE DiscoveryInv
  OBVIOUS
<1> DEFINE nothing == [d \in {} |-> 0]
<1>1. /\ id = [m \in Machines |-> <<m, 0>>] /\ advert = [m \in Machines |-> 0] /\ air = {}
      /\ found = [m \in Machines |-> nothing] /\ arpPending = [m \in Machines |-> {}]
      /\ lookups = [m \in Machines |-> Discovered!EmptyBag] /\ listed = found /\ heard = found
      /\ day = 0 /\ events = 0
  BY DEF Discovered!Init, Discovered!Nothing
<1>2. DOMAIN nothing = {} /\ nothing \in [{} -> Entry] /\ nothing \in [{} -> Nat]
  OBVIOUS
<1>. HIDE DEF nothing
<1>3. DiscoveryTyped
  BY <1>1 DEF DiscoveryTyped
<1>4. IsBag(Discovered!EmptyBag)
  BY DEF IsBag, Discovered!EmptyBag, Discovered!SetToBag
<1>. QED
  BY <1>1, <1>2, <1>3, <1>4 DEF DiscoveryInv, DiscoveryShape, Lately, MacsAsked

LEMMA DiscoveryShows == DiscoveryInv => Discovered!ShownWereHeard /\ Discovered!PendingIsAsked
<1>. SUFFICES ASSUME DiscoveryInv PROVE Discovered!ShownWereHeard /\ Discovered!PendingIsAsked
  OBVIOUS
<1>1. ASSUME NEW m \in Machines
      PROVE  /\ \A d \in DOMAIN heard[m] : day - heard[m][d] <= Expiry => d \in DOMAIN listed[m]
             /\ \A d \in DOMAIN listed[m] : d \in DOMAIN heard[m] /\ day - heard[m][d] <= Expiry + 1
  <2>1. Lately(m) /\ heard[m] \in [DOMAIN heard[m] -> Nat] /\ day \in Nat /\ Expiry \in Nat
    BY StoresAssumption DEF DiscoveryInv, DiscoveryShape, DiscoveryTyped
  <2>2. ASSUME NEW d \in DOMAIN heard[m], day - heard[m][d] <= Expiry PROVE d \in DOMAIN listed[m]
    <3>1. heard[m][d] \in Nat /\ ~(day - heard[m][d] > Expiry)
      BY <2>1, <2>2
    <3>. QED
      BY <2>1, <3>1 DEF Lately
  <2>. QED
    BY <2>1, <2>2 DEF Lately
<1>2. Discovered!ShownWereHeard
  BY <1>1 DEF Discovered!ShownWereHeard
<1>3. Discovered!PendingIsAsked
  BY AskedIsIn DEF Discovered!PendingIsAsked, DiscoveryInv, MacsAsked
<1>. QED
  BY <1>2, <1>3

(* The silent go offline and the found are shown: at a relay that was      *)
(* restarted (DeviceRegistry::cleanupStaleDevices) and at every machine of *)
(* a network (DeviceDiscovery::onCleanupOldDevices), whose lookups of MAC  *)
(* addresses are never forgotten, for any number of devices and any        *)
(* time-outs.                                                              *)
THEOREM SilentAreNotShown == MCSpec => []SilentGoOffline
<1>1. MCInit => RegistryInv /\ DiscoveryInv
  BY RegistryStarts, DiscoveryStarts DEF MCInit
<1>2. RegistryInv /\ DiscoveryInv
        /\ [MCNext]_<<part, ops, accounts, store, sync, codec, history, talk, registry, discovery>>
      => RegistryInv' /\ DiscoveryInv'
  <2>. SUFFICES ASSUME RegistryInv, DiscoveryInv,
                [MCNext]_<<part, ops, accounts, store, sync, codec, history, talk, registry, discovery>>
                PROVE  RegistryInv' /\ DiscoveryInv'
    OBVIOUS
  <2>1. [Registry!Next]_registry /\ [Discovered!Next]_discovery
    BY DEF MCNext, AccountsStep, StoreStep, SyncStep, CodecStep, HistoryStep, TalkStep, RegistryStep,
           DiscoveryStep
  <2>. QED
    BY <2>1, RegistryStepInv, DiscoveryStepInv
<1>3. RegistryInv /\ DiscoveryInv => SilentGoOffline
  BY RegistrySilent, DiscoveryShows DEF SilentGoOffline
<1>. QED
  BY <1>1, <1>2, <1>3, PTL DEF MCSpec

-----------------------------------------------------------------------------
(* AccountSync: a sync that nothing disturbs has one command under way, and *)
(* that command says what its sender has.                                  *)

Peers == {"a", "b"}
Row == [at : Nat, value : Nat]
IdsOf(p) == {x \in Mail : mail[p][x] # "none"}

SyncTyped ==
  /\ row \in [Peers -> [Rows -> Row]] /\ mail \in [Peers -> [Mail -> {"none", "plain", "pinned"}]]
  /\ clock \in Nat /\ edits \in Nat /\ undisturbed \in BOOLEAN
  /\ \A m \in net : m.to \in Peers /\ m.type \in {"REQUEST", "SNAPSHOT", "ACK"}
  /\ \A m \in net : m.type = "SNAPSHOT" => m.row \in [Rows -> Row] /\ m.mail \in SUBSET Mail

\* A command of a sync that nothing disturbed.
Truthful(m) ==
  /\ m.type = "SNAPSHOT" => /\ m.row = row[Sync!Other(m.to)]
                            /\ m.mail = IdsOf(Sync!Other(m.to))
  /\ m.type = "SNAPSHOT" /\ m.reply =>
       /\ \A k \in Rows : Sync!Later(row[m.to][k], m.row[k]) = m.row[k]
       /\ IdsOf(m.to) \subseteq m.mail
  /\ m.type = "ACK" /\ m.success => row["a"] = row["b"] /\ IdsOf("a") = IdsOf("b")

Alone ==
  undisturbed => \A m \in net : Truthful(m) /\ \A n \in net : m = n

SyncInv == SyncTyped /\ Alone

\* What was merged into a row and sent back wins where it came from.
LEMMA LaterReturns ==
  ASSUME NEW x \in Row, NEW y \in Row
  PROVE  /\ Sync!Later(x, y) \in Row
         /\ Sync!Later(y, Sync!Later(x, y)) = Sync!Later(x, y)
<1>1. Sync!Absent \in Row /\ Sync!Absent.at = 0
  BY DEF Sync!Absent, Row
<1>2. x.at \in Nat /\ y.at \in Nat
  BY DEF Row
<1>3. CASE y = Sync!Absent \/ x.at > y.at
  <2>1. Sync!Later(x, y) = x
    BY <1>3 DEF Sync!Later
  <2>2. x = Sync!Absent => y = Sync!Absent
    BY <1>1, <1>2, <1>3
  <2>3. ~(y.at > x.at) \/ y = Sync!Absent
    BY <1>2, <1>3
  <2>4. y = Sync!Absent => ~(y.at > x.at)
    BY <1>1, <1>2
  <2>. QED
    BY <2>1, <2>2, <2>3, <2>4 DEF Sync!Later
<1>4. CASE ~(y = Sync!Absent \/ x.at > y.at)
  <2>1. Sync!Later(x, y) = y
    BY <1>4 DEF Sync!Later
  <2>2. Sync!Later(y, y) = y
    BY DEF Sync!Later
  <2>. QED
    BY <2>1, <2>2
<1>. QED
  BY <1>3, <1>4

LEMMA SyncEdits ==
  ASSUME SyncInv, Sync!Edit, net' = net,
         row' \in [Peers -> [Rows -> Row]], mail' \in [Peers -> [Mail -> {"none", "plain", "pinned"}]],
         clock' = clock
  PROVE  SyncInv'
<1>1. undisturbed' = FALSE /\ edits' = edits + 1
  BY DEF Sync!Edit
<1>2. SyncTyped'
  <2>1. edits' \in Nat /\ clock' \in Nat
    BY <1>1 DEF SyncInv, SyncTyped
  <2>2. undisturbed' \in BOOLEAN
    BY <1>1
  <2>3. /\ \A m \in net' : m.to \in Peers /\ m.type \in {"REQUEST", "SNAPSHOT", "ACK"}
        /\ \A m \in net' : m.type = "SNAPSHOT" => m.row \in [Rows -> Row] /\ m.mail \in SUBSET Mail
    BY DEF SyncInv, SyncTyped
  <2>. QED
    BY <2>1, <2>2, <2>3 DEF SyncTyped
<1>3. Alone'
  BY <1>1 DEF Alone
<1>. QED
  BY <1>2, <1>3 DEF SyncInv

LEMMA SyncChanges ==
  ASSUME SyncInv, NEW p \in Peers,
         \/ \E k \in Rows : Sync!ChangeRow(p, k) \/ Sync!DeleteRow(p, k)
         \/ \E m \in Mail : Sync!ChangeMail(p, m)
         \/ Sync!SetAccount(p)
  PROVE  SyncInv'
<1>1. ASSUME NEW k \in Rows, NEW r \in Row
      PROVE  [row EXCEPT ![p][k] = r] \in [Peers -> [Rows -> Row]]
  BY DEF SyncInv, SyncTyped
<1>2. ASSUME NEW k \in Rows, Sync!ChangeRow(p, k) PROVE SyncInv'
  <2>1. [at |-> clock, value |-> edits + 1] \in Row
    BY DEF SyncInv, SyncTyped, Row
  <2>2. /\ row' = [row EXCEPT ![p][k] = [at |-> clock, value |-> edits + 1]]
        /\ Sync!Edit /\ UNCHANGED <<net, mail, clock>>
    BY <1>2 DEF Sync!ChangeRow, Sync!Edit
  <2>3. row' \in [Peers -> [Rows -> Row]]
    BY <1>1, <2>1, <2>2
  <2>. QED
    BY <2>2, <2>3, SyncEdits DEF SyncInv, SyncTyped
<1>3. ASSUME NEW k \in Rows, Sync!DeleteRow(p, k) PROVE SyncInv'
  <2>1. Sync!Absent \in Row
    BY DEF Sync!Absent, Row
  <2>2. row' = [row EXCEPT ![p][k] = Sync!Absent] /\ Sync!Edit /\ UNCHANGED <<net, mail, clock>>
    BY <1>3 DEF Sync!DeleteRow
  <2>3. row' \in [Peers -> [Rows -> Row]]
    BY <1>1, <2>1, <2>2
  <2>. QED
    BY <2>2, <2>3, SyncEdits DEF SyncInv, SyncTyped
<1>4. ASSUME NEW m \in Mail, Sync!ChangeMail(p, m) PROVE SyncInv'
  <2>1. mail' \in [Peers -> [Mail -> {"none", "plain", "pinned"}]]
    BY <1>4 DEF Sync!ChangeMail, SyncInv, SyncTyped
  <2>. QED
    BY <1>4, <2>1, SyncEdits DEF Sync!ChangeMail, SyncInv, SyncTyped
<1>5. CASE Sync!SetAccount(p)
  BY <1>5, SyncEdits DEF Sync!SetAccount, SyncInv, SyncTyped
<1>. QED
  BY <1>2, <1>3, <1>4, <1>5

\* A step that takes a command and may answer it.
LEMMA SyncAnswers ==
  ASSUME SyncInv, NEW m \in net, NEW x,
         net' = (net \ {m}) \cup {x} \/ net' = net \ {m},
         UNCHANGED <<clock, edits, undisturbed>>,
         row' \in [Peers -> [Rows -> Row]], mail' \in [Peers -> [Mail -> {"none", "plain", "pinned"}]],
         x.to \in Peers, x.type \in {"REQUEST", "SNAPSHOT", "ACK"},
         x.type = "SNAPSHOT" => x.row \in [Rows -> Row] /\ x.mail \in SUBSET Mail,
         undisturbed => Truthful(x)'
  PROVE  SyncInv'
<1>1. SyncTyped'
  BY DEF SyncInv, SyncTyped
<1>2. undisturbed => \A n \in net' : n = x
  BY DEF SyncInv, Alone
<1>3. Alone'
  BY <1>2 DEF Alone
<1>. QED
  BY <1>1, <1>3 DEF SyncInv

LEMMA RequestInv ==
  ASSUME SyncInv, NEW p \in Peers, Sync!SyncWith(p)
  PROVE  SyncInv'
<1>1. PICK x : x = Sync!Request(p)
  OBVIOUS
<1>2. x.type = "REQUEST" /\ x.to \in Peers
  BY <1>1 DEF Sync!Request, Sync!Other, Peers
<1>3. /\ net' = net \cup {x} /\ undisturbed' = (net = {})
      /\ UNCHANGED <<row, mail, clock, edits>>
  BY <1>1 DEF Sync!SyncWith
<1>4. SyncTyped'
  BY <1>2, <1>3 DEF SyncInv, SyncTyped
<1>5. Alone'
  BY <1>2, <1>3 DEF Alone, Truthful
<1>. QED
  BY <1>4, <1>5 DEF SyncInv

\* What the receiver of a request has, it sends.
LEMMA RequestAnswered ==
  ASSUME SyncInv, NEW m \in net, Sync!ReceiveRequest(m)
  PROVE  SyncInv'
<1> DEFINE to == m.to
<1>1. UNCHANGED <<row, mail, clock, edits, undisturbed>> /\ to \in Peers
  BY DEF Sync!ReceiveRequest, SyncInv, SyncTyped
<1>2. PICK x : /\ net' = (net \ {m}) \cup {x}
               /\ \/ x = Sync!SnapshotOf(to, FALSE, row[to], IdsOf(to))
                  \/ x = Sync!Ack(to, FALSE)
  BY DEF Sync!ReceiveRequest, Sync!Snapshot, IdsOf
<1>3. CASE x = Sync!SnapshotOf(to, FALSE, row[to], IdsOf(to))
  <2>1. /\ x.type = "SNAPSHOT" /\ x.to = Sync!Other(to) /\ x.reply = FALSE
        /\ x.row = row[to] /\ x.mail = IdsOf(to)
    BY <1>3 DEF Sync!SnapshotOf
  <2>2. x.to \in Peers /\ Sync!Other(x.to) = to
    BY <1>1, <2>1 DEF Sync!Other, Peers
  <2>3. x.row \in [Rows -> Row] /\ x.mail \in SUBSET Mail
    BY <1>1, <2>1 DEF SyncInv, SyncTyped, IdsOf
  <2>4. Truthful(x)'
    BY <1>1, <2>1, <2>2 DEF Truthful, IdsOf
  <2>. QED
    BY <1>1, <1>2, <2>1, <2>2, <2>3, <2>4, SyncAnswers DEF SyncInv, SyncTyped
<1>4. CASE x = Sync!Ack(to, FALSE)
  <2>1. x.type = "ACK" /\ x.success = FALSE /\ x.to \in Peers
    BY <1>1, <1>4 DEF Sync!Ack, Sync!Other, Peers
  <2>2. Truthful(x)'
    BY <2>1 DEF Truthful
  <2>. QED
    BY <1>1, <1>2, <2>1, <2>2, SyncAnswers DEF SyncInv, SyncTyped
<1>. QED
  BY <1>2, <1>3, <1>4

\* A snapshot that is not of this account, an acknowledgement, a command that is lost.
LEMMA CommandEnds ==
  ASSUME SyncInv, NEW m \in net,
         Sync!RefuseSnapshot(m) \/ Sync!ReceiveAck(m) \/ Sync!Lose(m)
  PROVE  SyncInv'
<1>1. UNCHANGED <<row, mail, clock, edits, undisturbed>> /\ m.to \in Peers
  BY DEF Sync!RefuseSnapshot, Sync!ReceiveAck, Sync!Lose, SyncInv, SyncTyped
<1>2. PICK x : x = Sync!Ack(m.to, FALSE)
  OBVIOUS
<1>3. x.type = "ACK" /\ x.success = FALSE /\ x.to \in Peers
  BY <1>1, <1>2 DEF Sync!Ack, Sync!Other, Peers
<1>4. net' = (net \ {m}) \cup {x} \/ net' = net \ {m}
  BY <1>2 DEF Sync!RefuseSnapshot, Sync!ReceiveAck, Sync!Lose
<1>5. Truthful(x)'
  BY <1>3 DEF Truthful
<1>. QED
  BY <1>1, <1>3, <1>4, <1>5, SyncAnswers DEF SyncInv, SyncTyped

\* A snapshot is merged: the receiver has what it had and what the sender has, newer rows
\* in place of older ones; its answer says so.
LEMMA SnapshotMerged ==
  ASSUME SyncInv, NEW m \in net, Sync!ReceiveSnapshot(m)
  PROVE  SyncInv'
<1> DEFINE to == m.to
           from == Sync!Other(m.to)
           rows1 == [k \in Rows |-> Sync!Later(row[to][k], m.row[k])]
           mail1 == [x \in Mail |-> IF x \in m.mail THEN "plain" ELSE mail[to][x]]
<1>1. /\ row' = [row EXCEPT ![to] = rows1] /\ mail' = [mail EXCEPT ![to] = mail1]
      /\ UNCHANGED <<clock, edits, undisturbed>> /\ m.type = "SNAPSHOT"
  BY DEF Sync!ReceiveSnapshot, Sync!Merged, Sync!MergedMail
<1>2. /\ to \in Peers /\ from \in Peers /\ to # from /\ Sync!Other(from) = to
      /\ {to, from} = {"a", "b"} /\ m.row \in [Rows -> Row] /\ m.mail \in SUBSET Mail
  BY <1>1 DEF SyncInv, SyncTyped, Sync!Other, Peers
<1>3. \A k \in Rows : row[to][k] \in Row /\ m.row[k] \in Row
  BY <1>2 DEF SyncInv, SyncTyped
<1>4. /\ rows1 \in [Rows -> Row]
      /\ \A k \in Rows : Sync!Later(m.row[k], rows1[k]) = rows1[k]
  BY <1>3, LaterReturns
<1>5. mail1 \in [Mail -> {"none", "plain", "pinned"}]
  BY <1>2 DEF SyncInv, SyncTyped
<1>. HIDE DEF rows1, mail1, to, from
<1>6. /\ row' \in [Peers -> [Rows -> Row]] /\ mail' \in [Peers -> [Mail -> {"none", "plain", "pinned"}]]
      /\ row'[to] = rows1 /\ mail'[to] = mail1 /\ row'[from] = row[from] /\ mail'[from] = mail[from]
  BY <1>1, <1>2, <1>4, <1>5 DEF SyncInv, SyncTyped
<1>7. /\ IdsOf(from)' = IdsOf(from)
      /\ IdsOf(to)' = IdsOf(to) \cup m.mail
  <2>1. IdsOf(from)' = IdsOf(from)
    BY <1>6 DEF IdsOf, from
  <2>2. \A x \in Mail : mail1[x] # "none" <=> (x \in m.mail \/ mail[to][x] # "none")
    BY DEF mail1
  <2>3. IdsOf(to)' = {x \in Mail : mail1[x] # "none"}
    BY <1>6 DEF IdsOf, to
  <2>. QED
    BY <1>2, <2>1, <2>2, <2>3 DEF IdsOf
<1>8. CASE m.reply
  <2>1. PICK x : x = Sync!Ack(to, TRUE)
    OBVIOUS
  <2>2. x.type = "ACK" /\ x.to \in Peers
    BY <1>2, <2>1 DEF Sync!Ack, from, to
  <2>3. net' = (net \ {m}) \cup {x}
    BY <1>8, <2>1 DEF Sync!ReceiveSnapshot, to
  <2>4. ASSUME undisturbed PROVE Truthful(x)'
    <3>1. Truthful(m)
      BY <2>4 DEF SyncInv, Alone
    <3>2. /\ m.row = row[from] /\ m.mail = IdsOf(from) /\ IdsOf(to) \subseteq m.mail
          /\ \A k \in Rows : rows1[k] = m.row[k]
      BY <1>1, <1>8, <3>1 DEF Truthful, from, to, rows1
    <3>3. rows1 = m.row
      BY <1>2, <1>4, <3>2
    <3>4. row'[to] = row'[from] /\ IdsOf(to)' = IdsOf(from)'
      BY <1>6, <1>7, <3>2, <3>3
    <3>5. row'["a"] = row'["b"]
      BY <1>2, <3>4
    <3>6. (IdsOf("a") = IdsOf("b"))'
      BY <1>2, <3>4 DEF IdsOf
    <3>. QED
      BY <2>2, <3>5, <3>6 DEF Truthful
  <2>. QED
    BY <1>1, <1>6, <2>2, <2>3, <2>4, SyncAnswers
<1>9. CASE ~m.reply
  <2>1. PICK x : x = Sync!SnapshotOf(to, TRUE, row'[to], {y \in Mail : mail'[to][y] # "none"})
    OBVIOUS
  <2>2. /\ x.type = "SNAPSHOT" /\ x.to = from /\ x.row = row'[to]
        /\ x.mail = {y \in Mail : mail'[to][y] # "none"}
    BY <2>1 DEF Sync!SnapshotOf, from, to
  <2>3. net' = (net \ {m}) \cup {x}
    BY <1>9, <2>1 DEF Sync!ReceiveSnapshot, to
  <2>4. x.row \in [Rows -> Row] /\ x.mail \in SUBSET Mail
    BY <1>2, <1>6, <2>2
  <2>5. x.mail = IdsOf(to)'
    BY <2>2 DEF IdsOf, to
  <2>6. ASSUME undisturbed PROVE Truthful(x)'
    <3>1. Truthful(m)
      BY <2>6 DEF SyncInv, Alone
    <3>2. m.row = row[from] /\ m.mail = IdsOf(from)
      BY <1>1, <3>1 DEF Truthful, from
    <3>3. \A k \in Rows : Sync!Later(row'[from][k], x.row[k]) = x.row[k]
      BY <1>4, <1>6, <2>2, <3>2
    <3>4. IdsOf(from)' \subseteq x.mail
      BY <1>7, <2>5, <3>2
    <3>. QED
      BY <1>2, <2>2, <2>5, <3>3, <3>4 DEF Truthful, IdsOf, from, to
  <2>. QED
    BY <1>1, <1>2, <1>6, <2>2, <2>3, <2>4, <2>6, SyncAnswers
<1>. QED
  BY <1>8, <1>9

LEMMA SyncStepInv == SyncInv /\ [Sync!Next]_sync => SyncInv'
<1>. SUFFICES ASSUME SyncInv, [Sync!Next]_sync PROVE SyncInv'
  OBVIOUS
<1>1. ASSUME UNCHANGED <<row, mail, net, edits, undisturbed>>, clock' \in Nat PROVE SyncInv'
  BY <1>1 DEF SyncInv, SyncTyped, Alone, Truthful, IdsOf
<1>2. CASE UNCHANGED sync
  BY <1>1, <1>2 DEF sync, SyncInv, SyncTyped
<1>3. CASE Sync!Second
  BY <1>1, <1>3 DEF Sync!Second, SyncInv, SyncTyped
<1>4. ASSUME NEW p \in Peers, Sync!Timeout(p) PROVE SyncInv'
  BY <1>1, <1>4 DEF Sync!Timeout, SyncInv, SyncTyped
<1>. QED
  BY <1>2, <1>3, <1>4, SyncChanges, RequestInv, RequestAnswered, CommandEnds, SnapshotMerged
     DEF Sync!Next, Sync!Peers, Peers

(* When a sync that nothing disturbed is acknowledged, the two              *)
(* installations have the same rows and the same messages, for any rows    *)
(* and any times: what is merged and sent back wins every tie              *)
(* (DatabaseManager::applySyncSnapshot).                                    *)
THEOREM SyncsAgree == MCSpec => []SyncedAgree
<1>1. MCInit => SyncInv
  <2>. SUFFICES ASSUME Sync!Init PROVE SyncInv
    BY DEF MCInit
  <2>1. Sync!Absent \in Row
    BY DEF Sync!Absent, Row
  <2>. QED
    BY <2>1 DEF Sync!Init, Sync!Peers, Peers, SyncInv, SyncTyped, Alone
<1>2. SyncInv
        /\ [MCNext]_<<part, ops, accounts, store, sync, codec, history, talk, registry, discovery>>
      => SyncInv'
  <2>. SUFFICES ASSUME SyncInv,
                [MCNext]_<<part, ops, accounts, store, sync, codec, history, talk, registry, discovery>>
                PROVE  SyncInv'
    OBVIOUS
  <2>1. [Sync!Next]_sync
    BY DEF MCNext, AccountsStep, StoreStep, SyncStep, CodecStep, HistoryStep, TalkStep, RegistryStep,
           DiscoveryStep
  <2>. QED
    BY <2>1, SyncStepInv
<1>3. SyncInv => SyncedAgree
  BY DEF SyncInv, Alone, Truthful, IdsOf, SyncedAgree, Sync!SyncedAgree, Sync!Snapshot
<1>. QED
  BY <1>1, <1>2, <1>3, PTL DEF MCSpec

-----------------------------------------------------------------------------
(* MessengerCommands: the two lists of a group.                            *)

Anyone == Users \cup {Creator}
Shown == Anyone \cup {"Unknown"}

SideBySide(ids, names) ==
  /\ ids \in Seq(Anyone) /\ names \in Seq(Shown)
  /\ Len(names) = Len(ids)
  /\ \A i \in 1..Len(ids) : names[i] \in {ids[i], "Unknown"}

GroupInv == \A g \in group : SideBySide(g.ids, g.names)

\* The members chosen for a new group, in whatever order the set gives them.
LEMMA ChosenAreUsers ==
  ASSUME NEW members \in SUBSET Users
  PROVE  Talk!SetToSeq(members) \in Seq(Users)
<1> DEFINE n == Cardinality(members)
<1>1. IsFiniteSet(members)
  BY StoresAssumption, FS_Subset
<1>2. n \in Nat /\ ExistsBijection(1..n, members)
  BY <1>1, FS_CardinalityType
<1>3. \E f \in [1..n -> members] : IsInjective(f)
  BY <1>2 DEF ExistsBijection, Bijection, Injection
<1>4. Talk!Cardinality(members) = n
  BY DEF Talk!Cardinality, Cardinality
<1>5. Talk!SetToSeq(members) \in [1..n -> members]
  BY <1>3, <1>4 DEF Talk!SetToSeq, Talk!IsInjective, IsInjective
<1>. QED
  BY <1>2, <1>5

\* Both lists get a new end.
LEMMA SideGrows ==
  ASSUME NEW ids, NEW names, SideBySide(ids, names),
         NEW m \in Anyone, NEW named \in {m, "Unknown"}
  PROVE  SideBySide(Append(ids, m), Append(names, named))
BY DEF SideBySide, Anyone, Shown

\* Both lists lose the same place.
LEMMA SideShrinks ==
  ASSUME NEW ids, NEW names, SideBySide(ids, names), NEW i \in DOMAIN ids
  PROVE  SideBySide(Talk!RemoveAt(ids, i), Talk!RemoveAt(names, i))
<1> DEFINE n == Len(ids)
           front(s) == SubSeq(s, 1, i - 1)
           back(s) == SubSeq(s, i + 1, n)
           less(s) == front(s) \o back(s)
<1>1. n \in Nat /\ i \in 1..n /\ Len(names) = n
  BY DEF SideBySide
<1>2. ASSUME NEW S, NEW s \in Seq(S), Len(s) = n
      PROVE  /\ less(s) \in Seq(S) /\ Len(less(s)) = n - 1
             /\ \A j \in 1..(n - 1) : less(s)[j] = IF j < i THEN s[j] ELSE s[j + 1]
  <2>1. /\ front(s) \in Seq(S) /\ Len(front(s)) = i - 1
        /\ \A j \in 1..(i - 1) : front(s)[j] = s[j]
    BY <1>1, <1>2
  <2>2. /\ back(s) \in Seq(S) /\ Len(back(s)) = n - i
        /\ \A j \in 1..(n - i) : back(s)[j] = s[i + j]
    BY <1>1, <1>2
  <2>. HIDE DEF front, back
  <2>3. less(s) \in Seq(S) /\ Len(less(s)) = n - 1
    BY <1>1, <2>1, <2>2
  <2>4. ASSUME NEW j \in 1..(n - 1) PROVE less(s)[j] = IF j < i THEN s[j] ELSE s[j + 1]
    <3>1. CASE j < i
      BY <1>1, <2>1, <2>2, <3>1
    <3>2. CASE ~(j < i)
      <4>1. less(s)[j] = back(s)[j - (i - 1)]
        BY <1>1, <2>1, <2>2, <3>2
      <4>2. j - (i - 1) \in 1..(n - i) /\ i + (j - (i - 1)) = j + 1
        BY <1>1, <3>2
      <4>. QED
        BY <2>2, <3>2, <4>1, <4>2
    <3>. QED
      BY <3>1, <3>2
  <2>. QED
    BY <2>3, <2>4
<1>3. Talk!RemoveAt(ids, i) = less(ids) /\ Talk!RemoveAt(names, i) = less(names)
  BY <1>1 DEF Talk!RemoveAt
<1>4. ids \in Seq(Anyone) /\ names \in Seq(Shown)
  BY DEF SideBySide
<1>. HIDE DEF less
<1>5. \A j \in 1..(n - 1) : less(names)[j] \in {less(ids)[j], "Unknown"}
  <2>. SUFFICES ASSUME NEW j \in 1..(n - 1) PROVE less(names)[j] \in {less(ids)[j], "Unknown"}
    OBVIOUS
  <2>1. j \in 1..n /\ j + 1 \in 1..n
    BY <1>1
  <2>. QED
    BY <1>1, <1>2, <1>4, <2>1 DEF SideBySide
<1>. QED
  BY <1>1, <1>2, <1>3, <1>4, <1>5 DEF SideBySide

LEMMA OnlyGroup ==
  ASSUME NEW ids, NEW names, SideBySide(ids, names),
         group' = {[ids |-> ids, names |-> names]}
  PROVE  GroupInv'
BY DEF GroupInv, SideBySide

LEMMA NewGroupInv ==
  ASSUME NEW members \in SUBSET (Users \ {Creator}), Talk!CreateGroup(members)
  PROVE  GroupInv'
<1> DEFINE s == <<Creator>> \o Talk!SetToSeq(members)
           named == [i \in DOMAIN s |-> Talk!NameOf(s[i])]
<1>1. s \in Seq(Anyone)
  BY ChosenAreUsers DEF Anyone
<1>2. group' = {[ids |-> s, names |-> named]}
  BY DEF Talk!CreateGroup
<1>. HIDE DEF s
<1>3. \A i \in 1..Len(s) : named[i] \in {s[i], "Unknown"} /\ named[i] \in Shown
  BY <1>1 DEF Talk!NameOf, Shown
<1>4. Len(s) \in Nat /\ DOMAIN s = 1..Len(s)
  BY <1>1
<1>5. named \in [1..Len(s) -> Shown]
  BY <1>3, <1>4
<1>. HIDE DEF named
<1>6. named \in Seq(Shown) /\ Len(named) = Len(s)
  BY <1>4, <1>5
<1>7. SideBySide(s, named)
  BY <1>1, <1>3, <1>6 DEF SideBySide
<1>. QED
  BY <1>2, <1>7, OnlyGroup

LEMMA MemberAddedInv ==
  ASSUME FreshList, GroupInv, NEW m \in Users \ {Creator}, Talk!Invite(m)
  PROVE  GroupInv'
<1>1. PICK g \in group :
        /\ m \in known[Creator]
        /\ group' = {[ids |-> Append(g.ids, m), names |-> Append(g.names, m)]}
  BY DEF Talk!Invite
<1>2. SideBySide(Append(g.ids, m), Append(g.names, m))
  BY <1>1, SideGrows DEF GroupInv, Anyone
<1>. QED
  BY <1>1, <1>2, OnlyGroup

LEMMA MemberGoneInv ==
  ASSUME GroupInv, NEW m \in Users \ {Creator}, Talk!RemoveMember(m)
  PROVE  GroupInv'
<1>1. PICK g \in group :
        /\ m \in Talk!ToSet(g.ids) \ {Creator}
        /\ LET i == CHOOSE j \in DOMAIN g.ids : g.ids[j] = m
           IN group' = {[ids |-> Talk!RemoveAt(g.ids, i),
                         names |-> IF i <= Len(g.names)
                                   THEN Talk!RemoveAt(g.names, i) ELSE g.names]}
  BY DEF Talk!RemoveMember
<1> DEFINE i == CHOOSE j \in DOMAIN g.ids : g.ids[j] = m
<1>2. SideBySide(g.ids, g.names)
  BY <1>1 DEF GroupInv
<1>3. i \in DOMAIN g.ids
  BY <1>1 DEF Talk!ToSet
<1>4. i <= Len(g.names)
  BY <1>2, <1>3 DEF SideBySide
<1>5. group' = {[ids |-> Talk!RemoveAt(g.ids, i), names |-> Talk!RemoveAt(g.names, i)]}
  BY <1>1, <1>4
<1>. HIDE DEF i
<1>6. SideBySide(Talk!RemoveAt(g.ids, i), Talk!RemoveAt(g.names, i))
  BY <1>2, <1>3, SideShrinks
<1>. QED
  BY <1>5, <1>6, OnlyGroup

LEMMA TalkStepInv == FreshList /\ GroupInv /\ [Talk!Next]_talk => GroupInv'
<1>. SUFFICES ASSUME FreshList, GroupInv, [Talk!Next]_talk PROVE GroupInv'
  OBVIOUS
<1>1. CASE UNCHANGED group
  BY <1>1 DEF GroupInv
<1>2. CASE UNCHANGED talk
  BY <1>1, <1>2 DEF talk
<1>3. ASSUME NEW d, NEW e, Talk!Hello(d, e) \/ Talk!Stale(d, e) \/ Talk!Restart(d)
               \/ Talk!AcceptFriend(d, e) \/ Talk!RejectFriend(d, e)
               \/ \E c \in Commands : Talk!Say(d, e, c)
      PROVE  UNCHANGED group
  BY <1>3 DEF Talk!Hello, Talk!Stale, Talk!Restart, Talk!AcceptFriend, Talk!RejectFriend, Talk!Say
<1>4. ASSUME NEW w, Talk!Receive(w) \/ Talk!Fail(w) PROVE UNCHANGED group
  BY <1>4 DEF Talk!Receive, Talk!Fail
<1>5. ASSUME NEW c, Talk!TellGroup(c) \/ Talk!SayToGroup PROVE UNCHANGED group
  BY <1>5 DEF Talk!TellGroup, Talk!SayToGroup
<1>6. CASE Talk!Dissolve
  BY <1>6 DEF Talk!Dissolve, GroupInv
<1>7. ASSUME NEW m \in Users \ {Creator}, Talk!Invite(m) \/ Talk!RemoveMember(m)
      PROVE  GroupInv'
  <2>1. CASE Talk!Invite(m)
    BY <2>1, MemberAddedInv
  <2>2. CASE Talk!RemoveMember(m)
    BY <2>2, MemberGoneInv
  <2>. QED
    BY <1>7, <2>1, <2>2
<1>8. CASE \E ms \in SUBSET (Users \ {Creator}) : Talk!CreateGroup(ms)
  BY <1>8, NewGroupInv
<1>. QED
  BY <1>1, <1>2, <1>3, <1>4, <1>5, <1>6, <1>7, <1>8 DEF Talk!Next

(* The names of a group stay beside the members they belong to, when the    *)
(* contacts offered for it are still in m_devices: an invitation appends    *)
(* the id in any case and the name only to a device it finds there          *)
(* (IPMsgManager::inviteToGroup).                                          *)
THEOREM NamesStayBeside ==
  ASSUME FreshList
  PROVE  MCSpec => []NamesMatchMembers
<1>1. MCInit => GroupInv
  BY DEF MCInit, Talk!Init, GroupInv
<1>2. GroupInv
        /\ [MCNext]_<<part, ops, accounts, store, sync, codec, history, talk, registry, discovery>>
      => GroupInv'
  <2>. SUFFICES ASSUME GroupInv,
                [MCNext]_<<part, ops, accounts, store, sync, codec, history, talk, registry, discovery>>
                PROVE  GroupInv'
    OBVIOUS
  <2>1. [Talk!Next]_talk
    BY DEF MCNext, AccountsStep, StoreStep, SyncStep, CodecStep, HistoryStep, TalkStep, RegistryStep,
           DiscoveryStep
  <2>. QED
    BY <2>1, TalkStepInv
<1>3. GroupInv => NamesMatchMembers
  <2>. SUFFICES ASSUME GroupInv, NEW g \in group
                PROVE  /\ Len(g.names) = Len(g.ids)
                       /\ \A i \in DOMAIN g.ids : g.names[i] \in {g.ids[i], "Unknown"}
    BY DEF NamesMatchMembers, Talk!NamesMatchMembers
  <2>1. SideBySide(g.ids, g.names)
    BY DEF GroupInv
  <2>. QED
    BY <2>1 DEF SideBySide
<1>. QED
  BY <1>1, <1>2, <1>3, PTL DEF MCSpec

-----------------------------------------------------------------------------
(* MessengerStore: what a save binds is what a reader gives back, but for  *)
(* the columns of `Apart'.                                                 *)

Bound(t, apart) ==
  \A c \in t.read : c \in t.saved <=> c \notin apart

LEMMA AllBound == \A n \in DOMAIN Store!Tables : Bound(Store!Tables[n], Store!Apart[n])
<1>1. Bound(Store!Messages, {"is_read", "is_pinned"})
  BY DEF Bound, Store!Messages, Store!Table, Store!MessageColumns
<1>2. Bound(Store!DeviceRows, {"is_friend", "friend_remark"})
  BY DEF Bound, Store!DeviceRows, Store!Table
<1>3. Bound(Store!OfflineMessages, {"delivered_at"})
  BY DEF Bound, Store!OfflineMessages, Store!Table
<1>4. /\ Bound(Store!GroupRows, {}) /\ Bound(Store!Settings, {}) /\ Bound(Store!Transfers, {})
      /\ Bound(Store!Sessions, {})
  BY DEF Bound, Store!Table, Store!GroupRows, Store!Settings, Store!Transfers, Store!Sessions
<1>5. /\ Bound(Store!VoiceMessages, {}) /\ Bound(Store!VideoMessages, {})
      /\ Bound(Store!LocationMessages, {}) /\ Bound(Store!CardMessages, {})
      /\ Bound(Store!MergeForwards, {})
  BY DEF Bound, Store!Table, Store!VoiceMessages, Store!VideoMessages, Store!LocationMessages,
         Store!CardMessages, Store!MergeForwards, Store!Rich
<1>6. /\ Bound(Store!Announcements, {}) /\ Bound(Store!Mentions, {}) /\ Bound(Store!Votes, {})
      /\ Bound(Store!GroupFiles, {}) /\ Bound(Store!Albums, {}) /\ Bound(Store!Todos, {})
  BY DEF Bound, Store!Table, Store!Announcements, Store!Mentions, Store!Votes, Store!GroupFiles,
         Store!Albums, Store!Todos, Store!Shared
<1>7. /\ Bound(Store!SyncRequests, {}) /\ Bound(Store!SyncAcks, {})
      /\ Bound(Store!SyncSnapshots, {}) /\ Bound(Store!BlockedUsers, {})
      /\ Bound(Store!BlacklistedIps, {}) /\ Bound(Store!DevicePermissions, {})
  BY DEF Bound, Store!Table, Store!SyncRequests, Store!SyncAcks, Store!SyncSnapshots,
         Store!BlockedUsers, Store!BlacklistedIps, Store!DevicePermissions
<1>. SUFFICES ASSUME NEW n \in DOMAIN Store!Tables
              PROVE  Bound(Store!Tables[n], Store!Apart[n])
  OBVIOUS
<1>8. CASE n = "messages"
  BY <1>1, <1>8 DEF Store!Tables, Store!Apart
<1>9. CASE n = "devices"
  BY <1>2, <1>9 DEF Store!Tables, Store!Apart
<1>10. CASE n = "offline_messages"
  BY <1>3, <1>10 DEF Store!Tables, Store!Apart
<1>11. CASE n \notin {"messages", "devices", "offline_messages"}
  <2>1. Store!Apart[n] = {}
    BY <1>11 DEF Store!Apart
  <2>2. Bound(Store!Tables[n], {})
    BY <1>4, <1>5, <1>6, <1>7, <1>11 DEF Store!Tables
  <2>. QED
    BY <2>1, <2>2
<1>. QED
  BY <1>8, <1>9, <1>10, <1>11

\* The columns of the table, and those a reader gives back.
Column(n) ==
  LET t == Store!Tables[n] IN t.saved \cup t.fixed \cup t.read \cup UNION t.updates
Given(n) == Store!Tables[n].read

StoreInv ==
  /\ name \in DOMAIN Store!Tables
  /\ DOMAIN given = DOMAIN rows
  /\ \A k \in DOMAIN given : \A c \in Given(name) : rows[k][c] = given[k][c]

LEMMA StoreStepInv == StoreInv /\ [Store!Next]_store => StoreInv'
<1>. SUFFICES ASSUME StoreInv, [Store!Next]_store PROVE StoreInv'
  OBVIOUS
<1>1. CASE UNCHANGED store
  BY <1>1 DEF store, StoreInv, Given
<1>2. ASSUME NEW k, Store!Save(k) PROVE StoreInv'
  <2> DEFINE new == [c \in Column(name) |->
                       IF c \in Store!Tables[name].saved THEN ops' ELSE 0]
             say == [c \in Given(name) |-> IF c \in Store!Apart[name] THEN 0 ELSE ops']
  <2>1. rows' = Store!With(rows, k, new) /\ given' = Store!With(given, k, say) /\ name' = name
    BY <1>2 DEF Store!Save, Store!Columns, Store!Layout, Store!Default, Column, Given
  <2>2. \A c \in Given(name) : new[c] = say[c]
    BY AllBound DEF StoreInv, Bound, Column, Given
  <2>. HIDE DEF new, say
  <2>. QED
    BY <2>1, <2>2 DEF StoreInv, Given, Store!With
<1>3. ASSUME NEW k, NEW columns, Store!Update(k, columns) PROVE StoreInv'
  <2> DEFINE new == [c \in Column(name) |-> IF c \in columns THEN ops' ELSE rows[k][c]]
             say == [c \in Given(name) |-> IF c \in columns THEN ops' ELSE given[k][c]]
  <2>1. /\ rows' = [rows EXCEPT ![k] = new] /\ given' = [given EXCEPT ![k] = say]
        /\ k \in DOMAIN rows /\ name' = name
    BY <1>3 DEF Store!Update, Store!Columns, Store!Layout, Column, Given
  <2>2. \A c \in Given(name) : new[c] = say[c]
    BY <2>1 DEF StoreInv, Column, Given
  <2>. HIDE DEF new, say
  <2>. QED
    BY <2>1, <2>2 DEF StoreInv, Given
<1>4. ASSUME NEW gone, rows' = Store!Restrict(rows, DOMAIN rows \ gone),
             given' = Store!Restrict(given, DOMAIN given \ gone), name' = name
      PROVE  StoreInv'
  BY <1>4 DEF StoreInv, Given, Store!Restrict
<1>5. ASSUME NEW k, Store!Remove(k) PROVE StoreInv'
  BY <1>4, <1>5 DEF Store!Remove
<1>6. ASSUME NEW old, Store!CleanupExpired(old) PROVE StoreInv'
  BY <1>4, <1>6 DEF Store!CleanupExpired
<1>. QED
  BY <1>1, <1>2, <1>3, <1>5, <1>6 DEF Store!Next

-----------------------------------------------------------------------------
(* DeviceRegistry: the table and the file say what was told.               *)

Agree(t, said) ==
  /\ DOMAIN t = DOMAIN said
  /\ \A d \in DOMAIN t : t[d].group = said[d].group /\ t[d].notes = said[d].notes
Noted(docs, said) ==
  /\ {doc.deviceId : doc \in docs} = DOMAIN said
  /\ \A doc \in docs : /\ doc.group = said[doc.deviceId].group
                       /\ doc.notes = said[doc.deviceId].notes

RememberInv ==
  /\ RegistryInv
  /\ told \in [DOMAIN told -> Texts]
  /\ Noted(disk, told)
  /\ running => Agree(table, told)

LEMMA LoadAgrees ==
  ASSUME NEW docs \in SUBSET Doc, NEW said, Noted(docs, said)
  PROVE  Agree(Registry!Load(docs), said)
<1> DEFINE ids == {doc.deviceId : doc \in docs}
           the(d) == CHOOSE doc \in docs : doc.deviceId = d
<1>1. ASSUME NEW d \in ids PROVE the(d) \in docs /\ the(d).deviceId = d
  <2>1. \E doc \in docs : doc.deviceId = d
    OBVIOUS
  <2>. QED
    BY <2>1
<1>2. Registry!Load(docs) = [d \in ids |-> Registry!FromJson(the(d))]
  BY DEF Registry!Load
<1>. HIDE DEF the
<1>3. ASSUME NEW d \in ids
      PROVE  /\ Registry!FromJson(the(d)).group = said[d].group
             /\ Registry!FromJson(the(d)).notes = said[d].notes
  BY <1>1 DEF Noted, Registry!FromJson
<1>. QED
  BY <1>2, <1>3 DEF Agree, Noted

LEMMA WrittenNoted ==
  ASSUME NEW t, NEW said, Agree(t, said)
  PROVE  Noted(Registry!Written(t), said)
<1>1. \A d \in DOMAIN t : /\ Registry!ToJson(d, t[d]).deviceId = d
                          /\ Registry!ToJson(d, t[d]).group = t[d].group
                          /\ Registry!ToJson(d, t[d]).notes = t[d].notes
  BY DEF Registry!ToJson
<1>2. \A doc \in Registry!Written(t) : \E d \in DOMAIN t : doc = Registry!ToJson(d, t[d])
  BY DEF Registry!Written
<1>3. \A d \in DOMAIN t : Registry!ToJson(d, t[d]) \in Registry!Written(t)
  BY DEF Registry!Written
<1>. QED
  BY <1>1, <1>2, <1>3 DEF Noted, Agree

\* A line that is answered is in the table and in the file.
LEMMA SavedRemembers ==
  ASSUME ~CutWrites, RegistryInv', NEW t, Registry!Saved(t), NEW said,
         said \in [DOMAIN said -> Texts], told' = said, Agree(t, said)
  PROVE  RememberInv'
<1>1. table' = t /\ disk' = Registry!Written(t)
  BY DEF Registry!Saved
<1>2. Noted(disk', told')
  BY <1>1, WrittenNoted
<1>. QED
  BY <1>1, <1>2 DEF RememberInv, Agree, Noted

LEMMA RegisterRemembers ==
  ASSUME ~CutWrites, RememberInv, RegistryInv', NEW d \in Ids, NEW t \in Texts,
         Registry!Register(d, t)
  PROVE  RememberInv'
<1> DEFINE kept == Registry!Filled(t, IF d \in Registry!Known THEN table[d] ELSE Registry!Empty)
           say == Registry!Filled(t, IF d \in DOMAIN told THEN told[d] ELSE Registry!Empty)
           new == [group |-> kept.group, notes |-> kept.notes, online |-> TRUE, beat |-> now]
<1>1. Agree(table, told) /\ told \in [DOMAIN told -> Texts]
  BY DEF Registry!Register, Registry!Line, RememberInv
<1>2. Registry!Saved(Registry!With(table, d, new)) /\ told' = Registry!With(told, d, say)
  BY DEF Registry!Register
<1>3. kept = say
  BY <1>1 DEF Agree, Registry!Known, Registry!Filled
<1>4. say \in Texts
  <2> DEFINE old == IF d \in DOMAIN told THEN told[d] ELSE Registry!Empty
  <2>1. old.group \in GroupNames \cup {""} /\ old.notes \in Notes \cup {""}
    BY <1>1 DEF Registry!Empty, Registry!None, Texts
  <2>. HIDE DEF old
  <2>2. Registry!Filled(t, old) \in Texts
    BY <2>1 DEF Registry!Filled, Registry!None, Texts
  <2>. QED
    BY <2>2 DEF old
<1>. HIDE DEF kept, say
<1>5. new.group = say.group /\ new.notes = say.notes
  BY <1>3
<1>. HIDE DEF new
<1> DEFINE said == Registry!With(told, d, say)
<1>6. said \in [DOMAIN said -> Texts]
  BY <1>1, <1>4 DEF Registry!With
<1>7. Agree(Registry!With(table, d, new), said)
  BY <1>1, <1>5 DEF Agree, Registry!With
<1>8. told' = said
  BY <1>2
<1>. HIDE DEF said
<1>. QED
  BY <1>2, <1>6, <1>7, <1>8, SavedRemembers

LEMMA UpdateRemembers ==
  ASSUME ~CutWrites, RememberInv, RegistryInv', NEW d \in Ids, NEW t \in Texts,
         NEW fields \in SUBSET DOMAIN t, Registry!Update(d, fields, t)
  PROVE  RememberInv'
<1> DEFINE Set(r) == [f \in DOMAIN r |-> IF f \in fields THEN t[f] ELSE r[f]]
           new == [table EXCEPT ![d] = Set(@)]
           said == [told EXCEPT ![d] = Set(@)]
<1>1. /\ Agree(table, told) /\ told \in [DOMAIN told -> Texts]
      /\ IsTable(table) /\ d \in DOMAIN table /\ d \in DOMAIN told
  BY DEF Registry!Update, Registry!Line, Registry!Known, RememberInv, Agree, RegistryInv,
         RegistryTyped
<1>2. Registry!Saved(new) /\ told' = said
  BY DEF Registry!Update
<1>3. t.group \in GroupNames \cup {""} /\ t.notes \in Notes \cup {""}
  BY DEF Texts
<1>4. ASSUME NEW r \in Texts
      PROVE  /\ Set(r) \in Texts
             /\ Set(r).group = IF "group" \in fields THEN t.group ELSE r.group
             /\ Set(r).notes = IF "notes" \in fields THEN t.notes ELSE r.notes
  <2>1. DOMAIN r = {"group", "notes"} /\ t.group = t["group"] /\ r.group = r["group"]
        /\ t.notes = t["notes"] /\ r.notes = r["notes"]
    BY DEF Texts
  <2>2. Set(r) = [group |-> IF "group" \in fields THEN t["group"] ELSE r["group"],
                  notes |-> IF "notes" \in fields THEN t["notes"] ELSE r["notes"]]
    BY <2>1
  <2> DEFINE g == IF "group" \in fields THEN t["group"] ELSE r["group"]
             n == IF "notes" \in fields THEN t["notes"] ELSE r["notes"]
  <2>3. g \in GroupNames \cup {""} /\ n \in Notes \cup {""}
    BY DEF Texts
  <2>4. /\ g = IF "group" \in fields THEN t.group ELSE r.group
        /\ n = IF "notes" \in fields THEN t.notes ELSE r.notes
    BY <2>1
  <2>5. Set(r) = [group |-> g, notes |-> n]
    BY <2>2
  <2>. HIDE DEF Set, g, n
  <2>6. [group |-> g, notes |-> n] \in Texts
    BY <2>3 DEF Texts
  <2>7. Set(r).group = g /\ Set(r).notes = n
    BY <2>5
  <2>. QED
    BY <2>4, <2>5, <2>6, <2>7
<1>5. ASSUME NEW r \in Device
      PROVE  /\ Set(r).group = IF "group" \in fields THEN t.group ELSE r.group
             /\ Set(r).notes = IF "notes" \in fields THEN t.notes ELSE r.notes
  BY DEF Device
<1>. HIDE DEF Set
<1>6. table[d] \in Device /\ told[d] \in Texts
  BY <1>1 DEF IsTable
<1>7. Set(table[d]).group = Set(told[d]).group /\ Set(table[d]).notes = Set(told[d]).notes
  BY <1>1, <1>4, <1>5, <1>6 DEF Agree
<1>8. said \in [DOMAIN said -> Texts]
  BY <1>1, <1>4, <1>6
<1>9. Agree(new, said)
  BY <1>1, <1>7 DEF Agree
<1>. HIDE DEF new, said
<1>. QED
  BY <1>2, <1>8, <1>9, SavedRemembers

LEMMA RemoveRemembers ==
  ASSUME ~CutWrites, RememberInv, RegistryInv', NEW d \in Ids, Registry!Remove(d)
  PROVE  RememberInv'
<1> DEFINE new == Registry!Without(table, d)
           said == Registry!Without(told, d)
<1>1. Agree(table, told) /\ told \in [DOMAIN told -> Texts]
  BY DEF Registry!Remove, Registry!Line, RememberInv
<1>2. Registry!Saved(new) /\ told' = said
  BY DEF Registry!Remove
<1>3. said \in [DOMAIN said -> Texts] /\ Agree(new, said)
  BY <1>1 DEF Agree, Registry!Without, Registry!Restrict
<1>. HIDE DEF new, said
<1>. QED
  BY <1>2, <1>3, SavedRemembers

LEMMA RegroupRemembers ==
  ASSUME ~CutWrites, RememberInv, RegistryInv', NEW old \in GroupNames \cup {""},
         NEW to \in GroupNames \cup {""}, Registry!Regroup(old, to)
  PROVE  RememberInv'
<1> DEFINE Set(f) ==
             [d \in DOMAIN f |-> IF f[d].group = old THEN [f[d] EXCEPT !.group = to] ELSE f[d]]
           new == Set(table)
           said == Set(told)
<1>1. Agree(table, told) /\ told \in [DOMAIN told -> Texts] /\ IsTable(table)
  BY DEF Registry!Regroup, Registry!Line, RememberInv, RegistryInv, RegistryTyped
<1>2. Registry!Saved(new) /\ told' = said
  BY DEF Registry!Regroup
<1>3. ASSUME NEW r \in Texts
      PROVE  /\ [r EXCEPT !.group = to] \in Texts
             /\ [r EXCEPT !.group = to].group = to /\ [r EXCEPT !.group = to].notes = r.notes
  BY DEF Texts
<1>4. ASSUME NEW r \in Device
      PROVE  [r EXCEPT !.group = to].group = to /\ [r EXCEPT !.group = to].notes = r.notes
  BY DEF Device
<1>5. /\ \A d \in DOMAIN table : table[d] \in Device
      /\ \A d \in DOMAIN told : told[d] \in Texts
  BY <1>1 DEF IsTable
<1>6. said \in [DOMAIN said -> Texts]
  BY <1>3, <1>5
<1>7. DOMAIN new = DOMAIN table /\ DOMAIN said = DOMAIN told
  OBVIOUS
<1>8. ASSUME NEW d \in DOMAIN table
      PROVE  new[d].group = said[d].group /\ new[d].notes = said[d].notes
  <2>1. /\ d \in DOMAIN told
        /\ table[d].group = told[d].group /\ table[d].notes = told[d].notes
    BY <1>1 DEF Agree
  <2>2. CASE table[d].group = old
    <3>1. new[d] = [table[d] EXCEPT !.group = to] /\ said[d] = [told[d] EXCEPT !.group = to]
      BY <2>1, <2>2
    <3>2. table[d] \in Device /\ told[d] \in Texts
      BY <1>5, <2>1
    <3>. HIDE DEF new, said
    <3>3. new[d].group = to /\ new[d].notes = table[d].notes
      BY <1>4, <3>1, <3>2
    <3>4. said[d].group = to /\ said[d].notes = told[d].notes
      BY <1>3, <3>1, <3>2
    <3>. QED
      BY <2>1, <3>3, <3>4
  <2>3. CASE table[d].group # old
    <3>1. new[d] = table[d] /\ said[d] = told[d]
      BY <2>1, <2>3
    <3>. QED
      BY <2>1, <3>1
  <2>. QED
    BY <2>2, <2>3
<1>. HIDE DEF new, said
<1>9. Agree(new, said)
  BY <1>1, <1>7, <1>8 DEF Agree
<1>. QED
  BY <1>2, <1>6, <1>9, SavedRemembers

\* A beat and a pass of the timer change no text, and are not written.
LEMMA TextsStay ==
  ASSUME RememberInv, RegistryInv', running, running', UNCHANGED <<disk, told>>,
         DOMAIN table' = DOMAIN table,
         \A d \in DOMAIN table : /\ table'[d].group = table[d].group
                                 /\ table'[d].notes = table[d].notes
  PROVE  RememberInv'
BY DEF RememberInv, Agree, Noted

LEMMA BeatRemembers ==
  ASSUME RememberInv, RegistryInv',
         Registry!Cleanup \/ \E d \in Ids : Registry!Heartbeat(d)
  PROVE  RememberInv'
<1>1. \A d \in DOMAIN table : table[d] \in Device
  BY DEF IsTable, RegistryInv, RegistryTyped, RememberInv
<1>2. CASE Registry!Cleanup
  <2>1. /\ running /\ running' /\ UNCHANGED <<disk, told>>
        /\ table' = [d \in DOMAIN table |->
                       [table[d] EXCEPT !.online = @ /\ d \notin Registry!Stale]]
    BY <1>2 DEF Registry!Cleanup, Registry!Known
  <2>2. ASSUME NEW d \in DOMAIN table
        PROVE  table'[d].group = table[d].group /\ table'[d].notes = table[d].notes
    <3> DEFINE on == table[d].online /\ d \notin Registry!Stale
    <3>1. table'[d] = [table[d] EXCEPT !.online = on]
      BY <2>1
    <3>. HIDE DEF on
    <3>. QED
      BY <1>1, <3>1 DEF Device
  <2>. QED
    BY <2>1, <2>2, TextsStay
<1>3. CASE \E d \in Ids : Registry!Heartbeat(d)
  <2>1. PICK d \in Ids : Registry!Heartbeat(d)
    BY <1>3
  <2> DEFINE r == [table[d] EXCEPT !.online = TRUE, !.beat = now]
  <2>2. running /\ UNCHANGED <<running, disk, told>> /\ d \in DOMAIN table /\ IsTable(table)
    BY <2>1 DEF Registry!Heartbeat, Registry!Line, Registry!Known, RememberInv, RegistryInv,
                RegistryTyped
  <2>3. table' = [e \in DOMAIN table |-> IF e = d THEN r ELSE table[e]]
    BY <2>1, <2>2 DEF Registry!Heartbeat, IsTable
  <2>4. r.group = table[d].group /\ r.notes = table[d].notes
    BY <1>1, <2>2 DEF Device
  <2>. HIDE DEF r
  <2>. QED
    BY <2>2, <2>3, <2>4, TextsStay
<1>. QED
  BY <1>2, <1>3

LEMMA RestartRemembers ==
  ASSUME ~CutWrites, RememberInv, RegistryInv',
         Registry!Stop \/ Registry!Crash \/ Registry!Start
  PROVE  RememberInv'
<1>1. CASE Registry!Stop
  <2>1. Registry!Saved(table) /\ told' = told /\ Agree(table, told)
    BY <1>1 DEF Registry!Stop, RememberInv
  <2>. QED
    BY <2>1, SavedRemembers DEF RememberInv
<1>2. CASE Registry!Crash
  BY <1>2 DEF Registry!Crash, RememberInv, Noted
<1>3. CASE Registry!Start
  <2>1. Agree(table', told)
    BY <1>3, LoadAgrees DEF Registry!Start, RememberInv, RegistryInv, RegistryTyped
  <2>. QED
    BY <1>3, <2>1 DEF Registry!Start, RememberInv, Noted, Agree
<1>. QED
  BY <1>1, <1>2, <1>3

LEMMA RememberStepInv == ~CutWrites /\ RememberInv /\ [Registry!Next]_registry => RememberInv'
<1>. SUFFICES ASSUME ~CutWrites, RememberInv, [Registry!Next]_registry PROVE RememberInv'
  OBVIOUS
<1>1. RegistryInv'
  BY RegistryStepInv DEF RememberInv
<1>2. CASE UNCHANGED <<running, table, disk, told>>
  BY <1>1, <1>2 DEF RememberInv, Noted, Agree
<1>3. CASE UNCHANGED registry \/ Registry!Tick
  BY <1>2, <1>3 DEF registry, Registry!Tick
<1>4. CASE Registry!Next
  <2>1. /\ Registry!Texts = Texts
        /\ GroupNames \cup {Registry!None} = GroupNames \cup {""}
    BY DEF Registry!Texts, Texts, Registry!None
  <2>2. ASSUME NEW d \in Ids, Registry!Remove(d) PROVE RememberInv'
    BY <1>1, <2>2, RemoveRemembers
  <2>3. ASSUME NEW d \in Ids, NEW t \in Texts, Registry!Register(d, t) PROVE RememberInv'
    BY <1>1, <2>3, RegisterRemembers
  <2>4. ASSUME NEW d \in Ids, NEW t \in Texts, NEW fields \in SUBSET DOMAIN t,
               Registry!Update(d, fields, t)
        PROVE  RememberInv'
    BY <1>1, <2>4, UpdateRemembers
  <2>5. ASSUME NEW old \in GroupNames \cup {""}, NEW to \in GroupNames \cup {""},
               Registry!Regroup(old, to)
        PROVE  RememberInv'
    BY <1>1, <2>5, RegroupRemembers
  <2>. QED
    BY <1>1, <1>3, <1>4, <2>1, <2>2, <2>3, <2>4, <2>5, BeatRemembers, RestartRemembers
       DEF Registry!Next
<1>. QED
  BY <1>3, <1>4

(* What is given to a store is what it gives back: in each table of the     *)
(* messenger the columns a reader returns have the values given last       *)
(* (database_manager.cpp), and a relay that runs knows the group and the   *)
(* notes each device was last given, across ends and starts of its program *)
(* (device_registry.cpp).  No save is cut off: the registry writes its     *)
(* file in place and tells nobody that it failed.                          *)
THEOREM StoresRemember ==
  ASSUME ~CutWrites
  PROVE  MCSpec => []StoreRemembers
<1>1. MCInit => StoreInv /\ RememberInv
  <2>. SUFFICES ASSUME Store!Init, Registry!Init PROVE StoreInv /\ RememberInv
    BY DEF MCInit
  <2>1. StoreInv
    BY DEF Store!Init, StoreInv
  <2>2. /\ DOMAIN told = {} /\ told \in [DOMAIN told -> Texts] /\ disk = {}
        /\ table = Registry!Load(disk)
    BY DEF Registry!Init
  <2>3. Noted(disk, told)
    BY <2>2 DEF Noted
  <2>4. Agree(table, told)
    BY <2>2, <2>3, LoadAgrees
  <2>. QED
    BY <2>1, <2>2, <2>3, <2>4, RegistryStarts DEF RememberInv
<1>2. StoreInv /\ RememberInv
        /\ [MCNext]_<<part, ops, accounts, store, sync, codec, history, talk, registry, discovery>>
      => StoreInv' /\ RememberInv'
  <2>. SUFFICES ASSUME StoreInv, RememberInv,
                [MCNext]_<<part, ops, accounts, store, sync, codec, history, talk, registry, discovery>>
                PROVE  StoreInv' /\ RememberInv'
    OBVIOUS
  <2>1. [Store!Next]_store /\ [Registry!Next]_registry
    BY DEF MCNext, AccountsStep, StoreStep, SyncStep, CodecStep, HistoryStep, TalkStep, RegistryStep,
           DiscoveryStep
  <2>. QED
    BY <2>1, StoreStepInv, RememberStepInv
<1>3. StoreInv /\ RememberInv => StoreRemembers
  <2>. SUFFICES ASSUME StoreInv, RememberInv PROVE StoreRemembers
    OBVIOUS
  <2>1. Store!StoreRemembers
    BY DEF StoreInv, Given, Store!StoreRemembers, Store!Layout
  <2>2. Registry!RegistryRemembers
    <3>1. ASSUME NEW d \in DOMAIN told PROVE DOMAIN told[d] = {"group", "notes"}
      BY <3>1 DEF RememberInv, Texts
    <3>. QED
      BY <3>1 DEF RememberInv, Agree, Registry!RegistryRemembers, Registry!Known
  <2>. QED
    BY <2>1, <2>2 DEF StoreRemembers
<1>. QED
  BY <1>1, <1>2, <1>3, PTL DEF MCSpec

-----------------------------------------------------------------------------
(* ClipboardHistory: what the user marked.                                 *)

Kept == [clip : Clips, favorite : BOOLEAN]

HistoryInv ==
  /\ entries \in Seq(Kept) /\ Len(entries) <= MaxEntries + Slack
  /\ file \in Seq(Kept) /\ Len(file) <= MaxEntries + Slack

LEMMA GreatestOf ==
  ASSUME NEW n \in Nat, NEW S \in SUBSET (0 .. n), S # {}
  PROVE  History!Max(S) \in S /\ \A i \in S : i <= History!Max(S)
<1>. DEFINE T == {n - i : i \in S}
            R == OpToRel(<, Nat)
<1>1. T \subseteq Nat /\ T # {}
  <2>. HIDE DEF R
  <2>1. \A i \in S : i \in 0 .. n /\ n - i \in Nat
    OBVIOUS
  <2>. QED
    BY <2>1
<1>2. IsWellFoundedOn(R, Nat)
  BY NatLessThanWellFounded
<1>3. PICK t \in T : \A u \in T : <<u, t>> \notin R
  <2>. HIDE DEF R, T
  <2>. QED
    BY <1>1, <1>2, WFMin
<1>4. PICK m \in S : t = n - m
  OBVIOUS
<1>5. ASSUME NEW i \in S PROVE m >= i
  <2>1. n - i \in T /\ n - i \in Nat /\ t \in Nat
    BY <1>1
  <2>2. ~(n - i < t)
    BY <1>3, <2>1 DEF OpToRel
  <2>. QED
    BY <1>4, <2>1, <2>2
<1>6. History!Max(S) \in S /\ \A i \in S : History!Max(S) >= i
  <2>1. \E x \in S : \A i \in S : x >= i
    BY <1>5
  <2>. QED
    BY <2>1 DEF History!Max
<1>. QED
  BY <1>6

\* The end and the front of a sequence, and two sequences joined.
LEMMA EndOf ==
  ASSUME NEW M, NEW s \in Seq(M), NEW k \in 1 .. Len(s)
  PROVE  /\ SubSeq(s, k + 1, Len(s)) \in Seq(M) /\ Len(SubSeq(s, k + 1, Len(s))) = Len(s) - k
         /\ \A i \in 1 .. Len(s) - k : SubSeq(s, k + 1, Len(s))[i] = s[k + i]
  OBVIOUS

LEMMA FrontOf ==
  ASSUME NEW M, NEW s \in Seq(M), NEW k \in 0 .. Len(s)
  PROVE  /\ SubSeq(s, 1, k) \in Seq(M) /\ Len(SubSeq(s, 1, k)) = k
         /\ DOMAIN SubSeq(s, 1, k) = 1 .. k
         /\ \A i \in 1 .. k : SubSeq(s, 1, k)[i] = s[i]
  OBVIOUS

LEMMA Joined ==
  ASSUME NEW M, NEW s \in Seq(M), NEW t \in Seq(M)
  PROVE  /\ s \o t \in Seq(M) /\ Len(s \o t) = Len(s) + Len(t)
         /\ DOMAIN (s \o t) = 1 .. Len(s) + Len(t)
         /\ \A i \in 1 .. Len(s) + Len(t) :
              (s \o t)[i] = IF i <= Len(s) THEN s[i] ELSE t[i - Len(s)]
  OBVIOUS

\* Only unmarked entries go, and one does if an unmarked one is last and too many.
LEMMA TrimmedKeeps ==
  ASSUME NEW list \in Seq(Kept)
  PROVE  /\ History!Trimmed(list) \in Seq(Kept)
         /\ History!Marked(History!Trimmed(list)) = History!Marked(list)
         /\ Len(History!Trimmed(list)) <= Len(list)
         /\ list # <<>> /\ Len(list) > MaxEntries /\ ~list[Len(list)].favorite
              => Len(History!Trimmed(list)) < Len(list)
         /\ list # <<>> /\ list[Len(list)].favorite => Len(History!Trimmed(list)) = Len(list)
<1>. USE StoresAssumption
<1>. DEFINE marks == {i \in DOMAIN list : list[i].favorite}
            least == History!Min({Len(list), MaxEntries})
            keep == History!Max({least} \cup marks)
            kept == SubSeq(list, 1, keep)
<1>1. /\ Len(list) \in Nat /\ DOMAIN list = 1 .. Len(list)
      /\ \A i \in DOMAIN list : list[i] \in Kept
  OBVIOUS
<1>2. least \in {Len(list), MaxEntries} /\ least <= Len(list) /\ least <= MaxEntries
  <2>1. \E x \in {Len(list), MaxEntries} : \A y \in {Len(list), MaxEntries} : x =< y
    BY <1>1
  <2>. QED
    BY <1>1, <2>1 DEF History!Min
<1>. HIDE DEF least
<1>3. {least} \cup marks \in SUBSET (0 .. Len(list)) /\ {least} \cup marks # {}
  BY <1>1, <1>2
<1>4. keep \in {least} \cup marks /\ \A i \in {least} \cup marks : i <= keep
  <2>. HIDE DEF marks
  <2>. QED
    BY <1>1, <1>3, GreatestOf
<1>. HIDE DEF keep
<1>5. keep \in 0 .. Len(list)
  BY <1>3, <1>4
<1>6. /\ kept \in Seq(Kept) /\ Len(kept) = keep /\ DOMAIN kept = 1 .. keep
      /\ \A i \in 1 .. keep : kept[i] = list[i]
  BY <1>1, <1>5
<1>7. kept = History!Trimmed(list)
  BY DEF History!Trimmed, keep, least
<1>. HIDE DEF kept
<1>8. History!Marked(kept) = History!Marked(list)
  <2>1. marks = {i \in DOMAIN kept : kept[i].favorite}
    BY <1>1, <1>4, <1>5, <1>6
  <2>2. \A i \in marks : kept[i] = list[i]
    BY <1>1, <1>4, <1>6
  <2>. QED
    BY <2>1, <2>2 DEF History!Marked
<1>9. list # <<>> => (Len(list) \in marks <=> list[Len(list)].favorite)
  BY <1>1
<1>. HIDE DEF marks
<1>10. Len(list) > MaxEntries /\ Len(list) \notin marks => keep < Len(list)
  <2>. DEFINE n == Len(list)
  <2>1. n \in Nat
    BY <1>1
  <2>. HIDE DEF n
  <2>. QED
    BY <1>2, <1>4, <1>5, <2>1 DEF n
<1>11. Len(list) \in marks => keep = Len(list)
  <2>. DEFINE n == Len(list)
  <2>1. n \in Nat
    BY <1>1
  <2>. HIDE DEF n
  <2>. QED
    BY <1>4, <1>5, <2>1 DEF n
<1>12. Len(kept) <= Len(list)
  BY <1>1, <1>5, <1>6
<1>. QED
  BY <1>6, <1>7, <1>8, <1>9, <1>10, <1>11, <1>12

\* The list turned has an unmarked entry last.
LEMMA TurnedKeeps ==
  ASSUME NEW list \in Seq(Kept), list # <<>>, ~list[1].favorite
  PROVE  /\ History!Turned(list) \in Seq(Kept)
         /\ History!Marked(History!Turned(list)) = History!Marked(list)
         /\ Len(History!Turned(list)) = Len(list)
         /\ ~History!Turned(list)[Len(list)].favorite
<1>. DEFINE bare == {i \in DOMAIN list : ~list[i].favorite}
            k == History!Max(bare)
            n == Len(list)
            turned == SubSeq(list, k + 1, n) \o SubSeq(list, 1, k)
            From(i) == IF i <= n - k THEN k + i ELSE i - (n - k)
            To(j) == IF j > k THEN j - k ELSE j + (n - k)
<1>1. /\ n \in Nat /\ DOMAIN list = 1 .. n /\ 1 \in DOMAIN list
      /\ \A i \in DOMAIN list : list[i] \in Kept
  OBVIOUS
<1>2. bare \in SUBSET (0 .. n) /\ bare # {}
  BY <1>1
<1>3. k \in bare /\ \A i \in bare : i <= k
  <2>. HIDE DEF bare
  <2>. QED
    BY <1>1, <1>2, GreatestOf
<1>. HIDE DEF k
<1>4. k \in 1 .. n /\ ~list[k].favorite
  BY <1>1, <1>3
<1>5. /\ turned \in Seq(Kept) /\ Len(turned) = n /\ DOMAIN turned = 1 .. n
      /\ \A i \in 1 .. n : turned[i] = list[From(i)]
  <2>. DEFINE a == SubSeq(list, k + 1, Len(list))
              b == SubSeq(list, 1, k)
  <2>1. /\ a \in Seq(Kept) /\ Len(a) = n - k
        /\ \A i \in 1 .. n - k : a[i] = list[k + i]
    BY <1>4, EndOf
  <2>2. /\ b \in Seq(Kept) /\ Len(b) = k /\ \A i \in 1 .. k : b[i] = list[i]
    BY <1>4, FrontOf
  <2>3. turned = a \o b
    OBVIOUS
  <2>. HIDE DEF a, b, turned
  <2>4. /\ a \o b \in Seq(Kept) /\ Len(a \o b) = Len(a) + Len(b)
        /\ DOMAIN (a \o b) = 1 .. Len(a) + Len(b)
        /\ \A i \in 1 .. Len(a) + Len(b) :
             (a \o b)[i] = IF i <= Len(a) THEN a[i] ELSE b[i - Len(a)]
    BY <2>1, <2>2, Joined
  <2>5. Len(a) + Len(b) = n
    BY <1>1, <1>4, <2>1, <2>2
  <2>6. turned \in Seq(Kept) /\ Len(turned) = n /\ DOMAIN turned = 1 .. n
    BY <2>3, <2>4, <2>5
  <2>7. ASSUME NEW i \in 1 .. n PROVE turned[i] = list[From(i)]
    <3>1. turned[i] = IF i <= n - k THEN a[i] ELSE b[i - (n - k)]
      BY <2>1, <2>3, <2>4, <2>5
    <3>2. i <= n - k => i \in 1 .. n - k
      BY <1>1, <1>4
    <3>3. ~(i <= n - k) => i - (n - k) \in 1 .. k
      BY <1>1, <1>4
    <3>. QED
      BY <2>1, <2>2, <3>1, <3>2, <3>3
  <2>. QED
    BY <2>6, <2>7
<1>6. turned = History!Turned(list)
  BY DEF History!Turned, k
<1>. HIDE DEF turned
<1>7. /\ \A i \in 1 .. n : From(i) \in 1 .. n
      /\ \A j \in 1 .. n : To(j) \in 1 .. n /\ From(To(j)) = j
      /\ From(n) = k
  BY <1>1, <1>4
<1>. HIDE DEF From, To
<1>8. History!Marked(turned) = History!Marked(list)
  <2>1. ASSUME NEW c \in History!Marked(turned) PROVE c \in History!Marked(list)
    <3>1. PICK i \in DOMAIN turned : turned[i].favorite /\ turned[i].clip = c
      BY DEF History!Marked
    <3>2. From(i) \in DOMAIN list /\ turned[i] = list[From(i)]
      BY <1>1, <1>5, <1>7
    <3>. QED
      BY <3>1, <3>2 DEF History!Marked
  <2>2. ASSUME NEW c \in History!Marked(list) PROVE c \in History!Marked(turned)
    <3>1. PICK j \in DOMAIN list : list[j].favorite /\ list[j].clip = c
      BY DEF History!Marked
    <3>2. To(j) \in DOMAIN turned /\ turned[To(j)] = list[j]
      BY <1>1, <1>5, <1>7
    <3>. QED
      BY <3>1, <3>2 DEF History!Marked
  <2>. QED
    BY <2>1, <2>2
<1>9. n \in 1 .. n /\ turned[n] = list[k]
  BY <1>1, <1>4, <1>5, <1>7
<1>. QED
  BY <1>4, <1>5, <1>6, <1>8, <1>9

\* pruneOldEntries.
LEMMA PruneKeeps ==
  ASSUME NEW list \in Seq(Kept), list # <<>>, ~list[1].favorite,
         Len(list) <= MaxEntries + Slack + 1
  PROVE  /\ History!Prune(list) \in Seq(Kept)
         /\ History!Marked(History!Prune(list)) = History!Marked(list)
         /\ Len(History!Prune(list)) <= MaxEntries + Slack
<1>. USE StoresAssumption
<1>1. CASE Len(list) <= MaxEntries + Slack
  <2>1. History!Prune(list) = History!Trimmed(list)
    BY <1>1 DEF History!Prune
  <2>2. Len(History!Trimmed(list)) \in Nat /\ Len(list) \in Nat
    BY TrimmedKeeps
  <2>. QED
    BY <1>1, <2>1, <2>2, TrimmedKeeps
<1>2. CASE ~(Len(list) <= MaxEntries + Slack)
  <2>. DEFINE t == History!Turned(list)
  <2>1. History!Prune(list) = History!Trimmed(t)
    BY <1>2 DEF History!Prune
  <2>2. t \in Seq(Kept) /\ Len(t) = Len(list) /\ ~t[Len(t)].favorite
        /\ History!Marked(t) = History!Marked(list)
    BY TurnedKeeps
  <2>3. Len(t) > MaxEntries /\ t # <<>> /\ Len(t) = MaxEntries + Slack + 1
    BY <1>2, <2>2
  <2>. HIDE DEF t
  <2>4. /\ History!Trimmed(t) \in Seq(Kept) /\ Len(History!Trimmed(t)) < Len(t)
        /\ History!Marked(History!Trimmed(t)) = History!Marked(t)
    BY <2>2, <2>3, TrimmedKeeps
  <2>. QED
    BY <2>1, <2>2, <2>3, <2>4
<1>. QED
  BY <1>1, <1>2

LEMMA AddEntryKeeps ==
  ASSUME HistoryInv, NEW c \in Clips, History!AddEntry(c)
  PROVE  HistoryInv' /\ History!Marked(entries') = History!Marked(entries)
<1>. DEFINE new == [clip |-> c, favorite |-> FALSE]
            list == <<new>> \o entries
<1>1. /\ new \in Kept /\ list \in Seq(Kept) /\ list # <<>> /\ list[1] = new
      /\ Len(list) = Len(entries) + 1
      /\ DOMAIN list = 1 .. Len(entries) + 1 /\ DOMAIN entries = 1 .. Len(entries)
      /\ Len(entries) \in Nat
      /\ \A i \in 1 .. Len(entries) : list[i + 1] = entries[i]
  BY DEF HistoryInv, Kept
<1>2. entries' = History!Prune(list) /\ file' = entries'
  BY DEF History!AddEntry, History!Saved
<1>3. ~new.favorite /\ Len(list) <= MaxEntries + Slack + 1
  BY <1>1, StoresAssumption DEF HistoryInv
<1>. HIDE DEF list, new
<1>4. History!Marked(list) = History!Marked(entries)
  <2>1. ASSUME NEW d \in History!Marked(list) PROVE d \in History!Marked(entries)
    <3>1. PICK i \in DOMAIN list : list[i].favorite /\ list[i].clip = d
      BY DEF History!Marked
    <3>2. i - 1 \in DOMAIN entries /\ list[i] = entries[i - 1]
      BY <1>1, <1>3, <3>1
    <3>. QED
      BY <3>1, <3>2 DEF History!Marked
  <2>2. ASSUME NEW d \in History!Marked(entries) PROVE d \in History!Marked(list)
    <3>1. PICK i \in DOMAIN entries : entries[i].favorite /\ entries[i].clip = d
      BY DEF History!Marked
    <3>2. i + 1 \in DOMAIN list /\ list[i + 1] = entries[i]
      BY <1>1, <3>1
    <3>. QED
      BY <3>1, <3>2 DEF History!Marked
  <2>. QED
    BY <2>1, <2>2
<1>5. /\ History!Prune(list) \in Seq(Kept)
      /\ History!Marked(History!Prune(list)) = History!Marked(list)
      /\ Len(History!Prune(list)) <= MaxEntries + Slack
  BY <1>1, <1>3, PruneKeeps
<1>. QED
  BY <1>2, <1>4, <1>5 DEF HistoryInv

LEMMA HistoryStepInv == HistoryInv /\ [History!Next]_history => HistoryInv'
<1>. SUFFICES ASSUME HistoryInv, [History!Next]_history PROVE HistoryInv'
  OBVIOUS
<1>. USE StoresAssumption
<1>1. ASSUME NEW c \in Clips, History!AddEntry(c) PROVE HistoryInv'
  BY <1>1, AddEntryKeeps
<1>2. ASSUME NEW i \in DOMAIN entries, History!RemoveEntry(i) PROVE HistoryInv'
  <2>1. entries' = SubSeq(entries, 1, i - 1) \o SubSeq(entries, i + 1, Len(entries))
        /\ file' = entries'
    BY <1>2 DEF History!RemoveEntry, History!RemoveAt, History!Saved
  <2>2. i \in 1 .. Len(entries) /\ Len(entries) \in Nat /\ entries \in Seq(Kept)
    BY DEF HistoryInv
  <2>3. entries' \in Seq(Kept) /\ Len(entries') <= Len(entries)
    BY <2>1, <2>2
  <2>. QED
    BY <2>1, <2>2, <2>3 DEF HistoryInv
<1>3. ASSUME NEW i \in DOMAIN entries, History!ToggleFavorite(i) PROVE HistoryInv'
  <2>1. entries' = [entries EXCEPT ![i].favorite = ~entries[i].favorite] /\ file' = entries'
    BY <1>3 DEF History!ToggleFavorite, History!Saved
  <2>2. entries[i] \in Kept /\ entries \in Seq(Kept)
    BY DEF HistoryInv
  <2>3. [entries[i] EXCEPT !.favorite = ~entries[i].favorite] \in Kept
    BY <2>2 DEF Kept
  <2>4. entries' \in Seq(Kept) /\ Len(entries') = Len(entries)
    BY <2>1, <2>2, <2>3
  <2>. QED
    BY <2>1, <2>4 DEF HistoryInv
<1>4. CASE History!Clear
  BY <1>4 DEF History!Clear, History!Saved, HistoryInv
<1>5. CASE History!Close
  BY <1>5 DEF History!Close, HistoryInv
<1>6. CASE History!Load
  BY <1>6 DEF History!Load, HistoryInv
<1>7. CASE UNCHANGED history
  BY <1>7 DEF history, HistoryInv
<1>. QED
  BY <1>1, <1>2, <1>3, <1>4, <1>5, <1>6, <1>7 DEF History!Next

(* A copy never pushes out what the user marked, and the list keeps within *)
(* its slack, over restarts, however many entries, marks and contents      *)
(* there are (pruneOldEntries, clipboard_history.cpp).                     *)
THEOREM MarkedStay == MCSpec => HistoryKeepsMarked
<1>1. MCInit => HistoryInv
  <2>. SUFFICES ASSUME History!Init PROVE HistoryInv
    BY DEF MCInit
  <2>. QED
    BY StoresAssumption DEF History!Init, HistoryInv
<1>2. HistoryInv
        /\ [MCNext]_<<part, ops, accounts, store, sync, codec, history, talk, registry, discovery>>
      => HistoryInv'
           /\ [\/ History!Marked(entries) = History!Marked(entries') /\ Len(entries') <= MaxEntries + Slack
               \/ ~\E c \in Clips : History!AddEntry(c)]_(History!vars)
  <2>. SUFFICES ASSUME HistoryInv,
                [MCNext]_<<part, ops, accounts, store, sync, codec, history, talk, registry, discovery>>
                PROVE  /\ HistoryInv'
                       /\ \/ /\ History!Marked(entries) = History!Marked(entries')
                             /\ Len(entries') <= MaxEntries + Slack
                          \/ ~\E c \in Clips : History!AddEntry(c)
    OBVIOUS
  <2>1. [History!Next]_history
    BY DEF MCNext, AccountsStep, StoreStep, SyncStep, CodecStep, HistoryStep, TalkStep, RegistryStep,
           DiscoveryStep
  <2>2. HistoryInv'
    BY <2>1, HistoryStepInv
  <2>3. ASSUME NEW c \in Clips, History!AddEntry(c)
        PROVE  History!Marked(entries) = History!Marked(entries')
    BY <2>3, AddEntryKeeps
  <2>. QED
    BY <2>2, <2>3 DEF HistoryInv
<1>. QED
  BY <1>1, <1>2, PTL DEF MCSpec, HistoryKeepsMarked, History!HistoryKeepsMarked
=============================================================================
