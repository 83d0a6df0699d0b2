--------------------------- MODULE DeviceRegistry ----------------------------
(***************************************************************************)
(* The devices a relay knows: DeviceRegistry (src/src/app/                 *)
(* device_registry.cpp), its file, and the DEVICE_* and HEARTBEAT lines of *)
(* RelayServer.  The relay reads its lines in one thread; a unit of time   *)
(* is the interval of the timer that looks for silent devices.             *)
(***************************************************************************)
EXTENDS Naturals, FiniteSets, Functions

CONSTANTS
  Ids,          \* devices
  GroupNames, Notes,
  Silence,      \* DEVICE_TIMEOUT_MS, in units of CLEANUP_INTERVAL_MS
  CutWrites,    \* a save may fail or be cut off by the end of the program
  MaxTime, MaxLines

VARIABLES
  running,      \* the relay's program
  table,        \* m_devices
  disk,         \* the documents in the file
  now, due,     \* the time, and how far off the next pass of the timer is
  started,      \* since when the program runs
  told,         \* what each device was last given, by replies that said it was done
  lines         \* counter of the bound

registryVars == <<running, table, disk, now, due, started, told, lines>>

Interval == 1
None == ""
Texts == [group : GroupNames \cup {None}, notes : Notes \cup {None}]

\* A device as a document, and the table made of the documents of the file.
ToJson(d, r) ==
  [deviceId |-> d, group |-> r.group, notes |-> r.notes, online |-> r.online,
   lastHeartbeat |-> r.beat]
FromJson(doc) ==
  [group |-> doc.group, notes |-> doc.notes, online |-> doc.online, beat |-> doc.lastHeartbeat]
Load(docs) ==
  [d \in {doc.deviceId : doc \in docs} |->
     FromJson(CHOOSE doc \in docs : doc.deviceId = d)]

Init ==
  /\ running = TRUE
  /\ disk = {}
  /\ table = Load(disk)
  /\ now = 0 /\ due = Interval /\ started = 0
  /\ told = [d \in {} |-> [group |-> None, notes |-> None]]
  /\ lines = 0

-----------------------------------------------------------------------------
(* One line of the relay's protocol, or one call of the registry.          *)

Known == DOMAIN table
Line == running /\ lines < MaxLines /\ lines' = lines + 1

\* A file that was not opened keeps what it held, one that was not finished gives back
\* nothing, and nobody is told of either.
Written(new) == {ToJson(d, new[d]) : d \in DOMAIN new}
Saved(new) ==
  /\ table' = new
  /\ disk' \in IF CutWrites THEN {Written(new), disk, {}} ELSE {Written(new)}

With(f, d, value) == [e \in DOMAIN f \cup {d} |-> IF e = d THEN value ELSE f[e]]
Without(f, d) == Restrict(f, DOMAIN f \ {d})
Filled(given, kept) ==
  [group |-> IF given.group = None THEN kept.group ELSE given.group,
   notes |-> IF given.notes = None THEN kept.notes ELSE given.notes]
Empty == [group |-> None, notes |-> None]

\* The fields of the line stand in a row: notes only after a group.
Registrable == {t \in Texts : t.group = None => t.notes = None}

RegisterAnew(d, t) ==
  /\ Line /\ t \in Registrable
  /\ Saved(With(table, d, [group |-> t.group, notes |-> t.notes, online |-> TRUE, beat |-> now]))
  /\ told' = With(told, d, Filled(t, IF d \in DOMAIN told THEN told[d] ELSE Empty))
  /\ UNCHANGED <<running, now, due, started>>
\* registerDevice: a known device keeps what the line does not give, and is online.
Register(d, t) ==
  LET kept == Filled(t, IF d \in Known THEN table[d] ELSE Empty)
  IN /\ Line /\ t \in Registrable
     /\ Saved(With(table, d, [group |-> kept.group, notes |-> kept.notes,
                              online |-> TRUE, beat |-> now]))
     /\ told' = With(told, d, Filled(t, IF d \in DOMAIN told THEN told[d] ELSE Empty))
     /\ UNCHANGED <<running, now, due, started>>

\* DEVICE_UPDATE: the fields the document has, an empty one too, on the device as it is.
Update(d, fields, t) ==
  LET Set(r) == [f \in DOMAIN r |-> IF f \in fields THEN t[f] ELSE r[f]]
  IN /\ Line /\ d \in Known
     /\ Saved([table EXCEPT ![d] = Set(@)])
     /\ told' = [told EXCEPT ![d] = Set(@)]
     /\ UNCHANGED <<running, now, due, started>>

Remove(d) ==
  /\ Line /\ d \in Known
  /\ Saved(Without(table, d))
  /\ told' = Without(told, d)
  /\ UNCHANGED <<running, now, due, started>>

\* renameGroup, and removeGroup for the empty name: saved if any device is of the group.
Regroup(old, new) ==
  LET Set(f) == [d \in DOMAIN f |-> IF f[d].group = old THEN [f[d] EXCEPT !.group = new] ELSE f[d]]
  IN /\ Line /\ \E d \in Known : table[d].group = old
     /\ Saved(Set(table))
     /\ told' = Set(told)
     /\ UNCHANGED <<running, now, due, started>>

\* HEARTBEAT: not written.
Heartbeat(d) ==
  /\ Line /\ d \in Known
  /\ table' = [table EXCEPT ![d].online = TRUE, ![d].beat = now]
  /\ UNCHANGED <<running, disk, now, due, started, told>>

-----------------------------------------------------------------------------
(* Time, and the end and the start of the program.                         *)

Tick ==
  /\ now < MaxTime /\ (running => due > 0)
  /\ now' = now + 1
  /\ due' = IF running THEN due - 1 ELSE due
  /\ UNCHANGED <<running, table, disk, started, told, lines>>

Stale == {d \in Known : table[d].online /\ now - table[d].beat > Silence}

CleanupFirst ==
  LET first == IF Stale = {} THEN {} ELSE {CHOOSE d \in Stale : TRUE}
  IN /\ running /\ due = 0
     /\ due' = Interval
     /\ table' = [d \in Known |-> [table[d] EXCEPT !.online = @ /\ d \notin first]]
     /\ UNCHANGED <<running, disk, now, started, told, lines>>
\* cleanupStaleDevices: not written either.
Cleanup ==
  /\ running /\ due = 0
  /\ due' = Interval
  /\ table' = [d \in Known |-> [table[d] EXCEPT !.online = @ /\ d \notin Stale]]
  /\ UNCHANGED <<running, disk, now, started, told, lines>>

\* The end of the relay: its destructor saves; a crash does not.
Stop ==
  /\ running /\ running' = FALSE
  /\ Saved(table)
  /\ UNCHANGED <<now, due, started, told, lines>>
Crash ==
  /\ running /\ running' = FALSE
  /\ UNCHANGED <<table, disk, now, due, started, told, lines>>

Start ==
  /\ ~running /\ running' = TRUE
  /\ table' = Load(disk)
  /\ started' = now /\ due' = Interval
  /\ UNCHANGED <<disk, now, told, lines>>

Next ==
  \/ \E d \in Ids : \/ Remove(d) \/ Heartbeat(d)
                    \/ \E t \in Texts : \/ Register(d, t)
                                        \/ \E fields \in SUBSET DOMAIN t : Update(d, fields, t)
  \/ \E old, new \in GroupNames \cup {None} : Regroup(old, new)
  \/ Tick \/ Cleanup \/ Stop \/ Crash \/ Start

-----------------------------------------------------------------------------
(* What the relay said it did, it knows: a device's group and notes are    *)
(* the ones given last, whatever registrations without them, renamed        *)
(* groups, crashes and starts came since.                                  *)
RegistryRemembers ==
  running =>
    /\ Known = DOMAIN told
    /\ \A d \in Known : \A f \in DOMAIN told[d] : table[d][f] = told[d][f]

(* A device that was silent for the time-out and one pass of the timer is  *)
(* not shown online, also by a relay that was restarted: it takes the file's *)
(* word for no longer than a pass.                                         *)
SilentGoOffline ==
  running => \A d \in Known :
    table[d].online =>
      now - table[d].beat <= Silence + Interval \/ now - started <= Interval
=============================================================================
