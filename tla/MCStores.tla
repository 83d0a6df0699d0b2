------------------------------ MODULE MCStores ------------------------------
(***************************************************************************)
(* What is written and read again: the accounts of a host, the tables of   *)
(* the messenger, their synchronisation, the payloads of the protocol, the  *)
(* commands of the messenger, the history of the clipboard, the devices    *)
(* of a relay and those found on the network.                              *)
(* A behaviour is about one of them, the others rest.                      *)
(***************************************************************************)
EXTENDS AccountStore

CONSTANTS
  Keys,                               \* MessengerStore
  Rows, Mail,                         \* AccountSync
  MaxClock, MaxEdits, MaxSyncs,
  Base, MaxDevices,                   \* WireCodec
  Clips, MaxEntries, Slack,           \* ClipboardHistory
  Users, Creator, Speakers, Commands, \* MessengerCommands
  FreshList, MaxActs,
  Ids, GroupNames, Notes, Silence,    \* DeviceRegistry
  CutWrites, MaxTime, MaxLines,
  Machines, Expiry, MaxEvents, MaxDay \* Discovery

ASSUME StoresAssumption ==
  /\ Silence \in Nat /\ Expiry \in Nat /\ IsFiniteSet(Users)
  /\ MaxEntries \in Nat /\ Slack \in Nat
  /\ Base \in Nat /\ Base > 3

VARIABLES
  part,
  name, rows, chats, given,
  row, mail, account, pending, net, clock, edits, syncs, undisturbed,
  message, wire, decoded,
  entries, file, open,
  known, met, friends, stored, asking, group, underway, queued, saved, shown, acts,
  running, table, disk, now, due, started, told, lines,
  id, advert, air, found, arpPending, lookups, listed, overdue, heard, day, events

Store == INSTANCE MessengerStore
Sync == INSTANCE AccountSync
Codec == INSTANCE WireCodec
History == INSTANCE ClipboardHistory
Talk == INSTANCE MessengerCommands WITH mail <- queued
Registry == INSTANCE DeviceRegistry
Discovered == INSTANCE Discovery WITH pending <- arpPending

accounts == <<version, hasUsers, users, overrides, toggles, backup, run, current, stops>>
store == <<name, rows, chats, given>>
sync == <<row, mail, account, pending, net, clock, edits, syncs, undisturbed>>
codec == <<message, wire, decoded>>
history == <<entries, file, open>>
talk == <<known, met, friends, stored, asking, group, underway, queued, saved, shown, acts>>
registry == <<running, table, disk, now, due, started, told, lines>>
discovery ==
  <<id, advert, air, found, arpPending, lookups, listed, overdue, heard, day, events>>

MCInit ==
  /\ part \in {"accounts", "store", "sync", "codec", "history", "talk", "registry", "discovery"}
  /\ Init /\ Store!Init /\ Sync!Init /\ History!Init /\ Talk!Init /\ Registry!Init
  /\ Discovered!Init
  /\ part # "talk" => known = [d \in Users |-> {}]
  /\ part # "accounts" => version = 0
  /\ part # "store" => name = "settings"
  /\ IF part = "codec" THEN Codec!Init ELSE message = {} /\ wire = <<>> /\ decoded = {}

AccountsStep ==
  part = "accounts" /\ Next /\ UNCHANGED <<part, store, sync, codec, history, talk, registry, discovery>>
StoreStep ==
  part = "store" /\ Store!Next /\ UNCHANGED <<part, accounts, sync, codec, history, talk, registry, discovery>>
SyncStep ==
  part = "sync" /\ Sync!Next /\ UNCHANGED <<part, ops, accounts, store, codec, history, talk, registry, discovery>>
CodecStep ==
  part = "codec" /\ Codec!Next /\ UNCHANGED <<part, ops, accounts, store, sync, history, talk, registry, discovery>>
HistoryStep ==
  part = "history" /\ History!Next /\ UNCHANGED <<part, ops, accounts, store, sync, codec, talk, registry, discovery>>
TalkStep ==
  part = "talk" /\ Talk!Next /\ UNCHANGED <<part, ops, accounts, store, sync, codec, history, registry, discovery>>
RegistryStep ==
  part = "registry" /\ Registry!Next
    /\ UNCHANGED <<part, ops, accounts, store, sync, codec, history, talk, discovery>>
DiscoveryStep ==
  part = "discovery" /\ Discovered!Next
    /\ UNCHANGED <<part, ops, accounts, store, sync, codec, history, talk, registry>>

MCNext ==
  AccountsStep \/ StoreStep \/ SyncStep \/ CodecStep \/ HistoryStep \/ TalkStep \/ RegistryStep
    \/ DiscoveryStep

MCSpec == MCInit /\ [][MCNext]_<<part, ops, accounts, store, sync, codec, history, talk, registry, discovery>>

-----------------------------------------------------------------------------
(* What is checked, stated where it is about.                              *)
StoreRemembers == Store!StoreRemembers /\ Registry!RegistryRemembers
SilentGoOffline ==
  Registry!SilentGoOffline /\ Discovered!ShownWereHeard /\ Discovered!PendingIsAsked
SyncedAgree == Sync!SyncedAgree
HistoryKeepsMarked == History!HistoryKeepsMarked
RoundTrip == (part = "codec" => Codec!RoundTrip) /\ Talk!RoundTrip
NamesMatchMembers == Talk!NamesMatchMembers
=============================================================================
