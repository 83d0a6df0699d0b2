------------------------------ MODULE Discovery ------------------------------
(***************************************************************************)
(* How programs on one network find each other: the discovery channel of   *)
(* NetworkManager (src/src/core/network_manager.cpp), the table of          *)
(* DeviceDiscovery (src/src/core/device_discovery.cpp) and the one shown,   *)
(* DeviceManager's (src/src/app/device_manager.cpp).                        *)
(*                                                                         *)
(* Datagrams are lost and reordered.  A unit of time is the interval of    *)
(* the cleanup timer (7.5 s); the machines' clocks agree, and a datagram   *)
(* is read or lost within a unit.                                          *)
(***************************************************************************)
EXTENDS Naturals, FiniteSets, Functions, Bags

CONSTANTS
  Machines,
  Expiry,       \* DEVICE_TIMEOUT_MS, in units
  MaxEvents, MaxDay

VARIABLES
  id,           \* the running program's device id, a new one with each start, or Off
  advert,       \* what setDiscoveryIdentity was given last; 0: nothing
  air,          \* the datagrams under way
  found,        \* m_devices of DeviceDiscovery
  pending,      \* m_arpPending
  lookups,      \* the threads that ask for a MAC, by device
  listed,       \* m_devices of DeviceManager
  overdue,      \* the machines whose cleanup timer is about to fire
  heard,        \* when each device was heard last
  day,          \* the time
  events        \* counter of the bound: starts, announcements and identities

discoveryVars == <<id, advert, air, found, pending, lookups, listed, overdue, heard, day, events>>

Off == <<>>
Nothing == [d \in {} |-> 0]
On(m) == id[m] # Off

\* Every program has just been started; the starts that follow are Start's.
Init ==
  /\ id = [m \in Machines |-> <<m, 0>>]
  /\ advert = [m \in Machines |-> 0]
  /\ air = {}
  /\ found = [m \in Machines |-> Nothing]
  /\ pending = [m \in Machines |-> {}]
  /\ lookups = [m \in Machines |-> EmptyBag]
  /\ listed = found /\ heard = found
  /\ overdue = {}
  /\ day = 0 /\ events = 0

\* The device info of a datagram: who, when by its clock, and what it advertises.
Datagram(kind, from, to) ==
  [kind |-> kind, from |-> id[from], by |-> from, to |-> to, at |-> day, code |-> advert[from]]
Broadcast(kind, from) == {Datagram(kind, from, m) : m \in Machines}

-----------------------------------------------------------------------------
(* The program, its identity, and what it sends.                           *)

Event == events < MaxEvents /\ events' = events + 1

Start(m) ==
  /\ Event /\ ~On(m)
  /\ id' = [id EXCEPT ![m] = <<m, events'>>]
  /\ UNCHANGED <<advert, air, found, pending, lookups, listed, overdue, heard, day>>

Quit(m) ==
  /\ On(m)
  /\ id' = [id EXCEPT ![m] = Off]
  /\ advert' = [advert EXCEPT ![m] = 0]
  /\ found' = [found EXCEPT ![m] = Nothing]
  /\ listed' = [listed EXCEPT ![m] = Nothing]
  /\ heard' = [heard EXCEPT ![m] = Nothing]
  /\ pending' = [pending EXCEPT ![m] = {}]
  /\ lookups' = [lookups EXCEPT ![m] = EmptyBag]
  /\ overdue' = overdue \ {m}
  /\ UNCHANGED <<air, day, events>>

\* Host::start and Host::stop, with the host's port and access code.
Identify(m) ==
  /\ Event /\ On(m)
  /\ advert' = [advert EXCEPT ![m] = IF @ = 0 THEN events' ELSE 0]
  /\ UNCHANGED <<id, air, found, pending, lookups, listed, overdue, heard, day>>

\* broadcastDiscovery asks; broadcastPresence, by the timer of 3 s, only tells.
Announce(m, kind) ==
  /\ Event /\ On(m)
  /\ air' = air \cup Broadcast(kind, m)
  /\ UNCHANGED <<id, advert, found, pending, lookups, listed, overdue, heard, day>>

-----------------------------------------------------------------------------
(* What it receives.                                                       *)

Put(f, d, value) == [e \in DOMAIN f \cup {d} |-> IF e = d THEN value ELSE f[e]]

\* addOrUpdateDevice: a MAC once found is kept, else it is asked for, unless that is
\* under way; only a new device is told to the manager (deviceFound), nobody listens to
\* deviceUpdated.
Noticed(m, g) ==
  LET d == g.from
      new == d \notin DOMAIN found[m]
      resolved == ~new /\ found[m][d].mac = "Resolved"
  IN /\ found' = [found EXCEPT ![m] =
           Put(@, d, [at |-> g.at, code |-> g.code,
                      mac |-> IF resolved THEN "Resolved" ELSE "Pending"])]
     /\ listed' = IF new THEN [listed EXCEPT ![m] = Put(@, d, g.code)] ELSE listed
     /\ IF resolved \/ d \in pending[m]
        THEN UNCHANGED <<pending, lookups>>
        ELSE /\ pending' = [pending EXCEPT ![m] = @ \cup {d}]
             /\ lookups' = [lookups EXCEPT ![m] = @ (+) SetToBag({d})]
     /\ heard' = [heard EXCEPT ![m] = Put(@, d, day)]

\* processDiscoveryMessage: its own broadcast is ignored, a request is answered to its
\* sender alone.
Receive(m, g) ==
  /\ On(m) /\ g \in air /\ g.to = m
  /\ air' = (air \ {g}) \cup
       (IF g.kind = "REQ" /\ g.from # id[m] THEN {Datagram("RESP", m, g.by)} ELSE {})
  /\ IF g.from = id[m] THEN UNCHANGED <<found, listed, pending, lookups, heard>>
                       ELSE Noticed(m, g)
  /\ UNCHANGED <<id, advert, overdue, day, events>>

Lose(g) ==
  /\ g \in air /\ air' = air \ {g}
  /\ UNCHANGED <<id, advert, found, pending, lookups, listed, overdue, heard, day, events>>

\* A lookup ends: the device may have gone, or have its MAC by another lookup.
Resolve(m, d, mac) ==
  /\ BagIn(d, lookups[m])
  /\ lookups' = [lookups EXCEPT ![m] = @ (-) SetToBag({d})]
  /\ pending' = [pending EXCEPT ![m] = @ \ {d}]
  /\ found' = IF d \in DOMAIN found[m] /\ found[m][d].mac # "Resolved"
              THEN [found EXCEPT ![m][d].mac = mac] ELSE found
  /\ UNCHANGED <<id, advert, air, listed, overdue, heard, day, events>>

-----------------------------------------------------------------------------
(* Time.                                                                   *)

Tick ==
  /\ day < MaxDay /\ air = {} /\ overdue = {}
  /\ day' = day + 1
  /\ overdue' = {m \in Machines : On(m)}
  /\ UNCHANGED <<id, advert, air, found, pending, lookups, listed, heard, events>>

Expired(m) == {d \in DOMAIN found[m] : day - found[m][d].at > Expiry}

CleanupQuietly(m) ==
  /\ m \in overdue /\ overdue' = overdue \ {m}
  /\ pending' = [pending EXCEPT ![m] = @ \ Expired(m)]
  /\ found' = [found EXCEPT ![m] = Restrict(@, DOMAIN @ \ Expired(m))]
  /\ UNCHANGED <<id, advert, air, lookups, listed, heard, day, events>>
\* onCleanupOldDevices, and onDeviceLost at once for each.
CleanupOldDevices(m) ==
  /\ m \in overdue /\ overdue' = overdue \ {m}
  /\ pending' = [pending EXCEPT ![m] = @ \ Expired(m)]
  /\ found' = [found EXCEPT ![m] = Restrict(@, DOMAIN @ \ Expired(m))]
  /\ listed' = [listed EXCEPT ![m] = Restrict(@, DOMAIN @ \ Expired(m))]
  /\ UNCHANGED <<id, advert, air, lookups, heard, day, events>>

Next ==
  \/ \E m \in Machines :
       \/ Start(m) \/ Quit(m) \/ Identify(m) \/ CleanupOldDevices(m)
       \/ \E kind \in {"REQ", "RESP"} : Announce(m, kind)
       \/ \E g \in air : Receive(m, g)
       \/ \E d \in BagToSet(lookups[m]) : \E mac \in {"Resolved", "Timeout"} : Resolve(m, d, mac)
  \/ \E g \in air : Lose(g)
  \/ Tick

-----------------------------------------------------------------------------
(* The devices shown are those heard lately: none that was heard within    *)
(* the time-out is missing, and none stays that was silent for the time-out *)
(* and one pass of the timer, whatever programs ended and started anew.    *)
ShownWereHeard ==
  \A m \in Machines :
    LET Lately(t) == {d \in DOMAIN heard[m] : day - heard[m][d] <= t}
    IN Lately(Expiry) \subseteq DOMAIN listed[m] /\ DOMAIN listed[m] \subseteq Lately(Expiry + 1)

(* A device whose MAC is said to be asked for has a lookup under way, also  *)
(* if it expired and came back while an earlier lookup was blocked.        *)
PendingIsAsked ==
  \A m \in Machines : \A d \in DOMAIN found[m] :
    found[m][d].mac = "Pending" => BagIn(d, lookups[m])
=============================================================================
