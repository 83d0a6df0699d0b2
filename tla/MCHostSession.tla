---------------------------- MODULE MCHostSession ----------------------------
(***************************************************************************)
(* Instances of HostSession: the addresses of the connections, the         *)
(* overrides and the grants an admin may set.                              *)
(***************************************************************************)
EXTENDS HostSession, TLC

CONSTANTS c1, c2, p1, p2

OwnAddress == (c1 :> p1) @@ (c2 :> p2)
OneAddress == c1 :> p1
\* Two connections of one address, for which CapsCurrent does not hold.
SharedAddress == (c1 :> p1) @@ (c2 :> p1)

\* The two controllers are alike.
Alike == {(c1 :> c2) @@ (c2 :> c1) @@ (p1 :> p2) @@ (p2 :> p1)}

\* Overrides that pin a level.
PinAdmin == [level |-> "Admin", capMask |-> RoleMask]
PinNone == [level |-> "None", capMask |-> RoleMask]

RaiseToAdmin == [level |-> "Admin", capMask |-> RoleMask]
MaskOnly == [level |-> KeepLevel, capMask |-> {"ViewScreen", "Chat"}]

SomeEntries == {PinNone, PinAdmin}
SomeTerms == {RaiseToAdmin, MaskOnly}
RaiseTerm == {RaiseToAdmin}
Nothing == {}
=============================================================================
