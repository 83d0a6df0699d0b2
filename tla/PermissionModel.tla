--------------------------- MODULE PermissionModel ---------------------------
(***************************************************************************)
(* core/permission_model: what a permission level may do, and how the      *)
(* host's switches and a device override change it.  A uint32_t mask is    *)
(* the set of the capabilities whose bit it has.                           *)
(***************************************************************************)

CONSTANTS RoleMask,   \* capMask = -1: the capabilities of the override's level
          NoOverride  \* std::nullopt

Levels == {"None", "Viewer", "Operator", "Admin"}

ViewerCapabilities == {"ViewScreen", "Chat", "SysInfo", "Annotation"}

OperatorCapabilities == ViewerCapabilities \cup
  {"ControlInput", "Clipboard", "FileRead", "FileWrite", "ProcessView",
   "Calls", "Record"}

Capabilities == OperatorCapabilities \cup
  {"ProcessManage", "Terminal", "PowerControl", "UserManage"}

RoleCapabilities ==
  [l \in Levels |-> CASE l = "None" -> {}
                      [] l = "Viewer" -> ViewerCapabilities
                      [] l = "Operator" -> OperatorCapabilities
                      [] l = "Admin" -> Capabilities]

DeviceOverride == [level : Levels, capMask : {RoleMask} \cup SUBSET Capabilities]

ASSUME OverrideAssumption ==
  /\ \A S \in SUBSET Capabilities : RoleMask # S
  /\ NoOverride \notin DeviceOverride

\* The capabilities before the host's switches.
BaseCapabilities(level, override) ==
  IF override = NoOverride THEN RoleCapabilities[level]
  ELSE IF override.capMask = RoleMask THEN RoleCapabilities[override.level]
  ELSE RoleCapabilities[level] \cap override.capMask

\* Mutant: an override is not masked by the switches.
EvaluateUnswitched(level, toggles, override) ==
  IF override = NoOverride
  THEN BaseCapabilities(level, override) \cap (toggles \cup {"UserManage"})
  ELSE BaseCapabilities(level, override)

\* The host's switches restrict every capability but UserManage.
Evaluate(level, toggles, override) ==
  BaseCapabilities(level, override) \cap (toggles \cup {"UserManage"})
=============================================================================
