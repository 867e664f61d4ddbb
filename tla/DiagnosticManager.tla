-------------------------- MODULE DiagnosticManager --------------------------
(***************************************************************************)
(* The life cycle of one Diagnostic (motion_server/diagnostic/manager.py). *)
(*                                                                         *)
(* DiagnosticManager keeps one DiagnosticStatus per (code, source) key.    *)
(* Of its history only whether acknowledged_at and resolved_at are None    *)
(* matters to the program, so a key is in one of four standings:           *)
(*                                                                         *)
(*    "none"          no entry: never detected, or cleared                 *)
(*    "detected"      active, neither acknowledged nor resolved            *)
(*    "acknowledged"  active, acknowledged_at set, condition still present *)
(*    "resolved"      active (latched), resolved_at set, not acknowledged  *)
(*                                                                         *)
(* An entry with both time stamps set is removed by _clear_if_ready, so    *)
(* that combination is the standing "none".  The operators below act on    *)
(* one standing; the modules that use them keep functions from codes to    *)
(* standings.                                                              *)
(***************************************************************************)

Standing == {"none", "detected", "acknowledged", "resolved"}

\* status_for(code, source) is not None.
IsActive(s) == s # "none"

\* The entry exists and its condition has not been resolved.
IsUnresolved(s) == s \in {"detected", "acknowledged"}

\* detect(): a new entry, or resolved_at = None on the existing one; an
\* acknowledgement that is already recorded stays.
Detect(s) == IF s = "acknowledged" THEN "acknowledged" ELSE "detected"

\* Mutant: an acknowledgement clears the entry although it is not resolved.
AcknowledgeClears(s) == "none"

\* acknowledge(id) on an existing entry; a resolved latching entry is removed.
Acknowledge(s) ==
    IF s = "detected" THEN "acknowledged"
    ELSE IF s = "resolved" THEN "none"
    ELSE s

\* Mutant: the latch is forgotten.
ResolveClears(s) == "none"

\* resolve() of a latching definition on an existing entry; an acknowledged
\* entry is removed.  On "none" this is the guarded form _resolve_if_active.
Resolve(s) ==
    IF s = "detected" THEN "resolved"
    ELSE IF s = "acknowledged" THEN "none"
    ELSE s

\* resolve() of a non-latching definition removes the entry at once.
ResolveUnlatched(s) == "none"

\* The manager raises KeyError when resolve() or acknowledge() finds no entry.
RaisesKeyError(s) == s = "none"
===============================================================================
