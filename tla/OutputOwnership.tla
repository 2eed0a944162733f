--------------------------- MODULE OutputOwnership ---------------------------
(***************************************************************************)
(* What Mars promises about the paths it manages outside `.mars/`: the     *)
(* contract of `surface_ownership`, stated without phases, lanes, commands *)
(* or locks of a session. A path holds nothing, the user's content or      *)
(* Mars's; `mars.lock` claims it, as installed, as pending deletion, or    *)
(* not at all. TargetSync implements this module.                          *)
(***************************************************************************)
CONSTANTS Path, NoPath

VARIABLES
    file,       \* what is at the path: "none", "user" or "mars"
    claim,      \* what mars.lock says: "none", "installed" or "pending"
    forced,     \* the session was given --force
    copying,    \* a path that was written and is not yet noted, or NoPath
    written,    \* paths the session has noted as installed
    gone        \* paths the session has seen absent, or removed

ovars == <<file, claim, forced, copying, written, gone>>

OInit ==
    /\ file = [p \in Path |-> "none"]
    /\ claim = [p \in Path |-> "none"]
    /\ forced = FALSE
    /\ copying = NoPath
    /\ written = {}
    /\ gone = {}

(* The user changes any path at any time.                                  *)
UserStep(p) ==
    /\ \E f \in {"none", "user"} : file' = [file EXCEPT ![p] = f]
    /\ UNCHANGED <<claim, forced, copying, written, gone>>

(* A session starts, or ends without publishing.                           *)
SessionStep ==
    /\ forced' \in BOOLEAN
    /\ copying' = NoPath
    /\ written' = {}
    /\ gone' = {}
    /\ UNCHANGED <<file, claim>>

(* `copy_decision`: an occupied path takes Mars's bytes only if the lock   *)
(* claims it as installed, or the user forces it.                          *)
MayInstall(p) == file[p] = "none" \/ claim[p] = "installed" \/ forced

(* Bytes that are already as desired are noted without being written.      *)
Install(p) ==
    /\ MayInstall(p)
    /\ \/ file' = [file EXCEPT ![p] = "mars"]
       \/ file[p] # "none" /\ UNCHANGED file
    /\ \/ written' = written \cup {p} /\ copying' = NoPath
       \/ written' = written /\ copying' = p
    /\ UNCHANGED <<claim, forced, gone>>

Note ==
    /\ copying # NoPath
    /\ written' \in {written, written \cup {copying}}
    /\ copying' = NoPath
    /\ UNCHANGED <<file, claim, forced, gone>>

(* `may_delete`: only what the lock claims is ever removed.                *)
Remove(p) ==
    /\ claim[p] # "none"
    /\ file' = [file EXCEPT ![p] = "none"]
    /\ gone' = gone \cup {p}
    /\ UNCHANGED <<claim, forced, copying, written>>

(* A claim appears with an installation, disappears with a confirmed       *)
(* removal, and otherwise lives on, at least as a pending deletion.        *)
MayBecome(p, c) ==
    CASE c = "installed" -> p \in written \/ claim[p] = "installed"
      [] c = "pending"   -> claim[p] # "none" /\ p \notin gone
      [] c = "none"      -> claim[p] = "none" \/ p \in gone

Publish ==
    /\ claim' \in [Path -> {"none", "installed", "pending"}]
    /\ \A p \in Path : MayBecome(p, claim'[p])
    /\ forced' \in BOOLEAN
    /\ copying' = NoPath
    /\ written' = {}
    /\ gone' = {}
    /\ UNCHANGED file

ONext ==
    \/ SessionStep \/ Note \/ Publish
    \/ \E p \in Path : UserStep(p) \/ Install(p) \/ Remove(p)

OSpec == OInit /\ [][ONext]_ovars
==============================================================================
