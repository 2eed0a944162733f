----------------------------- MODULE ConfigEntries -----------------------------
(***************************************************************************)
(* Hook entries and MCP servers that Mars merges into the configuration    *)
(* files of one harness, and the records mars.lock keeps of them. Hook     *)
(* entries are unkeyed members of an array (that of one event here), which *)
(* Mars recognizes by equality alone; servers are keyed by name. Files of  *)
(* other harnesses are disjoint, and so are their records.                 *)
(*                                                                         *)
(* A session is the config-entry part of `mars sync`, or `mars unlink`.    *)
(* Each file is read, edited and saved within one step; the user may edit  *)
(* it between any two.                                                     *)
(***************************************************************************)
EXTENDS Naturals, FiniteSets, SequencesExt

CONSTANTS
    Hook,       \* names of hooks
    Server,     \* names of MCP servers
    Entry,      \* hook entries that packages render
    UserEntry,  \* hook entries the user writes
    Value,      \* server definitions that packages render
    UserValue,  \* server definitions the user writes, those of Value included
    Configs,    \* mars.toml and the sources: [managed, hooks, servers, scanFailed]
    Withheld,   \* sets of hooks and servers whose directory may fail to install
    MaxEdits,   \* bound on the user's edits of the two files
    MaxChanges, \* bound on changes of mars.toml
    MaxFaults,  \* bound on failing reads and writes and on killed sessions
    None

(* A hook in the order of its rank, with what it renders; None for one     *)
(* whose hook.toml no longer reads, which keeps what it had.               *)
Ranked == [name : Hook, entries : Seq(Entry) \cup {None}]
Config == [managed : BOOLEAN, hooks : Seq(Ranked),
           servers : [Server -> Value \cup {None}], scanFailed : BOOLEAN]
Command == [kind : {"sync", "unlink"}, force : BOOLEAN]

ASSUME EntryAssumption ==
    /\ IsFiniteSet(Hook) /\ IsFiniteSet(Entry)
    /\ Entry \cap UserEntry = {}
    /\ None \notin Value \cup UserValue \cup Seq(Entry)
ASSUME ConfigAssumption ==
    /\ Configs # {}
    /\ \A c \in Configs :
           /\ c \in Config
           /\ \A i, j \in DOMAIN c.hooks :
                  c.hooks[i].name = c.hooks[j].name => i = j
           /\ \A i \in DOMAIN c.hooks : c.hooks[i].entries # << >>
    /\ Withheld \subseteq SUBSET (Hook \cup Server) /\ Withheld # {}
ASSUME BoundAssumption ==
    MaxEdits \in Nat /\ MaxChanges \in Nat /\ MaxFaults \in Nat

VARIABLES
    \* on disk
    config,     \* mars.toml
    hookFile,   \* the event's array in hooks.json or settings.local.json
    mcpFile,    \* the servers of .mcp.json or its like
    lockFile,   \* the config_entries of mars.lock
    \* memory of the session
    pc, cmd,
    want,       \* the hooks to emit, in rank order
    wantServers,
    outcome,    \* how far the hook entries came
    servers,    \* the server records the reconcile returned
    \* history and bounds
    owner,      \* who wrote the definition of a server
    stray,      \* entries and servers a killed session left unrecorded
    clean,      \* no failure and no edit since the session began
    edits, changes, faults

disk == <<config, hookFile, mcpFile, lockFile>>
session == <<pc, cmd, want, wantServers, outcome, servers>>
bounds == <<edits, changes, faults>>
vars == <<disk, session, owner, stray, clean, bounds>>

NoCmd == [kind |-> "sync", force |-> FALSE]
NoHooks == [h \in Hook |-> None]
NoServers == [s \in Server |-> None]

Init ==
    /\ config \in Configs
    /\ hookFile = << >>
    /\ mcpFile = NoServers
    /\ lockFile = [hooks |-> NoHooks, servers |-> NoServers]
    /\ pc = "idle"
    /\ cmd = NoCmd
    /\ want = << >>
    /\ wantServers = NoServers
    /\ outcome = "none"
    /\ servers = NoServers
    /\ owner = [s \in Server |-> "none"]
    /\ stray = [entries |-> [e \in Entry |-> 0], servers |-> {}]
    /\ clean = TRUE
    /\ edits = 0 /\ changes = 0 /\ faults = 0

EndSession ==
    /\ pc' = "idle"
    /\ cmd' = NoCmd
    /\ want' = << >>
    /\ wantServers' = NoServers
    /\ outcome' = "none"
    /\ servers' = NoServers

-----------------------------------------------------------------------------
(* Hook entries of a file and of the records                               *)

Count(es, e) == Cardinality({i \in DOMAIN es : es[i] = e})
Emitted(hooks) == FlattenSeq([i \in DOMAIN hooks |-> hooks[i].entries])
Recorded(book) ==
    FlattenSeq([i \in 1..Cardinality(Hook) |->
                   LET name == SetToSeq(Hook)[i]
                   IN  IF book.hooks[name] = None THEN << >> ELSE book.hooks[name]])

(* The records of the hooks to emit.                                       *)
HookRecords(hooks) ==
    [h \in Hook |-> IF \E i \in DOMAIN hooks : hooks[i].name = h
                    THEN hooks[CHOOSE i \in DOMAIN hooks : hooks[i].name = h].entries
                    ELSE None]

(* [mutant] Every entry is somewhere in the file, in whatever order.       *)
HoldsAnyOrder(file, es) == \A i \in DOMAIN es : \E j \in DOMAIN file : file[j] = es[i]

(* The file holds every entry, in this order, among others.                *)
HoldsRecorded(file, es) ==
    LET After(at, e) == LET hits == {i \in (at + 1)..Len(file) : file[i] = e}
                        IN  IF hits = {} THEN Len(file) + 1 ELSE Min(hits)
    IN  FoldLeft(After, 0, es) <= Len(file)

(* One member of the array goes for each recorded entry it still equals.   *)
RemoveEntries(file, es) == FoldLeft(RemoveFirst, file, es)

-----------------------------------------------------------------------------
(* What a sync wants here                                                  *)

(* A hook is emitted if its directory was installed; one that does not     *)
(* read keeps what is recorded of it.                                      *)
Wants(c, withheld) ==
    LET Content(k) == IF k.entries # None THEN k.entries ELSE lockFile.hooks[k.name]
        Emit(hooks, k) ==
            IF k.name \in withheld \/ Content(k) = None THEN hooks
            ELSE Append(hooks, [name |-> k.name, entries |-> Content(k)])
    IN  IF c.managed THEN FoldLeft(Emit, << >>, c.hooks) ELSE << >>

(* When a source's servers cannot be listed, every recorded one stays.     *)
WantsServers(c, withheld) ==
    [s \in Server |->
        CASE ~c.managed -> None
          [] c.managed /\ c.servers[s] # None /\ s \notin withheld -> c.servers[s]
          [] OTHER -> IF c.managed /\ c.scanFailed THEN lockFile.servers[s] ELSE None]

(* Hooks that are as recorded, in a file that has them in order, are left  *)
(* where they are: Codex trusts a hook by its position.                    *)
Unchanged(hooks) ==
    /\ hooks # << >>
    /\ HookRecords(hooks) = lockFile.hooks
    /\ HoldsRecorded(hookFile, Emitted(hooks))

Sync(force) ==
    /\ pc = "idle"
    /\ pc' = "remove"
    /\ cmd' = [kind |-> "sync", force |-> force]
    /\ \E withheld \in Withheld :
           /\ want' = Wants(config, withheld)
           /\ wantServers' = WantsServers(config, withheld)
    /\ outcome' = IF Unchanged(want') THEN "unchanged" ELSE "none"
    /\ clean' = TRUE
    /\ UNCHANGED <<disk, servers, owner, stray, bounds>>

Unlink ==
    /\ pc = "idle"
    /\ config.managed
    /\ pc' = "remove"
    /\ cmd' = [kind |-> "unlink", force |-> FALSE]
    /\ clean' = TRUE
    /\ UNCHANGED <<disk, want, wantServers, outcome, servers, owner, stray, bounds>>

-----------------------------------------------------------------------------
(* Hook entries go before they are written: an array has no keys           *)

RemoveHooks ==
    /\ pc = "remove"
    /\ pc' = "mcp"
    /\ IF outcome = "unchanged" THEN UNCHANGED <<hookFile, outcome>>
       ELSE /\ hookFile' = RemoveEntries(hookFile, Recorded(lockFile))
            /\ outcome' = "removed"
    /\ UNCHANGED <<config, mcpFile, lockFile, cmd, want, wantServers, servers,
                   owner, stray, clean, bounds>>

(* The file does not load or save: every record of it is retained.         *)
RemovalFails ==
    /\ pc = "remove"
    /\ outcome = "none" /\ lockFile.hooks # NoHooks
    /\ faults < MaxFaults
    /\ faults' = faults + 1
    /\ pc' = "mcp"
    /\ outcome' = "retained"
    /\ clean' = FALSE
    /\ UNCHANGED <<disk, cmd, want, wantServers, servers, owner, stray, edits, changes>>

(* [mutant] The write does not wait for the removal.                       *)
PermitAlways == outcome # "unchanged"

(* Nothing is written beside entries that may still be there.              *)
WritePermit == outcome = "removed"

WriteHooks ==
    /\ pc = "write"
    /\ pc' = "publish"
    /\ IF want # << >> /\ WritePermit
       THEN /\ hookFile' = hookFile \o Emitted(want)
            /\ outcome' = "written"
       ELSE UNCHANGED <<hookFile, outcome>>
    /\ UNCHANGED <<config, mcpFile, lockFile, cmd, want, wantServers, servers,
                   owner, stray, clean, bounds>>

WriteFails ==
    /\ pc = "write"
    /\ want # << >> /\ WritePermit
    /\ faults < MaxFaults
    /\ faults' = faults + 1
    /\ pc' = "publish"
    /\ outcome' = "lost"
    /\ clean' = FALSE
    /\ UNCHANGED <<disk, cmd, want, wantServers, servers, owner, stray, edits, changes>>

-----------------------------------------------------------------------------
(* Servers are reconciled in one pass over their file                      *)

Owned(s) == lockFile.servers[s] # None /\ mcpFile[s] = lockFile.servers[s]

(* [mutant] A record of the name is enough, edited or not.                 *)
MayWriteRecorded(s) == \/ mcpFile[s] = None \/ lockFile.servers[s] # None \/ cmd.force

MayWrite(s) ==
    \/ mcpFile[s] \in {None, wantServers[s]}
    \/ Owned(s)
    \/ cmd.force

Reconciled(s) ==
    IF wantServers[s] # None
    THEN IF MayWrite(s) THEN wantServers[s] ELSE mcpFile[s]
    ELSE IF Owned(s) THEN None ELSE mcpFile[s]

(* A server left alone keeps its record while it is wanted.                *)
ServerRecord(s) ==
    IF wantServers[s] = None THEN None
    ELSE IF MayWrite(s) THEN wantServers[s] ELSE lockFile.servers[s]

AfterMcp == IF cmd.kind = "unlink" THEN "save" ELSE "write"

ReconcileMcp ==
    /\ pc = "mcp"
    /\ pc' = AfterMcp
    /\ mcpFile' = [s \in Server |-> Reconciled(s)]
    /\ owner' = [s \in Server |-> IF mcpFile'[s] = mcpFile[s] THEN owner[s]
                                  ELSE IF mcpFile'[s] = None THEN "none" ELSE "mars"]
    /\ servers' = [s \in Server |-> ServerRecord(s)]
    /\ UNCHANGED <<config, hookFile, lockFile, cmd, want, wantServers, outcome,
                   stray, clean, bounds>>

ReconcileFails ==
    /\ pc = "mcp"
    /\ lockFile.servers # NoServers \/ wantServers # NoServers
    /\ faults < MaxFaults
    /\ faults' = faults + 1
    /\ pc' = AfterMcp
    /\ servers' = lockFile.servers
    /\ clean' = FALSE
    /\ UNCHANGED <<disk, cmd, want, wantServers, outcome, owner, stray, edits, changes>>

-----------------------------------------------------------------------------
(* The records are published, or lost with the session                     *)

PublishedHooks ==
    CASE outcome = "retained" -> lockFile.hooks
      [] outcome \in {"written", "unchanged"} -> HookRecords(want)
      [] OTHER -> NoHooks

SaveConfig ==
    /\ pc = "save"
    /\ pc' = "publish"
    /\ config' = [config EXCEPT !.managed = FALSE]
    /\ UNCHANGED <<hookFile, mcpFile, lockFile, cmd, want, wantServers, outcome,
                   servers, owner, stray, clean, bounds>>

WriteLock ==
    /\ pc = "publish"
    /\ lockFile' = [hooks |-> PublishedHooks, servers |-> servers]
    /\ stray' = [stray EXCEPT !.servers =
                     {s \in @ : owner[s] = "mars" /\ servers[s] # mcpFile[s]}]
    /\ EndSession
    /\ UNCHANGED <<config, hookFile, mcpFile, owner, clean, bounds>>

(* A kill, or an error in a later phase of the sync: mars.lock stays.      *)
Unrecorded(e) == LET n == Count(hookFile, e)
                     r == Count(Recorded(lockFile), e)
                 IN  IF n > r THEN n - r ELSE 0
GiveUp ==
    /\ pc # "idle"
    /\ faults < MaxFaults
    /\ faults' = faults + 1
    /\ stray' = [entries |-> [e \in Entry |-> IF Unrecorded(e) > stray.entries[e]
                                              THEN Unrecorded(e) ELSE stray.entries[e]],
                 servers |-> {s \in Server :
                     owner[s] = "mars" /\ lockFile.servers[s] # mcpFile[s]}]
    /\ EndSession
    /\ UNCHANGED <<disk, owner, clean, edits, changes>>

-----------------------------------------------------------------------------
(* The user                                                                *)

EditConfig ==
    /\ pc = "idle"
    /\ changes < MaxChanges
    /\ config' \in Configs \ {config}
    /\ changes' = changes + 1
    /\ UNCHANGED <<hookFile, mcpFile, lockFile, session, owner, stray, clean, edits,
                   faults>>

EditHooks ==
    /\ edits < MaxEdits
    /\ edits' = edits + 1
    /\ \/ \E i \in 1..(Len(hookFile) + 1), u \in UserEntry :
              hookFile' = InsertAt(hookFile, i, u)
       \/ \E i \in DOMAIN hookFile, u \in UserEntry :
              hookFile' = ReplaceAt(hookFile, i, u)
       \/ \E i \in DOMAIN hookFile : hookFile' = RemoveAt(hookFile, i)
       \/ \E i \in 1..(Len(hookFile) - 1) :
              hookFile' = [hookFile EXCEPT ![i] = hookFile[i + 1],
                                           ![i + 1] = hookFile[i]]
    /\ clean' = FALSE
    /\ UNCHANGED <<config, mcpFile, lockFile, session, owner, stray, changes, faults>>

EditMcp(s) ==
    /\ edits < MaxEdits
    /\ edits' = edits + 1
    /\ \E v \in (UserValue \cup {None}) \ {mcpFile[s]} :
           /\ mcpFile' = [mcpFile EXCEPT ![s] = v]
           /\ owner' = [owner EXCEPT ![s] = IF v = None THEN "none" ELSE "user"]
    /\ stray' = [stray EXCEPT !.servers = @ \ {s}]
    /\ clean' = FALSE
    /\ UNCHANGED <<config, hookFile, lockFile, session, changes, faults>>

-----------------------------------------------------------------------------
Session == RemoveHooks \/ ReconcileMcp \/ WriteHooks \/ SaveConfig \/ WriteLock
Failure == RemovalFails \/ ReconcileFails \/ WriteFails \/ GiveUp
Edit == EditConfig \/ EditHooks \/ \E s \in Server : EditMcp(s)

Next == (\E force \in BOOLEAN : Sync(force)) \/ Unlink \/ Session \/ Failure \/ Edit

Spec == Init /\ [][Next]_vars

-----------------------------------------------------------------------------
(* Every entry of a package in a hook file is recorded, as often as it is  *)
(* there, and every server definition Mars wrote is recorded as it is,     *)
(* unless a killed session left it: neither a failing removal, nor a       *)
(* skipped write, nor an edit makes Mars forget what it has to clean up.   *)
EntriesRecorded == pc = "idle" =>
    /\ \A e \in Entry :
           Count(hookFile, e) <= Count(Recorded(lockFile), e) + stray.entries[e]
    /\ \A s \in Server :
           owner[s] = "mars" => lockFile.servers[s] = mcpFile[s] \/ s \in stray.servers

(* No session adds, drops or reorders the user's hook entries, and without *)
(* --force it replaces or deletes a server definition of the user's only   *)
(* where mars.lock records that very definition.                           *)
UserHooks(file) ==
    LET Keep(hooks, e) == IF e \in UserEntry THEN Append(hooks, e) ELSE hooks
    IN  FoldLeft(Keep, << >>, file)
UserEntriesKept == [][edits' = edits =>
    /\ UserHooks(hookFile') = UserHooks(hookFile)
    /\ \A s \in Server : owner[s] = "user" /\ mcpFile'[s] # mcpFile[s]
                             => cmd.force \/ lockFile.servers[s] = mcpFile[s]]_vars

(* A sync that meets no failure and no edit ends with the wanted hooks     *)
(* recorded and in the file in rank order, whichever of its two ways it    *)
(* took, and with every wanted server the user has not claimed, whatever   *)
(* the failures, kills and edits before it.                                *)
InOrder(file, es) == \E at \in [DOMAIN es -> DOMAIN file] :
    /\ \A i \in DOMAIN es : file[at[i]] = es[i]
    /\ \A i, j \in DOMAIN es : i < j => at[i] < at[j]
SyncSettles == [][
    cmd.kind = "sync" /\ pc = "publish" /\ pc' = "idle" /\ faults' = faults /\ clean =>
        /\ lockFile'.hooks = HookRecords(want)
        /\ InOrder(hookFile, Emitted(want))
        /\ \A s \in Server :
               wantServers[s] # None /\ owner[s] # "user" /\ s \notin stray.servers
                   => mcpFile[s] = wantServers[s]]_vars
==============================================================================
