------------------------------ MODULE Resolution ------------------------------
(***************************************************************************)
(* Version resolution of mars: which ref of each package a sync installs.  *)
(* The resolver walks the dependency graph depth first, selects a ref for  *)
(* a package at its first request and, when a later request would have     *)
(* selected another, starts over with that ref carried along (`override`). *)
(*                                                                         *)
(* A source is a git repository. What mars.toml asks, what the lock        *)
(* records and what the repositories hold is one `world`, which does not   *)
(* change while it is being resolved. After a successful sync, Replay      *)
(* resolves the same world again from the lock the first one wrote.        *)
(* Path sources, marketplace plugins, local source overrides, failing      *)
(* downloads and the selection of items are left out.                      *)
(***************************************************************************)
EXTENDS Naturals, FiniteSets, SequencesExt

CONSTANTS
    Package,    \* names of dependencies
    Source,     \* git repositories
    Version,    \* versions, a set of numbers
    Pin,        \* branches and commits that a request may name
    Commit,     \* commits of all repositories
    Tags,       \* [Source -> function from some versions to their commits]
    Branch,     \* [Source -> [Pin \cup {Head} -> Commit]]
    Worlds,     \* the worlds to resolve
    HEAD,       \* the default branch
    Root,       \* mars.toml, the requester of the direct dependencies
    None

Latest == [kind |-> "latest", is |-> None]
Semver(S) == [kind |-> "semver", is |-> S]
RefPin(b) == [kind |-> "pin", is |-> b]
Constraint == {Latest} \cup {Semver(S) : S \in SUBSET Version}
              \cup {RefPin(b) : b \in Pin}
Request == [name : Package, source : Source, want : Constraint]

(* What a request resolves to. `label` is the tag or the pin.              *)
Ref == [version : Version \cup {None}, label : Version \cup Pin \cup {None},
        commit : Commit]
Locked == [source : Source, label : Version \cup Pin \cup {None},
           commit : Commit]

(* `upgrade` holds the targets of `mars upgrade`, every package when it    *)
(* names none; `refused` the commits whose requires-mars or                *)
(* requires-meridian the running engines do not meet; `gone` the commits   *)
(* that can no longer be fetched; `unpublished` the versions that are      *)
(* tagged only after the first sync.                                       *)
World == [direct : Seq(Request), manifest : [Commit -> Seq(Request)],
          refused : SUBSET Commit, gone : SUBSET Commit,
          unpublished : SUBSET Version,
          lock : [Package -> Locked \cup {None}],
          frozen : BOOLEAN, upgrade : SUBSET Package, bump : BOOLEAN]

ASSUME UpstreamAssumption ==
    /\ IsFiniteSet(Package) /\ Version \subseteq Nat /\ IsFiniteSet(Version)
    /\ \A s \in Source : /\ DOMAIN Tags[s] \subseteq Version
                         /\ \A v \in DOMAIN Tags[s] : Tags[s][v] \in Commit
    /\ Branch \in [Source -> [Pin \cup {HEAD} -> Commit]]
    /\ None \notin Version \cup Pin /\ HEAD \notin Pin /\ Root \notin Package
(* None is no ref, record, trial or error.                                 *)
ASSUME NoneAssumption ==
    /\ None \notin Ref \cup Locked
    /\ None \notin [source : Source, ref : Ref]
    /\ None \notin [request : Request, carried : Ref \cup {None}, rejected : BOOLEAN]
    /\ None \notin {"frozen", "conflict", "engine"}
ASSUME WorldAssumption ==
    /\ Worlds # {}
    /\ \A w \in Worlds :
           /\ w \in World
           /\ w.frozen => w.upgrade = {}

VARIABLES
    world,
    \* carried across restarts
    overrides,  \* the ref a package was restarted with
    excluded,   \* versions of a package that the engines refuse
    history,    \* the refs a package was restarted with, in order
    \* the context of one pass
    stack,      \* packages being resolved, innermost first, and what is left
                \* of their manifests
    trying,     \* the request for which a ref is being selected
    states, registry,
    asked,      \* the requests for each package so far, in order
    outcome,
    first       \* what the first sync resolved to, for Replay

vars == <<world, overrides, excluded, history, stack, trying, states, registry,
          asked, outcome, first>>
carried == <<overrides, excluded, history>>
context == <<stack, trying, states, registry, asked>>

-------------------------------------------------------------------------------
(* Selection of one ref: mars_schema::version and resolve_git_source.      *)

Mode(p) == IF world.frozen THEN "frozen"
           ELSE IF p \in world.upgrade THEN "latest" ELSE "prefer"

(* What the requests of one kind in `asks` name.                           *)
Wants(asks, kind) == {asks[i].want.is : i \in
                         {j \in DOMAIN asks : asks[j].want.kind = kind}}

Allows(p, asks, v) ==
    v \notin excluded[p] /\ \A S \in Wants(asks, "semver") : v \in S

(* One pin at most, and no range beside it.                                *)
Settles(asks) == LET pins == Wants(asks, "pin") IN
    /\ Cardinality(pins) <= 1
    /\ pins # {} => Wants(asks, "semver") = {}

KeepsLock(p, asks, lk) ==
    /\ Mode(p) = "prefer" /\ lk # None /\ lk.label \in Version
    /\ Wants(asks, "latest") = {}
    /\ Allows(p, asks, lk.label)

At(v, label, c) ==
    [error |-> None, ref |-> [version |-> v, label |-> label, commit |-> c]]
Fails(e) == [error |-> e, ref |-> None]

Published(s) == DOMAIN Tags[s] \ world.unpublished

(* The lock entry, if it is of this source and to be read at all.          *)
LockOf(p, s) == LET lk == world.lock[p] IN
    IF lk # None /\ lk.source = s /\ Mode(p) # "latest" THEN lk ELSE None

Fetchable(lk) == lk # None /\ lk.commit \notin world.gone

SelectPin(p, s, lk, pin) ==
    LET here == lk # None /\ lk.label = pin /\ Fetchable(lk) IN
    IF Mode(p) = "frozen" /\ ~here THEN Fails("frozen")
    ELSE At(None, pin, IF here THEN lk.commit ELSE Branch[s][pin])

SelectFrozen(p, asks, lk) ==
    IF ~Fetchable(lk) THEN Fails("frozen")
    ELSE IF lk.label = None /\ Wants(asks, "semver") = {}
         THEN At(None, None, lk.commit)
    ELSE IF lk.label \in Version /\ Allows(p, asks, lk.label)
         THEN At(lk.label, lk.label, lk.commit)
    ELSE Fails("frozen")

SelectHead(p, s, lk) ==
    At(None, None, IF Mode(p) = "prefer" /\ Fetchable(lk) THEN lk.commit
                   ELSE Branch[s][HEAD])

(* Among the tags: the locked version, though its commit is gone, or the   *)
(* newest.                                                                 *)
SelectTag(p, s, asks, lk) ==
    LET allowed == {v \in Published(s) : Allows(p, asks, v)}
        v == IF KeepsLock(p, asks, lk) /\ lk.label \in allowed
             THEN lk.label ELSE Max(allowed)
    IN IF allowed = {} THEN Fails("conflict") ELSE At(v, v, Tags[s][v])

(* The ref of package p, from repository s, under the requests `asks`.     *)
Select(p, s, asks) == LET lk == LockOf(p, s) IN
    IF Mode(p) = "frozen" /\ world.lock[p] # lk THEN Fails("frozen")
    ELSE IF ~Settles(asks) THEN Fails("conflict")
    ELSE IF Wants(asks, "pin") # {}
         THEN SelectPin(p, s, lk, CHOOSE b \in Wants(asks, "pin") : TRUE)
    ELSE IF Mode(p) = "frozen" THEN SelectFrozen(p, asks, lk)
    ELSE IF KeepsLock(p, asks, lk) /\ Fetchable(lk)
         THEN At(lk.label, lk.label, lk.commit)
    ELSE IF Published(s) = {} THEN SelectHead(p, s, lk)
    ELSE SelectTag(p, s, asks, lk)

(* A conflict is put down to the engines if they alone rule a version out. *)
Blamed(p, asks, e) ==
    IF e = "conflict" /\ Wants(asks, "pin") = {}
       /\ \E v \in excluded[p] : \A S \in Wants(asks, "semver") : v \in S
    THEN "engine" ELSE e

-------------------------------------------------------------------------------
(* The walk.                                                               *)

Unseen == [p \in Package |-> "unseen"]
Nothing == [p \in Package |-> None]

(* A request of mars.toml as `mars upgrade --bump` makes it.               *)
Direct(w) == [i \in DOMAIN w.direct |->
    IF w.bump /\ w.direct[i].name \in w.upgrade
    THEN [w.direct[i] EXCEPT !.want = Latest] ELSE w.direct[i]]

(* A fresh context: nothing of the pass before is left.                    *)
FreshContext(w) ==
    /\ stack' = <<[pkg |-> Root, todo |-> Direct(w)]>>
    /\ trying' = None
    /\ states' = Unseen /\ registry' = Nothing
    /\ asked' = [p \in Package |-> << >>]

Init ==
    /\ world \in Worlds
    /\ overrides = Nothing
    /\ excluded = [p \in Package |-> {}]
    /\ history = [p \in Package |-> << >>]
    /\ stack = <<[pkg |-> Root, todo |-> Direct(world)]>>
    /\ trying = None
    /\ states = Unseen /\ registry = Nothing
    /\ asked = [p \in Package |-> << >>]
    /\ outcome = "running" /\ first = None

Walking == outcome = "running" /\ trying = None
Top == Head(stack)
Pending == Head(Top.todo)
Requested == Walking /\ Top.todo # << >>

(* The first request of the innermost manifest is dealt with.              *)
Popped == <<[Top EXCEPT !.todo = Tail(@)]>> \o Tail(stack)

Ends(how) == /\ outcome' = how
             /\ UNCHANGED <<world, carried, context, first>>

(* Two names for one source, or one name for two sources.                  *)
Clashes(r) ==
    \/ \E q \in Package \ {r.name} :
           registry[q] # None /\ registry[q].source = r.source
    \/ registry[r.name] # None /\ registry[r.name].source # r.source

RefuseIdentity == Requested /\ Clashes(Pending) /\ Ends("identity")

Asked(r) == Append(asked[r.name], [by |-> Top.pkg, want |-> r.want])
Asks(r) == asked' = [asked EXCEPT ![r.name] = Asked(r)]

(* A request for a package whose own dependencies are being resolved: its  *)
(* constraint is noted, and the cycle is cut.                              *)
VisitResolving ==
    /\ Requested /\ ~Clashes(Pending) /\ states[Pending.name] = "resolving"
    /\ Asks(Pending) /\ stack' = Popped
    /\ UNCHANGED <<world, carried, trying, states, registry, outcome, first>>

(* [mutant] Nothing but a pin or an unmet range starts a new selection.    *)
CannotChangeUnpinned(r) ==
    \/ r.want.kind = "latest"
    \/ r.want.kind = "semver" /\ registry[r.name].ref.version \in r.want.is

(* A range that the selected version meets cannot change the selection.    *)
CannotChange(r) ==
    r.want.kind = "semver" /\ registry[r.name].ref.version \in r.want.is

Changes(new, old) == new.version # old.version \/ new.commit # old.commit

(* A request for a resolved package: the selection is made again under all *)
(* requests so far.                                                        *)
Revisits(r) == Requested /\ ~Clashes(r) /\ states[r.name] = "resolved"
Again(r) == Select(r.name, r.source, Asked(r))

RevisitHolds == LET r == Pending IN
    /\ Revisits(r)
    /\ \/ CannotChange(r)
       \/ Again(r).error = None /\ ~Changes(Again(r).ref, registry[r.name].ref)
    /\ Asks(r) /\ stack' = Popped
    /\ UNCHANGED <<world, carried, trying, states, registry, outcome, first>>

RevisitFails == LET r == Pending IN
    /\ Revisits(r) /\ ~CannotChange(r) /\ Again(r).error # None
    /\ Ends(Blamed(r.name, Asked(r), Again(r).error))

Oscillates(p, ref) == \E i \in DOMAIN history[p] : history[p][i] = ref

(* [mutant] Only the last restart of a package is remembered.              *)
RememberedLast(p, ref) == <<ref>>

Remembered(p, ref) == Append(history[p], ref)

Restarts(r) ==
    Revisits(r) /\ ~CannotChange(r) /\ Again(r).error = None
    /\ Changes(Again(r).ref, registry[r.name].ref)

(* The selection has changed: a new pass starts, with the new ref for the  *)
(* package, unless the package had been restarted with that ref before.    *)
Restart == LET r == Pending IN
    /\ Restarts(r) /\ ~Oscillates(r.name, Again(r).ref)
    /\ history' = [history EXCEPT ![r.name] = Remembered(r.name, Again(r).ref)]
    /\ overrides' = [overrides EXCEPT ![r.name] = Again(r).ref]
    /\ FreshContext(world)
    /\ UNCHANGED <<world, excluded, outcome, first>>

RefuseOscillation == LET r == Pending IN
    Restarts(r) /\ Oscillates(r.name, Again(r).ref) /\ Ends("oscillation")

-------------------------------------------------------------------------------
(* The first request for a package.                                        *)

Override(p) == LET ref == overrides[p] IN
    IF ref # None /\ ref.version \notin excluded[p] THEN ref ELSE None

VisitUnseen == LET r == Pending IN
    /\ Requested /\ ~Clashes(r) /\ states[r.name] = "unseen"
    /\ Asks(r) /\ stack' = Popped
    /\ states' = [states EXCEPT ![r.name] = "resolving"]
    /\ trying' = [request |-> r, carried |-> Override(r.name),
                  rejected |-> FALSE]
    /\ UNCHANGED <<world, carried, registry, outcome, first>>

Trying == outcome = "running" /\ trying # None

(* The ref to try: the override as it stands, or a fresh selection.        *)
Candidate == LET r == trying.request IN
    IF trying.carried # None THEN [error |-> None, ref |-> trying.carried]
    ELSE Select(r.name, r.source, asked[r.name])

(* None is left. After a rejection the engines are to blame: the code      *)
(* relies on the rejected version, which a stale override need not be, to  *)
(* meet all requests.                                                      *)
NoCandidate == LET p == trying.request.name  e == Candidate.error IN
    /\ Trying /\ e # None
    /\ Ends(IF ~(trying.rejected /\ e = "conflict") THEN e
            ELSE IF Blamed(p, asked[p], e) = "engine" THEN "engine" ELSE "panic")

Refused ==
    Trying /\ Candidate.error = None /\ Candidate.ref.commit \in world.refused

(* The engines refuse the candidate: another version is tried, if there is *)
(* a version to rule out and a choice.                                     *)
RejectCandidate == LET p == trying.request.name IN
    /\ Refused /\ Mode(p) # "frozen" /\ Candidate.ref.version # None
    /\ excluded' = [excluded EXCEPT ![p] = @ \cup {Candidate.ref.version}]
    /\ trying' = [trying EXCEPT !.carried = None, !.rejected = TRUE]
    /\ UNCHANGED <<world, overrides, history, stack, states, registry, asked,
                   outcome, first>>

RefuseEngine ==
    /\ Refused
    /\ \/ Mode(trying.request.name) = "frozen" /\ Ends("frozen")
       \/ /\ Mode(trying.request.name) # "frozen"
          /\ Candidate.ref.version = None /\ Ends("engine")

(* The candidate is registered and its manifest is next. A choice made     *)
(* after a rejection is kept for later passes.                             *)
Register == LET r == trying.request  ref == Candidate.ref IN
    /\ Trying /\ Candidate.error = None /\ ~Refused
    /\ registry' = [registry EXCEPT ![r.name] =
                        [source |-> r.source, ref |-> ref]]
    /\ overrides' = IF trying.rejected THEN [overrides EXCEPT ![r.name] = ref]
                    ELSE overrides
    /\ stack' = <<[pkg |-> r.name, todo |-> world.manifest[ref.commit]]>> \o stack
    /\ trying' = None
    /\ UNCHANGED <<world, excluded, history, states, asked, outcome, first>>

(* All that a package requests is resolved.                                *)
Return ==
    /\ Walking /\ Top.todo = << >> /\ Top.pkg # Root
    /\ states' = [states EXCEPT ![Top.pkg] = "resolved"]
    /\ stack' = Tail(stack)
    /\ UNCHANGED <<world, carried, trying, registry, asked, outcome, first>>

Finish ==
    Walking /\ Top.todo = << >> /\ Top.pkg = Root /\ Ends("ok")

(* [mutant] Only the direct dependencies are recorded.                     *)
WrittenDirect == [p \in Package |->
    IF registry[p] = None \/ \A i \in DOMAIN asked[p] : asked[p][i].by # Root
    THEN None
    ELSE [source |-> registry[p].source, label |-> registry[p].ref.label,
          commit |-> registry[p].ref.commit]]

(* The dependencies of mars.lock after a successful sync.                  *)
Written == [p \in Package |->
    IF registry[p] = None THEN None
    ELSE [source |-> registry[p].source, label |-> registry[p].ref.label,
          commit |-> registry[p].ref.commit]]

(* Tags published since move a package that follows the newest version,    *)
(* or a branch until there is a version.                                   *)
Floats(p) == LET s == registry[p].source IN
    IF Published(s) = {} THEN DOMAIN Tags[s] # {}
    ELSE world.unpublished # {} /\ Wants(asked[p], "latest") # {}

(* mars.lock knows a package by the label of its first request only. If    *)
(* that one named no ref, the pin of a later one is no longer recorded.    *)
Unpinned(p) == /\ world.lock[p] # None /\ registry[p].ref.label = None
               /\ world.lock[p].label \in Wants(asked[p], "pin")

(* A plain `mars sync` after a successful one, whose lock it reads. New    *)
(* versions may have been tagged since.                                    *)
Replay ==
    /\ outcome = "ok" /\ first = None
    /\ ~world.frozen /\ world.upgrade = {}
    /\ world' = [world EXCEPT !.lock = Written, !.unpublished = {}]
    /\ first' = [registry |-> registry, overrides |-> overrides,
                  moves |-> \E p \in Package :
                      registry[p] # None /\ (Floats(p) \/ Unpinned(p))]
    /\ overrides' = Nothing
    /\ excluded' = [p \in Package |-> {}]
    /\ history' = [p \in Package |-> << >>]
    /\ FreshContext(world')
    /\ outcome' = "running"

Step == \/ RefuseIdentity \/ VisitResolving \/ RevisitHolds \/ RevisitFails
        \/ Restart \/ RefuseOscillation \/ VisitUnseen \/ NoCandidate
        \/ RejectCandidate \/ RefuseEngine \/ Register \/ Return \/ Finish

Next == Step \/ Replay

Spec == Init /\ [][Next]_vars
FairSpec == Spec /\ WF_vars(Step)

-------------------------------------------------------------------------------
(* What the packages that p needs need in turn, under the final refs.      *)
Needs(q) == IF registry[q] = None THEN {}
            ELSE {r.name : r \in Range(world.manifest[registry[q].ref.commit])}
Below(p) == LET closed == {S \in SUBSET Package :
                    Needs(p) \subseteq S /\ \A q \in S : Needs(q) \subseteq S} IN
    {q \in Package : \A S \in closed : q \in S}

(* A selection of the ref that a package has. (Which tag or pin it is      *)
(* known by depends on the request that was first.)                        *)
Agrees(selection, ref) == selection.error = None /\ ~Changes(selection.ref, ref)

Holds(p, s, want, ref) ==
    CASE want.kind = "latest" -> TRUE
      [] want.kind = "semver" -> ref.version \in want.is
      [] want.kind = "pin" -> Agrees(SelectPin(p, s, LockOf(p, s), want.is), ref)

Resolved == {p \in Package : registry[p] # None}
Acyclic(p) == \A i \in DOMAIN asked[p] : asked[p][i].by \notin Below(p)

(* In the settled graph every package that was not carried over a restart  *)
(* is at the ref that the selection rule picks for all its requests        *)
(* together, whichever order they came in; of one that was carried over,   *)
(* all requests but the first hold. (A request from among a package's own  *)
(* dependencies is never looked at, and HEAD stands in for the versions of *)
(* a repository without tags.)                                             *)
SettledGraph == outcome = "ok" => \A p \in Resolved :
    LET ref == registry[p].ref  src == registry[p].source IN
    Acyclic(p) =>
        IF overrides[p] = None
        THEN Agrees(Select(p, src, asked[p]), ref)
        ELSE Published(src) # {} =>
                 \A i \in 2..Len(asked[p]) : Holds(p, src, asked[p][i].want, ref)

(* A sync that carried nothing over a restart is reproduced by the next    *)
(* one from the lock: it succeeds too, with the same packages at the same  *)
(* refs. Tags published since do not matter, unless a package follows them *)
(* (Floats); nor do branches that have moved, unless the lock lost a pin   *)
(* (Unpinned).                                                             *)
Replays == outcome # "running" /\ first # None =>
    (first.overrides = Nothing /\ ~first.moves =>
        outcome = "ok" /\ registry = first.registry)

(* Restarts end: every resolution reaches a graph or an error, also when   *)
(* requests keep pulling a package to and fro.                             *)
Terminates == []<>(outcome # "running")

(* Every request of the graph holds at the ref its package ends at (cycles *)
(* and repositories without tags aside).                                   *)
ConstraintsHold == outcome = "ok" => \A p \in Resolved :
    Acyclic(p) /\ Published(registry[p].source) # {} =>
        \A i \in DOMAIN asked[p] :
            Holds(p, registry[p].source, asked[p][i].want, registry[p].ref)
===============================================================================
