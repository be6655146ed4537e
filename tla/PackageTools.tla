---------------------------- MODULE PackageTools ----------------------------
(***************************************************************************)
(* The life of a repository of packages: its owner edits one form of the    *)
(* packages' description (programs.cfg, or the .manifest and .files.json    *)
(* beside the sources), converts it to the other with repoConvert, and      *)
(* builds the archives and their index with one of the three builders.  A   *)
(* tool can be interrupted, fail on one package, or fail altogether.        *)
(* The owner works alone: the tools run one at a time and nothing is edited *)
(* while one runs.  A description is written at once; an archive and the    *)
(* index are broken from the moment they are opened until they are complete.*)
(***************************************************************************)
EXTENDS PackageFiles

CONSTANTS
    Packages,      \* the names
    OppmRecipes,   \* [Packages -> SUBSET descriptions of a programs.cfg]
    PmRecipes,     \* [Packages -> SUBSET descriptions of a .files.json]
    MaxEdits,      \* bound on the owner's edits
    MaxInterrupts  \* bound on the interruptions

\* A package stays in one folder (a second copy elsewhere is not modelled).
ASSUME RecipesAssumption ==
    \A p \in Packages :
        /\ OppmRecipes[p] \subseteq OppmPackage /\ PmRecipes[p] \subseteq PmPackage
        /\ \A r, s \in OppmRecipes[p] : << >> \notin {r.dir, s.dir} => r.dir = s.dir
        /\ \A r, s \in PmRecipes[p] : r.dir = s.dir

VARIABLES
    master,     \* "oppm" or "pm": the form the owner edits
    builder,    \* the tool that fills packages/
    oppm,       \* programs.cfg: [version, package] by name
    manifests,  \* the .manifest files: a version by name
    lists,      \* the .files.json: [version, package] by name
    archives,   \* packages/*.tar: Broken or [version, package] by name
    index,      \* packages/manifest: Broken or a version by name
    run,        \* the tool that runs: [tool, todo, open, made]
    finished,   \* the last build went to its end
    edits,
    interrupts

described == <<oppm, manifests, lists, edits>>
packages == <<archives, index, finished>>
vars == <<master, builder, described, packages, run, interrupts>>

Broken == [broken |-> TRUE]
None == "none"

\* No package has the name of one of the marks of this module.
ASSUME MarksAssumption == Packages \cap {None, "index", "broken"} = {}

Idle == [tool |-> None, todo |-> {}, open |-> None, made |-> << >>]

\* f with f[p] = v.
With(f, p, v) == [q \in DOMAIN f \cup {p} |-> IF q = p THEN v ELSE f[q]]

Init ==
    /\ master \in {"oppm", "pm"}
    /\ builder \in {"repoPackager", "pmUtils", "oppmPackager"}
    /\ oppm = << >> /\ manifests = << >> /\ lists = << >>
    /\ archives = << >> /\ index = << >> /\ finished = FALSE
    /\ run = Idle
    /\ edits = 0 /\ interrupts = 0

-----------------------------------------------------------------------------
(* The owner.                                                              *)

Edit(p) ==
    /\ run = Idle
    /\ edits < MaxEdits
    /\ edits' = edits + 1
    /\ \/ /\ master = "oppm"
          /\ \E package \in OppmRecipes[p] :
                oppm' = With(oppm, p, [version |-> edits', package |-> package])
          /\ UNCHANGED <<manifests, lists>>
       \/ /\ master = "pm"
          /\ \E package \in PmRecipes[p] :
                lists' = With(lists, p, [version |-> edits', package |-> package])
          /\ manifests' = With(manifests, p, edits')
          /\ UNCHANGED oppm
    /\ UNCHANGED <<master, builder, packages, run, interrupts>>

\* What runs is killed, whatever it had written.
Interrupt ==
    /\ run # Idle
    /\ interrupts < MaxInterrupts
    /\ interrupts' = interrupts + 1
    /\ run' = Idle
    /\ UNCHANGED <<master, builder, described, packages>>

-----------------------------------------------------------------------------
(* The builders.                                                           *)

\* What the builder reads of p: the version and the description.
Described(p) == IF builder = "pmUtils"
                THEN [version |-> manifests[p], package |-> lists[p].package]
                ELSE oppm[p]

ArchiveOf(package) == CASE builder = "repoPackager" -> RepoArchive(package)
                        [] builder = "pmUtils"      -> PmArchive(package)
                        [] builder = "oppmPackager" -> OppmArchive(package)

\* An exception of repoPackager ends the run; pmUtils goes on after any, and
\* oppmPackager after a MalformedPackage.
FailureEndsTheRun(package) ==
    \/ builder = "repoPackager"
    \/ builder = "oppmPackager" /\ OppmRaises(package)

\* The packages a run builds: those repoPackager is asked for, and those
\* pmUtils finds with a list.
Asked == CASE builder = "repoPackager" -> (SUBSET DOMAIN oppm) \ {{}}
           [] builder = "pmUtils"      -> {DOMAIN manifests \cap DOMAIN lists}
           [] builder = "oppmPackager" -> {DOMAIN oppm}

\* Mutant: the index is filled with what was asked for.
IndexAsked ==
    /\ run = Idle
    /\ \E todo \in Asked :
            run' = [tool |-> builder, todo |-> todo, open |-> None,
                    made |-> [p \in todo |-> Described(p).version]]
    /\ finished' = FALSE
    /\ UNCHANGED <<master, builder, described, archives, index, interrupts>>

StartBuild ==
    /\ run = Idle
    /\ \E todo \in Asked :
            run' = [tool |-> builder, todo |-> todo, open |-> None, made |-> << >>]
    /\ finished' = FALSE
    /\ UNCHANGED <<master, builder, described, archives, index, interrupts>>

OpenArchive(p) ==
    /\ run.tool = builder /\ run.open = None
    /\ p \in run.todo
    /\ ArchiveOf(Described(p).package).ok
    /\ archives' = With(archives, p, Broken)
    /\ run' = [run EXCEPT !.open = p]
    /\ UNCHANGED <<master, builder, described, index, finished, interrupts>>

WriteArchive(p) ==
    /\ run.tool = builder /\ run.open = p
    /\ archives' = With(archives, p, Described(p))
    /\ run' = [run EXCEPT !.todo = @ \ {p}, !.open = None,
                          !.made = With(@, p, Described(p).version)]
    /\ UNCHANGED <<master, builder, described, index, finished, interrupts>>

\* Mutant: what failed is indexed like the others.
IndexFailed(p) ==
    /\ run.tool = builder /\ run.open = None
    /\ p \in run.todo
    /\ ~ArchiveOf(Described(p).package).ok
    /\ ~FailureEndsTheRun(Described(p).package)
    /\ run' = [run EXCEPT !.todo = @ \ {p}, !.made = With(@, p, Described(p).version)]
    /\ UNCHANGED <<master, builder, described, packages, interrupts>>

SkipPackage(p) ==
    /\ run.tool = builder /\ run.open = None
    /\ p \in run.todo
    /\ ~ArchiveOf(Described(p).package).ok
    /\ ~FailureEndsTheRun(Described(p).package)
    /\ run' = [run EXCEPT !.todo = @ \ {p}]
    /\ UNCHANGED <<master, builder, described, packages, interrupts>>

BuildFails(p) ==
    /\ run.tool = builder /\ run.open = None
    /\ p \in run.todo
    /\ ~ArchiveOf(Described(p).package).ok
    /\ FailureEndsTheRun(Described(p).package)
    /\ run' = Idle
    /\ UNCHANGED <<master, builder, described, packages, interrupts>>

OpenIndex ==
    /\ run.tool = builder /\ run.open = None
    /\ run.todo = {}
    /\ index' = Broken
    /\ run' = [run EXCEPT !.open = "index"]
    /\ UNCHANGED <<master, builder, described, archives, finished, interrupts>>

WriteIndex ==
    /\ run.tool = builder /\ run.open = "index"
    /\ index' = run.made
    /\ finished' = TRUE
    /\ run' = Idle
    /\ UNCHANGED <<master, builder, described, archives, interrupts>>

-----------------------------------------------------------------------------
(* repoConvert, from the form the owner edits.                             *)

StartToPm ==
    /\ run = Idle
    /\ master = "oppm" /\ oppm # << >>
    /\ run' = [Idle EXCEPT !.tool = "repoConvert", !.todo = DOMAIN oppm]
    /\ UNCHANGED <<master, builder, described, packages, interrupts>>

\* doOppmToPm: a package without the field repo raises.
WriteManifest(p) ==
    /\ run.tool = "repoConvert" /\ run.open = None
    /\ p \in run.todo
    /\ \/ /\ oppm[p].package.dir # << >>
          /\ manifests' = With(manifests, p, oppm[p].version)
          /\ run' = [run EXCEPT !.open = p]
       \/ /\ oppm[p].package.dir = << >>
          /\ run' = Idle
          /\ UNCHANGED manifests
    /\ UNCHANGED <<master, builder, oppm, lists, edits, packages, interrupts>>

WriteList(p) ==
    /\ run.tool = "repoConvert" /\ run.open = p
    /\ lists' = With(lists, p, [version |-> oppm[p].version,
                                package |-> ToPm(oppm[p].package)])
    /\ run' = [run EXCEPT !.todo = @ \ {p}, !.open = None]
    /\ UNCHANGED <<master, builder, oppm, manifests, edits, packages, interrupts>>

EndToPm ==
    /\ run.tool = "repoConvert" /\ run.todo = {}
    /\ run' = Idle
    /\ UNCHANGED <<master, builder, described, packages, interrupts>>

\* doPmToOppm: programs.cfg is written anew, of the packages that have a list,
\* when none has made the conversion fail.
ConvertToOppm ==
    /\ run = Idle
    /\ master = "pm"
    /\ \A p \in DOMAIN lists : ~ConfigHasFolder(lists[p].package)
    /\ oppm' = [p \in DOMAIN manifests \cap DOMAIN lists |->
                    [version |-> manifests[p], package |-> ToOppm(lists[p].package)]]
    /\ UNCHANGED <<master, builder, manifests, lists, edits, packages, run, interrupts>>

-----------------------------------------------------------------------------

Next ==
    \/ Interrupt \/ StartBuild \/ OpenIndex \/ WriteIndex
    \/ StartToPm \/ EndToPm \/ ConvertToOppm
    \/ \E p \in Packages :
        \/ Edit(p)
        \/ OpenArchive(p) \/ WriteArchive(p) \/ SkipPackage(p) \/ BuildFails(p)
        \/ WriteManifest(p) \/ WriteList(p)

Spec == Init /\ [][Next]_vars

-----------------------------------------------------------------------------
(* Properties.                                                             *)

\* pm fetches what the index names: whatever was interrupted or failed, every
\* package of the index has an archive, and a complete one is at least of the
\* version the index gives.
IndexNotAhead ==
    index # Broken =>
        \A p \in DOMAIN index :
            /\ p \in DOMAIN archives
            /\ archives[p] # Broken => archives[p].version >= index[p]

\* After a build that went to its end, though packages failed in it and others
\* were interrupted before, the index tells each archive's very version.
FinishedRunIsConsistent ==
    finished => /\ index # Broken
                /\ \A p \in DOMAIN index :
                        /\ p \in DOMAIN archives
                        /\ archives[p] # Broken
                        /\ archives[p].version = index[p]

\* A package whose two forms come from the same edit installs the same files
\* by repoPackager and by pmUtils, when both build it.  (A pm destination is
\* absolute, and a source is installed once: the conversion keeps neither of
\* the others, nor a path outside its project that names something in it.)
ConversionKeepsPlaces ==
    \A p \in DOMAIN oppm \cap DOMAIN lists :
        LET old == RepoArchive(oppm[p].package)
            new == PmArchive(lists[p].package)
            entries == lists[p].package.files \o lists[p].package.config
        IN  /\ oppm[p].version = lists[p].version
            /\ old.ok /\ new.ok
            /\ \A i, k \in DOMAIN entries :
                    /\ entries[i].absolute
                    /\ entries[i].path = entries[k].path => i = k
            /\ master = "oppm" => ~HasTwin(oppm[p].package)
            => old.data = new.data
=============================================================================
