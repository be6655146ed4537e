---------------------------- MODULE PackageFiles ----------------------------
(***************************************************************************)
(* What the package tools of src/pm/tools make of one package: which files  *)
(* an archive holds, by each of the three builders, and what the converter  *)
(* makes of a package.  Paths are sequences of names.                       *)
(* A package of programs.cfg (oppm) is [dir, entries]: dir is the project   *)
(* its field repo names (<< >> without one), an entry is                    *)
(* [prefix, path, double, dst]: ":" a folder, "?" a configuration file, the *)
(* path in the repository, whether dst is written with two slashes, dst.    *)
(* A package of a .manifest and a .files.json (pm) is [dir, files, config]: *)
(* entries [path, absolute, dst], the path relative to the project.         *)
(* An archive is [ok, data]: not built when ok is FALSE; the installed      *)
(* paths.  What its manifest says of the package is left out.               *)
(***************************************************************************)
EXTENDS Integers, Sequences, FiniteSets, SequencesExt

CONSTANTS
    Names,       \* the names of files and folders
    Tree,        \* the paths of the files in the repository
    DefaultDir   \* doOppmToPm's "manifest/"

Paths == Seq(Names)
OppmEntry == [prefix : {"", ":", "?"}, path : Paths, double : BOOLEAN, dst : Paths]
OppmPackage == [dir : Paths, entries : Seq(OppmEntry)]
PmEntry == [path : Paths, absolute : BOOLEAN, dst : Paths]
PmPackage == [dir : Paths, files : Seq(PmEntry), config : Seq(PmEntry)]

\* Nothing lies below a file.
ASSUME TreeAssumption ==
    /\ "usr" \in Names
    /\ Tree \subseteq Paths /\ DefaultDir \in Paths
    /\ \A f, g \in Tree : ~IsStrictPrefix(f, g)

Within(path) == {file \in Tree : IsStrictPrefix(path, file)}
IsDir(path) == Within(path) # {}
IsFile(path) == path \in Tree
WithoutFirst(path, n) == SubSeq(path, n + 1, Len(path))

\* The folders of DATA.
Folders(data) == {<< >>} \cup UNION {{SubSeq(f, 1, k) : k \in 0..(Len(f) - 1)} : f \in data}

\* Where oppm installs: below /usr, unless written with two slashes.
Place(entry) == IF entry.double THEN entry.dst ELSE <<"usr">> \o entry.dst

Empty == [ok |-> TRUE, data |-> {}]
Failed == [ok |-> FALSE, data |-> {}]

-----------------------------------------------------------------------------
(* Copying into DATA.                                                      *)

\* shutil.copytree: the destination must not exist, nor lie below a file.
CopyTree(archive, path, dst) ==
    IF \/ dst \in Folders(archive.data)
       \/ \E file \in archive.data : IsPrefix(file, dst)
    THEN Failed
    ELSE [archive EXCEPT
            !.data = @ \cup {dst \o WithoutFirst(file, Len(path)) : file \in Within(path)}]

\* mkdir of the destination and shutil.copy: over a file of the same name.
CopyFile(archive, path, dst) ==
    IF \/ \E file \in archive.data : IsPrefix(file, dst)
       \/ dst \o <<Last(path)>> \in Folders(archive.data)
    THEN Failed
    ELSE [archive EXCEPT !.data = @ \cup {dst \o <<Last(path)>>}]

-----------------------------------------------------------------------------
(* The builders.                                                           *)

\* repoPackager.makePackage: ":" needs a folder, the others a file.
RepoCopy(archive, entry) ==
    CASE ~archive.ok -> Failed
      [] archive.ok /\ entry.prefix = ":" ->
            IF IsDir(entry.path)
            THEN CopyTree(archive, entry.path, Place(entry)) ELSE Failed
      [] OTHER ->
            IF IsFile(entry.path)
            THEN CopyFile(archive, entry.path, Place(entry)) ELSE Failed

RepoArchive(package) == FoldLeft(RepoCopy, Empty, package.entries)

\* pmUtils.makePackage: what the path is decides; absolute or not, the
\* destination is taken from the root.
PmCopy(dir, archive, entry) ==
    LET path == dir \o entry.path
    IN  CASE ~archive.ok -> Failed
          [] archive.ok /\ IsDir(path)  -> CopyTree(archive, path, entry.dst)
          [] archive.ok /\ IsFile(path) -> CopyFile(archive, path, entry.dst)
          [] OTHER -> Failed

PmArchive(package) ==
    LET Copy(archive, entry) == PmCopy(package.dir, archive, entry)
    IN  FoldLeft(Copy, Empty, package.files \o package.config)

\* oppmPackager.makePackage: every file goes below DATA at its path in the
\* repository; the destination is worked out and not used.
OppmArchive(package) ==
    LET wanted(e) == IF e.prefix = ":" THEN Within(e.path) ELSE {e.path} \cap Tree
        all == {package.entries[i] : i \in DOMAIN package.entries}
    IN  IF \E e \in all : wanted(e) = {}
        THEN Failed
        ELSE [ok |-> TRUE, data |-> UNION {wanted(e) : e \in all}]

\* A folder where a file is expected, or the reverse: an exception that is no
\* MalformedPackage.  An entry before it that is missing is one.
OppmRaises(package) ==
    LET Mistaken(e) == IF e.prefix = ":" THEN IsFile(e.path) ELSE IsDir(e.path)
        Missing(e)  == ~IsFile(e.path) /\ ~IsDir(e.path)
    IN  \E i \in DOMAIN package.entries :
            /\ Mistaken(package.entries[i])
            /\ \A k \in 1..(i - 1) : ~Missing(package.entries[k])

-----------------------------------------------------------------------------
(* repoConvert.                                                            *)

\* The source directory: the project's, where it is a folder.
SourceDir(package) == IF IsDir(package.dir) THEN package.dir ELSE DefaultDir

\* fileListOppmToPm.  A path outside the directory is left as it is.
ToPmEntry(dir, entry) ==
    [path |-> IF IsPrefix(dir, entry.path) THEN WithoutFirst(entry.path, Len(dir))
                                           ELSE entry.path,
     absolute |-> TRUE,
     dst |-> Place(entry)]

\* Each entry goes to the end of one of the two lists.
AddToPm(dir, list, entry) ==
    IF entry.prefix = "?"
    THEN [list EXCEPT !.config = Append(@, ToPmEntry(dir, entry))]
    ELSE [list EXCEPT !.files = Append(@, ToPmEntry(dir, entry))]

ToPm(package) ==
    LET dir == SourceDir(package)
        Add(list, entry) == AddToPm(dir, list, entry)
    IN  FoldLeft(Add, [dir |-> dir, files |-> << >>, config |-> << >>],
                 package.entries)

\* A path outside the source directory that names something in it too: it is
\* there that pmUtils looks for it.
HasTwin(package) ==
    \E i \in DOMAIN package.entries :
        LET dir == SourceDir(package)
            path == package.entries[i].path
        IN  ~IsPrefix(dir, path) /\ (IsDir(dir \o path) \/ IsFile(dir \o path))

\* Mutant: a destination outside /usr is written with one slash.
BelowUsrAlways(entry, prefix, path) ==
    [prefix |-> prefix, path |-> path, double |-> FALSE, dst |->
        IF entry.absolute /\ IsPrefix(<<"usr">>, entry.dst)
        THEN WithoutFirst(entry.dst, 1) ELSE entry.dst]

\* doPmToOppm: a destination below /usr loses it, an other absolute one gets a
\* second slash, and a relative one gets its first.
BelowUsr(entry, prefix, path) ==
    LET usr == entry.absolute /\ IsPrefix(<<"usr">>, entry.dst)
    IN  [prefix |-> prefix, path |-> path,
         double |-> entry.absolute /\ ~usr,
         dst |-> IF usr THEN WithoutFirst(entry.dst, 1) ELSE entry.dst]

\* The entries are the keys of a dictionary: the same source a second time
\* takes the first one's place.
PutEntry(entries, entry) ==
    LET same == {i \in DOMAIN entries : /\ entries[i].prefix = entry.prefix
                                        /\ entries[i].path = entry.path}
    IN  IF same = {} THEN Append(entries, entry)
                     ELSE [entries EXCEPT ![Min(same)] = entry]

FileToOppm(dir, entry) ==
    LET path == dir \o entry.path
    IN  BelowUsr(entry, IF IsDir(path) THEN ":" ELSE "", path)
ConfigToOppm(dir, entry) == BelowUsr(entry, "?", dir \o entry.path)

ToOppm(package) ==
    LET convert(entries, Entry(_, _)) ==
            [i \in DOMAIN entries |-> Entry(package.dir, entries[i])]
    IN  [dir |-> package.dir,
         entries |-> FoldLeft(PutEntry, << >>,
                              convert(package.files, FileToOppm)
                              \o convert(package.config, ConfigToOppm))]

\* recurseConfig calls itself for ever on a folder.
ConfigHasFolder(package) ==
    \E i \in DOMAIN package.config : IsDir(package.dir \o package.config[i].path)

=============================================================================
