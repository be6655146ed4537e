--------------------------- MODULE PackageProofs ---------------------------
(***************************************************************************)
(* Theorems about PackageTools, for any packages and any recipes for them:  *)
(* whatever was interrupted or failed, the index never promises a version   *)
(* the archives do not have, and a build that went to its end leaves an     *)
(* index that says what is there.  The two forms of a package that are of   *)
(* the same edit install the same files.                                   *)
(***************************************************************************)
EXTENDS PackageTools, SequenceTheorems, FiniteSetTheorems, WellFoundedInduction, TLAPS

Builders == {"repoPackager", "pmUtils", "oppmPackager"}

-----------------------------------------------------------------------------
(* The invariant.                                                          *)

\* What the builder reads: the packages it finds, and the version of one.
Known == IF builder = "pmUtils" THEN DOMAIN manifests ELSE DOMAIN oppm
Version(p) == IF builder = "pmUtils" THEN manifests[p] ELSE oppm[p].version

\* The descriptions are those of packages, of an edit that was made.
DescribedOk ==
    /\ edits \in Nat
    /\ DOMAIN oppm \subseteq Packages /\ DOMAIN manifests \subseteq Packages
    /\ \A p \in DOMAIN oppm :
          /\ oppm[p] # Broken
          /\ oppm[p].version \in Nat /\ oppm[p].version <= edits
    /\ \A p \in DOMAIN manifests :
          manifests[p] \in Nat /\ manifests[p] <= edits

\* The form that is made from the other is never ahead of it: a conversion,
\* like an edit, only makes the versions it writes later ones.
FormsOk ==
    /\ master = "oppm" =>
          \A p \in DOMAIN manifests :
              p \in DOMAIN oppm /\ manifests[p] <= oppm[p].version
    /\ master = "pm" =>
          \A p \in DOMAIN oppm :
              /\ p \in DOMAIN manifests \cap DOMAIN lists
              /\ oppm[p].version <= manifests[p]

\* What runs knows what it works on, and what it made is there.
RunOk ==
    /\ DOMAIN run = {"tool", "todo", "open", "made"}
    /\ run.tool \in {None, "repoConvert", builder}
    /\ run.tool = "repoConvert" => master = "oppm" /\ run.todo \subseteq DOMAIN oppm
    /\ run.tool = builder =>
          /\ ~finished
          /\ run.todo \subseteq Known
          /\ run.open \in run.todo \cup {None, "index"}
          /\ run.todo \cap DOMAIN run.made = {}
          /\ DOMAIN run.made \subseteq Known
          /\ \A p \in DOMAIN run.made :
                /\ p \in DOMAIN archives /\ archives[p] # Broken
                /\ archives[p].version = run.made[p]
                /\ run.made[p] = Version(p)

\* The index is not ahead of the descriptions either.
IndexOk ==
    index # Broken =>
        \A p \in DOMAIN index :
            p \in Known /\ index[p] \in Nat /\ index[p] <= Version(p)

Inv ==
    /\ master \in {"oppm", "pm"} /\ builder \in Builders
    /\ finished \in BOOLEAN
    /\ DOMAIN archives \subseteq Packages
    /\ DescribedOk /\ FormsOk /\ RunOk /\ IndexOk
    /\ IndexNotAhead /\ FinishedRunIsConsistent

-----------------------------------------------------------------------------
(* What the steps are made of.                                             *)

LEMMA Marks ==
    ASSUME NEW p \in Packages
    PROVE  p # None /\ p # "index" /\ p # "broken"
BY MarksAssumption DEF MarksAssumption

LEMMA NotBroken ==
    ASSUME NEW v, NEW d
    PROVE  [version |-> v, package |-> d] # Broken
<1>1. DOMAIN [version |-> v, package |-> d] = {"version", "package"}
  OBVIOUS
<1>2. DOMAIN Broken = {"broken"}
  BY DEF Broken
<1>3. {"version", "package"} # {"broken"}
  OBVIOUS
<1> QED
  BY <1>1, <1>2, <1>3

\* A builder's name is no other tool's.
LEMMA Tools ==
    ASSUME Inv
    PROVE  builder # None /\ builder # "repoConvert"
BY DEF Inv, Builders, None

\* The description of a package the builder knows is one of a version.
LEMMA DescribedIs ==
    ASSUME Inv, NEW p \in Known
    PROVE  /\ p \in Packages /\ Described(p) # Broken
           /\ Described(p).version = Version(p)
<1>1. CASE builder = "pmUtils"
  <2>1. Described(p) = [version |-> manifests[p], package |-> lists[p].package]
    BY <1>1 DEF Described
  <2>2. Described(p) # Broken
    BY <2>1, NotBroken
  <2> QED
    BY <1>1, <2>1, <2>2 DEF Version, Known, Inv, DescribedOk
<1>2. CASE builder # "pmUtils"
  BY <1>2 DEF Described, Version, Known, Inv, DescribedOk
<1> QED
  BY <1>1, <1>2

\* Where the descriptions stay as they are.
LEMMA DescribedSame ==
    ASSUME Inv, UNCHANGED <<master, builder, oppm, manifests, lists, edits>>
    PROVE  /\ master' \in {"oppm", "pm"} /\ builder' \in Builders
           /\ DescribedOk' /\ FormsOk'
           /\ Known' = Known /\ \A p : Version(p)' = Version(p)
<1>1. DescribedOk' /\ FormsOk'
  BY DEF Inv, DescribedOk, FormsOk
<1>2. Known' = Known /\ \A p : Version(p)' = Version(p)
  BY DEF Known, Version
<1> QED
  BY <1>1, <1>2 DEF Inv

\* Where what is built stays as it is.
LEMMA PackagesSame ==
    ASSUME Inv, UNCHANGED packages
    PROVE  /\ finished' \in BOOLEAN /\ DOMAIN archives' \subseteq Packages
           /\ IndexNotAhead' /\ FinishedRunIsConsistent'
BY DEF Inv, packages, IndexNotAhead, FinishedRunIsConsistent

LEMMA VersionType == Inv => \A p \in Known : Version(p) \in Nat
BY DEF Inv, DescribedOk, Known, Version

\* Where the index stays, and no description gets older.
LEMMA IndexSame ==
    ASSUME Inv, UNCHANGED index,
           \A p \in Known : /\ p \in Known' /\ Version(p)' \in Nat
                            /\ Version(p) <= Version(p)'
    PROVE  IndexOk'
<1> SUFFICES ASSUME index # Broken, NEW p \in DOMAIN index
             PROVE  p \in Known' /\ index[p] \in Nat /\ index[p] <= Version(p)'
  BY DEF IndexOk
<1>1. p \in Known /\ index[p] \in Nat /\ index[p] <= Version(p)
  BY DEF Inv, IndexOk
<1>2. Version(p) \in Nat
  BY <1>1, VersionType
<1> PICK v, w, x : v = Version(p) /\ w = Version(p)' /\ x = index[p]
  OBVIOUS
<1>3. p \in Known' /\ w \in Nat /\ v <= w /\ x \in Nat /\ x <= v /\ v \in Nat
  BY <1>1, <1>2
<1>4. x <= w
  BY ONLY <1>3
<1> QED
  BY <1>3, <1>4

-----------------------------------------------------------------------------
(* The steps.                                                              *)

LEMMA InitInv == Init => Inv
<1> SUFFICES ASSUME Init PROVE Inv
  OBVIOUS
<1>1. /\ master \in {"oppm", "pm"} /\ builder \in Builders
      /\ oppm = << >> /\ manifests = << >> /\ archives = << >> /\ index = << >>
      /\ finished = FALSE /\ edits = 0 /\ run = Idle
  BY DEF Init, Builders
<1>2. DOMAIN << >> = {}
  OBVIOUS
<1>3. /\ DOMAIN Idle = {"tool", "todo", "open", "made"} /\ Idle.tool = None
      /\ None # builder /\ None # "repoConvert"
  BY <1>1 DEF Idle, None, Builders
<1>4. DescribedOk /\ FormsOk
  BY <1>1, <1>2 DEF DescribedOk, FormsOk
<1>5. RunOk
  BY <1>1, <1>3 DEF RunOk
<1>6. IndexOk /\ IndexNotAhead /\ FinishedRunIsConsistent
  BY <1>1, <1>2 DEF IndexOk, IndexNotAhead, FinishedRunIsConsistent
<1> QED
  BY <1>1, <1>2, <1>4, <1>5, <1>6 DEF Inv

\* A run that is over, or one that has not begun, knows nothing.
LEMMA IdleOk ==
    ASSUME Inv, run' = Idle, UNCHANGED builder
    PROVE  RunOk'
<1>1. /\ DOMAIN Idle = {"tool", "todo", "open", "made"} /\ Idle.tool = None
      /\ None # builder /\ None # "repoConvert"
  BY Tools DEF Idle, None
<1> QED
  BY <1>1 DEF RunOk

\* The tool is killed, fails, or ends a conversion.
LEMMA OverKeeps ==
    ASSUME Inv, run' = Idle, UNCHANGED <<master, builder, described, packages>>
    PROVE  Inv'
<1>0. UNCHANGED <<master, builder, oppm, manifests, lists, edits, index>>
  BY DEF described, packages
<1>1. RunOk'
  BY IdleOk
<1>2. /\ master' \in {"oppm", "pm"} /\ builder' \in Builders
      /\ DescribedOk' /\ FormsOk'
      /\ Known' = Known /\ \A p : Version(p)' = Version(p)
  BY <1>0, DescribedSame
<1>3. /\ finished' \in BOOLEAN /\ DOMAIN archives' \subseteq Packages
      /\ IndexNotAhead' /\ FinishedRunIsConsistent'
  BY PackagesSame
<1>4. IndexOk'
  BY <1>0, <1>2 DEF Inv, IndexOk
<1> QED
  BY <1>1, <1>2, <1>3, <1>4 DEF Inv

LEMMA StutterKeeps == ASSUME Inv, UNCHANGED vars PROVE Inv'
<1>0. UNCHANGED <<master, builder, oppm, manifests, lists, edits, index, run, archives, finished>>
  BY DEF vars, described, packages
<1>1. /\ master' \in {"oppm", "pm"} /\ builder' \in Builders
      /\ DescribedOk' /\ FormsOk'
      /\ Known' = Known /\ \A p : Version(p)' = Version(p)
  BY <1>0, DescribedSame
<1>2. RunOk'
  BY <1>0, <1>1 DEF Inv, RunOk
<1>3. IndexOk'
  BY <1>0, <1>1 DEF Inv, IndexOk
<1>4. /\ finished' \in BOOLEAN /\ DOMAIN archives' \subseteq Packages
      /\ IndexNotAhead' /\ FinishedRunIsConsistent'
  BY <1>0, PackagesSame DEF packages
<1> QED
  BY <1>1, <1>2, <1>3, <1>4 DEF Inv

LEMMA StartBuildKeeps == ASSUME Inv, StartBuild PROVE Inv'
<1>0. /\ UNCHANGED <<master, builder, oppm, manifests, lists, edits, archives, index>>
      /\ finished' = FALSE
  BY DEF StartBuild, described
<1>1. /\ master' \in {"oppm", "pm"} /\ builder' \in Builders
      /\ DescribedOk' /\ FormsOk'
      /\ Known' = Known /\ \A p : Version(p)' = Version(p)
  BY <1>0, DescribedSame
<1>2. PICK todo \in Asked :
        run' = [tool |-> builder, todo |-> todo, open |-> None, made |-> << >>]
  BY DEF StartBuild
<1>3. todo \subseteq Known
  BY <1>2 DEF Asked, Known, Inv, Builders
<1>4. RunOk'
  <2>1. /\ DOMAIN run' = {"tool", "todo", "open", "made"}
        /\ run'.tool = builder /\ run'.todo = todo /\ run'.open = None
        /\ run'.made = << >> /\ DOMAIN << >> = {}
    BY <1>2
  <2>2. builder # None /\ builder # "repoConvert"
    BY Tools
  <2>3. /\ DOMAIN run'.made = {} /\ run'.todo \cap DOMAIN run'.made = {}
        /\ DOMAIN run'.made \subseteq Known
    BY <2>1
  <2> QED
    BY <1>0, <1>1, <1>3, <2>1, <2>2, <2>3 DEF RunOk
<1>5. IndexOk' /\ IndexNotAhead' /\ FinishedRunIsConsistent'
  BY <1>0, <1>1 DEF Inv, IndexOk, IndexNotAhead, FinishedRunIsConsistent
<1> QED
  BY <1>0, <1>1, <1>4, <1>5 DEF Inv

\* What is so in every step of a build.
LEMMA Building ==
    ASSUME Inv, run.tool = builder
    PROVE  /\ DOMAIN run = {"tool", "todo", "open", "made"}
           /\ builder # None /\ builder # "repoConvert"
           /\ finished = FALSE /\ run.todo \subseteq Known
           /\ run.open \in run.todo \cup {None, "index"}
           /\ run.todo \cap DOMAIN run.made = {}
           /\ DOMAIN run.made \subseteq Known
           /\ \A p \in DOMAIN run.made :
                 /\ p \in DOMAIN archives /\ archives[p] # Broken
                 /\ archives[p].version = run.made[p]
                 /\ run.made[p] = Version(p)
BY Tools DEF Inv, RunOk

LEMMA OpenArchiveKeeps ==
    ASSUME Inv, NEW p \in Packages, OpenArchive(p)
    PROVE  Inv'
<1>0. /\ UNCHANGED <<master, builder, oppm, manifests, lists, edits, index, finished>>
      /\ run.tool = builder /\ p \in run.todo
      /\ archives' = With(archives, p, Broken)
      /\ run' = [run EXCEPT !.open = p]
  BY DEF OpenArchive, described
<1>1. /\ master' \in {"oppm", "pm"} /\ builder' \in Builders
      /\ DescribedOk' /\ FormsOk'
      /\ Known' = Known /\ \A q : Version(q)' = Version(q)
  BY <1>0, DescribedSame
<1>2. /\ DOMAIN archives' = DOMAIN archives \cup {p} /\ archives'[p] = Broken
      /\ \A q \in DOMAIN archives : q # p => archives'[q] = archives[q]
  <2>1. /\ DOMAIN With(archives, p, Broken) = DOMAIN archives \cup {p}
        /\ With(archives, p, Broken)[p] = Broken
        /\ \A q \in DOMAIN archives : q # p => With(archives, p, Broken)[q] = archives[q]
    BY DEF With
  <2> QED
    BY ONLY <1>0, <2>1
<1>3. /\ DOMAIN run' = {"tool", "todo", "open", "made"} /\ run'.tool = run.tool
      /\ run'.todo = run.todo /\ run'.made = run.made /\ run'.open = p
  BY <1>0, Building
<1>4. p \notin DOMAIN run.made
  BY <1>0, Building
<1>5. RunOk'
  <2>1. \A q \in DOMAIN run.made : q \in DOMAIN archives' /\ archives'[q] = archives[q]
    BY <1>0, <1>2, <1>4, Building
  <2> QED
    BY <1>0, <1>1, <1>3, <2>1, Building DEF RunOk
<1>6. IndexOk'
  BY <1>0, <1>1 DEF Inv, IndexOk
<1>7. IndexNotAhead'
  <2> SUFFICES ASSUME index # Broken, NEW q \in DOMAIN index
               PROVE  /\ q \in DOMAIN archives'
                      /\ archives'[q] # Broken => archives'[q].version >= index[q]
    BY <1>0 DEF IndexNotAhead
  <2>1. /\ q \in DOMAIN archives
        /\ archives[q] # Broken => archives[q].version >= index[q]
    BY DEF Inv, IndexNotAhead
  <2> QED
    BY <1>2, <2>1
<1>8. FinishedRunIsConsistent' /\ finished' \in BOOLEAN
  BY <1>0, Building DEF FinishedRunIsConsistent
<1>9. DOMAIN archives' \subseteq Packages
  BY <1>2 DEF Inv
<1> QED
  BY <1>1, <1>5, <1>6, <1>7, <1>8, <1>9 DEF Inv

LEMMA WriteArchiveKeeps ==
    ASSUME Inv, NEW p \in Packages, WriteArchive(p)
    PROVE  Inv'
<1>0. /\ UNCHANGED <<master, builder, oppm, manifests, lists, edits, index, finished>>
      /\ run.tool = builder /\ run.open = p
      /\ archives' = With(archives, p, Described(p))
      /\ run' = [run EXCEPT !.todo = @ \ {p}, !.open = None,
                            !.made = With(@, p, Described(p).version)]
  BY DEF WriteArchive, described
<1>1. /\ master' \in {"oppm", "pm"} /\ builder' \in Builders
      /\ DescribedOk' /\ FormsOk'
      /\ Known' = Known /\ \A q : Version(q)' = Version(q)
  BY <1>0, DescribedSame
<1>2. p \in run.todo /\ p \in Known
  BY <1>0, Building, Marks
<1>3. Described(p) # Broken /\ Described(p).version = Version(p)
  BY <1>2, DescribedIs
<1>4. /\ DOMAIN archives' = DOMAIN archives \cup {p} /\ archives'[p] = Described(p)
      /\ \A q \in DOMAIN archives : q # p => archives'[q] = archives[q]
  <2>1. /\ DOMAIN With(archives, p, Described(p)) = DOMAIN archives \cup {p}
        /\ With(archives, p, Described(p))[p] = Described(p)
        /\ \A q \in DOMAIN archives : q # p => With(archives, p, Described(p))[q] = archives[q]
    BY DEF With
  <2> QED
    BY ONLY <1>0, <2>1
<1>5. /\ DOMAIN run' = {"tool", "todo", "open", "made"} /\ run'.tool = run.tool
      /\ run'.todo = run.todo \ {p} /\ run'.open = None
      /\ run'.made = With(run.made, p, Version(p))
  BY <1>0, <1>3, Building
<1>6. /\ DOMAIN run'.made = DOMAIN run.made \cup {p} /\ run'.made[p] = Version(p)
      /\ \A q \in DOMAIN run.made : q # p => run'.made[q] = run.made[q]
  <2>1. /\ DOMAIN With(run.made, p, Version(p)) = DOMAIN run.made \cup {p}
        /\ With(run.made, p, Version(p))[p] = Version(p)
        /\ \A q \in DOMAIN run.made : q # p => With(run.made, p, Version(p))[q] = run.made[q]
    BY DEF With
  <2> QED
    BY ONLY <1>5, <2>1
<1>7. RunOk'
  <2>1. ASSUME NEW q \in DOMAIN run'.made
        PROVE  /\ q \in DOMAIN archives' /\ archives'[q] # Broken
               /\ archives'[q].version = run'.made[q]
               /\ run'.made[q] = Version(q)
    <3>1. CASE q = p
      BY <1>3, <1>4, <1>6, <3>1
    <3>2. CASE q # p
      <4>1. q \in DOMAIN run.made
        BY <1>6, <3>2
      <4>2. /\ q \in DOMAIN archives /\ archives[q] # Broken
            /\ archives[q].version = run.made[q]
            /\ run.made[q] = Version(q)
        BY <1>0, <4>1, Building
      <4> QED
        BY <1>4, <1>6, <3>2, <4>1, <4>2
    <3> QED
      BY <3>1, <3>2
  <2>2. /\ run'.todo \subseteq Known /\ run'.todo \cap DOMAIN run'.made = {}
        /\ DOMAIN run'.made \subseteq Known
    BY <1>0, <1>2, <1>5, <1>6, Building
  <2>3. builder # "repoConvert" /\ finished = FALSE
    BY <1>0, Building
  <2> QED
    BY <1>0, <1>1, <1>5, <2>1, <2>2, <2>3 DEF RunOk
<1>8. IndexOk'
  BY <1>0, <1>1 DEF Inv, IndexOk
<1>9. IndexNotAhead'
  <2> SUFFICES ASSUME index # Broken, NEW q \in DOMAIN index
               PROVE  /\ q \in DOMAIN archives'
                      /\ archives'[q] # Broken => archives'[q].version >= index[q]
    BY <1>0 DEF IndexNotAhead
  <2>1. /\ q \in DOMAIN archives
        /\ archives[q] # Broken => archives[q].version >= index[q]
    BY DEF Inv, IndexNotAhead
  <2>2. q \in Known /\ index[q] \in Nat /\ index[q] <= Version(q)
    BY DEF Inv, IndexOk
  <2>3. CASE q = p
    <3>1. Version(q) \in Nat /\ archives'[q].version = Version(q)
      BY <1>3, <1>4, <2>2, <2>3, VersionType
    <3> QED
      BY <1>4, <2>1, <2>2, <3>1
  <2>4. CASE q # p
    BY <1>4, <2>1, <2>4
  <2> QED
    BY <2>3, <2>4
<1>10. FinishedRunIsConsistent' /\ finished' \in BOOLEAN
  BY <1>0, Building DEF FinishedRunIsConsistent
<1>11. DOMAIN archives' \subseteq Packages
  BY <1>4 DEF Inv
<1> QED
  BY <1>1, <1>7, <1>8, <1>9, <1>10, <1>11 DEF Inv

LEMMA SkipPackageKeeps ==
    ASSUME Inv, NEW p \in Packages, SkipPackage(p)
    PROVE  Inv'
<1>0. /\ UNCHANGED <<master, builder, oppm, manifests, lists, edits, index, finished, archives>>
      /\ run.tool = builder /\ run.open = None
      /\ run' = [run EXCEPT !.todo = @ \ {p}]
  BY DEF SkipPackage, described, packages
<1>1. /\ master' \in {"oppm", "pm"} /\ builder' \in Builders
      /\ DescribedOk' /\ FormsOk'
      /\ Known' = Known /\ \A q : Version(q)' = Version(q)
  BY <1>0, DescribedSame
<1>2. /\ DOMAIN run' = {"tool", "todo", "open", "made"} /\ run'.tool = run.tool
      /\ run'.todo = run.todo \ {p} /\ run'.open = None /\ run'.made = run.made
  BY <1>0, Building
<1>3. RunOk'
  BY <1>0, <1>1, <1>2, Building DEF RunOk
<1>4. /\ finished' \in BOOLEAN /\ DOMAIN archives' \subseteq Packages
      /\ IndexNotAhead' /\ FinishedRunIsConsistent'
  BY <1>0, PackagesSame DEF packages
<1>5. IndexOk'
  BY <1>0, <1>1 DEF Inv, IndexOk
<1> QED
  BY <1>1, <1>3, <1>4, <1>5 DEF Inv

LEMMA OpenIndexKeeps == ASSUME Inv, OpenIndex PROVE Inv'
<1>0. /\ UNCHANGED <<master, builder, oppm, manifests, lists, edits, finished, archives>>
      /\ run.tool = builder /\ index' = Broken
      /\ run' = [run EXCEPT !.open = "index"]
  BY DEF OpenIndex, described
<1>1. /\ master' \in {"oppm", "pm"} /\ builder' \in Builders
      /\ DescribedOk' /\ FormsOk'
      /\ Known' = Known /\ \A q : Version(q)' = Version(q)
  BY <1>0, DescribedSame
<1>2. /\ DOMAIN run' = {"tool", "todo", "open", "made"} /\ run'.tool = run.tool
      /\ run'.todo = run.todo /\ run'.open = "index" /\ run'.made = run.made
  BY <1>0, Building
<1>3. RunOk'
  BY <1>0, <1>1, <1>2, Building DEF RunOk
<1>4. IndexOk' /\ IndexNotAhead' /\ FinishedRunIsConsistent' /\ finished' \in BOOLEAN
  BY <1>0, Building DEF IndexOk, IndexNotAhead, FinishedRunIsConsistent
<1> QED
  BY <1>0, <1>1, <1>3, <1>4 DEF Inv

LEMMA WriteIndexKeeps == ASSUME Inv, WriteIndex PROVE Inv'
<1>0. /\ UNCHANGED <<master, builder, oppm, manifests, lists, edits, archives>>
      /\ run.tool = builder /\ index' = run.made /\ finished' = TRUE
      /\ run' = Idle
  BY DEF WriteIndex, described
<1>1. /\ master' \in {"oppm", "pm"} /\ builder' \in Builders
      /\ DescribedOk' /\ FormsOk'
      /\ Known' = Known /\ \A q : Version(q)' = Version(q)
  BY <1>0, DescribedSame
<1>2. RunOk'
  BY <1>0, IdleOk
<1>3. ASSUME NEW p \in DOMAIN index'
      PROVE  /\ p \in Known /\ index'[p] \in Nat /\ index'[p] = Version(p)
             /\ p \in DOMAIN archives /\ archives[p] # Broken
             /\ archives[p].version = index'[p]
  BY <1>0, Building, VersionType
<1>4. index' # Broken
  <2>1. DOMAIN index' \subseteq Packages
    BY <1>3, DescribedIs
  <2>2. DOMAIN Broken = {"broken"}
    BY DEF Broken
  <2> QED
    BY <2>1, <2>2, Marks
<1>5. IndexOk'
  BY <1>1, <1>3 DEF IndexOk
<1>6. IndexNotAhead' /\ FinishedRunIsConsistent'
  BY <1>0, <1>3, <1>4 DEF IndexNotAhead, FinishedRunIsConsistent
<1> QED
  BY <1>0, <1>1, <1>2, <1>5, <1>6 DEF Inv

LEMMA StartToPmKeeps == ASSUME Inv, StartToPm PROVE Inv'
<1>0. /\ UNCHANGED <<master, builder, oppm, manifests, lists, edits, index, archives, finished>>
      /\ master = "oppm"
      /\ run' = [Idle EXCEPT !.tool = "repoConvert", !.todo = DOMAIN oppm]
  BY DEF StartToPm, described, packages
<1>1. /\ master' \in {"oppm", "pm"} /\ builder' \in Builders
      /\ DescribedOk' /\ FormsOk'
      /\ Known' = Known /\ \A p : Version(p)' = Version(p)
  BY <1>0, DescribedSame
<1>2. /\ DOMAIN run' = {"tool", "todo", "open", "made"}
      /\ run'.tool = "repoConvert" /\ run'.todo = DOMAIN oppm
  BY <1>0 DEF Idle
<1>3. RunOk'
  BY <1>0, <1>2, Tools DEF RunOk, None
<1>4. /\ finished' \in BOOLEAN /\ DOMAIN archives' \subseteq Packages
      /\ IndexNotAhead' /\ FinishedRunIsConsistent'
  BY <1>0, PackagesSame DEF packages
<1>5. IndexOk'
  BY <1>0, <1>1 DEF Inv, IndexOk
<1> QED
  BY <1>1, <1>3, <1>4, <1>5 DEF Inv

\* What is so in every step of a conversion.
LEMMA Converting ==
    ASSUME Inv, run.tool = "repoConvert"
    PROVE  /\ DOMAIN run = {"tool", "todo", "open", "made"}
           /\ builder # "repoConvert" /\ master = "oppm"
           /\ run.todo \subseteq DOMAIN oppm
BY Tools DEF Inv, RunOk

LEMMA WriteManifestKeeps ==
    ASSUME Inv, NEW p \in Packages, WriteManifest(p)
    PROVE  Inv'
<1>0. /\ UNCHANGED <<master, builder, oppm, lists, edits, index, archives, finished>>
      /\ run.tool = "repoConvert" /\ p \in run.todo
  BY DEF WriteManifest, packages
<1>1. CASE run' = Idle /\ UNCHANGED manifests
  <2>1. UNCHANGED <<master, builder, described, packages>>
    BY <1>0, <1>1 DEF described, packages
  <2> QED
    BY <1>1, <2>1, OverKeeps
<1>2. CASE /\ manifests' = With(manifests, p, oppm[p].version)
           /\ run' = [run EXCEPT !.open = p]
  <2>1. p \in DOMAIN oppm /\ master = "oppm"
    BY <1>0, Converting
  <2>2. /\ DOMAIN manifests' = DOMAIN manifests \cup {p}
        /\ manifests'[p] = oppm[p].version
        /\ \A q \in DOMAIN manifests : q # p => manifests'[q] = manifests[q]
    <3>1. /\ DOMAIN With(manifests, p, oppm[p].version) = DOMAIN manifests \cup {p}
          /\ With(manifests, p, oppm[p].version)[p] = oppm[p].version
          /\ \A q \in DOMAIN manifests :
                q # p => With(manifests, p, oppm[p].version)[q] = manifests[q]
      BY DEF With
    <3> QED
      BY ONLY <1>2, <3>1
  <2>3. DescribedOk'
    BY <1>0, <2>1, <2>2 DEF Inv, DescribedOk
  <2>4. FormsOk'
    BY <1>0, <2>1, <2>2 DEF Inv, FormsOk, DescribedOk
  <2>5. RunOk'
    <3>1. /\ DOMAIN run' = {"tool", "todo", "open", "made"}
          /\ run'.tool = "repoConvert" /\ run'.todo = run.todo
      BY <1>0, <1>2, Converting
    <3> QED
      BY <1>0, <3>1, Converting DEF RunOk
  <2>6. IndexOk'
    <3>1. ASSUME NEW q \in Known
          PROVE  q \in Known' /\ Version(q)' \in Nat /\ Version(q) <= Version(q)'
      <4>1. CASE builder = "pmUtils"
        <5>1. q \in DOMAIN manifests /\ Version(q) = manifests[q] /\ Version(q)' = manifests'[q]
          BY <1>0, <4>1 DEF Known, Version
        <5>2. /\ manifests[q] \in Nat /\ oppm[p].version \in Nat
              /\ manifests[q] <= oppm[q].version
          BY <2>1, <5>1 DEF Inv, DescribedOk, FormsOk
        <5>3. q \in Known'
          BY <1>0, <2>2, <4>1, <5>1 DEF Known
        <5>4. CASE q = p
          BY <2>2, <5>1, <5>2, <5>3, <5>4
        <5>5. CASE q # p
          BY <2>2, <5>1, <5>2, <5>3, <5>5
        <5> QED
          BY <5>4, <5>5
      <4>2. CASE builder # "pmUtils"
        <5>1. q \in Known' /\ Version(q)' = Version(q)
          BY <1>0, <4>2 DEF Known, Version
        <5>2. Version(q) \in Nat
          BY VersionType
        <5> QED
          BY <5>1, <5>2
      <4> QED
        BY <4>1, <4>2
    <3> QED
      BY <1>0, <3>1, IndexSame
  <2>7. /\ finished' \in BOOLEAN /\ DOMAIN archives' \subseteq Packages
        /\ IndexNotAhead' /\ FinishedRunIsConsistent'
    BY <1>0, PackagesSame DEF packages
  <2>8. master' \in {"oppm", "pm"} /\ builder' \in Builders
    BY <1>0 DEF Inv
  <2> QED
    BY <2>3, <2>4, <2>5, <2>6, <2>7, <2>8 DEF Inv
<1> QED
  BY <1>1, <1>2 DEF WriteManifest

LEMMA WriteListKeeps ==
    ASSUME Inv, NEW p \in Packages, WriteList(p)
    PROVE  Inv'
<1>0. /\ UNCHANGED <<master, builder, oppm, manifests, edits, index, archives, finished>>
      /\ run.tool = "repoConvert"
      /\ run' = [run EXCEPT !.todo = @ \ {p}, !.open = None]
  BY DEF WriteList, packages
<1>1. DescribedOk' /\ FormsOk'
  BY <1>0, Converting DEF Inv, DescribedOk, FormsOk
<1>2. Known' = Known /\ \A q : Version(q)' = Version(q)
  BY <1>0 DEF Known, Version
<1>3. RunOk'
  <2>1. /\ DOMAIN run' = {"tool", "todo", "open", "made"}
        /\ run'.tool = "repoConvert" /\ run'.todo = run.todo \ {p}
    BY <1>0, Converting
  <2> QED
    BY <1>0, <2>1, Converting DEF RunOk
<1>4. /\ finished' \in BOOLEAN /\ DOMAIN archives' \subseteq Packages
      /\ IndexNotAhead' /\ FinishedRunIsConsistent'
  BY <1>0, PackagesSame DEF packages
<1>5. IndexOk'
  BY <1>0, <1>2 DEF Inv, IndexOk
<1>6. master' \in {"oppm", "pm"} /\ builder' \in Builders
  BY <1>0 DEF Inv
<1> QED
  BY <1>1, <1>3, <1>4, <1>5, <1>6 DEF Inv

\* Nothing runs while the owner edits, or programs.cfg is written anew.
LEMMA IdleSame ==
    ASSUME Inv, run = Idle, UNCHANGED <<run, builder>>
    PROVE  RunOk'
BY IdleOk

LEMMA ConvertToOppmKeeps == ASSUME Inv, ConvertToOppm PROVE Inv'
<1>0. /\ UNCHANGED <<master, builder, manifests, lists, edits, index, archives, finished, run>>
      /\ run = Idle /\ master = "pm"
      /\ oppm' = [p \in DOMAIN manifests \cap DOMAIN lists |->
                    [version |-> manifests[p], package |-> ToOppm(lists[p].package)]]
  BY DEF ConvertToOppm, packages
<1>1. /\ DOMAIN oppm' = DOMAIN manifests \cap DOMAIN lists
      /\ \A p \in DOMAIN oppm' :
            oppm'[p] # Broken /\ oppm'[p].version = manifests[p]
  BY <1>0, NotBroken
<1>2. DescribedOk'
  BY <1>0, <1>1 DEF Inv, DescribedOk
<1>3. FormsOk'
  <2>1. \A p \in DOMAIN manifests : manifests[p] \in Nat
    BY DEF Inv, DescribedOk
  <2> QED
    BY <1>0, <1>1, <2>1 DEF FormsOk
<1>4. RunOk'
  BY <1>0, IdleSame
<1>5. IndexOk'
  <2>1. ASSUME NEW p \in Known
        PROVE  p \in Known' /\ Version(p)' \in Nat /\ Version(p) <= Version(p)'
    <3>1. CASE builder = "pmUtils"
      <4>1. p \in Known' /\ Version(p)' = Version(p)
        BY <1>0, <3>1 DEF Known, Version
      <4>2. Version(p) \in Nat
        BY VersionType
      <4> QED
        BY <4>1, <4>2
    <3>2. CASE builder # "pmUtils"
      <4>1. p \in DOMAIN oppm /\ Version(p) = oppm[p].version
        BY <3>2 DEF Known, Version
      <4>2. /\ p \in DOMAIN manifests \cap DOMAIN lists
            /\ oppm[p].version <= manifests[p] /\ manifests[p] \in Nat
        BY <1>0, <4>1 DEF Inv, FormsOk, DescribedOk
      <4>3. p \in Known' /\ Version(p)' = manifests[p]
        BY <1>0, <1>1, <3>2, <4>2 DEF Known, Version
      <4> QED
        BY <4>1, <4>2, <4>3
    <3> QED
      BY <3>1, <3>2
  <2> QED
    BY <1>0, <2>1, IndexSame
<1>6. /\ finished' \in BOOLEAN /\ DOMAIN archives' \subseteq Packages
      /\ IndexNotAhead' /\ FinishedRunIsConsistent'
  BY <1>0, PackagesSame DEF packages
<1>7. master' \in {"oppm", "pm"} /\ builder' \in Builders
  BY <1>0 DEF Inv
<1> QED
  BY <1>2, <1>3, <1>4, <1>5, <1>6, <1>7 DEF Inv

LEMMA EditKeeps ==
    ASSUME Inv, NEW p \in Packages, Edit(p)
    PROVE  Inv'
<1>0. /\ UNCHANGED <<master, builder, index, archives, finished, run>>
      /\ run = Idle /\ edits' = edits + 1 /\ edits \in Nat
  BY DEF Edit, packages, Inv, DescribedOk
<1>1. RunOk'
  BY <1>0, IdleSame
<1>2. /\ finished' \in BOOLEAN /\ DOMAIN archives' \subseteq Packages
      /\ IndexNotAhead' /\ FinishedRunIsConsistent'
  BY <1>0, PackagesSame DEF packages
<1>3. master' \in {"oppm", "pm"} /\ builder' \in Builders
  BY <1>0 DEF Inv
<1>4. CASE master = "oppm"
  <2>1. PICK package :
          /\ oppm' = With(oppm, p, [version |-> edits', package |-> package])
          /\ UNCHANGED <<manifests, lists>>
    BY <1>4 DEF Edit
  <2> PICK entry : entry = [version |-> edits', package |-> package]
    OBVIOUS
  <2>2. entry # Broken /\ entry.version = edits + 1
    BY <1>0, NotBroken
  <2>3. /\ DOMAIN oppm' = DOMAIN oppm \cup {p} /\ oppm'[p] = entry
        /\ \A q \in DOMAIN oppm : q # p => oppm'[q] = oppm[q]
    <3>1. /\ DOMAIN With(oppm, p, entry) = DOMAIN oppm \cup {p}
          /\ With(oppm, p, entry)[p] = entry
          /\ \A q \in DOMAIN oppm : q # p => With(oppm, p, entry)[q] = oppm[q]
      BY DEF With
    <3>2. oppm' = With(oppm, p, entry)
      BY <2>1
    <3> QED
      BY ONLY <3>1, <3>2
  <2>4. ASSUME NEW q \in DOMAIN oppm'
        PROVE  /\ oppm'[q] # Broken /\ oppm'[q].version \in Nat
               /\ oppm'[q].version <= edits'
               /\ q \in DOMAIN oppm => oppm[q].version <= oppm'[q].version
    <3>0. q \in DOMAIN oppm => /\ oppm[q] # Broken /\ oppm[q].version \in Nat
                               /\ oppm[q].version <= edits
      BY DEF Inv, DescribedOk
    <3>1. CASE q = p
      BY <1>0, <2>2, <2>3, <3>0, <3>1
    <3>2. CASE q # p
      BY <1>0, <2>3, <3>0, <3>2
    <3> QED
      BY <3>1, <3>2
  <2>5. ASSUME NEW q \in DOMAIN manifests
        PROVE  /\ q \in DOMAIN oppm' /\ manifests[q] <= oppm'[q].version
               /\ manifests[q] \in Nat /\ manifests[q] <= edits'
    <3>1. /\ q \in DOMAIN oppm /\ manifests[q] <= oppm[q].version
          /\ manifests[q] \in Nat /\ manifests[q] <= edits /\ oppm[q].version \in Nat
      BY <1>4 DEF Inv, FormsOk, DescribedOk
    <3>2. q \in DOMAIN oppm' /\ oppm'[q].version \in Nat /\ oppm[q].version <= oppm'[q].version
      BY <2>3, <2>4, <3>1
    <3> QED
      BY <1>0, <3>1, <3>2
  <2>6. DescribedOk'
    BY <1>0, <2>1, <2>3, <2>4, <2>5 DEF Inv, DescribedOk
  <2>7. FormsOk'
    BY <1>0, <1>4, <2>1, <2>5 DEF FormsOk
  <2>8. IndexOk'
    <3>1. ASSUME NEW q \in Known
          PROVE  q \in Known' /\ Version(q)' \in Nat /\ Version(q) <= Version(q)'
      <4>1. CASE builder = "pmUtils"
        <5>1. q \in Known' /\ Version(q)' = Version(q)
          BY <1>0, <2>1, <4>1 DEF Known, Version
        <5>2. Version(q) \in Nat
          BY VersionType
        <5> QED
          BY <5>1, <5>2
      <4>2. CASE builder # "pmUtils"
        <5>1. q \in DOMAIN oppm /\ q \in DOMAIN oppm'
          BY <2>3, <4>2 DEF Known
        <5> QED
          BY <1>0, <2>4, <4>2, <5>1 DEF Known, Version
      <4> QED
        BY <4>1, <4>2
    <3> QED
      BY <1>0, <3>1, IndexSame
  <2> QED
    BY <1>1, <1>2, <1>3, <2>6, <2>7, <2>8 DEF Inv
<1>5. CASE master = "pm"
  <2>1. PICK package :
          /\ lists' = With(lists, p, [version |-> edits', package |-> package])
          /\ manifests' = With(manifests, p, edits') /\ UNCHANGED oppm
    BY <1>5 DEF Edit
  <2>2. /\ DOMAIN manifests' = DOMAIN manifests \cup {p} /\ manifests'[p] = edits'
        /\ \A q \in DOMAIN manifests : q # p => manifests'[q] = manifests[q]
    <3>1. /\ DOMAIN With(manifests, p, edits') = DOMAIN manifests \cup {p}
          /\ With(manifests, p, edits')[p] = edits'
          /\ \A q \in DOMAIN manifests : q # p => With(manifests, p, edits')[q] = manifests[q]
      BY DEF With
    <3> QED
      BY ONLY <2>1, <3>1
  <2>3. DOMAIN lists \subseteq DOMAIN lists'
    <3>1. DOMAIN With(lists, p, [version |-> edits', package |-> package])
             = DOMAIN lists \cup {p}
      BY DEF With
    <3> QED
      BY <2>1, <3>1
  <2>4. ASSUME NEW q \in DOMAIN manifests'
        PROVE  /\ manifests'[q] \in Nat /\ manifests'[q] <= edits'
               /\ q \in DOMAIN manifests => manifests[q] <= manifests'[q]
    <3>0. q \in DOMAIN manifests => manifests[q] \in Nat /\ manifests[q] <= edits
      BY DEF Inv, DescribedOk
    <3>1. CASE q = p
      BY <1>0, <2>2, <3>0, <3>1
    <3>2. CASE q # p
      BY <1>0, <2>2, <3>0, <3>2
    <3> QED
      BY <3>1, <3>2
  <2>5. ASSUME NEW q \in DOMAIN oppm
        PROVE  /\ q \in DOMAIN manifests' \cap DOMAIN lists'
               /\ oppm[q].version <= manifests'[q]
               /\ oppm[q] # Broken /\ oppm[q].version \in Nat
               /\ oppm[q].version <= edits'
    <3>1. /\ q \in DOMAIN manifests \cap DOMAIN lists
          /\ oppm[q].version <= manifests[q] /\ oppm[q] # Broken
          /\ manifests[q] \in Nat /\ oppm[q].version <= edits /\ oppm[q].version \in Nat
      BY <1>5 DEF Inv, FormsOk, DescribedOk
    <3>2. q \in DOMAIN manifests' /\ manifests'[q] \in Nat /\ manifests[q] <= manifests'[q]
      BY <2>2, <2>4, <3>1
    <3> QED
      BY <1>0, <2>3, <3>1, <3>2
  <2>6. DescribedOk'
    BY <1>0, <2>1, <2>2, <2>4, <2>5 DEF Inv, DescribedOk
  <2>7. FormsOk'
    BY <1>0, <1>5, <2>1, <2>5 DEF FormsOk
  <2>8. IndexOk'
    <3>1. ASSUME NEW q \in Known
          PROVE  q \in Known' /\ Version(q)' \in Nat /\ Version(q) <= Version(q)'
      <4>1. CASE builder = "pmUtils"
        <5>1. q \in DOMAIN manifests /\ q \in DOMAIN manifests'
          BY <2>2, <4>1 DEF Known
        <5> QED
          BY <1>0, <2>4, <4>1, <5>1 DEF Known, Version
      <4>2. CASE builder # "pmUtils"
        <5>1. q \in Known' /\ Version(q)' = Version(q)
          BY <1>0, <2>1, <4>2 DEF Known, Version
        <5>2. Version(q) \in Nat
          BY VersionType
        <5> QED
          BY <5>1, <5>2
      <4> QED
        BY <4>1, <4>2
    <3> QED
      BY <1>0, <3>1, IndexSame
  <2> QED
    BY <1>1, <1>2, <1>3, <2>6, <2>7, <2>8 DEF Inv
<1> QED
  BY <1>4, <1>5 DEF Inv

LEMMA StepInv == ASSUME Inv, [Next]_vars PROVE Inv'
<1>1. CASE Interrupt \/ EndToPm
  BY <1>1, OverKeeps DEF Interrupt, EndToPm
<1>2. CASE StartBuild \/ OpenIndex \/ WriteIndex
  BY <1>2, StartBuildKeeps, OpenIndexKeeps, WriteIndexKeeps
<1>3. CASE StartToPm \/ ConvertToOppm
  BY <1>3, StartToPmKeeps, ConvertToOppmKeeps
<1>4. ASSUME NEW p \in Packages, Edit(p) \/ WriteManifest(p) \/ WriteList(p)
      PROVE  Inv'
  BY <1>4, EditKeeps, WriteManifestKeeps, WriteListKeeps
<1>5. ASSUME NEW p \in Packages, OpenArchive(p) \/ WriteArchive(p) \/ SkipPackage(p)
      PROVE  Inv'
  BY <1>5, OpenArchiveKeeps, WriteArchiveKeeps, SkipPackageKeeps
<1>6. ASSUME NEW p \in Packages, BuildFails(p) PROVE Inv'
  BY <1>6, OverKeeps DEF BuildFails
<1>7. CASE UNCHANGED vars
  BY <1>7, StutterKeeps
<1> QED
  BY <1>1, <1>2, <1>3, <1>4, <1>5, <1>6, <1>7 DEF Next

LEMMA Invariant == Spec => []Inv
BY InitInv, StepInv, PTL DEF Spec

-----------------------------------------------------------------------------
(* Folds.  The tools go through a list of entries one after the other; the  *)
(* four folds of the model are one, of the operator Step.                  *)

Step(kind, dir, made, entry) ==
    CASE kind = "repo" -> RepoCopy(made, entry)
      [] kind = "pm"   -> PmCopy(dir, made, entry)
      [] kind = "put"  -> PutEntry(made, entry)
      [] kind = "list" -> AddToPm(dir, made, entry)

\* h[k] is what the first k entries of s make of base.
Iterates(h, kind, dir, base, s) ==
    /\ h[0] = base
    /\ \A k \in 1..Len(s) : h[k] = Step(kind, dir, h[k - 1], s[k])

\* g[t] is what the entries of s at the places t make of base.
Steps(g, kind, dir, base, s) ==
    g = [t \in SUBSET DOMAIN s |->
            IF t = {} THEN base ELSE Step(kind, dir, g[t \ {Max(t)}], s[Max(t)])]

LEMMA Least ==
    ASSUME NEW T, T \subseteq Nat, T # {}
    PROVE  \E x \in T : \A y \in T : x <= y
<1>1. PICK x \in T : \A y \in T : ~(<<y, x>> \in OpToRel(<, Nat))
  BY NatLessThanWellFounded, WFMin
<1>2. ASSUME NEW y \in T PROVE x <= y
  <2>1. ASSUME y < x PROVE FALSE
    <3>1. <<y, x>> \in {ss \in Nat \X Nat : ss[1] < ss[2]}
      BY <2>1
    <3>2. <<y, x>> \in OpToRel(<, Nat)
      BY <3>1, Zenon DEF OpToRel
    <3> QED
      BY <3>2, <1>1
  <2> QED
    BY <2>1
<1> QED
  BY <1>2

LEMMA Induct ==
    ASSUME NEW k \in Nat, NEW T, 0 \in T,
           \A j \in 0..k : j > 0 /\ j - 1 \in T => j \in T
    PROVE  k \in T
<1> SUFFICES ASSUME (0..k) \ T # {} PROVE FALSE
  OBVIOUS
<1>1. PICK x \in (0..k) \ T : \A y \in (0..k) \ T : x <= y
  <2>1. (0..k) \ T \subseteq Nat
    OBVIOUS
  <2> QED
    BY <2>1, Least
<1>2. x > 0 /\ x - 1 \in 0..k /\ ~(x <= x - 1)
  BY <1>1
<1> QED
  BY <1>1, <1>2

LEMMA Largest ==
    ASSUME NEW n \in Nat, NEW t, t \subseteq 1..n, t # {}
    PROVE  Max(t) \in t /\ \A y \in t : Max(t) >= y
<1> DEFINE T == {i \in 0..n : n - i \in t}
<1>1. T \subseteq Nat /\ T # {}
  <2>1. PICK y \in t : TRUE
    OBVIOUS
  <2>2. y \in 1..n /\ n - y \in 0..n /\ n - (n - y) = y
    BY <2>1
  <2>3. n - y \in T
    BY <2>1, <2>2
  <2>4. 0..n \subseteq Nat
    OBVIOUS
  <2>5. T \subseteq Nat
    BY <2>4
  <2> HIDE DEF T
  <2> QED
    BY <2>3, <2>5
<1>2. PICK i \in T : \A j \in T : i <= j
  BY <1>1, Least
<1>3. PICK x : x = n - i
  OBVIOUS
<1>4. x \in t /\ x \in Nat /\ i \in Nat
  BY <1>2, <1>3
<1>5. ASSUME NEW y \in t PROVE x >= y
  <2>1. y \in 1..n /\ n - y \in 0..n /\ n - (n - y) = y
    OBVIOUS
  <2>2. i <= n - y
    BY <1>2, <2>1
  <2> QED
    BY <1>3, <1>4, <2>1, <2>2
<1> QED
  BY <1>4, <1>5 DEF Max

LEMMA StepsExist ==
    ASSUME NEW kind, NEW dir, NEW base, NEW S, NEW s \in Seq(S)
    PROVE  \E g : Steps(g, kind, dir, base, s)
<1> DEFINE D == DOMAIN s
           k == Len(s)
           Small(n) == {t \in SUBSET D : Cardinality(t) <= n}
           Next1(h, t) == IF t = {} THEN base
                          ELSE Step(kind, dir, h[t \ {Max(t)}], s[Max(t)])
           Good(n, h) == \A t \in Small(n) : h[t] = Next1(h, t)
           T == {n \in Nat : \E h : Good(n, h)}
<1>1. k \in Nat /\ D = 1..k
  OBVIOUS
<1>a. /\ IsFiniteSet(D) /\ Cardinality(D) = k
  BY <1>1, FS_Interval
<1>b. ASSUME NEW t \in SUBSET D
      PROVE  /\ Cardinality(t) \in Nat /\ Cardinality(t) <= k
             /\ Cardinality(t) = 0 => t = {}
             /\ t # {} => /\ Max(t) \in t
                          /\ Cardinality(t \ {Max(t)}) = Cardinality(t) - 1
  <2>1. IsFiniteSet(t) /\ Cardinality(t) <= k
    BY <1>a, FS_Subset
  <2>2. Cardinality(t) \in Nat /\ (Cardinality(t) = 0 => t = {})
    BY <2>1, FS_CardinalityType, FS_EmptySet
  <2>3. t # {} => Max(t) \in t
    BY <1>1, Largest
  <2>4. Max(t) \in t => Cardinality(t \ {Max(t)}) = Cardinality(t) - 1
    BY <2>1, FS_RemoveElement
  <2> QED
    BY <2>1, <2>2, <2>3, <2>4
<1> HIDE DEF D, k
<1>2. 0 \in T
  <2>1. ASSUME NEW t \in Small(0) PROVE t = {}
    <3>1. t \in SUBSET D /\ Cardinality(t) <= 0
      OBVIOUS
    <3>2. Cardinality(t) \in Nat /\ (Cardinality(t) = 0 => t = {})
      BY <1>b, <3>1
    <3> QED
      BY <3>1, <3>2
  <2>2. Good(0, [t \in {{}} |-> base])
    BY <2>1
  <2> QED
    BY <2>2
<1>3. ASSUME NEW n \in 0..k, n > 0, n - 1 \in T PROVE n \in T
  <2>1. PICK h : Good(n - 1, h)
    BY <1>3
  <2> DEFINE e == [t \in Small(n) |-> Next1(h, t)]
  <2>0. n \in Nat /\ n - 1 \in Nat
    BY <1>1, <1>3
  <2>2. ASSUME NEW t \in Small(n), t # {}
        PROVE  t \ {Max(t)} \in Small(n - 1)
    <3>1. /\ Cardinality(t) \in Nat /\ Cardinality(t) <= n /\ t \in SUBSET D
          /\ Cardinality(t \ {Max(t)}) = Cardinality(t) - 1
      BY <1>b, <2>2
    <3> QED
      BY <2>0, <3>1
  <2>3. ASSUME NEW t \in Small(n - 1) PROVE t \in Small(n)
    <3>1. t \in SUBSET D /\ Cardinality(t) <= n - 1
      OBVIOUS
    <3>2. Cardinality(t) \in Nat
      BY <1>b, <3>1
    <3>3. Cardinality(t) <= n
      BY <2>0, <3>1, <3>2
    <3> QED
      BY <3>1, <3>3
  <2>4. \A t \in Small(n) : e[t] = Next1(h, t)
    OBVIOUS
  <2> HIDE DEF e, Small
  <2>5. \A t \in Small(n - 1) : e[t] = h[t]
    BY <2>1, <2>3, <2>4
  <2>6. Good(n, e)
    BY <2>2, <2>4, <2>5
  <2> HIDE DEF Good
  <2> QED
    BY <2>0, <2>6
<1>4. k \in T
  <2> HIDE DEF T
  <2> QED
    BY <1>1, <1>2, <1>3, Induct
<1>5. PICK h : Good(k, h)
  BY <1>4
<1>6. \A t \in SUBSET D : t \in Small(k) /\ t \ {Max(t)} \in SUBSET D
  BY <1>b
<1> DEFINE g == [t \in SUBSET D |-> h[t]]
<1>7. g = [t \in SUBSET D |-> Next1(g, t)]
  <2>1. \A t \in SUBSET D : g[t] = h[t]
    OBVIOUS
  <2>2. \A t \in SUBSET D : h[t] = Next1(h, t) /\ Next1(h, t) = Next1(g, t)
    <3> HIDE DEF g, Small
    <3> QED
      BY <1>5, <1>6, <2>1
  <2> HIDE DEF Next1
  <2> QED
    BY <2>2
<1> QED
  BY <1>7 DEF Steps, D

\* What is taken last first is, in the end, taken in order.
LEMMA StepsIterate ==
    ASSUME NEW kind, NEW dir, NEW base, NEW S, NEW s \in Seq(S),
           NEW g, Steps(g, kind, dir, base, s)
    PROVE  \E h : Iterates(h, kind, dir, base, s) /\ g[DOMAIN s] = h[Len(s)]
<1> DEFINE n == Len(s)
           h == [k \in 0..n |-> g[1..k]]
<1>1. n \in Nat /\ DOMAIN s = 1..n
  OBVIOUS
<1>2. \A t \in SUBSET (1..n) :
         g[t] = IF t = {} THEN base ELSE Step(kind, dir, g[t \ {Max(t)}], s[Max(t)])
  BY <1>1 DEF Steps
<1> HIDE DEF n
<1>3. \A k \in 0..n : h[k] = g[1..k]
  OBVIOUS
<1>4. h[0] = base
  <2>1. 1..0 = {} /\ 0 \in 0..n
    BY <1>1
  <2> QED
    BY <1>2, <1>3, <2>1
<1>5. ASSUME NEW k \in 1..n PROVE h[k] = Step(kind, dir, h[k - 1], s[k])
  <2>0. k \in Nat /\ k >= 1 /\ k <= n
    BY <1>1
  <2>1. /\ 1..k \subseteq 1..n /\ 1..k # {} /\ k \in Nat
        /\ k \in 0..n /\ k - 1 \in 0..n /\ (1..k) \ {k} = 1..(k - 1)
    <3>1. k \in 1..k
      BY <2>0
    <3>2. k \in 0..n /\ k - 1 \in 0..n /\ 1..k \subseteq 1..n
      BY <1>1, <2>0
    <3>3. (1..k) \ {k} = 1..(k - 1)
      BY <2>0
    <3> QED
      BY <2>0, <3>1, <3>2, <3>3
  <2>2. Max(1..k) = k
    <3>1. Max(1..k) \in 1..k /\ \A y \in 1..k : Max(1..k) >= y
      BY <2>0, <2>1, Largest
    <3> PICK m : m = Max(1..k)
      OBVIOUS
    <3>2. m \in 1..k /\ m >= k
      BY <2>0, <3>1
    <3> QED
      BY <2>0, <3>2
  <2>3. g[1..k] = Step(kind, dir, g[(1..k) \ {k}], s[k])
    BY <1>2, <2>1, <2>2
  <2> QED
    BY <1>3, <2>1, <2>3
<1>6. Iterates(h, kind, dir, base, s) /\ g[DOMAIN s] = h[n]
  <2>1. g[1..n] = h[n]
    BY <1>1, <1>3
  <2> QED
    BY <1>1, <1>4, <1>5, <2>1 DEF Iterates, n
<1> QED
  BY <1>6 DEF n

\* Each of the four folds goes through the list in its order.
RepoFold(s) == FoldLeft(RepoCopy, Empty, s)
PmFold(dir, s) == FoldLeft(LAMBDA a, e : PmCopy(dir, a, e), Empty, s)
PutFold(s) == FoldLeft(PutEntry, << >>, s)
ListFold(dir, base, s) == FoldLeft(LAMBDA a, e : AddToPm(dir, a, e), base, s)

LEMMA RepoFolds ==
    ASSUME NEW S, NEW s \in Seq(S)
    PROVE  \E h : /\ Iterates(h, "repo", << >>, Empty, s)
                  /\ RepoFold(s) = h[Len(s)]
<1> DEFINE Is(g) == g = [t \in SUBSET DOMAIN s |->
                            IF t = {} THEN Empty ELSE RepoCopy(g[t \ {Max(t)}], s[Max(t)])]
           c == CHOOSE g : Is(g)
<1>1. RepoFold(s) = c[DOMAIN s]
  BY DEF RepoFold, FoldLeft, MapThenFoldSet
<1>2. \A g : Steps(g, "repo", << >>, Empty, s) <=> Is(g)
  BY DEF Steps, Step
<1>3. \E g : Steps(g, "repo", << >>, Empty, s)
  BY StepsExist
<1> HIDE DEF Is
<1>4. Steps(c, "repo", << >>, Empty, s)
  BY <1>2, <1>3
<1> HIDE DEF c
<1>5. \E h : Iterates(h, "repo", << >>, Empty, s) /\ c[DOMAIN s] = h[Len(s)]
  BY <1>4, StepsIterate
<1> QED
  BY <1>1, <1>5

LEMMA PmFolds ==
    ASSUME NEW dir, NEW S, NEW s \in Seq(S)
    PROVE  \E h : /\ Iterates(h, "pm", dir, Empty, s)
                  /\ PmFold(dir, s) = h[Len(s)]
<1> DEFINE Is(g) == g = [t \in SUBSET DOMAIN s |->
                            IF t = {} THEN Empty
                            ELSE PmCopy(dir, g[t \ {Max(t)}], s[Max(t)])]
           c == CHOOSE g : Is(g)
<1>1. PmFold(dir, s) = c[DOMAIN s]
  BY DEF PmFold, FoldLeft, MapThenFoldSet
<1>2. \A g : Steps(g, "pm", dir, Empty, s) <=> Is(g)
  BY DEF Steps, Step
<1>3. \E g : Steps(g, "pm", dir, Empty, s)
  BY StepsExist
<1> HIDE DEF Is
<1>4. Steps(c, "pm", dir, Empty, s)
  BY <1>2, <1>3
<1> HIDE DEF c
<1>5. \E h : Iterates(h, "pm", dir, Empty, s) /\ c[DOMAIN s] = h[Len(s)]
  BY <1>4, StepsIterate
<1> QED
  BY <1>1, <1>5

LEMMA PutFolds ==
    ASSUME NEW S, NEW s \in Seq(S)
    PROVE  \E h : /\ Iterates(h, "put", << >>, << >>, s)
                  /\ PutFold(s) = h[Len(s)]
<1> DEFINE Is(g) == g = [t \in SUBSET DOMAIN s |->
                            IF t = {} THEN << >>
                            ELSE PutEntry(g[t \ {Max(t)}], s[Max(t)])]
           c == CHOOSE g : Is(g)
<1>1. PutFold(s) = c[DOMAIN s]
  BY DEF PutFold, FoldLeft, MapThenFoldSet
<1>2. \A g : Steps(g, "put", << >>, << >>, s) <=> Is(g)
  BY DEF Steps, Step
<1>3. \E g : Steps(g, "put", << >>, << >>, s)
  BY StepsExist
<1> HIDE DEF Is
<1>4. Steps(c, "put", << >>, << >>, s)
  BY <1>2, <1>3
<1> HIDE DEF c
<1>5. \E h : Iterates(h, "put", << >>, << >>, s) /\ c[DOMAIN s] = h[Len(s)]
  BY <1>4, StepsIterate
<1> QED
  BY <1>1, <1>5

LEMMA ListFolds ==
    ASSUME NEW dir, NEW base, NEW S, NEW s \in Seq(S)
    PROVE  \E h : /\ Iterates(h, "list", dir, base, s)
                  /\ ListFold(dir, base, s) = h[Len(s)]
<1> DEFINE Is(g) == g = [t \in SUBSET DOMAIN s |->
                            IF t = {} THEN base
                            ELSE AddToPm(dir, g[t \ {Max(t)}], s[Max(t)])]
           c == CHOOSE g : Is(g)
<1>1. ListFold(dir, base, s) = c[DOMAIN s]
  BY DEF ListFold, FoldLeft, MapThenFoldSet
<1>2. \A g : Steps(g, "list", dir, base, s) <=> Is(g)
  BY DEF Steps, Step
<1>3. \E g : Steps(g, "list", dir, base, s)
  BY StepsExist
<1> HIDE DEF Is
<1>4. Steps(c, "list", dir, base, s)
  BY <1>2, <1>3
<1> HIDE DEF c
<1>5. \E h : Iterates(h, "list", dir, base, s) /\ c[DOMAIN s] = h[Len(s)]
  BY <1>4, StepsIterate
<1> QED
  BY <1>1, <1>5

-----------------------------------------------------------------------------
(* What an archive that was built holds.                                   *)

\* The files a copy adds below dst.
TreePart(path, dst) == {dst \o WithoutFirst(file, Len(path)) : file \in Within(path)}
FilePart(path, dst) == {dst \o <<Last(path)>>}

RepoFits(e) == IF e.prefix = ":" THEN IsDir(e.path) ELSE IsFile(e.path)
RepoPart(e) == IF e.prefix = ":" THEN TreePart(e.path, Place(e))
                                 ELSE FilePart(e.path, Place(e))

PmFits(dir, e) == IsDir(dir \o e.path) \/ IsFile(dir \o e.path)
PmPart(dir, e) == IF IsDir(dir \o e.path) THEN TreePart(dir \o e.path, e.dst)
                                          ELSE FilePart(dir \o e.path, e.dst)

Holding(data) == [Empty EXCEPT !.data = data]

LEMMA Data ==
    ASSUME NEW ok, NEW data, NEW d
    PROVE  [[ok |-> ok, data |-> data] EXCEPT !.data = d] = [ok |-> ok, data |-> d]
OBVIOUS

LEMMA HoldingOk ==
    /\ Failed.ok = FALSE /\ Empty = Holding({})
    /\ \A data : /\ Holding(data).ok = TRUE /\ Holding(data).data = data
                 /\ \A d : [Holding(data) EXCEPT !.data = d] = Holding(d)
<1>1. Holding({}) = Empty
  BY Data DEF Empty, Holding
<1>2. DOMAIN Empty = {"ok", "data"} /\ Empty.ok = TRUE
  BY DEF Empty
<1>3. ASSUME NEW data, NEW d
      PROVE  /\ Holding(data).ok = TRUE /\ Holding(data).data = data
             /\ [Holding(data) EXCEPT !.data = d] = Holding(d)
  BY <1>2 DEF Holding
<1> QED
  BY <1>1, <1>3 DEF Failed

\* An archive of the copies, or none.
LEMMA CopiesAdd ==
    ASSUME NEW data, NEW path, NEW dst
    PROVE  /\ CopyTree(Holding(data), path, dst)
                 \in {Failed, Holding(data \cup TreePart(path, dst))}
           /\ CopyFile(Holding(data), path, dst)
                 \in {Failed, Holding(data \cup FilePart(path, dst))}
<1> DEFINE a == Holding(data)
<1>1. /\ a.data = data
      /\ \A d : [a EXCEPT !.data = d] = Holding(d)
  BY HoldingOk
<1> HIDE DEF a
<1>2. CopyTree(a, path, dst) \in {Failed, Holding(data \cup TreePart(path, dst))}
  BY <1>1 DEF CopyTree, TreePart
<1>3. CopyFile(a, path, dst) \in {Failed, Holding(data \cup FilePart(path, dst))}
  BY <1>1 DEF CopyFile, FilePart
<1> QED
  BY <1>2, <1>3 DEF a

LEMMA RepoStep ==
    ASSUME NEW data, NEW e
    PROVE  /\ RepoCopy(Failed, e) = Failed
           /\ \/ RepoCopy(Holding(data), e) = Failed
              \/ /\ RepoFits(e)
                 /\ RepoCopy(Holding(data), e) = Holding(data \cup RepoPart(e))
<1>1. RepoCopy(Failed, e) = Failed
  BY HoldingOk DEF RepoCopy
<1>a. PICK a : a = Holding(data)
  OBVIOUS
<1>b. a.ok = TRUE
  BY <1>a, HoldingOk
<1>2. CASE e.prefix = ":"
  <2>1. RepoCopy(a, e) = IF IsDir(e.path) THEN CopyTree(a, e.path, Place(e)) ELSE Failed
    BY <1>2, <1>b DEF RepoCopy
  <2>2. CopyTree(a, e.path, Place(e)) \in {Failed, Holding(data \cup RepoPart(e))}
    BY <1>2, <1>a, CopiesAdd DEF RepoPart
  <2>3. RepoFits(e) <=> IsDir(e.path)
    BY <1>2 DEF RepoFits
  <2> QED
    BY <1>1, <1>a, <2>1, <2>2, <2>3
<1>3. CASE e.prefix # ":"
  <2>1. RepoCopy(a, e) = IF IsFile(e.path) THEN CopyFile(a, e.path, Place(e)) ELSE Failed
    BY <1>3, <1>b DEF RepoCopy
  <2>2. CopyFile(a, e.path, Place(e)) \in {Failed, Holding(data \cup RepoPart(e))}
    BY <1>3, <1>a, CopiesAdd DEF RepoPart
  <2>3. RepoFits(e) <=> IsFile(e.path)
    BY <1>3 DEF RepoFits
  <2> QED
    BY <1>1, <1>a, <2>1, <2>2, <2>3
<1> QED
  BY <1>2, <1>3

LEMMA DirIsNoFile == \A path : IsDir(path) => ~IsFile(path)
BY TreeAssumption DEF IsDir, IsFile, Within

LEMMA PmStep ==
    ASSUME NEW dir, NEW data, NEW e
    PROVE  /\ PmCopy(dir, Failed, e) = Failed
           /\ \/ PmCopy(dir, Holding(data), e) = Failed
              \/ /\ PmFits(dir, e)
                 /\ PmCopy(dir, Holding(data), e) = Holding(data \cup PmPart(dir, e))
<1>1. PmCopy(dir, Failed, e) = Failed
  BY HoldingOk DEF PmCopy
<1>a. PICK a : a = Holding(data)
  OBVIOUS
<1>b. a.ok = TRUE
  BY <1>a, HoldingOk
<1>c. PICK path : path = dir \o e.path
  OBVIOUS
<1>d. /\ PmFits(dir, e) <=> IsDir(path) \/ IsFile(path)
      /\ PmPart(dir, e) = IF IsDir(path) THEN TreePart(path, e.dst)
                                         ELSE FilePart(path, e.dst)
  BY <1>c DEF PmFits, PmPart
<1>e. PICK part : part = PmPart(dir, e)
  OBVIOUS
<1>2. \/ PmCopy(dir, a, e) = Failed
      \/ PmFits(dir, e) /\ PmCopy(dir, a, e) = Holding(data \cup part)
  <2>1. CASE IsDir(path)
    <3>1. PmCopy(dir, a, e) = CopyTree(a, path, e.dst)
      BY <2>1, <1>b, <1>c, DirIsNoFile DEF PmCopy
    <3>2. part = TreePart(path, e.dst)
      BY ONLY <2>1, <1>d, <1>e
    <3>3. PmCopy(dir, a, e) \in {Failed, Holding(data \cup part)}
      BY ONLY <1>a, <3>1, <3>2, CopiesAdd
    <3> QED
      BY ONLY <1>d, <2>1, <3>3
  <2>2. CASE ~IsDir(path) /\ IsFile(path)
    <3>1. PmCopy(dir, a, e) = CopyFile(a, path, e.dst)
      BY <2>2, <1>b, <1>c DEF PmCopy
    <3>2. part = FilePart(path, e.dst)
      BY ONLY <2>2, <1>d, <1>e
    <3>3. PmCopy(dir, a, e) \in {Failed, Holding(data \cup part)}
      BY ONLY <1>a, <3>1, <3>2, CopiesAdd
    <3> QED
      BY ONLY <1>d, <2>2, <3>3
  <2>3. CASE ~IsDir(path) /\ ~IsFile(path)
    BY <2>3, <1>b, <1>c DEF PmCopy
  <2> QED
    BY ONLY <2>1, <2>2, <2>3
<1> QED
  BY ONLY <1>1, <1>2, <1>a, <1>e

\* What the folds of the two copies build.
LEMMA RepoHolds ==
    ASSUME NEW S, NEW s \in Seq(S)
    PROVE  LET built == RepoFold(s)
           IN  \/ built = Failed
               \/ /\ \A i \in DOMAIN s : RepoFits(s[i])
                  /\ built = Holding(UNION {RepoPart(s[i]) : i \in DOMAIN s})
<1> DEFINE n == Len(s)
           Up(k) == UNION {RepoPart(s[i]) : i \in 1..k}
<1>1. n \in Nat /\ DOMAIN s = 1..n
  OBVIOUS
<1>2. PICK h : /\ Iterates(h, "repo", << >>, Empty, s)
               /\ RepoFold(s) = h[Len(s)]
  BY RepoFolds
<1> DEFINE Good(k) == \/ h[k] = Failed
                      \/ /\ \A i \in 1..k : RepoFits(s[i])
                         /\ h[k] = Holding(Up(k))
           T == {k \in 0..n : Good(k)}
<1>3. 0 \in T
  <2>1. h[0] = Empty /\ 1..0 = {}
    BY <1>2 DEF Iterates
  <2>2. Up(0) = {}
    BY <2>1
  <2> HIDE DEF Up
  <2>3. h[0] = Holding(Up(0)) /\ 0 \in 0..n
    <3>1. Empty = Holding({})
      BY HoldingOk
    <3>2. 0 \in 0..n
      BY <1>1
    <3> QED
      BY ONLY <2>1, <2>2, <3>1, <3>2
  <2>4. Good(0)
    BY <2>1, <2>3
  <2> HIDE DEF Good
  <2> QED
    BY <2>3, <2>4
<1>4. ASSUME NEW k \in 0..n, k > 0, k - 1 \in T PROVE k \in T
  <2>1. /\ k \in 1..n /\ k \in Nat
        /\ 1..k = (1..(k - 1)) \cup {k}
    BY <1>1, <1>4
  <2>2. h[k] = RepoCopy(h[k - 1], s[k])
    BY <1>2, <2>1 DEF Iterates, Step
  <2>3. Up(k) = Up(k - 1) \cup RepoPart(s[k])
    BY <2>1
  <2>4. Good(k - 1)
    BY <1>4
  <2>5. Good(k)
    <3> HIDE DEF Up
    <3>1. CASE h[k - 1] = Failed
      BY <2>2, <3>1, RepoStep
    <3>2. CASE h[k - 1] = Holding(Up(k - 1)) /\ h[k] # Failed
      <4>1. RepoFits(s[k]) /\ h[k] = Holding(Up(k))
        BY <2>2, <2>3, <3>2, RepoStep
      <4>2. CASE h[k - 1] = Failed
        BY <3>1, <4>2
      <4>3. CASE h[k - 1] # Failed
        BY <2>1, <2>4, <4>1, <4>3
      <4> QED
        BY <4>2, <4>3
    <3> QED
      BY <2>4, <3>1, <3>2
  <2> HIDE DEF Good
  <2> QED
    BY <2>5
<1>5. n \in T
  <2> HIDE DEF T, n
  <2> QED
    BY <1>1, <1>3, <1>4, Induct
<1> QED
  BY <1>1, <1>2, <1>5

LEMMA PmHolds ==
    ASSUME NEW dir, NEW S, NEW s \in Seq(S)
    PROVE  LET built == PmFold(dir, s)
           IN  \/ built = Failed
               \/ /\ \A i \in DOMAIN s : PmFits(dir, s[i])
                  /\ built = Holding(UNION {PmPart(dir, s[i]) : i \in DOMAIN s})
<1> DEFINE n == Len(s)
           Up(k) == UNION {PmPart(dir, s[i]) : i \in 1..k}
<1>1. n \in Nat /\ DOMAIN s = 1..n
  OBVIOUS
<1>2. PICK h : /\ Iterates(h, "pm", dir, Empty, s)
               /\ PmFold(dir, s) = h[Len(s)]
  BY PmFolds
<1> DEFINE Good(k) == \/ h[k] = Failed
                      \/ /\ \A i \in 1..k : PmFits(dir, s[i])
                         /\ h[k] = Holding(Up(k))
           T == {k \in 0..n : Good(k)}
<1>3. 0 \in T
  <2>1. h[0] = Empty /\ 1..0 = {}
    BY <1>2 DEF Iterates
  <2>2. Up(0) = {}
    BY <2>1
  <2> HIDE DEF Up
  <2>3. h[0] = Holding(Up(0)) /\ 0 \in 0..n
    <3>1. Empty = Holding({})
      BY HoldingOk
    <3>2. 0 \in 0..n
      BY <1>1
    <3> QED
      BY ONLY <2>1, <2>2, <3>1, <3>2
  <2>4. Good(0)
    BY <2>1, <2>3
  <2> HIDE DEF Good
  <2> QED
    BY <2>3, <2>4
<1>4. ASSUME NEW k \in 0..n, k > 0, k - 1 \in T PROVE k \in T
  <2>1. /\ k \in 1..n /\ k \in Nat
        /\ 1..k = (1..(k - 1)) \cup {k}
    BY <1>1, <1>4
  <2>2. h[k] = PmCopy(dir, h[k - 1], s[k])
    BY <1>2, <2>1 DEF Iterates, Step
  <2>3. Up(k) = Up(k - 1) \cup PmPart(dir, s[k])
    BY <2>1
  <2>4. Good(k - 1)
    BY <1>4
  <2>5. Good(k)
    <3> HIDE DEF Up
    <3>1. CASE h[k - 1] = Failed
      BY <2>2, <3>1, PmStep
    <3>2. CASE h[k - 1] = Holding(Up(k - 1)) /\ h[k] # Failed
      <4>1. PmFits(dir, s[k]) /\ h[k] = Holding(Up(k))
        BY <2>2, <2>3, <3>2, PmStep
      <4>2. CASE h[k - 1] = Failed
        BY <3>1, <4>2
      <4>3. CASE h[k - 1] # Failed
        BY <2>1, <2>4, <4>1, <4>3
      <4> QED
        BY <4>2, <4>3
    <3> QED
      BY <2>4, <3>1, <3>2
  <2> HIDE DEF Good
  <2> QED
    BY <2>5
<1>5. n \in T
  <2> HIDE DEF T, n
  <2> QED
    BY <1>1, <1>3, <1>4, Induct
<1> QED
  BY <1>1, <1>2, <1>5

\* The archives of repoPackager and of pmUtils.
RepoBuilt(s, archive) ==
    /\ \A i \in DOMAIN s : RepoFits(s[i])
    /\ archive.data = UNION {RepoPart(s[i]) : i \in DOMAIN s}

PmBuilt(dir, s, archive) ==
    /\ \A i \in DOMAIN s : PmFits(dir, s[i])
    /\ archive.data = UNION {PmPart(dir, s[i]) : i \in DOMAIN s}

LEMMA RepoBuilds ==
    ASSUME NEW package, NEW S, NEW s \in Seq(S), s = package.entries,
           RepoArchive(package).ok
    PROVE  RepoBuilt(s, RepoArchive(package))
<1> DEFINE U == UNION {RepoPart(s[i]) : i \in DOMAIN s}
           b == RepoFold(s)
<1>1. \/ b = Failed
      \/ (\A i \in DOMAIN s : RepoFits(s[i])) /\ b = Holding(U)
  <2>1. s \in Seq(S)
    OBVIOUS
  <2> QED
    BY ONLY <2>1, RepoHolds
<1>2. RepoArchive(package) = b
  BY DEF RepoArchive, RepoFold
<1> HIDE DEF b, U
<1>3. b # Failed
  BY <1>2, HoldingOk
<1>4. RepoArchive(package).data = U
  BY <1>1, <1>2, <1>3, HoldingOk
<1> QED
  BY <1>1, <1>3, <1>4 DEF U, RepoBuilt

LEMMA PmBuilds ==
    ASSUME NEW package, NEW dir, dir = package.dir,
           NEW S, NEW s \in Seq(S), s = package.files \o package.config,
           PmArchive(package).ok
    PROVE  PmBuilt(dir, s, PmArchive(package))
<1> DEFINE U == UNION {PmPart(dir, s[i]) : i \in DOMAIN s}
           b == PmFold(dir, s)
<1>1. \/ b = Failed
      \/ (\A i \in DOMAIN s : PmFits(dir, s[i])) /\ b = Holding(U)
  <2>1. s \in Seq(S)
    OBVIOUS
  <2> QED
    BY ONLY <2>1, PmHolds
<1>2. PmArchive(package) = b
  <2>1. PmArchive(package) = PmFold(package.dir, package.files \o package.config)
    BY DEF PmArchive, PmFold
  <2> QED
    BY <2>1
<1> HIDE DEF b, U
<1>3. b # Failed
  BY <1>2, HoldingOk
<1>4. PmArchive(package).data = U
  BY <1>1, <1>2, <1>3, HoldingOk
<1> QED
  BY <1>1, <1>3, <1>4 DEF U, PmBuilt

-----------------------------------------------------------------------------
(* Paths.                                                                  *)

LEMMA ShorterPath ==
    ASSUME NEW p \in Paths, NEW n \in Nat
    PROVE  WithoutFirst(p, n) \in Paths
<1>1. /\ n + 1 \in Int /\ Len(p) \in Int
      /\ \A i \in (n + 1)..Len(p) : p[i] \in Names
  BY DEF Paths
<1> PICK k, m : k = Len(p) /\ m = n + 1
  OBVIOUS
<1>2. SubSeq(p, m, k) \in Seq(Names)
  BY <1>1, SubSeqProperties
<1> QED
  BY <1>2 DEF WithoutFirst, Paths

\* A prefix and the rest make the path.
LEMMA PathOfParts ==
    ASSUME NEW d \in Paths, NEW p \in Paths, IsPrefix(d, p)
    PROVE  d \o WithoutFirst(p, Len(d)) = p
<1>1. /\ d \in Seq(Names) /\ p \in Seq(Names)
      /\ Len(d) \in Nat /\ Len(p) \in Nat /\ Len(d) <= Len(p)
      /\ SubSeq(d, 1, Len(d)) = SubSeq(p, 1, Len(d))
  BY DEF Paths, IsPrefix
<1> PICK n, k : n = Len(d) /\ k = Len(p)
  OBVIOUS
<1>2. n \in Nat /\ k \in Nat /\ n <= k
  BY <1>1
<1> DEFINE r == SubSeq(p, n + 1, k)
<1>3. /\ r \in Seq(Names) /\ Len(r) = k - n
      /\ \A i \in 1..(k - n) : r[i] = p[n + i]
  <2>1. /\ n + 1 \in Int /\ k \in Int
        /\ \A i \in (n + 1)..k : p[i] \in Names
    BY <1>1, <1>2
  <2>2. /\ r \in Seq(Names)
        /\ Len(r) = IF n + 1 <= k THEN k - (n + 1) + 1 ELSE 0
        /\ \A i \in 1..(k - (n + 1) + 1) : r[i] = p[(n + 1) + i - 1]
    BY ONLY <2>1, SubSeqProperties
  <2>3. /\ k - (n + 1) + 1 = k - n /\ ~(n + 1 <= k) => k - n = 0
        /\ \A i \in 1..(k - n) : (n + 1) + i - 1 = n + i
    BY <1>2
  <2>4. (~(n + 1 <= k)) => k - n = 0
    BY <1>2
  <2> HIDE DEF r
  <2> QED
    BY <2>2, <2>3, <2>4
<1> HIDE DEF r
<1>4. \A i \in 1..n : d[i] = p[i]
  <2>1. ASSUME NEW i \in 1..n
        PROVE  SubSeq(d, 1, n)[i] = d[i] /\ SubSeq(p, 1, n)[i] = p[i]
    <3>1. /\ 1 \in Int /\ n \in Int /\ i \in 1..(n - 1 + 1) /\ 1 + i - 1 = i
          /\ \A j \in 1..n : d[j] \in Names /\ p[j] \in Names
      BY <1>1, <1>2
    <3>2. SubSeq(d, 1, n)[i] = d[1 + i - 1]
      BY ONLY <3>1, SubSeqProperties
    <3>3. SubSeq(p, 1, n)[i] = p[1 + i - 1]
      BY ONLY <3>1, SubSeqProperties
    <3> QED
      BY <3>1, <3>2, <3>3
  <2> QED
    BY <1>1, <2>1
<1> DEFINE q == d \o r
<1>5. /\ q \in Seq(Names) /\ Len(q) = n + (k - n)
      /\ \A i \in 1..(n + (k - n)) : q[i] = IF i <= n THEN d[i] ELSE r[i - n]
  BY <1>1, <1>3, ConcatProperties
<1> HIDE DEF q
<1>6. Len(q) = k
  BY <1>2, <1>5
<1>7. ASSUME NEW i \in 1..k PROVE q[i] = p[i]
  <2>1. q[i] = IF i <= n THEN d[i] ELSE r[i - n]
    BY <1>2, <1>5
  <2>2. CASE i <= n
    BY <1>2, <1>4, <2>1, <2>2
  <2>3. CASE ~(i <= n)
    <3>1. i - n \in 1..(k - n) /\ n + (i - n) = i
      BY <1>2, <2>3
    <3> QED
      BY <1>3, <2>1, <2>3, <3>1
  <2> QED
    BY <2>2, <2>3
<1>8. q = p
  BY <1>1, <1>5, <1>6, <1>7, SeqEqual
<1> QED
  BY <1>8 DEF q, r, WithoutFirst

-----------------------------------------------------------------------------
(* What the conversions make of typed descriptions.                        *)

ElemsOf(s) == {s[i] : i \in DOMAIN s}

LEMMA ElemsAppend ==
    ASSUME NEW S, NEW s \in Seq(S), NEW x \in S
    PROVE  Append(s, x) \in Seq(S) /\ ElemsOf(Append(s, x)) = ElemsOf(s) \cup {x}
<1> PICK n : n = Len(s)
  OBVIOUS
<1>1. n \in Nat /\ DOMAIN s = 1..n
  OBVIOUS
<1> PICK t : t = Append(s, x)
  OBVIOUS
<1>2. /\ t \in Seq(S) /\ DOMAIN t = 1..(n + 1) /\ t[n + 1] = x
      /\ \A i \in 1..n : t[i] = s[i]
  OBVIOUS
<1>3. 1..(n + 1) = (1..n) \cup {n + 1}
  BY <1>1
<1>4. ElemsOf(t) = ElemsOf(s) \cup {x}
  BY ONLY <1>1, <1>2, <1>3 DEF ElemsOf
<1> QED
  BY <1>2, <1>4

LEMMA ElemsConcat ==
    ASSUME NEW S, NEW s \in Seq(S), NEW t \in Seq(S)
    PROVE  s \o t \in Seq(S) /\ ElemsOf(s \o t) = ElemsOf(s) \cup ElemsOf(t)
<1> PICK n, m, q : n = Len(s) /\ m = Len(t) /\ q = s \o t
  OBVIOUS
<1>1. /\ n \in Nat /\ m \in Nat /\ DOMAIN s = 1..n /\ DOMAIN t = 1..m
      /\ q \in Seq(S) /\ DOMAIN q = 1..(n + m)
      /\ \A i \in 1..(n + m) : q[i] = IF i <= n THEN s[i] ELSE t[i - n]
  BY ConcatProperties
<1>2. \A i \in 1..n : i \in 1..(n + m) /\ i <= n
  BY <1>1
<1>3. \A i \in 1..m : i + n \in 1..(n + m) /\ ~(i + n <= n) /\ (i + n) - n = i
  BY <1>1
<1>4. \A i \in 1..(n + m) : i <= n => i \in 1..n
  BY <1>1
<1>5. \A i \in 1..(n + m) : ~(i <= n) => i - n \in 1..m
  BY <1>1
<1>6. ElemsOf(q) \subseteq ElemsOf(s) \cup ElemsOf(t)
  BY <1>1, <1>4, <1>5 DEF ElemsOf
<1>7. ElemsOf(s) \subseteq ElemsOf(q)
  BY <1>1, <1>2 DEF ElemsOf
<1>8. ASSUME NEW i \in 1..m PROVE t[i] \in ElemsOf(q)
  <2>1. q[i + n] = t[i] /\ i + n \in 1..(n + m)
    BY <1>1, <1>3
  <2> QED
    BY <1>1, <2>1 DEF ElemsOf
<1>9. ElemsOf(t) \subseteq ElemsOf(q)
  BY <1>1, <1>8 DEF ElemsOf
<1> QED
  BY <1>1, <1>6, <1>7, <1>9

LEMMA PlaceType ==
    ASSUME NEW e \in OppmEntry
    PROVE  Place(e) \in Paths /\ e.path \in Paths
<1>1. e.dst \in Paths /\ e.path \in Paths
  BY DEF OppmEntry
<1>2. <<"usr">> \in Seq(Names)
  BY TreeAssumption
<1>3. <<"usr">> \o e.dst \in Paths
  BY <1>1, <1>2 DEF Paths
<1> QED
  BY <1>1, <1>3 DEF Place

LEMMA SourceDirType ==
    ASSUME NEW package \in OppmPackage
    PROVE  SourceDir(package) \in Paths
BY TreeAssumption DEF SourceDir, OppmPackage

LEMMA ToPmEntryType ==
    ASSUME NEW dir \in Paths, NEW e \in OppmEntry
    PROVE  ToPmEntry(dir, e) \in PmEntry
<1>1. e.path \in Paths /\ Place(e) \in Paths
  BY PlaceType
<1>2. Len(dir) \in Nat
  BY DEF Paths
<1>3. WithoutFirst(e.path, Len(dir)) \in Paths
  BY <1>1, <1>2, ShorterPath
<1> PICK path : /\ path \in Paths
                /\ path = IF IsPrefix(dir, e.path) THEN WithoutFirst(e.path, Len(dir))
                                                   ELSE e.path
  BY <1>1, <1>3
<1>4. \A b \in BOOLEAN : [path |-> path, absolute |-> b, dst |-> Place(e)] \in PmEntry
  BY <1>1 DEF PmEntry
<1>5. TRUE \in BOOLEAN
  OBVIOUS
<1>6. [path |-> path, absolute |-> TRUE, dst |-> Place(e)] \in PmEntry
  BY <1>4, <1>5, Zenon
<1> QED
  BY <1>6 DEF ToPmEntry

\* The list made of the first k entries of s.
ListOf(dir, s, k, list) ==
    /\ list \in PmPackage /\ list.dir = dir
    /\ ElemsOf(list.files) \cup ElemsOf(list.config) = {ToPmEntry(dir, s[i]) : i \in 1..k}

LEMMA AddToPmAdds ==
    ASSUME NEW dir \in Paths, NEW s \in Seq(OppmEntry), NEW k \in 1..Len(s),
           NEW list, ListOf(dir, s, k - 1, list)
    PROVE  ListOf(dir, s, k, AddToPm(dir, list, s[k]))
<1> PICK x : x = ToPmEntry(dir, s[k])
  OBVIOUS
<1>1. x \in PmEntry
  <2>1. s[k] \in OppmEntry
    OBVIOUS
  <2> QED
    BY <2>1, ToPmEntryType
<1>2. /\ list \in PmPackage /\ list.dir = dir
      /\ list.files \in Seq(PmEntry) /\ list.config \in Seq(PmEntry)
      /\ ElemsOf(list.files) \cup ElemsOf(list.config)
            = {ToPmEntry(dir, s[i]) : i \in 1..(k - 1)}
  BY DEF ListOf, PmPackage
<1>3. {ToPmEntry(dir, s[i]) : i \in 1..k} = {ToPmEntry(dir, s[i]) : i \in 1..(k - 1)} \cup {x}
  <2>1. 1..k = (1..(k - 1)) \cup {k}
    OBVIOUS
  <2> QED
    BY <2>1
<1> PICK new : new = AddToPm(dir, list, s[k])
  OBVIOUS
<1>4. CASE s[k].prefix = "?"
  <2>1. new = [list EXCEPT !.config = Append(list.config, x)]
    BY <1>4 DEF AddToPm
  <2> PICK a : a = Append(list.config, x)
    OBVIOUS
  <2>2. a \in Seq(PmEntry) /\ ElemsOf(a) = ElemsOf(list.config) \cup {x}
    BY <1>1, <1>2, ElemsAppend
  <2>3. new \in PmPackage /\ new.dir = dir /\ new.files = list.files /\ new.config = a
    BY <1>2, <2>1, <2>2 DEF PmPackage
  <2> QED
    BY <1>2, <1>3, <2>2, <2>3 DEF ListOf
<1>5. CASE s[k].prefix # "?"
  <2>1. new = [list EXCEPT !.files = Append(list.files, x)]
    BY <1>5 DEF AddToPm
  <2> PICK a : a = Append(list.files, x)
    OBVIOUS
  <2>2. a \in Seq(PmEntry) /\ ElemsOf(a) = ElemsOf(list.files) \cup {x}
    BY <1>1, <1>2, ElemsAppend
  <2>3. new \in PmPackage /\ new.dir = dir /\ new.config = list.config /\ new.files = a
    BY <1>2, <2>1, <2>2 DEF PmPackage
  <2> QED
    BY <1>2, <1>3, <2>2, <2>3 DEF ListOf
<1> QED
  BY <1>4, <1>5

LEMMA ListFoldIs ==
    ASSUME NEW dir \in Paths, NEW s \in Seq(OppmEntry)
    PROVE  ListOf(dir, s, Len(s),
                  ListFold(dir, [dir |-> dir, files |-> << >>, config |-> << >>], s))
<1> PICK n, base : n = Len(s) /\ base = [dir |-> dir, files |-> << >>, config |-> << >>]
  OBVIOUS
<1>1. n \in Nat
  OBVIOUS
<1>2. PICK h : Iterates(h, "list", dir, base, s) /\ ListFold(dir, base, s) = h[Len(s)]
  BY ListFolds
<1>3. h[0] = base /\ \A k \in 1..n : h[k] = AddToPm(dir, h[k - 1], s[k])
  BY <1>2 DEF Iterates, Step
<1> DEFINE T == {k \in 0..n : ListOf(dir, s, k, h[k])}
<1>4. 0 \in T
  <2>1. /\ base \in PmPackage /\ base.dir = dir /\ base.files = << >> /\ base.config = << >>
    BY DEF PmPackage
  <2>2. ElemsOf(<< >>) = {}
    BY DEF ElemsOf
  <2>3. {ToPmEntry(dir, s[i]) : i \in 1..0} = {}
    OBVIOUS
  <2>4. ListOf(dir, s, 0, base) /\ 0 \in 0..n
    BY <1>1, <2>1, <2>2, <2>3 DEF ListOf
  <2> QED
    BY <1>3, <2>4
<1>5. ASSUME NEW k \in 0..n, k > 0, k - 1 \in T PROVE k \in T
  <2>1. k \in 1..Len(s) /\ ListOf(dir, s, k - 1, h[k - 1])
    BY <1>1, <1>5
  <2>2. ListOf(dir, s, k, AddToPm(dir, h[k - 1], s[k]))
    BY <2>1, AddToPmAdds
  <2> QED
    BY <1>3, <2>1, <2>2
<1>6. n \in T
  <2> HIDE DEF T
  <2> QED
    BY <1>1, <1>4, <1>5, Induct
<1> QED
  BY <1>2, <1>6

LEMMA ToPmIs ==
    ASSUME NEW package \in OppmPackage
    PROVE  ListOf(SourceDir(package), package.entries, Len(package.entries), ToPm(package))
<1>1. package.entries \in Seq(OppmEntry) /\ SourceDir(package) \in Paths
  BY SourceDirType DEF OppmPackage
<1>2. ToPm(package) = ListFold(SourceDir(package),
            [dir |-> SourceDir(package), files |-> << >>, config |-> << >>], package.entries)
  BY DEF ToPm, ListFold
<1> QED
  BY <1>1, <1>2, ListFoldIs

LEMMA BelowUsrType ==
    ASSUME NEW e \in PmEntry, NEW prefix \in {"", ":", "?"}, NEW path \in Paths
    PROVE  BelowUsr(e, prefix, path) \in OppmEntry
<1> DEFINE usr == e.absolute /\ IsPrefix(<<"usr">>, e.dst)
           dst == IF usr THEN WithoutFirst(e.dst, 1) ELSE e.dst
           double == e.absolute /\ ~usr
<1>1. e.dst \in Paths
  BY DEF PmEntry
<1>2. dst \in Paths
  BY <1>1, ShorterPath
<1>3. double \in BOOLEAN
  BY Zenon
<1>4. BelowUsr(e, prefix, path)
         = [prefix |-> prefix, path |-> path, double |-> double, dst |-> dst]
  BY DEF BelowUsr
<1> HIDE DEF dst, double
<1>5. \A d \in BOOLEAN :
        [prefix |-> prefix, path |-> path, double |-> d, dst |-> dst] \in OppmEntry
  BY <1>2 DEF OppmEntry
<1>6. [prefix |-> prefix, path |-> path, double |-> double, dst |-> dst] \in OppmEntry
  BY <1>3, <1>5, Zenon
<1> QED
  BY <1>4, <1>6

FilesOf(package) ==
    [i \in DOMAIN package.files |-> FileToOppm(package.dir, package.files[i])]
ConfigsOf(package) ==
    [i \in DOMAIN package.config |-> ConfigToOppm(package.dir, package.config[i])]

LEMMA LongerPath ==
    ASSUME NEW p \in Paths, NEW q \in Paths PROVE p \o q \in Paths
BY DEF Paths

LEMMA ToOppmEntriesType ==
    ASSUME NEW package \in PmPackage
    PROVE  /\ FilesOf(package) \in Seq(OppmEntry) /\ ConfigsOf(package) \in Seq(OppmEntry)
           /\ FilesOf(package) \o ConfigsOf(package) \in Seq(OppmEntry)
           /\ ToOppm(package) = [dir |-> package.dir, entries |->
                                    PutFold(FilesOf(package) \o ConfigsOf(package))]
<1>1. /\ package.dir \in Paths
      /\ package.files \in Seq(PmEntry) /\ package.config \in Seq(PmEntry)
  BY DEF PmPackage
<1>2. ASSUME NEW e \in PmEntry
      PROVE  /\ FileToOppm(package.dir, e) \in OppmEntry
             /\ ConfigToOppm(package.dir, e) \in OppmEntry
  <2>1. package.dir \o e.path \in Paths
    BY <1>1, LongerPath DEF PmEntry
  <2>2. FileToOppm(package.dir, e) \in OppmEntry
    BY <2>1, BelowUsrType DEF FileToOppm
  <2>3. ConfigToOppm(package.dir, e) \in OppmEntry
    BY <2>1, BelowUsrType DEF ConfigToOppm
  <2> QED
    BY <2>2, <2>3
<1>3. FilesOf(package) \in Seq(OppmEntry)
  <2>1. \A i \in DOMAIN package.files :
            FileToOppm(package.dir, package.files[i]) \in OppmEntry
    BY <1>1, <1>2
  <2> QED
    BY <1>1, <2>1 DEF FilesOf
<1>4. ConfigsOf(package) \in Seq(OppmEntry)
  <2>1. \A i \in DOMAIN package.config :
            ConfigToOppm(package.dir, package.config[i]) \in OppmEntry
    BY <1>1, <1>2
  <2> QED
    BY <1>1, <2>1 DEF ConfigsOf
<1>5. FilesOf(package) \o ConfigsOf(package) \in Seq(OppmEntry)
  BY <1>3, <1>4
<1>6. ToOppm(package) = [dir |-> package.dir, entries |->
                            PutFold(FilesOf(package) \o ConfigsOf(package))]
  BY DEF ToOppm, PutFold, FilesOf, ConfigsOf
<1> QED
  BY <1>3, <1>4, <1>5, <1>6

LEMMA PutType ==
    ASSUME NEW s \in Seq(OppmEntry), NEW e \in OppmEntry
    PROVE  PutEntry(s, e) \in Seq(OppmEntry)
<1> DEFINE same == {i \in DOMAIN s : s[i].prefix = e.prefix /\ s[i].path = e.path}
<1>1. PutEntry(s, e) \in {Append(s, e), [s EXCEPT ![Min(same)] = e]}
  BY DEF PutEntry
<1> PICK m : m = Min(same)
  OBVIOUS
<1> PICK n, t : n = Len(s) /\ t = [s EXCEPT ![m] = e]
  OBVIOUS
<1>2. t \in Seq(OppmEntry)
  <2>1. /\ n \in Nat /\ DOMAIN s = 1..n
        /\ \A i \in 1..n : s[i] \in OppmEntry
    OBVIOUS
  <2>2. t \in [1..n -> OppmEntry]
    BY <2>1
  <2> QED
    BY <2>1, <2>2, SeqDef
<1>3. Append(s, e) \in Seq(OppmEntry)
  OBVIOUS
<1> QED
  BY <1>1, <1>2, <1>3

LEMMA ToOppmType ==
    ASSUME NEW package \in PmPackage
    PROVE  ToOppm(package) \in OppmPackage
<1> PICK s : s = FilesOf(package) \o ConfigsOf(package)
  OBVIOUS
<1>1. s \in Seq(OppmEntry)
  BY ToOppmEntriesType
<1> PICK n : n = Len(s)
  OBVIOUS
<1>2. n \in Nat
  BY <1>1
<1>3. PICK h : Iterates(h, "put", << >>, << >>, s) /\ PutFold(s) = h[Len(s)]
  BY <1>1, PutFolds
<1> DEFINE T == {k \in 0..n : h[k] \in Seq(OppmEntry)}
<1>4. 0 \in T
  <2>1. h[0] = << >> /\ 0 \in 0..n
    BY <1>2, <1>3 DEF Iterates
  <2>2. << >> \in Seq(OppmEntry)
    OBVIOUS
  <2> QED
    BY <2>1, <2>2
<1>5. ASSUME NEW k \in 0..n, k > 0, k - 1 \in T PROVE k \in T
  <2>1. k \in 1..n /\ h[k - 1] \in Seq(OppmEntry) /\ s[k] \in OppmEntry
    BY <1>1, <1>2, <1>5
  <2>2. h[k] = PutEntry(h[k - 1], s[k])
    BY <1>3, <2>1 DEF Iterates, Step
  <2> QED
    BY <2>1, <2>2, PutType
<1>6. n \in T
  <2> HIDE DEF T
  <2> QED
    BY <1>2, <1>4, <1>5, Induct
<1>7. PutFold(s) \in Seq(OppmEntry)
  BY <1>3, <1>6
<1>8. package.dir \in Paths
  BY DEF PmPackage
<1> QED
  BY <1>7, <1>8, ToOppmEntriesType DEF OppmPackage

\* Sources that differ are put one after the other.
LEMMA PutIsAll ==
    ASSUME NEW s \in Seq(OppmEntry),
           \A i, k \in DOMAIN s :
                s[i].prefix = s[k].prefix /\ s[i].path = s[k].path => i = k
    PROVE  PutFold(s) = s
<1> PICK n : n = Len(s)
  OBVIOUS
<1>1. n \in Nat /\ DOMAIN s = 1..n
  OBVIOUS
<1>2. PICK h : Iterates(h, "put", << >>, << >>, s) /\ PutFold(s) = h[Len(s)]
  BY PutFolds
<1> DEFINE Same(k) == /\ h[k] \in Seq(OppmEntry) /\ Len(h[k]) = k
                      /\ \A i \in 1..k : h[k][i] = s[i]
           T == {k \in 0..n : Same(k)}
<1>3. 0 \in T
  <2>1. h[0] = << >> /\ 0 \in 0..n
    BY <1>1, <1>2 DEF Iterates
  <2>2. << >> \in Seq(OppmEntry) /\ Len(<< >>) = 0 /\ 1..0 = {}
    OBVIOUS
  <2>3. Same(0)
    BY ONLY <2>1, <2>2
  <2> QED
    BY <2>1, <2>3
<1>4. ASSUME NEW k \in 0..n, k > 0, k - 1 \in T PROVE k \in T
  <2>1. k \in 1..n /\ k \in Nat /\ s[k] \in OppmEntry
    BY <1>1, <1>4
  <2>2. h[k] = PutEntry(h[k - 1], s[k])
    BY <1>2, <2>1 DEF Iterates, Step
  <2> PICK a : a = h[k - 1]
    OBVIOUS
  <2>3. /\ a \in Seq(OppmEntry) /\ Len(a) = k - 1 /\ DOMAIN a = 1..(k - 1)
        /\ \A i \in 1..(k - 1) : a[i] = s[i]
    BY <1>4
  <2>4. ASSUME NEW i \in DOMAIN a PROVE ~(a[i].prefix = s[k].prefix /\ a[i].path = s[k].path)
    <3>1. i \in 1..n /\ i # k /\ a[i] = s[i]
      BY <1>1, <2>1, <2>3
    <3> QED
      BY <1>1, <2>1, <3>1
  <2>5. h[k] = Append(a, s[k])
    BY <2>2, <2>4 DEF PutEntry
  <2>6. /\ Append(a, s[k]) \in Seq(OppmEntry) /\ Len(Append(a, s[k])) = (k - 1) + 1
        /\ \A i \in 1..(k - 1) : Append(a, s[k])[i] = a[i]
        /\ Append(a, s[k])[(k - 1) + 1] = s[k]
    BY <2>1, <2>3
  <2>7. (k - 1) + 1 = k /\ \A i \in 1..k : i \in 1..(k - 1) \/ i = k
    BY <2>1
  <2>8. Same(k)
    BY ONLY <2>3, <2>5, <2>6, <2>7
  <2> QED
    BY <2>8
<1>5. n \in T
  <2> HIDE DEF T
  <2> QED
    BY <1>1, <1>3, <1>4, Induct
<1>6. Same(n)
  BY <1>5
<1>7. h[n] = s
  BY <1>1, <1>6, SeqEqual
<1> QED
  BY <1>2, <1>7

-----------------------------------------------------------------------------
(* Where the two forms of a package install it.                            *)

\* From oppm to pm: an entry installs the same files before and after.
LEMMA EntryKept ==
    ASSUME NEW dir \in Paths, NEW e \in OppmEntry, RepoFits(e),
           NEW x, x = ToPmEntry(dir, e), PmFits(dir, x),
           IsPrefix(dir, e.path) \/ ~(IsDir(dir \o e.path) \/ IsFile(dir \o e.path))
    PROVE  PmPart(dir, x) = RepoPart(e)
<1>1. /\ x.dst = Place(e) /\ e.path \in Paths
      /\ x.path = IF IsPrefix(dir, e.path) THEN WithoutFirst(e.path, Len(dir)) ELSE e.path
  BY PlaceType DEF ToPmEntry
<1>2. IsPrefix(dir, e.path)
  <2> SUFFICES ASSUME ~IsPrefix(dir, e.path) PROVE FALSE
    OBVIOUS
  <2>1. x.path = e.path
    BY <1>1
  <2> QED
    BY <2>1 DEF PmFits
<1>3. dir \o x.path = e.path
  BY <1>1, <1>2, PathOfParts
<1>4. CASE e.prefix = ":"
  BY <1>1, <1>3, <1>4 DEF RepoFits, RepoPart, PmPart
<1>5. CASE e.prefix # ":"
  <2>1. ~IsDir(e.path)
    BY <1>5, DirIsNoFile DEF RepoFits
  <2> QED
    BY <1>1, <1>3, <1>5, <2>1 DEF RepoPart, PmPart
<1> QED
  BY <1>4, <1>5

LEMMA PartsOf ==
    ASSUME NEW dir, NEW t
    PROVE  {PmPart(dir, x) : x \in ElemsOf(t)} = {PmPart(dir, t[i]) : i \in DOMAIN t}
BY DEF ElemsOf

LEMMA ToPmKeeps ==
    ASSUME NEW package \in OppmPackage, NEW list, list = ToPm(package),
           RepoArchive(package).ok, PmArchive(list).ok, ~HasTwin(package)
    PROVE  RepoArchive(package).data = PmArchive(list).data
<1> PICK dir, s, a, b, t :
        /\ dir = SourceDir(package) /\ s = package.entries
        /\ a = list.files /\ b = list.config /\ t = a \o b
  OBVIOUS
<1>1. dir \in Paths /\ s \in Seq(OppmEntry) /\ DOMAIN s = 1..Len(s)
  BY SourceDirType DEF OppmPackage
<1>2. /\ list.dir = dir /\ a \in Seq(PmEntry) /\ b \in Seq(PmEntry)
      /\ ElemsOf(a) \cup ElemsOf(b) = {ToPmEntry(dir, s[i]) : i \in DOMAIN s}
  BY <1>1, ToPmIs DEF ListOf, PmPackage
<1>3. t \in Seq(PmEntry) /\ ElemsOf(t) = {ToPmEntry(dir, s[i]) : i \in DOMAIN s}
  BY <1>2, ElemsConcat
<1>a. RepoBuilt(s, RepoArchive(package))
  BY <1>1, RepoBuilds
<1>4. /\ \A i \in DOMAIN s : RepoFits(s[i])
      /\ RepoArchive(package).data = UNION {RepoPart(s[i]) : i \in DOMAIN s}
  BY <1>a DEF RepoBuilt
<1>b. PmBuilt(dir, t, PmArchive(list))
  BY <1>2, <1>3, PmBuilds
<1>5. /\ \A i \in DOMAIN t : PmFits(dir, t[i])
      /\ PmArchive(list).data = UNION {PmPart(dir, t[i]) : i \in DOMAIN t}
  BY <1>b DEF PmBuilt
<1>6. \A x \in ElemsOf(t) : PmFits(dir, x)
  BY <1>5 DEF ElemsOf
<1>7. PmArchive(list).data = UNION {PmPart(dir, x) : x \in ElemsOf(t)}
  <2>1. {PmPart(dir, x) : x \in ElemsOf(t)} = {PmPart(dir, t[i]) : i \in DOMAIN t}
    BY ONLY PartsOf
  <2> QED
    BY <1>5, <2>1
<1>8. ASSUME NEW i \in DOMAIN s
      PROVE  PmPart(dir, ToPmEntry(dir, s[i])) = RepoPart(s[i])
  <2>1. s[i] \in OppmEntry /\ RepoFits(s[i]) /\ PmFits(dir, ToPmEntry(dir, s[i]))
    BY <1>1, <1>3, <1>4, <1>6
  <2>2. \/ IsPrefix(dir, s[i].path)
        \/ ~(IsDir(dir \o s[i].path) \/ IsFile(dir \o s[i].path))
    BY DEF HasTwin
  <2> QED
    BY <1>1, <2>1, <2>2, EntryKept
<1> QED
  BY <1>3, <1>4, <1>7, <1>8

Absolute(x) == x.absolute

Placed(x, prefix, path, e) == Place(e) = x.dst /\ e.path = path /\ e.prefix = prefix

\* From pm to oppm: the destination is the same place.
LEMMA PlaceKept ==
    ASSUME NEW x \in PmEntry, Absolute(x), NEW prefix, NEW path,
           NEW e, e = BelowUsr(x, prefix, path)
    PROVE  Placed(x, prefix, path, e)
<1>1. e.path = path /\ e.prefix = prefix
  BY DEF BelowUsr
<1>2. x.dst \in Paths
  BY DEF PmEntry
<1>3. CASE IsPrefix(<<"usr">>, x.dst)
  <2>1. ~e.double /\ e.dst = WithoutFirst(x.dst, 1)
    BY <1>3 DEF BelowUsr, Absolute
  <2>2. <<"usr">> \in Paths /\ Len(<<"usr">>) = 1
    BY TreeAssumption DEF Paths
  <2>3. <<"usr">> \o WithoutFirst(x.dst, 1) = x.dst
    BY <1>2, <1>3, <2>2, PathOfParts
  <2> QED
    BY <1>1, <2>1, <2>3 DEF Place, Placed
<1>4. CASE ~IsPrefix(<<"usr">>, x.dst)
  <2>1. e.double /\ e.dst = x.dst
    BY <1>4 DEF BelowUsr, Absolute
  <2> QED
    BY <1>1, <2>1 DEF Place, Placed
<1> QED
  BY <1>3, <1>4

LEMMA FileKept ==
    ASSUME NEW dir, NEW x \in PmEntry, Absolute(x)
    PROVE  /\ RepoPart(FileToOppm(dir, x)) = PmPart(dir, x)
           /\ FileToOppm(dir, x).path = dir \o x.path
<1> PICK path, prefix : path = dir \o x.path /\ prefix = (IF IsDir(path) THEN ":" ELSE "")
  OBVIOUS
<1>1. FileToOppm(dir, x) = BelowUsr(x, prefix, path)
  BY DEF FileToOppm
<1> PICK e : e = BelowUsr(x, prefix, path)
  OBVIOUS
<1>a. Placed(x, prefix, path, e)
  BY PlaceKept
<1>2. Place(e) = x.dst /\ e.path = path /\ e.prefix = prefix
  BY <1>a DEF Placed
<1>3. prefix = ":" <=> IsDir(path)
  OBVIOUS
<1>4. RepoPart(e) = PmPart(dir, x)
  BY <1>2, <1>3 DEF RepoPart, PmPart
<1> QED
  BY <1>1, <1>2, <1>4

LEMMA ConfigKept ==
    ASSUME NEW dir, NEW x \in PmEntry, Absolute(x)
    PROVE  /\ RepoFits(ConfigToOppm(dir, x)) =>
                  RepoPart(ConfigToOppm(dir, x)) = PmPart(dir, x)
           /\ ConfigToOppm(dir, x).path = dir \o x.path
<1> PICK path : path = dir \o x.path
  OBVIOUS
<1> PICK e : e = BelowUsr(x, "?", path)
  OBVIOUS
<1>1. ConfigToOppm(dir, x) = e
  BY DEF ConfigToOppm
<1>a. Placed(x, "?", path, e)
  BY PlaceKept
<1>2. Place(e) = x.dst /\ e.path = path /\ e.prefix = "?"
  BY <1>a DEF Placed
<1>3. RepoFits(e) => ~IsDir(path)
  BY <1>2, DirIsNoFile DEF RepoFits
<1>4. RepoFits(e) => RepoPart(e) = PmPart(dir, x)
  BY <1>2, <1>3 DEF RepoPart, PmPart
<1> QED
  BY <1>1, <1>2, <1>4

LEMMA SameRest ==
    ASSUME NEW S, NEW p \in Seq(S), NEW q \in Seq(S), NEW r \in Seq(S), p \o q = p \o r
    PROVE  q = r
BY ConcatSimplifications

\* The destinations are absolute, and no source is there twice.
AbsoluteOnce(s) ==
    \A i, k \in DOMAIN s : Absolute(s[i]) /\ (s[i].path = s[k].path => i = k)

LEMMA ToOppmKeeps ==
    ASSUME NEW list \in PmPackage, NEW package, package = ToOppm(list),
           RepoArchive(package).ok, PmArchive(list).ok,
           NEW s, s = list.files \o list.config,
           AbsoluteOnce(s)
    PROVE  RepoArchive(package).data = PmArchive(list).data
<1>0. PICK dir, a, b : dir = list.dir /\ a = list.files /\ b = list.config
  OBVIOUS
<1>a. PICK f, c, t : f = FilesOf(list) /\ c = ConfigsOf(list) /\ t = f \o c
  OBVIOUS
<1>b. PICK n, m : n = Len(a) /\ m = Len(b)
  OBVIOUS
<1>1. /\ dir \in Paths /\ n \in Nat /\ m \in Nat
      /\ a \in Seq(PmEntry) /\ b \in Seq(PmEntry) /\ s = a \o b
      /\ DOMAIN a = 1..n /\ DOMAIN b = 1..m
  BY <1>0, <1>b DEF PmPackage
<1>2. /\ s \in Seq(PmEntry) /\ DOMAIN s = 1..(n + m)
      /\ \A i \in 1..(n + m) : s[i] = IF i <= n THEN a[i] ELSE b[i - n]
  <2>1. /\ a \o b \in Seq(PmEntry) /\ Len(a \o b) = n + m
        /\ \A i \in 1..(n + m) : (a \o b)[i] = IF i <= n THEN a[i] ELSE b[i - n]
    BY <1>1, <1>b, ConcatProperties
  <2> QED
    BY ONLY <1>1, <2>1
<1>d. DOMAIN s = 1..(n + m) /\ \A i \in 1..(n + m) : s[i] \in PmEntry
  <2>1. s \in Seq(PmEntry)
    BY ONLY <1>2
  <2>2. DOMAIN s = 1..(n + m)
    BY ONLY <1>2
  <2>3. \A i \in DOMAIN s : s[i] \in PmEntry
    BY ONLY <2>1
  <2> QED
    BY ONLY <2>2, <2>3
<1>3. /\ f \in Seq(OppmEntry) /\ c \in Seq(OppmEntry) /\ t \in Seq(OppmEntry)
      /\ package.entries = PutFold(t)
  BY <1>a, ToOppmEntriesType
<1>4. /\ Len(f) = n /\ Len(c) = m
      /\ \A i \in 1..n : f[i] = FileToOppm(dir, a[i])
      /\ \A i \in 1..m : c[i] = ConfigToOppm(dir, b[i])
  BY <1>0, <1>a, <1>b, <1>1 DEF FilesOf, ConfigsOf
<1>5. /\ DOMAIN t = 1..(n + m)
      /\ \A i \in 1..(n + m) : t[i] = IF i <= n THEN f[i] ELSE c[i - n]
  <2>1. /\ f \o c \in Seq(OppmEntry) /\ Len(f \o c) = n + m
        /\ \A i \in 1..(n + m) : (f \o c)[i] = IF i <= n THEN f[i] ELSE c[i - n]
    BY <1>3, <1>4, ConcatProperties
  <2>2. t = f \o c /\ n + m \in Nat
    BY <1>a, <1>1
  <2> QED
    BY ONLY <2>1, <2>2
<1>6. ASSUME NEW i \in 1..(n + m)
      PROVE  \/ t[i] = FileToOppm(dir, s[i]) \/ t[i] = ConfigToOppm(dir, s[i])
  <2>1. CASE i <= n
    <3>1. i \in 1..n
      BY <1>1, <2>1
    <3> QED
      BY <1>2, <1>4, <1>5, <2>1, <3>1
  <2>2. CASE ~(i <= n)
    <3>1. i - n \in 1..m
      BY <1>1, <2>2
    <3> QED
      BY <1>2, <1>4, <1>5, <2>2, <3>1
  <2> QED
    BY <2>1, <2>2
<1>7. ASSUME NEW i \in 1..(n + m)
      PROVE  /\ t[i].path = dir \o s[i].path
             /\ RepoFits(t[i]) => RepoPart(t[i]) = PmPart(dir, s[i])
  <2>1. s[i] \in PmEntry /\ i \in DOMAIN s
    BY <1>d
  <2>2. Absolute(s[i])
    BY <2>1 DEF AbsoluteOnce
  <2>3. CASE t[i] = FileToOppm(dir, s[i])
    BY ONLY <2>1, <2>2, <2>3, FileKept
  <2>4. CASE t[i] = ConfigToOppm(dir, s[i])
    BY ONLY <2>1, <2>2, <2>4, ConfigKept
  <2> QED
    BY <1>6, <2>3, <2>4
<1>8. ASSUME NEW i \in 1..(n + m), NEW k \in 1..(n + m), t[i].path = t[k].path
      PROVE  i = k
  <2>1. dir \o s[i].path = dir \o s[k].path
    BY <1>7, <1>8
  <2>2. s[i].path \in Seq(Names) /\ s[k].path \in Seq(Names) /\ dir \in Seq(Names)
    BY <1>1, <1>d DEF PmEntry, Paths
  <2>3. s[i].path = s[k].path
    BY ONLY <2>1, <2>2, SameRest
  <2> QED
    BY <1>d, <2>3 DEF AbsoluteOnce
<1>9. package.entries = t
  BY <1>3, <1>5, <1>8, PutIsAll
<1>c. RepoBuilt(t, RepoArchive(package))
  BY <1>3, <1>9, RepoBuilds
<1>10. /\ \A i \in DOMAIN t : RepoFits(t[i])
       /\ RepoArchive(package).data = UNION {RepoPart(t[i]) : i \in DOMAIN t}
  BY <1>c DEF RepoBuilt
<1>11. PmArchive(list).data = UNION {PmPart(dir, s[i]) : i \in DOMAIN s}
  <2>1. PmBuilt(dir, s, PmArchive(list))
    BY <1>0, <1>2, PmBuilds
  <2> QED
    BY <2>1 DEF PmBuilt
<1>12. DOMAIN t = 1..(n + m)
  BY <1>5
<1>13. \A i \in 1..(n + m) : RepoPart(t[i]) = PmPart(dir, s[i])
  BY <1>7, <1>10, <1>12
<1>14. {RepoPart(t[i]) : i \in DOMAIN t} = {PmPart(dir, s[i]) : i \in DOMAIN s}
  BY <1>d, <1>12, <1>13
<1> QED
  BY <1>10, <1>11, <1>14

-----------------------------------------------------------------------------
(* What the forms of a package hold.                                       *)

\* Every description is one of a package, whoever wrote it.
Typed ==
    /\ \A p \in DOMAIN oppm : oppm[p].package \in OppmPackage
    /\ \A p \in DOMAIN lists : lists[p].package \in PmPackage

\* The lists follow the form the owner edits, and what is of one version in
\* both forms is the one converted.
FormsAgree ==
    /\ master = "oppm" =>
          \A p \in DOMAIN lists :
              /\ p \in DOMAIN oppm
              /\ lists[p].version \in Nat /\ lists[p].version <= oppm[p].version
              /\ lists[p].version = oppm[p].version =>
                    lists[p].package = ToPm(oppm[p].package)
    /\ master = "pm" =>
          /\ DOMAIN lists = DOMAIN manifests
          /\ \A p \in DOMAIN lists : manifests[p] = lists[p].version
          /\ \A p \in DOMAIN oppm :
                oppm[p].version = lists[p].version =>
                    oppm[p].package = ToOppm(lists[p].package)

\* The list that is being written is of a package of programs.cfg.
ConvertOk == run.tool = "repoConvert" => run.open \in DOMAIN oppm \cup {None}

Sound == Typed /\ FormsAgree /\ ConvertOk

Puts(g, f, p, v) ==
    /\ DOMAIN g = DOMAIN f \cup {p} /\ g[p] = v
    /\ \A q \in DOMAIN f : q # p => g[q] = f[q]

LEMMA WithIs ==
    ASSUME NEW f, NEW p, NEW v
    PROVE  Puts(With(f, p, v), f, p, v)
BY DEF With, Puts

LEMMA InitSound == Init => Sound
<1> SUFFICES ASSUME Init PROVE Sound
  OBVIOUS
<1>1. /\ oppm = << >> /\ lists = << >> /\ manifests = << >>
      /\ run = Idle /\ DOMAIN << >> = {}
  BY DEF Init
<1>2. Idle.tool # "repoConvert"
  BY DEF Idle, None
<1> QED
  BY <1>1, <1>2 DEF Sound, Typed, FormsAgree, ConvertOk

\* Where the descriptions or the tool stay as they are.
LEMMA TypedSame ==
    ASSUME Sound, UNCHANGED <<master, oppm, manifests, lists>>
    PROVE  Typed' /\ FormsAgree'
BY DEF Sound, Typed, FormsAgree

LEMMA NotConverting ==
    ASSUME Inv, UNCHANGED builder, run'.tool \in {None, builder}
    PROVE  ConvertOk'
BY Tools DEF ConvertOk, None

LEMMA IdleIs == Idle.tool = None
BY DEF Idle

\* No step of a builder touches a description.
LEMMA BuildSound ==
    ASSUME Inv, Sound, UNCHANGED <<master, builder, described>>,
           run'.tool \in {None, builder}
    PROVE  Sound'
<1>1. UNCHANGED <<master, oppm, manifests, lists>>
  BY DEF described
<1> QED
  BY <1>1, TypedSame, NotConverting DEF Sound

LEMMA StutterSound == ASSUME Sound, UNCHANGED vars PROVE Sound'
<1>1. UNCHANGED <<master, oppm, manifests, lists, run>>
  BY DEF vars, described
<1>2. ConvertOk'
  BY <1>1 DEF Sound, ConvertOk
<1> QED
  BY <1>1, <1>2, TypedSame DEF Sound

LEMMA StartToPmSound == ASSUME Inv, Sound, StartToPm PROVE Sound'
<1>0. /\ UNCHANGED <<master, oppm, manifests, lists>>
      /\ run' = [Idle EXCEPT !.tool = "repoConvert", !.todo = DOMAIN oppm]
  BY DEF StartToPm, described
<1>1. Typed' /\ FormsAgree'
  BY <1>0, TypedSame
<1>2. run'.open = None
  BY <1>0 DEF Idle
<1>3. ConvertOk'
  BY <1>2 DEF ConvertOk
<1> QED
  BY <1>1, <1>3 DEF Sound

LEMMA WriteManifestSound ==
    ASSUME Inv, Sound, NEW p \in Packages, WriteManifest(p)
    PROVE  Sound'
<1>0. /\ UNCHANGED <<master, builder, oppm, lists>>
      /\ run.tool = "repoConvert" /\ p \in run.todo
      /\ run' = [run EXCEPT !.open = p] \/ run' = Idle
  BY DEF WriteManifest
<1>1. master = "oppm"
  BY <1>0, Converting
<1>2. Typed' /\ FormsAgree'
  BY <1>0, <1>1 DEF Sound, Typed, FormsAgree
<1>3. ConvertOk'
  <2>1. CASE run' = Idle
    BY <1>0, <2>1, IdleIs, NotConverting
  <2>2. CASE run' = [run EXCEPT !.open = p]
    <3>1. run'.open = p /\ p \in DOMAIN oppm
      BY <1>0, <2>2, Converting
    <3> QED
      BY <1>0, <3>1 DEF ConvertOk
  <2> QED
    BY <1>0, <2>1, <2>2
<1> QED
  BY <1>2, <1>3 DEF Sound

LEMMA WriteListSound ==
    ASSUME Inv, Sound, NEW p \in Packages, WriteList(p)
    PROVE  Sound'
<1>0. /\ UNCHANGED <<master, oppm, manifests>>
      /\ run.tool = "repoConvert" /\ run.open = p
      /\ lists' = With(lists, p, [version |-> oppm[p].version,
                                  package |-> ToPm(oppm[p].package)])
      /\ run' = [run EXCEPT !.todo = @ \ {p}, !.open = None]
  BY DEF WriteList
<1>1. master = "oppm"
  BY <1>0, Converting
<1>2. p \in DOMAIN oppm
  BY <1>0, Marks DEF Sound, ConvertOk
<1> PICK entry : entry = [version |-> oppm[p].version, package |-> ToPm(oppm[p].package)]
  OBVIOUS
<1>3. /\ entry.version = oppm[p].version /\ entry.package = ToPm(oppm[p].package)
      /\ oppm[p].version \in Nat
  BY <1>2 DEF Inv, DescribedOk
<1>4. lists' = With(lists, p, entry)
  BY <1>0
<1>5. /\ DOMAIN lists' = DOMAIN lists \cup {p} /\ lists'[p] = entry
      /\ \A q \in DOMAIN lists : q # p => lists'[q] = lists[q]
  <2>1. Puts(lists', lists, p, entry)
    BY <1>4, WithIs
  <2> QED
    BY <2>1 DEF Puts
<1>6. entry.package \in PmPackage
  <2>1. oppm[p].package \in OppmPackage
    BY <1>2 DEF Sound, Typed
  <2> QED
    BY <1>3, <2>1, ToPmIs DEF ListOf
<1>7. Typed'
  BY <1>0, <1>5, <1>6 DEF Sound, Typed
<1>8. FormsAgree'
  <2>1. ASSUME NEW q \in DOMAIN lists'
        PROVE  /\ q \in DOMAIN oppm
               /\ lists'[q].version \in Nat /\ lists'[q].version <= oppm[q].version
               /\ lists'[q].version = oppm[q].version =>
                     lists'[q].package = ToPm(oppm[q].package)
    <3>1. CASE q = p
      BY <1>2, <1>3, <1>5, <3>1
    <3>2. CASE q # p
      BY <1>1, <1>5, <3>2 DEF Sound, FormsAgree
    <3> QED
      BY <3>1, <3>2
  <2> QED
    BY <1>0, <1>1, <2>1 DEF FormsAgree
<1>9. ConvertOk'
  <2>1. run'.open = None
    BY <1>0, Converting
  <2> QED
    BY <2>1 DEF ConvertOk
<1> QED
  BY <1>7, <1>8, <1>9 DEF Sound

LEMMA ConvertToOppmSound == ASSUME Inv, Sound, ConvertToOppm PROVE Sound'
<1>0. /\ UNCHANGED <<master, builder, manifests, lists, run>>
      /\ run = Idle /\ master = "pm"
      /\ oppm' = [p \in DOMAIN manifests \cap DOMAIN lists |->
                    [version |-> manifests[p], package |-> ToOppm(lists[p].package)]]
  BY DEF ConvertToOppm
<1>1. /\ DOMAIN oppm' = DOMAIN manifests \cap DOMAIN lists
      /\ \A p \in DOMAIN oppm' : /\ oppm'[p].version = manifests[p]
                                 /\ oppm'[p].package = ToOppm(lists[p].package)
  BY <1>0
<1>2. Typed'
  <2>1. ASSUME NEW p \in DOMAIN oppm' PROVE oppm'[p].package \in OppmPackage
    <3>1. lists[p].package \in PmPackage
      BY <1>1 DEF Sound, Typed
    <3> QED
      BY <1>1, <3>1, ToOppmType
  <2> QED
    BY <1>0, <2>1 DEF Sound, Typed
<1>3. FormsAgree'
  BY <1>0, <1>1 DEF Sound, FormsAgree
<1>4. ConvertOk'
  BY <1>0, NotConverting, IdleIs
<1> QED
  BY <1>2, <1>3, <1>4 DEF Sound

LEMMA EditSound ==
    ASSUME Inv, Sound, NEW p \in Packages, Edit(p)
    PROVE  Sound'
<1>0. /\ UNCHANGED <<master, builder, run>>
      /\ run = Idle /\ edits' = edits + 1 /\ edits \in Nat
  BY DEF Edit, Inv, DescribedOk
<1>1. ConvertOk'
  BY <1>0, NotConverting, IdleIs
<1>2. CASE master = "oppm"
  <2>1. PICK package \in OppmRecipes[p] :
          /\ oppm' = With(oppm, p, [version |-> edits', package |-> package])
          /\ UNCHANGED <<manifests, lists>>
    BY <1>2 DEF Edit
  <2> PICK entry : entry = [version |-> edits', package |-> package]
    OBVIOUS
  <2>2. entry.version = edits + 1 /\ entry.package = package
    BY <1>0
  <2>3. oppm' = With(oppm, p, entry)
    BY <2>1
  <2>4. /\ DOMAIN oppm' = DOMAIN oppm \cup {p} /\ oppm'[p] = entry
        /\ \A q \in DOMAIN oppm : q # p => oppm'[q] = oppm[q]
    <3>1. Puts(oppm', oppm, p, entry)
      BY <2>3, WithIs
    <3> QED
      BY <3>1 DEF Puts
  <2>5. package \in OppmPackage
    BY <2>1, RecipesAssumption DEF RecipesAssumption
  <2>6. Typed'
    BY <2>1, <2>2, <2>4, <2>5 DEF Sound, Typed
  <2>7. ASSUME NEW q \in DOMAIN lists
        PROVE  /\ q \in DOMAIN oppm'
               /\ lists[q].version \in Nat /\ lists[q].version <= oppm'[q].version
               /\ lists[q].version = oppm'[q].version =>
                     lists[q].package = ToPm(oppm'[q].package)
    <3>1. /\ q \in DOMAIN oppm
          /\ lists[q].version \in Nat /\ lists[q].version <= oppm[q].version
          /\ lists[q].version = oppm[q].version =>
                lists[q].package = ToPm(oppm[q].package)
      BY <1>2 DEF Sound, FormsAgree
    <3>2. oppm[q].version \in Nat /\ oppm[q].version <= edits
      BY <3>1 DEF Inv, DescribedOk
    <3>3. CASE q = p
      <4> PICK v, w : v = lists[q].version /\ w = oppm[q].version
        OBVIOUS
      <4>1. oppm'[q].version = edits + 1
        BY <2>2, <2>4, <3>3
      <4>2. v \in Nat /\ v <= w /\ w \in Nat /\ w <= edits
        BY <3>1, <3>2
      <4>3. v <= edits + 1 /\ v # edits + 1
        BY <1>0, <4>2
      <4> QED
        BY <2>4, <3>3, <4>1, <4>2, <4>3
    <3>4. CASE q # p
      BY <2>4, <3>1, <3>4
    <3> QED
      BY <3>3, <3>4
  <2>8. FormsAgree'
    BY <1>0, <1>2, <2>1, <2>7 DEF FormsAgree
  <2> QED
    BY <1>1, <2>6, <2>8 DEF Sound
<1>3. CASE master = "pm"
  <2>1. PICK package \in PmRecipes[p] :
          /\ lists' = With(lists, p, [version |-> edits', package |-> package])
          /\ manifests' = With(manifests, p, edits') /\ UNCHANGED oppm
    BY <1>3 DEF Edit
  <2> PICK entry : entry = [version |-> edits', package |-> package]
    OBVIOUS
  <2>2. entry.version = edits' /\ entry.package = package
    OBVIOUS
  <2>3. lists' = With(lists, p, entry)
    BY <2>1
  <2>4. /\ DOMAIN lists' = DOMAIN lists \cup {p} /\ lists'[p] = entry
        /\ \A q \in DOMAIN lists : q # p => lists'[q] = lists[q]
    <3>1. Puts(lists', lists, p, entry)
      BY <2>3, WithIs
    <3> QED
      BY <3>1 DEF Puts
  <2>5. /\ DOMAIN manifests' = DOMAIN manifests \cup {p} /\ manifests'[p] = edits'
        /\ \A q \in DOMAIN manifests : q # p => manifests'[q] = manifests[q]
    <3>1. Puts(manifests', manifests, p, edits')
      BY <2>1, WithIs
    <3> QED
      BY <3>1 DEF Puts
  <2>6. package \in PmPackage
    BY <2>1, RecipesAssumption DEF RecipesAssumption
  <2>7. Typed'
    BY <2>1, <2>2, <2>4, <2>6 DEF Sound, Typed
  <2>8. /\ DOMAIN lists = DOMAIN manifests
        /\ \A q \in DOMAIN lists : manifests[q] = lists[q].version
        /\ \A q \in DOMAIN oppm :
              oppm[q].version = lists[q].version =>
                  oppm[q].package = ToOppm(lists[q].package)
    BY <1>3 DEF Sound, FormsAgree
  <2>9. \A q \in DOMAIN lists' : manifests'[q] = lists'[q].version
    BY <2>2, <2>4, <2>5, <2>8
  <2>10. ASSUME NEW q \in DOMAIN oppm, oppm[q].version = lists'[q].version
         PROVE  oppm[q].package = ToOppm(lists'[q].package)
    <3>1. /\ q \in DOMAIN lists /\ oppm[q].version \in Nat /\ oppm[q].version <= edits
      BY <1>3 DEF Inv, FormsOk, DescribedOk
    <3>2. CASE q = p
      <4> PICK w : w = oppm[q].version
        OBVIOUS
      <4>1. w \in Nat /\ w <= edits /\ w = edits + 1
        BY <1>0, <2>2, <2>4, <2>10, <3>1, <3>2
      <4> QED
        BY ONLY <1>0, <4>1
    <3>3. CASE q # p
      BY <2>4, <2>8, <2>10, <3>1, <3>3
    <3> QED
      BY <3>2, <3>3
  <2>11. FormsAgree'
    BY <1>0, <1>3, <2>1, <2>4, <2>5, <2>8, <2>9, <2>10 DEF FormsAgree
  <2> QED
    BY <1>1, <2>7, <2>11 DEF Sound
<1> QED
  BY <1>2, <1>3 DEF Inv

LEMMA StepSound == ASSUME Inv, Sound, [Next]_vars PROVE Sound'
<1>1. CASE Interrupt \/ EndToPm \/ WriteIndex
  BY <1>1, IdleIs, BuildSound DEF Interrupt, EndToPm, WriteIndex
<1>2. CASE StartBuild \/ OpenIndex
  <2>1. UNCHANGED <<master, builder, described>> /\ run'.tool = builder
    <3>1. CASE StartBuild
      BY <3>1 DEF StartBuild
    <3>2. CASE OpenIndex
      BY <3>2, Building DEF OpenIndex
    <3> QED
      BY <1>2, <3>1, <3>2
  <2> QED
    BY <2>1, BuildSound
<1>3. CASE StartToPm \/ ConvertToOppm
  BY <1>3, StartToPmSound, ConvertToOppmSound
<1>4. ASSUME NEW p \in Packages, Edit(p) \/ WriteManifest(p) \/ WriteList(p)
      PROVE  Sound'
  BY <1>4, EditSound, WriteManifestSound, WriteListSound
<1>5. ASSUME NEW p \in Packages, OpenArchive(p) \/ WriteArchive(p) \/ SkipPackage(p)
      PROVE  Sound'
  <2>1. UNCHANGED <<master, builder, described>> /\ run'.tool = builder
    <3>1. CASE OpenArchive(p)
      BY <3>1, Building DEF OpenArchive
    <3>2. CASE WriteArchive(p)
      BY <3>2, Building DEF WriteArchive
    <3>3. CASE SkipPackage(p)
      BY <3>3, Building DEF SkipPackage
    <3> QED
      BY <1>5, <3>1, <3>2, <3>3
  <2> QED
    BY <2>1, BuildSound
<1>6. ASSUME NEW p \in Packages, BuildFails(p) PROVE Sound'
  BY <1>6, IdleIs, BuildSound DEF BuildFails
<1>7. CASE UNCHANGED vars
  BY <1>7, StutterSound
<1> QED
  BY <1>1, <1>2, <1>3, <1>4, <1>5, <1>6, <1>7 DEF Next

LEMMA SoundInvariant == Spec => [](Inv /\ Sound)
<1>1. Init => Inv /\ Sound
  BY InitInv, InitSound
<1>2. Inv /\ Sound /\ [Next]_vars => Inv' /\ Sound'
  BY StepInv, StepSound
<1> QED
  BY <1>1, <1>2, PTL DEF Spec

-----------------------------------------------------------------------------
(* Both forms of a package.                                                *)

\* A package in both forms, the same files.
SameFiles(package, list) ==
    LET s == list.files \o list.config
    IN  /\ RepoArchive(package).ok /\ PmArchive(list).ok
        /\ AbsoluteOnce(s)
        /\ master = "oppm" => ~HasTwin(package)
        => RepoArchive(package).data = PmArchive(list).data

LEMMA SoundKeepsPlaces == Inv /\ Sound => ConversionKeepsPlaces
<1>a. ASSUME \A p \in DOMAIN oppm \cap DOMAIN lists :
                oppm[p].version = lists[p].version =>
                    SameFiles(oppm[p].package, lists[p].package)
      PROVE  ConversionKeepsPlaces
  BY <1>a, Zenon DEF ConversionKeepsPlaces, SameFiles, AbsoluteOnce, Absolute
<1> SUFFICES ASSUME Inv, Sound,
                    NEW p \in DOMAIN oppm \cap DOMAIN lists,
                    oppm[p].version = lists[p].version
             PROVE  SameFiles(oppm[p].package, lists[p].package)
  BY <1>a
<1>0. PICK package, list : package = oppm[p].package /\ list = lists[p].package
  OBVIOUS
<1>b. PICK s : s = list.files \o list.config
  OBVIOUS
<1> SUFFICES ASSUME RepoArchive(package).ok, PmArchive(list).ok, AbsoluteOnce(s),
                    master = "oppm" => ~HasTwin(package)
             PROVE  RepoArchive(package).data = PmArchive(list).data
  BY <1>0, <1>b DEF SameFiles
<1>1. package \in OppmPackage /\ list \in PmPackage
  BY <1>0 DEF Sound, Typed
<1>2. CASE master = "oppm"
  <2>1. list = ToPm(package)
    BY <1>0, <1>2 DEF Sound, FormsAgree
  <2> QED
    BY <1>1, <1>2, <2>1, ToPmKeeps
<1>3. CASE master = "pm"
  <2>1. package = ToOppm(list)
    BY <1>0, <1>3 DEF Sound, FormsAgree
  <2> QED
    BY <1>1, <1>b, <2>1, ToOppmKeeps
<1> QED
  BY <1>2, <1>3 DEF Inv

-----------------------------------------------------------------------------
(* The theorems.                                                           *)

\* Whatever build was interrupted or failed, and whatever was edited since, the
\* index of packages/ names no package without an archive, and promises no
\* version later than its archive's (makePackage and the manifest of each of
\* the three builders).
THEOREM IndexIsHonest == Spec => []IndexNotAhead
<1>1. Inv => IndexNotAhead
  BY DEF Inv
<1> QED
  BY <1>1, Invariant, PTL

\* A build that went to its end leaves an index and archives that agree, until
\* the next one begins.
THEOREM FinishedBuildsAgree == Spec => []FinishedRunIsConsistent
<1>1. Inv => FinishedRunIsConsistent
  BY DEF Inv
<1> QED
  BY <1>1, Invariant, PTL

\* Where the two forms of a package are of the same edit, the archives of
\* repoPackager and of pmUtils install the same files (fileListOppmToPm and
\* doPmToOppm against addFileToPackage of the two builders).
THEOREM ConversionsInstallTheSame == Spec => []ConversionKeepsPlaces
BY SoundInvariant, SoundKeepsPlaces, PTL

=============================================================================
