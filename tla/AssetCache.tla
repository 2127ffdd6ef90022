------------------------------ MODULE AssetCache ------------------------------
(***************************************************************************)
(* file::LoadAsset of core/file: one asset, its source file, its manifest, *)
(* and the cache files its imports leave in the user's directory.          *)
(*                                                                         *)
(* A step is one access to the file system, each of which can fail; the    *)
(* process can end between any two, and its files stay as they are.  A     *)
(* manifest is mapped and created at the start of an import and written at *)
(* its end, after the cache file.  Whether it still holds is decided from  *)
(* the time stamp and size of source and cache file, never from their      *)
(* checksums.  Loads do not overlap: they run as calls of the main thread. *)
(*                                                                         *)
(* External: an empty manifest can be mapped, as the one that was just     *)
(* created must be; editors replace the source file in one step, and its   *)
(* time stamp does not go back.                                            *)
(***************************************************************************)
EXTENDS Integers

CONSTANTS
  MaxVersion,      \* versions of the source file are 0 .. MaxVersion
  MaxImports,      \* imports that are begun
  Look             \* the time stamp and size of each version, as one number

Versions == 0 .. MaxVersion

Ids == 1 .. MaxImports

\* A later version has a later time stamp, or is of the same second.
ASSUME BoundsAssumption == MaxVersion \in Nat /\ MaxImports \in Nat
ASSUME LookAssumption ==
  /\ Look \in [Versions -> Nat]
  /\ \A v, w \in Versions : v <= w => Look[v] <= Look[w]

VARIABLES
  version, present,    \* the source file: its version, and whether there is one
  manifest,            \* Missing, Torn, or the source's look and the cache's name
  caches,              \* each cache file's content: Gone, Partial, or a version
  imports,             \* how many names of cache files were generated
  at,                  \* the next step of LoadAsset
  info,                \* AssetManifest: what was read from it, or is to be written
  read,                \* what the load functions read, and the caller gets
  returned,            \* of the last call
  seen, disturbed      \* since the call began: the versions there were, any trouble

diskVars == <<version, present, manifest, caches>>
vars == <<diskVars, imports, at, info, read, returned, seen, disturbed>>

Gone == -1
Partial == -2

Error == -1
Loading == -2
Nothing == -3

Manifests == [look : Nat, cache : Ids]

\* As information that no manifest has: the source was not looked at yet.
NoInfo == [look |-> 0, cache |-> 0]
Missing == [look |-> 0, cache |-> -1]
Torn == [look |-> 0, cache |-> -2]

Steps ==
  {"idle", "source", "cache", "hit", "remove", "create", "record", "import",
   "save", "finish", "manifest", "truncate"}

Init ==
  /\ version = 0 /\ present = TRUE
  /\ manifest = Missing
  /\ caches = [i \in Ids |-> Gone]
  /\ imports = 0
  /\ at = "idle"
  /\ info = NoInfo
  /\ read = Nothing
  /\ returned = Nothing
  /\ seen = {} /\ disturbed = FALSE

EnvironmentUnchanged == UNCHANGED <<version, present, seen, disturbed>>

------------------------------------------------------------------------------
\* Every step may return an error once something is wrong.

Fail ==
  /\ at # "idle"
  /\ disturbed
  /\ at' = "idle"
  /\ returned' = Error
  /\ UNCHANGED <<manifest, caches, imports, info, read>>
  /\ EnvironmentUnchanged

Call ==
  /\ at = "idle"
  /\ imports < MaxImports
  /\ at' = IF manifest = Missing THEN "remove" ELSE "source"
  /\ seen' = {version}
  /\ disturbed' = ~present
  /\ UNCHANGED <<diskVars, imports, info, read, returned>>

\* Mutant: the source's time stamp and size are not compared.
TrustsManifest ==
  /\ at = "source"
  /\ info' = manifest
  /\ at' = IF manifest # Torn /\ present THEN "cache" ELSE "remove"
  /\ UNCHANGED <<manifest, caches, imports, read, returned>>
  /\ EnvironmentUnchanged

\* LoadAssetManifest maps and reads the manifest and looks at the source.
CheckSource ==
  /\ at = "source"
  /\ info' = manifest
  /\ at' = IF manifest # Torn /\ present /\ Look[version] = manifest.look
             THEN "cache" ELSE "remove"
  /\ UNCHANGED <<manifest, caches, imports, read, returned>>
  /\ EnvironmentUnchanged

\* Mutant: without a cache file, the manifest is read again.
RereadsManifest ==
  /\ at = "cache"
  /\ at' = IF caches[info.cache] # Gone THEN "hit" ELSE "source"
  /\ UNCHANGED <<manifest, caches, imports, info, read, returned>>
  /\ EnvironmentUnchanged

\* ... and at the cache file, which nobody but an import writes.
CheckCache ==
  /\ at = "cache"
  /\ at' = IF caches[info.cache] # Gone THEN "hit" ELSE "remove"
  /\ UNCHANGED <<manifest, caches, imports, info, read, returned>>
  /\ EnvironmentUnchanged

\* LoadBinary of the cache file.
LoadHit ==
  /\ at = "hit"
  /\ caches[info.cache] # Gone
  /\ read' = caches[info.cache]
  /\ returned' = caches[info.cache]
  /\ at' = "idle"
  /\ UNCHANGED <<manifest, caches, imports, info>>
  /\ EnvironmentUnchanged

------------------------------------------------------------------------------
\* importSourceFile.

RemoveManifest ==
  /\ at = "remove"
  /\ manifest' = Missing
  /\ at' = "create"
  /\ UNCHANGED <<caches, imports, info, read, returned>>
  /\ EnvironmentUnchanged

CreateManifest ==
  /\ at = "create"
  /\ manifest' = Torn
  /\ imports' = imports + 1
  /\ at' = "record"
  /\ UNCHANGED <<caches, info, read, returned>>
  /\ EnvironmentUnchanged

\* LoadBinary of the source: GetRecord looks at it before it is mapped.
ReadRecord ==
  /\ at = "record"
  /\ present
  /\ info' = [look |-> Look[version], cache |-> imports]
  /\ at' = "import"
  /\ UNCHANGED <<manifest, caches, imports, read, returned>>
  /\ EnvironmentUnchanged

\* The load function imports what the file has now.
ReadSource ==
  /\ at = "import"
  /\ present
  /\ read' = version
  /\ at' = "save"
  /\ UNCHANGED <<manifest, caches, imports, info, returned>>
  /\ EnvironmentUnchanged

\* SaveBinary maps a new file and fills it.
CreateCache ==
  /\ at = "save"
  /\ caches' = [caches EXCEPT ![imports] = Partial]
  /\ at' = "finish"
  /\ UNCHANGED <<manifest, imports, info, read, returned>>
  /\ EnvironmentUnchanged

\* The save function writes, the file is truncated, and its record is read.
WriteCache ==
  /\ at = "finish"
  /\ caches[imports] # Gone
  /\ caches' = [caches EXCEPT ![imports] = read]
  /\ at' = "manifest"
  /\ UNCHANGED <<manifest, imports, info, read, returned>>
  /\ EnvironmentUnchanged

\* Mutant: the source's record is read again for the manifest.
RecordsSourceAgain ==
  /\ at = "manifest"
  /\ manifest' = [look |-> Look[version], cache |-> info.cache]
  /\ at' = "truncate"
  /\ UNCHANGED <<caches, imports, info, read, returned>>
  /\ EnvironmentUnchanged

WriteManifest ==
  /\ at = "manifest"
  /\ manifest' = info
  /\ at' = "truncate"
  /\ UNCHANGED <<caches, imports, info, read, returned>>
  /\ EnvironmentUnchanged

\* What is behind the end of the manifest is of no account.
Truncate ==
  /\ at = "truncate"
  /\ returned' = read
  /\ at' = "idle"
  /\ UNCHANGED <<manifest, caches, imports, info, read>>
  /\ EnvironmentUnchanged

------------------------------------------------------------------------------
\* The rest of the world.

\* The load functions assert; an assertion ends the process like any crash.
Crash ==
  /\ at # "idle"
  /\ at' = "idle"
  /\ returned' = Nothing
  /\ UNCHANGED <<manifest, caches, imports, info, read>>
  /\ EnvironmentUnchanged

Disturb ==
  /\ at # "idle"
  /\ ~disturbed
  /\ disturbed' = TRUE
  /\ UNCHANGED <<diskVars, imports, at, info, read, returned, seen>>

Edit ==
  /\ version < MaxVersion
  /\ version' = version + 1
  /\ present' = TRUE
  /\ seen' = seen \cup {version + 1}
  /\ UNCHANGED <<manifest, caches, imports, at, info, read, returned, disturbed>>

Delete ==
  /\ present
  /\ present' = FALSE
  /\ disturbed' = TRUE
  /\ UNCHANGED <<version, manifest, caches, imports, at, info, read, returned, seen>>

\* Somebody cleans the directory: a cache file is lost, with no call or in one.
DeleteCache(i) ==
  /\ caches[i] # Gone
  /\ caches' = [caches EXCEPT ![i] = Gone]
  /\ disturbed' = (disturbed \/ at # "idle")
  /\ UNCHANGED <<version, present, manifest, imports, at, info, read, returned, seen>>

Step ==
  \/ Call \/ CheckSource \/ CheckCache \/ LoadHit
  \/ RemoveManifest \/ CreateManifest \/ ReadRecord \/ ReadSource
  \/ CreateCache \/ WriteCache \/ WriteManifest \/ Truncate
  \/ Fail

Next ==
  \/ Step
  \/ Crash \/ Disturb \/ Edit \/ Delete
  \/ \E i \in Ids : DeleteCache(i)

\* The thread that loads goes on; nobody has to call.
Fairness == WF_vars(at # "idle" /\ Step)

Spec == Init /\ [][Next]_vars /\ Fairness

------------------------------------------------------------------------------
TypeOK ==
  /\ version \in Versions /\ present \in BOOLEAN
  /\ manifest \in Manifests \cup {Missing, Torn}
  /\ caches \in [Ids -> Versions \cup {Gone, Partial}]
  /\ imports \in 0 .. MaxImports
  /\ at \in Steps
  /\ info \in Manifests \cup {NoInfo, Missing, Torn}
  /\ read \in Versions \cup {Nothing}
  /\ returned \in Versions \cup {Error, Nothing}
  /\ seen \subseteq Versions /\ disturbed \in BOOLEAN

\* A manifest that agrees with the source file names a cache file with the
\* import of a version that looks the same, or one that is gone: an edit
\* between GetRecord and the import, a failure or a crash between the three
\* writes of importSourceFile never leaves a stale or unfinished cache behind
\* a manifest that LoadAssetManifest accepts.
ManifestHolds ==
  (manifest \in Manifests /\ manifest.look = Look[version]) =>
    LET cache == caches[manifest.cache]
    IN  cache = Gone \/ (cache \in Versions /\ Look[cache] = manifest.look)

\* LoadAsset keeps the promise of AssetStore, whatever earlier calls left.
Store == INSTANCE AssetStore
  WITH Versions <- Versions, Look <- Look,
       version <- version, present <- present, seen <- seen, disturbed <- disturbed,
       result <- IF at = "idle" THEN returned ELSE Loading

ImplementsAssetStore == Store!Spec

\* A call of LoadAsset returns, with an asset or an error, or the process ends.
LoadsEnd == at # "idle" ~> at = "idle"
===============================================================================
