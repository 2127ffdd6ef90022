--------------------------- MODULE AssetCacheProofs ---------------------------
(***************************************************************************)
(* Proofs about AssetCache: its state has its types, a manifest that       *)
(* agrees with the source names a cache of it or one that is lost, and     *)
(* LoadAsset implements AssetStore, for any number of versions and imports *)
(* and whichever versions look the same.                                   *)
(***************************************************************************)
EXTENDS AssetCache, TLAPS

\* A manifest is written before the source looks any later than it says, and
\* its cache holds a version from between the manifest's and the source's.
ManifestInOrder ==
  manifest \in Manifests =>
    /\ manifest.look <= Look[version]
    /\ \/ caches[manifest.cache] = Gone
       \/ /\ caches[manifest.cache] \in Versions
          /\ caches[manifest.cache] <= version
          /\ manifest.look <= Look[caches[manifest.cache]]

\* What a hit goes by was true when the source was looked at.
HitFits ==
  at \in {"cache", "hit"} =>
    /\ manifest \in Manifests
    /\ info = manifest
    /\ \E w \in seen : Look[w] = info.look
    /\ \/ caches[info.cache] = Gone
       \/ /\ caches[info.cache] \in Versions
          /\ Look[caches[info.cache]] = info.look

\* An import has a torn manifest until it has the cache that belongs to it.
ImportInOrder ==
  /\ at \in {"source", "cache", "hit", "remove", "create"} => imports < MaxImports
  /\ at = "source" => manifest # Missing
  /\ at = "create" => manifest = Missing
  /\ at \in {"record", "import", "save", "finish", "manifest"} =>
       manifest = Torn /\ imports \in Ids
  /\ at \in {"import", "save", "finish", "manifest"} =>
       /\ info \in Manifests
       /\ info.cache = imports
       /\ info.look <= Look[version]
  /\ at \in {"save", "finish", "manifest"} =>
       /\ read \in Versions
       /\ read <= version
       /\ info.look <= Look[read]
  /\ at = "manifest" => caches[imports] \in {Gone, read}
  /\ at \in {"save", "finish", "manifest", "truncate"} => read \in seen

Inv ==
  /\ TypeOK
  /\ ManifestInOrder
  /\ HitFits
  /\ ImportInOrder
  /\ at # "idle" => version \in seen

------------------------------------------------------------------------------
LEMMA ConstantsDiffer ==
  /\ Gone \notin Versions /\ Partial \notin Versions /\ Gone # Partial
  /\ Error \notin Versions /\ Nothing \notin Versions /\ Loading \notin Versions
  /\ Error # Nothing /\ Error # Loading /\ Nothing # Loading
  /\ Missing \notin Manifests /\ Torn \notin Manifests /\ NoInfo \notin Manifests
  /\ Missing # Torn
<1>1. 0 \notin Ids /\ -1 \notin Ids /\ -2 \notin Ids
  BY BoundsAssumption DEF Ids
<1> QED
  BY <1>1, BoundsAssumption, SMT
  DEF Gone, Partial, Error, Nothing, Loading, Missing, Torn, NoInfo, Manifests, Versions

LEMMA InitInv == Init => Inv
<1> SUFFICES ASSUME Init PROVE Inv
  OBVIOUS
<1>1. 0 \in Versions
  BY BoundsAssumption DEF Versions
<1>2. TypeOK
  <2>1. caches \in [Ids -> Versions \cup {Gone, Partial}]
    BY DEF Init
  <2>2. imports \in 0 .. MaxImports
    BY BoundsAssumption DEF Init
  <2> QED
    BY <1>1, <2>1, <2>2 DEF Init, TypeOK, Steps
<1> QED
  BY <1>2, ConstantsDiffer DEF Init, Inv, ManifestInOrder, HitFits, ImportInOrder

LEMMA LookInOrder == \A v, w \in Versions : v <= w => Look[v] <= Look[w] /\ Look[v] \in Nat /\ Look[w] \in Nat
  BY LookAssumption

LEMMA FailInv == Inv /\ Fail => Inv'
  BY ConstantsDiffer DEF Inv, Fail, TypeOK, Steps, EnvironmentUnchanged, ManifestInOrder, HitFits, ImportInOrder

LEMMA CallInv == Inv /\ Call => Inv'
  BY ConstantsDiffer DEF Inv, Call, diskVars, TypeOK, Steps, ManifestInOrder, HitFits, ImportInOrder

LEMMA CheckSourceInv == Inv /\ CheckSource => Inv'
<1> SUFFICES ASSUME Inv, CheckSource PROVE Inv'
  OBVIOUS
<1> USE DEF EnvironmentUnchanged
<1>1. TypeOK'
  BY DEF Inv, CheckSource, TypeOK, Steps
<1>2. ManifestInOrder'
  BY DEF Inv, CheckSource, ManifestInOrder
<1>3. HitFits'
  <2> SUFFICES ASSUME at' = "cache" PROVE HitFits'
    BY DEF CheckSource, HitFits
  <2>1. manifest # Torn /\ Look[version] = manifest.look /\ version \in seen
    BY DEF CheckSource, Inv
  <2>2. manifest \in Manifests
    BY <2>1 DEF Inv, TypeOK, CheckSource, ImportInOrder
  <2> QED
    BY <2>1, <2>2, LookInOrder DEF Inv, TypeOK, CheckSource, HitFits, ManifestInOrder
<1>4. ImportInOrder'
  BY DEF Inv, CheckSource, ImportInOrder
<1> QED
  BY <1>1, <1>2, <1>3, <1>4 DEF Inv, CheckSource

LEMMA CheckCacheInv == Inv /\ CheckCache => Inv'
  BY DEF Inv, CheckCache, TypeOK, Steps, EnvironmentUnchanged, ManifestInOrder, HitFits, ImportInOrder

LEMMA LoadHitInv == Inv /\ LoadHit => Inv'
<1> SUFFICES ASSUME Inv, LoadHit PROVE Inv'
  OBVIOUS
<1>1. caches[info.cache] \in Versions
  BY DEF Inv, LoadHit, HitFits
<1> QED
  BY <1>1 DEF Inv, LoadHit, TypeOK, Steps, EnvironmentUnchanged, ManifestInOrder, HitFits, ImportInOrder

LEMMA RemoveManifestInv == Inv /\ RemoveManifest => Inv'
  BY ConstantsDiffer
  DEF Inv, RemoveManifest, TypeOK, Steps, EnvironmentUnchanged, ManifestInOrder, HitFits, ImportInOrder

LEMMA CreateManifestInv == Inv /\ CreateManifest => Inv'
<1> SUFFICES ASSUME Inv, CreateManifest PROVE Inv'
  OBVIOUS
<1>1. imports + 1 \in Ids /\ imports + 1 \in 0 .. MaxImports
  BY BoundsAssumption DEF Inv, CreateManifest, TypeOK, ImportInOrder, Ids
<1> QED
  BY <1>1, ConstantsDiffer
  DEF Inv, CreateManifest, TypeOK, Steps, EnvironmentUnchanged, ManifestInOrder, HitFits, ImportInOrder

LEMMA ReadRecordInv == Inv /\ ReadRecord => Inv'
<1> SUFFICES ASSUME Inv, ReadRecord PROVE Inv'
  OBVIOUS
<1>1. info' \in Manifests /\ info'.cache = imports /\ info'.look = Look[version]
  BY LookAssumption DEF Inv, ReadRecord, TypeOK, ImportInOrder, Manifests
<1>2. Look[version] <= Look[version]
  BY LookAssumption DEF Inv, TypeOK
<1> QED
  BY <1>1, <1>2, ConstantsDiffer
  DEF Inv, ReadRecord, TypeOK, Steps, EnvironmentUnchanged, ManifestInOrder, HitFits, ImportInOrder

LEMMA ReadSourceInv == Inv /\ ReadSource => Inv'
<1> SUFFICES ASSUME Inv, ReadSource PROVE Inv'
  OBVIOUS
<1>1. read' \in Versions /\ read' <= version' /\ info'.look <= Look[read'] /\ read' \in seen'
  BY DEF Inv, ReadSource, TypeOK, ImportInOrder, EnvironmentUnchanged, Versions
<1> QED
  BY <1>1, ConstantsDiffer
  DEF Inv, ReadSource, TypeOK, Steps, EnvironmentUnchanged, ManifestInOrder, HitFits, ImportInOrder

LEMMA CreateCacheInv == Inv /\ CreateCache => Inv'
  BY ConstantsDiffer
  DEF Inv, CreateCache, TypeOK, Steps, EnvironmentUnchanged, ManifestInOrder, HitFits, ImportInOrder

LEMMA WriteCacheInv == Inv /\ WriteCache => Inv'
  BY ConstantsDiffer
  DEF Inv, WriteCache, TypeOK, Steps, EnvironmentUnchanged, ManifestInOrder, HitFits, ImportInOrder

LEMMA WriteManifestInv == Inv /\ WriteManifest => Inv'
<1> SUFFICES ASSUME Inv, WriteManifest PROVE Inv'
  OBVIOUS
<1>1. manifest' \in Manifests /\ manifest' = info /\ info.cache = imports
  BY DEF Inv, WriteManifest, ImportInOrder
<1>2. caches[imports] \in {Gone, read} /\ read \in Versions /\ read <= version /\ info.look <= Look[read]
  BY DEF Inv, WriteManifest, ImportInOrder
<1> QED
  BY <1>1, <1>2
  DEF Inv, WriteManifest, TypeOK, Steps, EnvironmentUnchanged, ManifestInOrder, HitFits, ImportInOrder

LEMMA TruncateInv == Inv /\ Truncate => Inv'
  BY DEF Inv, Truncate, TypeOK, Steps, EnvironmentUnchanged, ManifestInOrder, HitFits, ImportInOrder

LEMMA CrashInv == Inv /\ Crash => Inv'
  BY DEF Inv, Crash, TypeOK, Steps, EnvironmentUnchanged, ManifestInOrder, HitFits, ImportInOrder

LEMMA DisturbInv == Inv /\ Disturb => Inv'
  BY DEF Inv, Disturb, diskVars, TypeOK, ManifestInOrder, HitFits, ImportInOrder

LEMMA EditInv == Inv /\ Edit => Inv'
<1> SUFFICES ASSUME Inv, Edit PROVE Inv'
  OBVIOUS
<1>1. version' \in Versions /\ version \in Versions /\ version <= version'
  BY BoundsAssumption DEF Inv, Edit, TypeOK, Versions
<1>2. \A n \in Nat : n <= Look[version] => n <= Look[version']
  BY <1>1, LookInOrder
<1>3. \A v \in Versions : v <= version => v <= version'
  BY <1>1 DEF Edit, Versions
<1>4. TypeOK'
  BY <1>1 DEF Inv, Edit, TypeOK
<1>5. ManifestInOrder'
  BY <1>1, <1>2, <1>3 DEF Inv, Edit, ManifestInOrder, Manifests
<1>6. HitFits'
  BY DEF Inv, Edit, HitFits
<1>7. ImportInOrder'
  BY <1>1, <1>2, <1>3 DEF Inv, Edit, ImportInOrder, Manifests
<1> QED
  BY <1>4, <1>5, <1>6, <1>7 DEF Inv, Edit

LEMMA DeleteInv == Inv /\ Delete => Inv'
<1> SUFFICES ASSUME Inv, Delete PROVE Inv'
  OBVIOUS
<1>1. /\ UNCHANGED <<version, manifest, caches, imports, at, info, read, returned, seen>>
      /\ present' = FALSE /\ disturbed' = TRUE
  BY DEF Delete
<1>2. TypeOK'
  BY <1>1 DEF Inv, TypeOK
<1>3. ManifestInOrder'
  BY <1>1 DEF Inv, ManifestInOrder
<1>4. HitFits'
  BY <1>1 DEF Inv, HitFits
<1>5. ImportInOrder'
  BY <1>1 DEF Inv, ImportInOrder
<1> QED
  BY <1>1, <1>2, <1>3, <1>4, <1>5 DEF Inv

LEMMA DeleteCacheInv == ASSUME NEW i \in Ids, Inv, DeleteCache(i) PROVE Inv'
<1>1. TypeOK'
  BY DEF Inv, DeleteCache, TypeOK
<1>2. \A j \in Ids : caches'[j] \in {Gone, caches[j]}
  BY DEF Inv, DeleteCache, TypeOK
<1>3. ManifestInOrder'
  BY <1>2 DEF Inv, DeleteCache, ManifestInOrder, Manifests
<1>4. HitFits'
  BY <1>2 DEF Inv, DeleteCache, HitFits, Manifests
<1>5. ImportInOrder'
  BY <1>2 DEF Inv, DeleteCache, ImportInOrder
<1> QED
  BY <1>1, <1>3, <1>4, <1>5 DEF Inv, DeleteCache

LEMMA NextInv == Inv /\ [Next]_vars => Inv'
<1> SUFFICES ASSUME Inv, [Next]_vars PROVE Inv'
  OBVIOUS
<1>1. CASE Step
  BY <1>1, FailInv, CallInv, CheckSourceInv, CheckCacheInv, LoadHitInv, RemoveManifestInv, CreateManifestInv,
     ReadRecordInv, ReadSourceInv, CreateCacheInv, WriteCacheInv, WriteManifestInv, TruncateInv DEF Step
<1>2. CASE Crash \/ Disturb \/ Edit \/ Delete
  BY <1>2, CrashInv, DisturbInv, EditInv, DeleteInv
<1>3. CASE \E i \in Ids : DeleteCache(i)
  BY <1>3, DeleteCacheInv
<1>4. CASE UNCHANGED vars
  BY <1>4 DEF vars, diskVars, Inv, TypeOK, ManifestInOrder, HitFits, ImportInOrder
<1> QED
  BY <1>1, <1>2, <1>3, <1>4 DEF Next

LEMMA InvCorrect == Spec => []Inv
<1>1. Init => Inv
  BY InitInv
<1>2. Inv /\ [Next]_vars => Inv'
  BY NextInv
<1> QED
  BY <1>1, <1>2, PTL DEF Spec

------------------------------------------------------------------------------
\* LoadAsset's variables keep their types, whatever fails.
THEOREM TypeCorrect == Spec => []TypeOK
<1>1. Inv => TypeOK
  BY DEF Inv
<1> QED
  BY <1>1, InvCorrect, PTL

\* importSourceFile never leaves a manifest that agrees with the source and
\* names a cache file that is stale or unfinished.
THEOREM ManifestCorrect == Spec => []ManifestHolds
<1>1. Inv => ManifestHolds
  <2> SUFFICES ASSUME Inv, manifest \in Manifests, manifest.look = Look[version],
                      caches[manifest.cache] # Gone
               PROVE  caches[manifest.cache] \in Versions /\ Look[caches[manifest.cache]] = manifest.look
    BY DEF ManifestHolds
  <2> DEFINE cache == caches[manifest.cache]
  <2>1. cache \in Versions /\ cache <= version /\ manifest.look <= Look[cache]
    BY DEF Inv, ManifestInOrder
  <2> QED
    BY <2>1, LookInOrder DEF Inv, TypeOK
<1> QED
  BY <1>1, InvCorrect, PTL

------------------------------------------------------------------------------
\* The promise of AssetStore.

LEMMA StoreInit == Init => Store!Init
  BY DEF Init, Store!Init, Nothing, Store!Nothing

\* The step of the load that an asset comes from: one in the cache looks like
\* the source did when it was compared, one imported is what the source was.
LEMMA ReturnIsStores ==
  ASSUME Inv, NEW v \in Versions, NEW w \in seen, Look[v] = Look[w],
         at # "idle", at' = "idle", returned' = v,
         UNCHANGED <<version, present, seen, disturbed>>
  PROVE  Store!Next
  BY DEF Store!Next, Store!Return, Loading, Store!Loading

LEMMA StoreStep == Inv /\ [Next]_vars => [Store!Next]_(Store!vars)
<1> SUFFICES ASSUME Inv, [Next]_vars PROVE [Store!Next]_(Store!vars)
  OBVIOUS
<1> USE DEF EnvironmentUnchanged, Loading, Store!Loading, Error, Store!Error, Nothing, Store!Nothing
<1>0. returned # Loading
  BY ConstantsDiffer DEF Inv, TypeOK
<1>1. CASE Fail
  BY <1>1 DEF Fail, Store!Next, Store!Fail
<1>2. CASE Call
  BY <1>0, <1>2 DEF Call, diskVars, Store!Next, Store!Begin
<1>3. CASE LoadHit
  <2>1. PICK w \in seen : Look[w] = info.look
    BY <1>3 DEF Inv, HitFits, LoadHit
  <2>2. caches[info.cache] \in Versions /\ Look[caches[info.cache]] = Look[w]
    BY <1>3, <2>1 DEF Inv, HitFits, LoadHit
  <2> QED
    BY <1>3, <2>1, <2>2, ReturnIsStores DEF LoadHit
<1>4. CASE Truncate
  <2>1. read \in seen /\ read \in Versions
    BY <1>4 DEF Inv, ImportInOrder, TypeOK, Truncate
  <2> QED
    BY <1>4, <2>1, ReturnIsStores DEF Truncate
<1>5. CASE Crash
  BY <1>5 DEF Crash, Store!Next, Store!Crash
<1>6. CASE Disturb
  BY <1>6 DEF Disturb, diskVars, Store!Next, Store!Disturb
<1>7. CASE Edit
  <2>1. version' \in Versions /\ version' > version
    BY <1>7, BoundsAssumption DEF Inv, TypeOK, Edit, Versions
  <2> QED
    BY <1>7, <2>1 DEF Edit, Store!Next, Store!Edit
<1>8. CASE Delete
  BY <1>8 DEF Delete, Store!Next, Store!Delete
<1>9. CASE \E i \in Ids : DeleteCache(i)
  <2>1. UNCHANGED <<version, present, seen, at, returned>> /\ disturbed' = (disturbed \/ at # "idle")
    BY <1>9 DEF DeleteCache
  <2>2. CASE at = "idle"
    BY <2>1, <2>2 DEF Store!vars, Inv, TypeOK
  <2>3. CASE at # "idle"
    BY <2>1, <2>3 DEF Store!Next, Store!Disturb
  <2> QED
    BY <2>2, <2>3
<1>10. CASE CheckSource \/ CheckCache \/ RemoveManifest \/ CreateManifest \/ ReadRecord \/ ReadSource
            \/ CreateCache \/ WriteCache \/ WriteManifest
  <2>1. at # "idle" /\ at' # "idle" /\ UNCHANGED <<version, present, seen, disturbed>>
    BY <1>10 DEF CheckSource, CheckCache, RemoveManifest, CreateManifest, ReadRecord, ReadSource,
                 CreateCache, WriteCache, WriteManifest
  <2> QED
    BY <2>1 DEF Store!vars
<1>11. CASE UNCHANGED vars
  BY <1>11 DEF vars, diskVars, Store!vars
<1> QED
  BY <1>1, <1>2, <1>3, <1>4, <1>5, <1>6, <1>7, <1>8, <1>9, <1>10, <1>11 DEF Next, Step

\* Every call of LoadAsset returns what the source file was during the call,
\* or what cannot be told from it, and fails only if something went wrong in
\* this call: crashes and failed imports of earlier ones do not matter.
THEOREM StoreImplemented == Spec => ImplementsAssetStore
<1>1. Init => Store!Init
  BY StoreInit
<1>2. Inv /\ [Next]_vars => [Store!Next]_(Store!vars)
  BY StoreStep
<1> QED
  BY <1>1, <1>2, InvCorrect, PTL DEF Spec, ImplementsAssetStore, Store!Spec
===============================================================================
