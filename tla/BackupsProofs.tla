---------------------------- MODULE BackupsProofs ----------------------------
(* Proofs about InstanceAdmin and Backups for every value of the constants.  *)
EXTENDS Backups, TLAPS, FiniteSetTheorems

AdminInv == AdminTypeOK /\ ReferencesHold

\* The empty server has no dangling reference.
LEMMA AdminStart == AdminInit => AdminInv
  BY AdminAssumption DEF AdminInit, AdminInv, AdminTypeOK, ReferencesHold, Types, memory, ClustersOf

\* Creating an instance, completely or not, keeps the references whole.
LEMMA CreateInstanceKeeps ==
  ASSUME AdminInv, NEW i \in Instances, NEW t \in Types, NEW e \in Editions,
         NEW n \in NodeCounts, NEW cs \in SUBSET Clusters, NEW done \in SUBSET cs,
         NEW complete \in BOOLEAN, CreateInstance(i, t, e, n, cs, done, complete)
  PROVE  AdminInv'
  <1> USE AdminAssumption DEF CreateInstance, AdminInv
  <1>1. AdminTypeOK'
    <2>1. TypeOrProduction(t) \in Types
      BY DEF TypeOrProduction, Types
    <2>2. profiles' \subseteq Instances \X Profiles
      BY DEF AdminTypeOK
    <2>3. route' \in [Instances \X Profiles -> SUBSET Clusters]
      BY DEF AdminTypeOK
    <2>4. nodes' \in [Instances \X Clusters -> NodeCounts]
      BY DEF AdminTypeOK
    <2>5. /\ instances' \subseteq Instances /\ clusters' \subseteq Instances \X Clusters
          /\ bare' \subseteq instances'
      BY DEF AdminTypeOK
    <2>6. itype' \in [Instances -> Types] /\ edition' \in [Instances -> Editions]
      BY <2>1 DEF AdminTypeOK
    <2> QED BY <2>2, <2>3, <2>4, <2>5, <2>6 DEF AdminTypeOK
  <1>2. stored' = memory'
    BY DEF Saved
  <1>3. \A c \in clusters' : c[1] \in instances'
    BY DEF AdminTypeOK, ReferencesHold
  <1>4. ~\E p \in profiles : p[1] = i
    BY DEF ReferencesHold
  <1>5. \A p \in profiles' : p[1] \in instances' /\ route'[p] \subseteq ClustersOf(p[1])'
    <2>1. ASSUME NEW p \in profiles
          PROVE  p[1] \in instances' /\ route'[p] = route[p] /\ ClustersOf(p[1]) \subseteq ClustersOf(p[1])'
      BY <1>4 DEF AdminTypeOK, ReferencesHold, ClustersOf
    <2>2. ASSUME profiles' # profiles
          PROVE  /\ profiles' = profiles \cup {<<i, Default>>} /\ i \in instances'
                 /\ route'[<<i, Default>>] \subseteq ClustersOf(i)'
      BY <2>2 DEF AdminTypeOK, ClustersOf
    <2>3. ASSUME NEW p \in profiles', p \notin profiles
          PROVE  p = <<i, Default>> /\ p[1] = i
      BY <2>2, <2>3
    <2>4. ASSUME NEW p \in profiles
          PROVE  p[1] \in instances' /\ route'[p] \subseteq ClustersOf(p[1])'
      BY <2>1, <2>4, ZenonT(30) DEF ReferencesHold
    <2>5. ASSUME NEW p \in profiles', p \notin profiles
          PROVE  p[1] \in instances' /\ route'[p] \subseteq ClustersOf(p[1])'
      BY <2>2, <2>3, <2>5, ZenonT(30)
    <2> QED BY <2>4, <2>5
  <1>6. \A j \in instances' \ bare' : ClustersOf(j)' # {}
    <2>1. ASSUME NEW j \in instances' \ bare', j = i PROVE ClustersOf(j)' # {}
      <3>1. PICK c \in done : TRUE
        BY <2>1
      <3>2. c \in ClustersOf(j)'
        BY <2>1, <3>1 DEF ClustersOf
      <3> QED BY <3>2
    <2>2. ASSUME NEW j \in instances' \ bare', j # i PROVE ClustersOf(j)' # {}
      <3>1. j \in instances \ bare
        BY <2>2 DEF AdminTypeOK
      <3>2. ClustersOf(j) \subseteq ClustersOf(j)'
        BY DEF ClustersOf
      <3> QED BY <3>1, <3>2 DEF ReferencesHold
    <2> QED BY <2>1, <2>2
  <1> QED BY <1>1, <1>2, <1>3, <1>5, <1>6, ZenonT(30) DEF ReferencesHold

\* So do the updates of an instance, which move no reference.
LEMMA UpdateInstanceKeeps ==
  ASSUME AdminInv, NEW i \in Instances, NEW t \in Types, UpdateInstance(i, t)
  PROVE  AdminInv'
  <1> USE DEF UpdateInstance, AdminInv
  <1>1. AdminTypeOK'
    BY DEF AdminTypeOK, Types
  <1>2. ReferencesHold'
    BY DEF AdminTypeOK, ReferencesHold, ClustersOf, Saved, memory
  <1> QED BY <1>1, <1>2

\* The same for an update by mask.
LEMMA PartialUpdateInstanceKeeps ==
  ASSUME AdminInv, NEW i \in Instances, NEW t \in Types, NEW e \in Editions, NEW paths,
         PartialUpdateInstance(i, paths, t, e)
  PROVE  AdminInv'
  <1> USE DEF PartialUpdateInstance, AdminInv
  <1>1. AdminTypeOK'
    BY DEF AdminTypeOK, Types
  <1>2. ReferencesHold'
    BY DEF AdminTypeOK, ReferencesHold, ClustersOf, Saved, memory
  <1> QED BY <1>1, <1>2

\* Clusters are created under registered instances; updates keep them.
LEMMA ClustersKeep ==
  ASSUME AdminInv, NEW i \in Instances, NEW c \in Clusters, NEW n \in NodeCounts,
         CreateCluster(i, c, n) \/ UpdateCluster(i, c, n) \/ PartialUpdateCluster(i, c, n)
  PROVE  AdminInv'
  <1> USE DEF CreateCluster, UpdateCluster, PartialUpdateCluster, AdminInv
  <1>1. AdminTypeOK'
    BY DEF AdminTypeOK, ReferencesHold, Types
  <1>2. stored' = memory'
    BY DEF Saved
  <1>3. \A j \in Instances : ClustersOf(j) \subseteq ClustersOf(j)'
    BY DEF ClustersOf
  <1>4. \A d \in clusters' : d[1] \in instances'
    BY DEF ReferencesHold
  <1>5. \A p \in profiles' : p[1] \in instances' /\ route'[p] \subseteq ClustersOf(p[1])'
    BY <1>3 DEF AdminTypeOK, ReferencesHold
  <1>6. i \in bare /\ i \notin bare' => c \in ClustersOf(i)'
    BY DEF ClustersOf
  <1>7. \A j \in instances' \ bare' : ClustersOf(j)' # {}
    BY <1>3, <1>6 DEF AdminTypeOK, ReferencesHold
  <1> QED BY <1>1, <1>2, <1>4, <1>5, <1>7 DEF ReferencesHold

\* Deleting an instance takes its clusters and profiles along.
LEMMA DeleteInstanceKeeps ==
  ASSUME AdminInv, NEW i \in Instances, NEW held, DeleteInstance(i, held)
  PROVE  AdminInv'
  <1> USE AdminAssumption DEF DeleteInstance, AdminInv
  <1>1. AdminTypeOK'
    BY DEF AdminTypeOK, ReferencesHold, Types
  <1>2. stored' = memory'
    BY DEF Saved
  <1>3. \A j \in Instances \ {i} : ClustersOf(j)' = ClustersOf(j)
    BY DEF ClustersOf
  <1>4. \A d \in clusters' : d[1] \in instances'
    BY DEF AdminTypeOK, ReferencesHold
  <1>5. ASSUME NEW p \in profiles'
        PROVE  p[1] \in instances' /\ route'[p] \subseteq ClustersOf(p[1])'
    <2>1. p \in profiles /\ p \in Instances \X Profiles /\ p[1] # i /\ p[1] \in Instances
      BY <1>5 DEF AdminTypeOK
    <2>2. route'[p] = route[p]
      BY <2>1
    <2> QED BY <2>1, <2>2, <1>3 DEF ReferencesHold
  <1>6. \A j \in instances' \ bare' : ClustersOf(j)' # {}
    BY <1>3 DEF AdminTypeOK, ReferencesHold
  <1> QED BY <1>1, <1>2, <1>4, <1>5, <1>6, ZenonT(30) DEF ReferencesHold

\* A deleted cluster was not the last one and no profile named it.
LEMMA DeleteClusterKeeps ==
  ASSUME AdminInv, NEW i \in Instances, NEW c \in Clusters, NEW held,
         DeleteCluster(i, c, held)
  PROVE  AdminInv'
  <1> USE AdminAssumption DEF DeleteCluster, AdminInv
  <1>1. AdminTypeOK'
    BY DEF AdminTypeOK, ReferencesHold, Types
  <1>2. stored' = memory'
    BY DEF Saved
  <1>3. /\ \A j \in Instances \ {i} : ClustersOf(j)' = ClustersOf(j)
        /\ ClustersOf(i)' = ClustersOf(i) \ {c}
    BY DEF ClustersOf
  <1>4. \A d \in clusters' : d[1] \in instances'
    BY DEF ReferencesHold
  <1>5. ASSUME NEW p \in profiles'
        PROVE  p[1] \in instances' /\ route'[p] \subseteq ClustersOf(p[1])'
    <2>1. p \in profiles /\ p[1] \in Instances /\ route' = route
      BY <1>5 DEF AdminTypeOK
    <2>2. CASE p[1] = i
      BY <2>1, <2>2, <1>3 DEF ReferencesHold
    <2>3. CASE p[1] # i
      BY <2>1, <2>3, <1>3 DEF ReferencesHold
    <2> QED BY <2>2, <2>3
  <1>6. \A j \in instances' \ bare' : ClustersOf(j)' # {}
    BY <1>3 DEF AdminTypeOK, ReferencesHold
  <1> QED BY <1>1, <1>2, <1>4, <1>5, <1>6 DEF ReferencesHold

\* A profile is stored only with the clusters that exist.
LEMMA ProfilesKeep ==
  ASSUME AdminInv, NEW i \in Instances, NEW p \in Profiles, NEW r \in SUBSET Clusters,
         CreateAppProfile(i, p, r) \/ UpdateAppProfile(i, p, r) \/ DeleteAppProfile(i, p)
  PROVE  AdminInv'
  <1> USE AdminAssumption DEF CreateAppProfile, UpdateAppProfile, DeleteAppProfile,
                              validateRouting, AdminInv
  <1>1. AdminTypeOK'
    BY DEF AdminTypeOK, ReferencesHold, Types
  <1>2. stored' = memory'
    BY DEF Saved
  <1>3. instances' = instances /\ clusters' = clusters /\ bare' = bare
    OBVIOUS
  <1>4. \A j : ClustersOf(j)' = ClustersOf(j)
    BY <1>3 DEF ClustersOf
  <1>5. ASSUME NEW q \in profiles'
        PROVE  q[1] \in instances /\ route'[q] \subseteq ClustersOf(q[1])
    <2>1. CASE q = <<i, p>>
      BY <2>1, <1>5 DEF AdminTypeOK, ReferencesHold
    <2>2. CASE q # <<i, p>>
      <3>1. q \in profiles /\ route'[q] = route[q]
        BY <2>2, <1>5 DEF AdminTypeOK
      <3> QED BY <3>1 DEF ReferencesHold
    <2> QED BY <2>1, <2>2
  <1> QED BY <1>1, <1>2, <1>3, <1>4, <1>5 DEF ReferencesHold

\* A restart loads what the maps already hold.
LEMMA RestartKeeps ==
  ASSUME AdminInv, Restart
  PROVE  AdminInv' /\ memory' = memory
  <1>1. memory' = memory
    BY DEF AdminInv, ReferencesHold, Restart, memory
  <1>2. /\ instances' = instances /\ itype' = itype /\ edition' = edition
        /\ clusters' = clusters /\ nodes' = nodes /\ profiles' = profiles /\ route' = route
    BY <1>1 DEF memory
  <1>3. stored' = stored /\ bare' = bare
    BY DEF Restart
  <1>4. AdminTypeOK'
    BY <1>2, <1>3 DEF AdminInv, AdminTypeOK
  <1>5. \A i : ClustersOf(i)' = ClustersOf(i)
    BY <1>2 DEF ClustersOf
  <1>6. ReferencesHold'
    BY <1>1, <1>2, <1>3, <1>5 DEF AdminInv, ReferencesHold
  <1> QED
    BY <1>1, <1>4, <1>6 DEF AdminInv

\* Every step of the administration keeps the references whole, whatever
\* stands in the way of deletions.
LEMMA AdminStep ==
  ASSUME AdminInv, NEW held, NEW heldClusters, AdminNext(held, heldClusters)
  PROVE  AdminInv'
  <1>1. CASE Restart
    BY <1>1, RestartKeeps
  <1>2. ASSUME NEW i \in Instances, NEW t \in Types, NEW e \in Editions,
               NEW cs \in SUBSET Clusters, NEW n \in NodeCounts, NEW done \in SUBSET cs,
               NEW complete \in BOOLEAN, CreateInstance(i, t, e, n, cs, done, complete)
        PROVE  AdminInv'
    BY <1>2, CreateInstanceKeeps
  <1>3. ASSUME NEW i \in Instances, NEW p \in Profiles, DeleteAppProfile(i, p)
        PROVE  AdminInv'
    <2>1. {} \in SUBSET Clusters
      OBVIOUS
    <2> QED BY <1>3, <2>1, ProfilesKeep
  <1>4. ASSUME NEW i \in Instances, DeleteInstance(i, i \in held)
        PROVE  AdminInv'
    BY <1>4, DeleteInstanceKeeps
  <1>5. ASSUME NEW i \in Instances, NEW c \in Clusters,
               DeleteCluster(i, c, <<i, c>> \in heldClusters)
        PROVE  AdminInv'
    BY <1>5, DeleteClusterKeeps
  <1> QED
    BY <1>1, <1>2, <1>3, <1>4, <1>5, UpdateInstanceKeeps, PartialUpdateInstanceKeeps,
       ClustersKeep, ProfilesKeep
   , ZenonT(30) DEF AdminNext

\* Instance administration never leaves a dangling reference: clusters and
\* profiles belong to registered instances, profiles route to existing
\* clusters, an instance keeps a cluster once it has one, and the tables hold
\* what the maps hold, for any number of instances, clusters and profiles.
THEOREM AdminReferences == Spec => []ReferencesHold
  <1>1. AdminInv /\ [Next]_adminVars => AdminInv'
    <2>1. ASSUME AdminInv, Next PROVE AdminInv'
      BY <2>1, AdminStep DEF Next
    <2>2. ASSUME AdminInv, UNCHANGED adminVars PROVE AdminInv'
      BY <2>2, ZenonT(30) DEF AdminInv, AdminTypeOK, ReferencesHold, adminVars, memory, ClustersOf
    <2> QED BY <2>1, <2>2
  <1>2. AdminInv => ReferencesHold
    BY DEF AdminInv
  <1> QED BY AdminStart, <1>1, <1>2, PTL DEF Spec

-----------------------------------------------------------------------------
(* Backups.  Placed and Whole are what LiveBackupHasCluster and              *)
(* SnapshotsWhole lack to be inductive: the CreateBackup under way holds a    *)
(* cluster that exists and has encoded the schema its table still has.       *)

BackupTypes ==
  /\ clock \in Int
  /\ expire \in [Names -> Int] /\ listed \in [Names -> Int]
  /\ schema \in [Tables -> SUBSET Fams] /\ rows \in [Tables -> SUBSET Fams]
  /\ manifest \in [Names -> SUBSET Fams] /\ snapshot \in [Names -> SUBSET Fams]
  /\ creating # <<>> => /\ creating[1] \in Names /\ creating[3] \in Tables
                         /\ creating[4] \in Int

Placed ==
  /\ LiveBackupHasCluster
  /\ Strict /\ creating # <<>> => Cluster(creating[1]) \in clusters

Whole ==
  /\ SnapshotsWhole
  /\ creating # <<>> => encoded = schema[creating[3]]

BackupInv == BackupTypes /\ Placed /\ Whole

\* A cluster with a live backup, in an instance that has one, survives every
\* step of the administration.
LEMMA HeldClustersStay ==
  ASSUME AdminInv, NEW held, NEW heldClusters, AdminNext(held, heldClusters),
         NEW c \in clusters, c \in heldClusters, c[1] \in held
  PROVE  c \in clusters'
  <1>1. CASE Restart
    BY <1>1, RestartKeeps DEF memory
  <1>2. ASSUME NEW i \in Instances, DeleteInstance(i, i \in held)
        PROVE  c \in clusters'
    <2>1. i # c[1]
      BY <1>2 DEF DeleteInstance
    <2>2. c \notin {i} \X Clusters
      BY <2>1
    <2> QED BY <1>2, <2>2 DEF DeleteInstance
  <1>3. ASSUME NEW i \in Instances, NEW d \in Clusters,
               DeleteCluster(i, d, <<i, d>> \in heldClusters)
        PROVE  c \in clusters'
    BY <1>3, ZenonT(30) DEF DeleteCluster
  <1>4. ASSUME NEW i, NEW t, NEW e, NEW n, NEW cs, NEW done, NEW complete, NEW paths, NEW d,
               NEW p, NEW r,
               \/ CreateInstance(i, t, e, n, cs, done, complete)
               \/ UpdateInstance(i, t) \/ PartialUpdateInstance(i, paths, t, e)
               \/ CreateCluster(i, d, n) \/ UpdateCluster(i, d, n) \/ PartialUpdateCluster(i, d, n)
               \/ CreateAppProfile(i, p, r) \/ UpdateAppProfile(i, p, r) \/ DeleteAppProfile(i, p)
        PROVE  c \in clusters'
    BY <1>4
    DEF CreateInstance, UpdateInstance, PartialUpdateInstance, CreateCluster, UpdateCluster,
        PartialUpdateCluster, CreateAppProfile, UpdateAppProfile, DeleteAppProfile
  <1> QED
    BY <1>1, <1>2, <1>3, <1>4 DEF AdminNext

\* Administration steps: a live backup keeps its cluster, and the tables of a
\* deleted instance lose schema and rows together.
LEMMA AdministerKeeps ==
  ASSUME AdminInv, BackupInv, Administer
  PROVE  AdminInv' /\ BackupInv'
  <1> DEFINE inTheWay == {Cluster(b) : b \in backupsUnder(Instances \X Clusters)}
  <1>1. AdminNext({c[1] : c \in inTheWay}, inTheWay) /\ creating = <<>> /\ creating' = <<>>
    BY DEF Administer, muFree
  <1>2. AdminInv'
    BY <1>1, AdminStep
  <1> DEFINE gone == instances \ instances'
  <1>3. /\ schema' = [t \in Tables |-> IF t[1] \in gone THEN {} ELSE schema[t]]
        /\ rows' = [t \in Tables |-> IF t[1] \in gone THEN {} ELSE rows[t]]
        /\ UNCHANGED <<clock, expire, listed, manifest, snapshot>>
    BY ZenonT(30) DEF Administer, entryVars
  <1> HIDE DEF gone
  <1>6. BackupTypes'
    BY <1>1, <1>3 DEF BackupInv, BackupTypes
  <1>7. Whole'
    BY <1>1, <1>3 DEF BackupInv, Whole, SnapshotsWhole
  <1>4. ASSUME Strict, NEW b \in Names, Exists(b)', clock' < expire'[b], b \notin revived'
        PROVE  Cluster(b)' \in clusters'
    <2>1. Exists(b) /\ clock < expire[b] /\ b \notin revived /\ Cluster(b)' = Cluster(b)
      BY <1>4 DEF Administer, entryVars, Exists, Cluster
    <2>2. Cluster(b) \in clusters /\ Cluster(b) \in Instances \X Clusters
      BY <1>4, <2>1 DEF BackupInv, Placed, LiveBackupHasCluster, AdminInv, AdminTypeOK
    <2>3. Cluster(b) \in inTheWay /\ Cluster(b)[1] \in {c[1] : c \in inTheWay}
      BY <2>1, <2>2 DEF backupsUnder
    <2> HIDE DEF inTheWay
    <2> QED BY <1>1, <2>1, <2>2, <2>3, HeldClustersStay
  <1>5. Placed'
    BY <1>1, <1>4 DEF Placed, LiveBackupHasCluster
  <1> QED BY <1>2, <1>5, <1>6, <1>7 DEF BackupInv

\* The steps on tables hold tbl.mu, so they leave the table of a CreateBackup
\* under way alone, and they change schema and rows together.
LEMMA TablesKeep ==
  ASSUME BackupInv, NEW t \in Tables, NEW f \in Fams,
         CreateTable(t) \/ DeleteTable(t) \/ ModifyTable(t, f)
  PROVE  BackupInv'
  <1>1. UNCHANGED <<clusters, clock, expire, listed, manifest, snapshot, creating, encoded, revived>>
    BY DEF CreateTable, DeleteTable, ModifyTable, entryVars, adminVars, memory
  <1>2. PICK fs \in SUBSET Fams : schema' = [schema EXCEPT ![t] = fs] /\ rows' = [rows EXCEPT ![t] = fs]
    BY DEF CreateTable, DeleteTable, ModifyTable, BackupInv, BackupTypes
  <1>3. creating # <<>> => creating[3] # t
    BY DEF CreateTable, DeleteTable, ModifyTable, muFree
  <1>4. BackupTypes'
    BY <1>1, <1>2 DEF BackupInv, BackupTypes
  <1>5. Placed'
    BY <1>1 DEF BackupInv, Placed, LiveBackupHasCluster, Exists, Cluster
  <1>6. Whole'
    BY <1>1, <1>2, <1>3 DEF BackupInv, BackupTypes, Whole, SnapshotsWhole
  <1> QED BY <1>4, <1>5, <1>6 DEF BackupInv

\* CreateBackup, up to its transaction.
LEMMA BeginKeeps ==
  ASSUME BackupInv, NEW b \in Names, NEW t \in Tables, NEW k, NEW e \in Int,
         BeginCreateBackup(b, t, k, e)
  PROVE  BackupInv'
  <1>1. UNCHANGED <<clusters, clock, schema, rows, expire, listed, manifest, snapshot, revived>>
    BY ZenonT(30) DEF BeginCreateBackup, entryVars, tableVars, adminVars, memory
  <1>2. creating' = <<b, k, t, e, clock>> /\ encoded' = schema[t]
    BY ZenonT(30) DEF BeginCreateBackup
  <1>3. Strict => Cluster(b) \in clusters
    BY DEF BeginCreateBackup, requireCluster
  <1>4. BackupTypes'
    BY <1>1, <1>2, ZenonT(30) DEF BackupInv, BackupTypes
  <1>5. Placed'
    BY <1>1, <1>2, <1>3, ZenonT(30) DEF BackupInv, Placed, LiveBackupHasCluster, Exists, Cluster
  <1>6. Whole'
    BY <1>1, <1>2 DEF BackupInv, Whole, SnapshotsWhole
  <1> QED BY <1>4, <1>5, <1>6, ZenonT(30) DEF BackupInv

\* What the transactions that write or remove one backup have in common.
LEMMA EntryKeeps ==
  ASSUME BackupInv, NEW b \in Names, NEW e \in Int, NEW fs \in SUBSET Fams,
         UNCHANGED <<clusters, clock, schema, rows>>,
         creating' = <<>> \/ (creating' = creating /\ encoded' = encoded),
         listed' \in [Names -> Int],
         expire' = [expire EXCEPT ![b] = e],
         manifest' = [manifest EXCEPT ![b] = fs], snapshot' = [snapshot EXCEPT ![b] = fs],
         revived \ {b} \subseteq revived',
         Strict /\ e # NoTime /\ clock < e /\ b \notin revived' => Cluster(b) \in clusters
  PROVE  BackupInv'
  <1>1. BackupTypes'
    BY DEF BackupInv, BackupTypes
  <1>2. ASSUME Strict, NEW x \in Names, Exists(x)', clock' < expire'[x], x \notin revived'
        PROVE  Cluster(x) \in clusters
    <2>1. CASE x = b
      BY <1>2, <2>1 DEF BackupInv, BackupTypes, Exists
    <2>2. CASE x # b
      BY <1>2, <2>2 DEF BackupInv, BackupTypes, Exists, Placed, LiveBackupHasCluster
    <2> QED BY <2>1, <2>2
  <1>3. Placed'
    BY <1>2 DEF BackupInv, Placed, LiveBackupHasCluster, Cluster
  <1>4. Whole'
    BY DEF BackupInv, BackupTypes, Whole, SnapshotsWhole
  <1> QED BY <1>1, <1>3, <1>4 DEF BackupInv

\* Committing a CreateBackup.
LEMMA CommitKeeps ==
  ASSUME BackupInv, CommitCreateBackup
  PROVE  BackupInv'
  <1> DEFINE b == creating[1]
             e == creating[4]
             fs == encoded
  <1>1. b \in Names /\ e \in Int /\ creating[3] \in Tables /\ creating # <<>>
    BY DEF CommitCreateBackup, BackupInv, BackupTypes
  <1>2. fs \in SUBSET Fams /\ rows[creating[3]] = fs
    BY <1>1 DEF BackupInv, BackupTypes, Whole, SnapshotsWhole
  <1>3. /\ UNCHANGED <<clusters, clock, schema, rows, listed>> /\ creating' = <<>>
        /\ expire' = [expire EXCEPT ![b] = e]
        /\ manifest' = [manifest EXCEPT ![b] = fs]
        /\ snapshot' = [snapshot EXCEPT ![b] = rows[creating[3]]]
        /\ revived' = revived \ {b}
    BY DEF CommitCreateBackup, tableVars, adminVars, memory
  <1>4. Strict => Cluster(b) \in clusters
    BY <1>1 DEF BackupInv, Placed
  <1>5. listed' \in [Names -> Int]
    BY <1>3 DEF BackupInv, BackupTypes
  <1> HIDE DEF b, e, fs
  <1> QED BY <1>1, <1>2, <1>3, <1>4, <1>5, EntryKeeps, ZenonT(30)

\* Updating the expiry: at the instant of expiry the cluster may be gone, and
\* then the backup is counted as revived.
LEMMA UpdateKeeps ==
  ASSUME BackupInv, NEW b \in Names, NEW e \in Int, UpdateBackup(b, e)
  PROVE  BackupInv'
  <1>1. /\ UNCHANGED <<clusters, clock, schema, rows, listed, creating, encoded, manifest, snapshot>>
        /\ expire' = [expire EXCEPT ![b] = e]
        /\ Exists(b) /\ ~(clock > expire[b])
        /\ revived' = IF clock = expire[b] /\ Cluster(b) \notin clusters THEN revived \cup {b} ELSE revived
    BY DEF UpdateBackup, liveBackup, tableVars, adminVars, memory
  <1>2. manifest' = [manifest EXCEPT ![b] = manifest[b]] /\ snapshot' = [snapshot EXCEPT ![b] = manifest[b]]
    BY <1>1 DEF BackupInv, BackupTypes, Whole, SnapshotsWhole
  <1>3. manifest[b] \in SUBSET Fams /\ listed' \in [Names -> Int] /\ clock \in Int /\ expire[b] \in Int
    BY <1>1 DEF BackupInv, BackupTypes
  <1>4. revived \ {b} \subseteq revived'
    BY <1>1
  <1>5. Strict /\ b \notin revived' => Cluster(b) \in clusters
    BY <1>1, <1>3 DEF BackupInv, Placed, LiveBackupHasCluster
  <1> QED BY <1>1, <1>2, <1>3, <1>4, <1>5, EntryKeeps, ZenonT(30)

\* Removing a backup.
LEMMA PurgeKeeps ==
  ASSUME BackupInv, NEW b \in Names, purge(b), UNCHANGED <<clusters, clock, schema, rows, creating, encoded>>,
         listed' \in [Names -> Int]
  PROVE  BackupInv'
  <1>1. /\ expire' = [expire EXCEPT ![b] = NoTime] /\ NoTime \in Int
        /\ manifest' = [manifest EXCEPT ![b] = {}]
        /\ snapshot' = [snapshot EXCEPT ![b] = {}]
        /\ revived \ {b} \subseteq revived' /\ {} \in SUBSET Fams
    BY DEF purge, NoTime
  <1> QED BY <1>1, EntryKeeps, ZenonT(30)

\* Copying a backup.
LEMMA CopyKeeps ==
  ASSUME BackupInv, NEW b \in Names, NEW src \in Names, NEW e \in Int, CopyBackup(b, src, e)
  PROVE  BackupInv'
  <1>1. /\ UNCHANGED <<clusters, clock, schema, rows, listed, creating, encoded>>
        /\ expire' = [expire EXCEPT ![b] = e]
        /\ manifest' = [manifest EXCEPT ![b] = manifest[src]]
        /\ snapshot' = [snapshot EXCEPT ![b] = snapshot[src]]
        /\ revived' = revived \ {b}
    BY DEF CopyBackup, tableVars, adminVars, memory
  <1>2. manifest[src] \in SUBSET Fams /\ snapshot[src] = manifest[src] /\ listed' \in [Names -> Int]
    BY <1>1 DEF BackupInv, BackupTypes, Whole, SnapshotsWhole
  <1>3. Strict => Cluster(b) \in clusters
    BY DEF CopyBackup, requireCluster
  <1> QED BY <1>1, <1>2, <1>3, EntryKeeps, ZenonT(30)

\* Restoring, listing, giving up and waiting.
LEMMA OthersKeep ==
  ASSUME BackupInv,
         \/ \E b \in Names, t \in Tables : RestoreTable(t, b)
         \/ AbortCreateBackup \/ ListExpired \/ EndPass \/ Tick
  PROVE  BackupInv'
  <1>1. ASSUME NEW b \in Names, NEW t \in Tables, RestoreTable(t, b)
        PROVE  BackupInv'
    <2>1. /\ UNCHANGED <<clusters, clock, expire, listed, manifest, snapshot, creating, encoded, revived>>
          /\ schema' = [schema EXCEPT ![t] = manifest[b]]
          /\ rows' = [rows EXCEPT ![t] = snapshot[b]]
          /\ creating = <<>>
      BY <1>1 DEF RestoreTable, entryVars, adminVars, memory, muFree
    <2>2. BackupTypes' /\ Whole'
      BY <2>1 DEF BackupInv, BackupTypes, Whole, SnapshotsWhole
    <2>3. Placed'
      BY <2>1 DEF BackupInv, Placed, LiveBackupHasCluster, Exists, Cluster
    <2> QED BY <2>2, <2>3, ZenonT(30) DEF BackupInv
  <1>2. ASSUME AbortCreateBackup \/ ListExpired \/ EndPass \/ Tick
        PROVE  BackupInv'
    <2>1. /\ UNCHANGED <<clusters, schema, rows, expire, manifest, snapshot, revived>>
          /\ creating' = <<>> \/ UNCHANGED <<creating, encoded>>
      BY <1>2 DEF AbortCreateBackup, ListExpired, EndPass, Tick, entryVars, tableVars, adminVars, memory
    <2>2. clock' \in Int /\ (clock' = clock \/ clock' = clock + 1)
      BY <1>2 DEF AbortCreateBackup, ListExpired, EndPass, Tick, BackupInv, BackupTypes
    <2>3. listed' \in [Names -> Int]
      BY <1>2 DEF AbortCreateBackup, ListExpired, EndPass, Tick, BackupInv, BackupTypes, NoTime
    <2>4. BackupTypes'
      BY <2>1, <2>2, <2>3 DEF BackupInv, BackupTypes
    <2>5. Whole'
      BY <2>1 DEF BackupInv, Whole, SnapshotsWhole
    <2>6. \A b \in Names : clock' < expire[b] => clock < expire[b]
      BY <2>2 DEF BackupInv, BackupTypes
    <2>7. Placed'
      BY <2>1, <2>6 DEF BackupInv, Placed, LiveBackupHasCluster, Exists, Cluster
    <2> QED BY <2>4, <2>5, <2>7, ZenonT(30) DEF BackupInv
  <1> QED BY <1>1, <1>2

\* One step of the composition.
LEMMA BackupStep ==
  ASSUME AdminInv, BackupInv, BackupsNext
  PROVE  AdminInv' /\ BackupInv'
  <1>1. CASE Administer
    BY <1>1, AdministerKeeps
  <1>2. ASSUME UNCHANGED adminVars PROVE AdminInv'
    BY <1>2, ZenonT(30) DEF AdminInv, AdminTypeOK, ReferencesHold, adminVars, memory, ClustersOf
  <1>3. CASE \E t \in Tables : CreateTable(t) \/ DeleteTable(t) \/ \E f \in Fams : ModifyTable(t, f)
    <2>1. UNCHANGED adminVars
      BY <1>3 DEF CreateTable, DeleteTable, ModifyTable
    <2>2. PICK t \in Tables : CreateTable(t) \/ DeleteTable(t) \/ \E f \in Fams : ModifyTable(t, f)
      BY <1>3
    <2>3. PICK f \in Fams : CreateTable(t) \/ DeleteTable(t) \/ ModifyTable(t, f)
      <3>1. ASSUME CreateTable(t) \/ DeleteTable(t) PROVE Fams # {}
        BY <3>1 DEF CreateTable, DeleteTable, BackupInv, BackupTypes
      <3> QED BY <2>2, <3>1
    <2> QED BY <1>2, <2>1, <2>3, TablesKeep
  <1>4. ASSUME NEW b \in Names, NEW e \in 1..(2 * MaxTime),
               \/ \E t \in Tables, k \in Kinds : BeginCreateBackup(b, t, k, e)
               \/ UpdateBackup(b, e)
               \/ \E src \in Names : CopyBackup(b, src, e)
        PROVE  AdminInv' /\ BackupInv'
    <2>1. UNCHANGED adminVars
      BY <1>4 DEF BeginCreateBackup, UpdateBackup, CopyBackup
    <2>2. e \in Int
      BY <1>4
    <2> QED BY <1>2, <1>4, <2>1, <2>2, BeginKeeps, UpdateKeeps, CopyKeeps, ZenonT(30)
  <1>5. CASE CommitCreateBackup
    BY <1>2, <1>5, CommitKeeps DEF CommitCreateBackup
  <1>6. ASSUME NEW b \in Names, DeleteBackup(b) \/ PurgeListed(b)
        PROVE  AdminInv' /\ BackupInv'
    <2>1. UNCHANGED <<adminVars, clock, tableVars, creating, encoded>>
      BY <1>6 DEF DeleteBackup, PurgeListed
    <2>2. listed' \in [Names -> Int]
      BY <1>6 DEF DeleteBackup, PurgeListed, BackupInv, BackupTypes, NoTime
    <2>3. CASE purge(b)
      BY <2>1, <2>2, <2>3, <1>2, PurgeKeeps DEF tableVars, adminVars, memory
    <2>4. CASE UNCHANGED entryVars
      <3>0. UNCHANGED <<clock, schema, rows, creating, encoded, expire, manifest, snapshot>>
        BY <2>1, <2>4 DEF tableVars, entryVars
      <3>1. BackupTypes' /\ Whole'
        BY <2>2, <3>0, ZenonT(30) DEF BackupInv, BackupTypes, Whole, SnapshotsWhole
      <3>2. Placed'
        BY <2>1, <2>4, ZenonT(30) DEF adminVars, memory, entryVars, BackupInv, Placed, LiveBackupHasCluster, Exists, Cluster
      <3> QED BY <3>1, <3>2, <1>2, <2>1 DEF BackupInv
    <2> QED BY <1>6, <2>3, <2>4 DEF DeleteBackup, PurgeListed
  <1>7. ASSUME \/ \E b \in Names, t \in Tables : RestoreTable(t, b)
               \/ AbortCreateBackup \/ ListExpired \/ EndPass \/ Tick
        PROVE  AdminInv' /\ BackupInv'
    BY <1>2, <1>7, OthersKeep DEF RestoreTable, AbortCreateBackup, ListExpired, EndPass, Tick
  <1> QED BY <1>1, <1>3, <1>4, <1>5, <1>6, <1>7 DEF BackupsNext

\* AdminInv and BackupInv are an inductive invariant of the composition.
LEMMA BackupInductive == BackupsSpec => [](AdminInv /\ BackupInv)
  <1>1. Init => AdminInv /\ BackupInv
    <2>1. ASSUME Init PROVE BackupTypes /\ Whole
      BY <2>1 DEF Init, BackupTypes, Whole, SnapshotsWhole, NoTime
    <2>2. ASSUME Init PROVE Placed
      BY <2>2 DEF Init, Placed, LiveBackupHasCluster, Exists, NoTime
    <2> QED BY <2>1, <2>2, AdminStart DEF Init, BackupInv
  <1>2. AdminInv /\ BackupInv /\ [BackupsNext]_vars => (AdminInv /\ BackupInv)'
    <2>1. ASSUME AdminInv, BackupInv, UNCHANGED vars PROVE AdminInv' /\ BackupInv'
      <3>1. AdminInv'
        BY <2>1, ZenonT(30) DEF vars, AdminInv, AdminTypeOK, ReferencesHold, adminVars, memory, ClustersOf
      <3>2. BackupTypes' /\ Whole'
        BY <2>1 DEF vars, backupVars, BackupInv, BackupTypes, Whole, SnapshotsWhole
      <3>3. Placed'
        BY <2>1, ZenonT(30) DEF vars, backupVars, adminVars, memory, BackupInv, Placed, LiveBackupHasCluster, Exists, Cluster
      <3> QED BY <3>1, <3>2, <3>3, ZenonT(30) DEF BackupInv
    <2> QED BY <2>1, BackupStep
  <1> QED BY <1>1, <1>2, PTL DEF BackupsSpec

\* With backups, tables and maintenance running beside it, administration
\* still leaves no dangling reference; and in strict mode every unexpired backup
\* lies in an existing cluster, but for one updated at the instant of its
\* expiry.
THEOREM BackupSafety ==
  BackupsSpec => [](ReferencesHold /\ LiveBackupHasCluster)
  <1>1. AdminInv /\ BackupInv => ReferencesHold /\ LiveBackupHasCluster
    BY DEF AdminInv, BackupInv, Placed
  <1> QED BY BackupInductive, <1>1, PTL

\* Every backup, copy and restored table has the schema its rows were written
\* under, although CreateBackup encodes the schema and copies the rows in two
\* steps.
THEOREM BackupsWhole == BackupsSpec => []SnapshotsWhole
  <1>1. BackupInv => SnapshotsWhole
    BY DEF BackupInv, Whole
  <1> QED BY BackupInductive, <1>1, PTL

-----------------------------------------------------------------------------
(* The quota.  checkBackupQuota is asked when CreateBackup begins and the    *)
(* descriptor is written when it commits; what makes the answer good until   *)
(* then is s.mu, which keeps every other writer of descriptors out, and that *)
(* the one which does not take it, the maintenance pass, only removes.       *)

Existing == {x \in Names : Exists(x)}

Created(b, t, k) ==
  {x \in Names \ copied : Exists(x) /\ Cluster(x) = Cluster(b) /\ source[x] = t /\ kind[x] = k}

Counted(b, t, k) ==
  {x \in Names : Exists(x) /\ Cluster(x) = Cluster(b) /\ source[x] = t /\ kind[x] = k}

WithinQuota ==
  \A b \in Names, t \in Tables \cup {NoTable}, k \in Kinds :
    Cardinality(Created(b, t, k)) <= MaxPerTable[k]

Admitted ==
  creating # <<>> =>
    /\ creating[2] \in Kinds /\ ~Exists(creating[1])
    /\ checkBackupQuota(creating[1], creating[3], creating[2])

DescriptorTypes ==
  /\ source \in [Names -> Tables \cup {NoTable}]
  /\ kind \in [Names -> Kinds \cup {"STANDARD"}]

QuotaInv ==
  /\ DescriptorTypes
  /\ IsFiniteSet(Existing) /\ WithinQuota /\ Admitted

\* A set that shrinks stays within a limit it was within.
LEMMA StaysWithin ==
  ASSUME NEW S, IsFiniteSet(S), NEW T \in SUBSET S, NEW n \in Nat
  PROVE  /\ IsFiniteSet(T)
         /\ Cardinality(S) <= n => Cardinality(T) <= n
         /\ Cardinality(S) < n => Cardinality(T) < n
  <1>1. /\ IsFiniteSet(T) /\ Cardinality(T) <= Cardinality(S)
        /\ Cardinality(S) \in Nat /\ Cardinality(T) \in Nat
    BY FS_Subset, FS_CardinalityType
  <1> QED BY <1>1

\* Only existing backups are counted, so the counts are of finite sets.
LEMMA CountsFinite ==
  ASSUME QuotaInv, NEW b, NEW t, NEW k
  PROVE  IsFiniteSet(Created(b, t, k)) /\ IsFiniteSet(Counted(b, t, k))
  <1>1. Created(b, t, k) \in SUBSET Existing /\ Counted(b, t, k) \in SUBSET Existing
    BY DEF Created, Counted, Existing
  <1>2. IsFiniteSet(Existing)
    BY DEF QuotaInv
  <1> QED BY <1>1, <1>2, FS_Subset, ZenonT(30)

\* A step that counts no backup it did not count before keeps the quota.
LEMMA ShrinkingKeeps ==
  ASSUME QuotaInv, DescriptorTypes',
         IsFiniteSet(Existing'),
         \A b, t, k : Created(b, t, k)' \subseteq Created(b, t, k),
         Admitted'
  PROVE  QuotaInv'
  <1>1. ASSUME NEW b \in Names, NEW t \in Tables \cup {NoTable}, NEW k \in Kinds
        PROVE  Cardinality(Created(b, t, k)') <= MaxPerTable[k]
    <2>1. PICK S : S = Created(b, t, k)
      OBVIOUS
    <2>2. PICK T : T = Created(b, t, k)'
      OBVIOUS
    <2>3. T \in SUBSET S /\ IsFiniteSet(S) /\ Cardinality(S) <= MaxPerTable[k]
      BY <2>1, <2>2, CountsFinite, ZenonT(30) DEF QuotaInv, WithinQuota
    <2>4. MaxPerTable[k] \in Nat
      BY BackupAssumption
    <2>5. Cardinality(T) <= MaxPerTable[k]
      BY <2>3, <2>4, StaysWithin
    <2> QED BY <2>2, <2>5
  <1>2. WithinQuota'
    BY <1>1 DEF WithinQuota
  <1> QED BY <1>2 DEF QuotaInv

\* A step that leaves the descriptors alone.
LEMMA DescriptorsStay ==
  ASSUME QuotaInv, UNCHANGED <<expire, source, kind, copied>>,
         creating' = <<>> \/ creating' = creating
  PROVE  QuotaInv'
  <1>1. Existing' = Existing /\ IsFiniteSet(Existing)
    BY DEF Existing, Exists, QuotaInv
  <1>2. ASSUME NEW b, NEW t, NEW k PROVE Created(b, t, k)' \subseteq Created(b, t, k)
    BY DEF Created, Exists, Cluster
  <1>3. Admitted'
    <2>1. CASE creating' = <<>>
      BY <2>1, ZenonT(30) DEF Admitted
    <2>2. CASE creating' = creating /\ creating # <<>>
      <3>1. PICK b, t, k : b = creating[1] /\ t = creating[3] /\ k = creating[2]
        OBVIOUS
      <3>2. k \in Kinds /\ ~Exists(b) /\ checkBackupQuota(b, t, k)
        BY <2>2, <3>1 DEF QuotaInv, Admitted
      <3>3. ~Exists(b)' /\ checkBackupQuota(b, t, k)'
        BY <3>2 DEF Exists, checkBackupQuota
      <3> QED BY <2>2, <3>1, <3>2, <3>3 DEF Admitted, checkBackupQuota, Exists
    <2> QED BY <2>1, <2>2
  <1>4. DescriptorTypes'
    BY DEF QuotaInv, DescriptorTypes
  <1> QED BY <1>1, <1>2, <1>3, <1>4, ShrinkingKeeps

\* Removing a backup lowers every count, also that of a CreateBackup under way.
LEMMA PurgeQuota ==
  ASSUME BackupInv, QuotaInv, NEW b \in Names, purge(b), UNCHANGED creating
  PROVE  QuotaInv'
  <1>1. /\ expire' = [expire EXCEPT ![b] = NoTime]
        /\ kind' = [kind EXCEPT ![b] = "STANDARD"]
        /\ source' = [source EXCEPT ![b] = NoTable]
        /\ copied' = copied \ {b}
    BY DEF purge
  <1>2. \A x \in Names : Exists(x)' => x # b /\ Exists(x)
    BY <1>1 DEF Exists, BackupInv, BackupTypes
  <1>3. Existing' \in SUBSET Existing /\ IsFiniteSet(Existing)
    BY <1>2 DEF Existing, QuotaInv
  <1>4. IsFiniteSet(Existing')
    BY <1>3, FS_Subset
  <1>5. \A x \in Names : x # b => kind'[x] = kind[x] /\ source'[x] = source[x] /\ (x \in copied' <=> x \in copied)
    BY <1>1
  <1>6. ASSUME NEW y, NEW t, NEW k PROVE Created(y, t, k)' \subseteq Created(y, t, k)
    BY <1>2, <1>5 DEF Created, Cluster
  <1>7. DescriptorTypes'
    BY <1>1 DEF QuotaInv, DescriptorTypes
  <1>8. ASSUME creating # <<>>
        PROVE  /\ creating[2] \in Kinds /\ ~Exists(creating[1])'
               /\ checkBackupQuota(creating[1], creating[3], creating[2])'
    <2>1. /\ creating[2] \in Kinds /\ ~Exists(creating[1]) /\ creating[1] \in Names
          /\ checkBackupQuota(creating[1], creating[3], creating[2])
      BY <1>8 DEF QuotaInv, Admitted, BackupInv, BackupTypes
    <2>2. PICK S : S = Counted(creating[1], creating[3], creating[2])
      OBVIOUS
    <2>3. PICK T : T = Counted(creating[1], creating[3], creating[2])'
      BY ZenonT(30)
    <2>4. T \in SUBSET S
      BY <1>2, <1>5, <2>2, <2>3, ZenonT(30) DEF Counted, Cluster
    <2>5. IsFiniteSet(S) /\ Cardinality(S) < MaxPerTable[creating[2]]
      <3>1. IsFiniteSet(S)
        BY <2>2, CountsFinite, ZenonT(30)
      <3>2. Cardinality(S) < MaxPerTable[creating[2]]
        BY <2>1, <2>2, ZenonT(30) DEF checkBackupQuota, Counted
      <3> QED BY <3>1, <3>2
    <2>6. MaxPerTable[creating[2]] \in Nat
      BY <2>1, BackupAssumption
    <2>7. Cardinality(T) < MaxPerTable[creating[2]]
      BY <2>4, <2>5, <2>6, StaysWithin, ZenonT(30)
    <2>8. checkBackupQuota(creating[1], creating[3], creating[2])'
      BY <2>3, <2>7 DEF checkBackupQuota, Counted
    <2> QED BY <1>2, <2>1, <2>8
  <1>9. Admitted'
    BY <1>8 DEF Admitted
  <1> QED BY <1>4, <1>6, <1>7, <1>9, ShrinkingKeeps

\* CreateBackup is admitted below the quota of its type.
LEMMA BeginQuota ==
  ASSUME QuotaInv, NEW b \in Names, NEW t \in Tables, NEW k \in Kinds, NEW e,
         BeginCreateBackup(b, t, k, e)
  PROVE  QuotaInv'
  <1>1. /\ UNCHANGED <<expire, source, kind, copied>> /\ creating' = <<b, k, t, e, clock>>
        /\ ~Exists(b) /\ checkBackupQuota(b, t, k)
    BY DEF BeginCreateBackup, entryVars
  <1>2. Existing' = Existing /\ IsFiniteSet(Existing)
    BY <1>1, ZenonT(30) DEF Existing, Exists, QuotaInv
  <1>3. ASSUME NEW y, NEW u, NEW j PROVE Created(y, u, j)' \subseteq Created(y, u, j)
    BY <1>1, ZenonT(30) DEF Created, Exists, Cluster
  <1>4. DescriptorTypes'
    BY <1>1, ZenonT(30) DEF QuotaInv, DescriptorTypes
  <1>5. ~Exists(b)' /\ checkBackupQuota(b, t, k)'
    BY <1>1, ZenonT(30) DEF Exists, checkBackupQuota
  <1>6. creating'[1] = b /\ creating'[2] = k /\ creating'[3] = t
    BY <1>1, ZenonT(30)
  <1>7. Admitted'
    BY <1>5, <1>6 DEF Admitted, checkBackupQuota, Exists
  <1> QED BY <1>2, <1>3, <1>4, <1>7, ShrinkingKeeps, ZenonT(30)

\* Committing adds one backup to the one count that was admitted below its
\* limit: the copies that count includes only leave more room.
LEMMA CommitQuota ==
  ASSUME BackupInv, QuotaInv, CommitCreateBackup
  PROVE  QuotaInv'
  <1>1. PICK b, t, k : b = creating[1] /\ t = creating[3] /\ k = creating[2]
    BY ZenonT(30)
  <1>2. b \in Names /\ t \in Tables /\ k \in Kinds /\ ~Exists(b) /\ checkBackupQuota(b, t, k)
    BY <1>1 DEF CommitCreateBackup, QuotaInv, Admitted, BackupInv, BackupTypes
  <1>3. /\ expire' = [expire EXCEPT ![b] = creating[4]]
        /\ kind' = [kind EXCEPT ![b] = k] /\ source' = [source EXCEPT ![b] = t]
        /\ copied' = copied \ {b} /\ creating' = <<>>
    BY <1>1 DEF CommitCreateBackup
  <1>4. \A x \in Names : x # b => /\ (Exists(x)' <=> Exists(x))
                                 /\ kind'[x] = kind[x] /\ source'[x] = source[x]
                                 /\ (x \in copied' <=> x \in copied)
    BY <1>3 DEF Exists, BackupInv, BackupTypes
  <1>5. DescriptorTypes'
    BY <1>2, <1>3 DEF QuotaInv, DescriptorTypes
  <1>6. IsFiniteSet(Existing')
    <2>1. Existing' \in SUBSET (Existing \cup {b})
      BY <1>4 DEF Existing
    <2>2. IsFiniteSet(Existing \cup {b})
      BY FS_AddElement DEF QuotaInv
    <2> QED BY <2>1, <2>2, FS_Subset, ZenonT(30)
  <1>7. ASSUME NEW y \in Names, NEW u \in Tables \cup {NoTable}, NEW j \in Kinds
        PROVE  Cardinality(Created(y, u, j)') <= MaxPerTable[j]
    <2>1. PICK S : S = Created(y, u, j)
      OBVIOUS
    <2>2. PICK T : T = Created(y, u, j)'
      BY ZenonT(30)
    <2>3. IsFiniteSet(S) /\ Cardinality(S) <= MaxPerTable[j] /\ MaxPerTable[j] \in Nat
      BY <2>1, CountsFinite, BackupAssumption DEF QuotaInv, WithinQuota
    <2>4. CASE ~(Cluster(b) = Cluster(y) /\ t = u /\ k = j)
      <3>1. b \notin T
        BY <1>2, <1>3, <2>2, <2>4, ZenonT(30) DEF Created, Cluster, QuotaInv, DescriptorTypes
      <3>2. T \in SUBSET S
        BY <1>4, <2>1, <2>2, <3>1, ZenonT(30) DEF Created, Cluster
      <3>3. Cardinality(T) <= MaxPerTable[j]
        BY <2>3, <3>2, StaysWithin
      <3> QED BY <2>2, <3>3, ZenonT(30)
    <2>5. CASE Cluster(b) = Cluster(y) /\ t = u /\ k = j
      <3>1. PICK C : C = Counted(b, t, k)
        OBVIOUS
      <3>2. IsFiniteSet(C)
        BY <3>1, CountsFinite, ZenonT(30)
      <3>3. Cardinality(C) < MaxPerTable[j]
        BY <1>2, <2>5, <3>1, ZenonT(30) DEF checkBackupQuota, Counted
      <3>4. b \notin C
        BY <1>2, <3>1 DEF Counted
      <3>5. IsFiniteSet(C \cup {b}) /\ Cardinality(C \cup {b}) = Cardinality(C) + 1
        BY <3>2, <3>4, FS_AddElement, ZenonT(30)
      <3>6. T \in SUBSET (C \cup {b})
        BY <1>4, <2>2, <2>5, <3>1 DEF Created, Counted, Cluster
      <3>7. Cardinality(C) \in Nat
        BY <3>2, FS_CardinalityType
      <3>8. Cardinality(C \cup {b}) <= MaxPerTable[j]
        BY <2>3, <3>3, <3>5, <3>7
      <3>9. Cardinality(T) <= MaxPerTable[j]
        BY <2>3, <3>5, <3>6, <3>8, StaysWithin
      <3> QED BY <2>2, <3>9
    <2> QED BY <2>4, <2>5
  <1>8. WithinQuota'
    BY <1>7 DEF WithinQuota
  <1> QED BY <1>3, <1>5, <1>6, <1>8 DEF QuotaInv, Admitted

\* A copy is marked as one, so it counts for no quota.
LEMMA CopyQuota ==
  ASSUME BackupInv, QuotaInv, NEW b \in Names, NEW src \in Names, NEW e, CopyBackup(b, src, e)
  PROVE  QuotaInv'
  <1>1. /\ expire' = [expire EXCEPT ![b] = e]
        /\ kind' = [kind EXCEPT ![b] = "STANDARD"]
        /\ source' = [source EXCEPT ![b] = source[src]]
        /\ copied' = copied \cup {b} /\ creating' = <<>>
    BY DEF CopyBackup, muFree
  <1>2. \A x \in Names : x # b => /\ (Exists(x)' <=> Exists(x))
                                 /\ kind'[x] = kind[x] /\ source'[x] = source[x]
                                 /\ (x \in copied' <=> x \in copied)
    BY <1>1 DEF Exists, BackupInv, BackupTypes
  <1>3. IsFiniteSet(Existing')
    <2>1. Existing' \in SUBSET (Existing \cup {b})
      BY <1>2 DEF Existing
    <2>2. IsFiniteSet(Existing \cup {b})
      BY FS_AddElement DEF QuotaInv
    <2> QED BY <2>1, <2>2, FS_Subset, ZenonT(30)
  <1>4. ASSUME NEW y, NEW t, NEW k PROVE Created(y, t, k)' \subseteq Created(y, t, k)
    BY <1>1, <1>2 DEF Created, Cluster
  <1>5. DescriptorTypes'
    BY <1>1 DEF QuotaInv, DescriptorTypes
  <1>6. Admitted'
    BY <1>1 DEF Admitted
  <1> QED BY <1>3, <1>4, <1>5, <1>6, ShrinkingKeeps, ZenonT(30)

\* A backup whose expiry is moved stays the backup of the table it was.
LEMMA UpdateQuota ==
  ASSUME BackupInv, QuotaInv, NEW b \in Names, NEW e, UpdateBackup(b, e)
  PROVE  QuotaInv'
  <1>1. /\ expire' = [expire EXCEPT ![b] = e] /\ Exists(b)
        /\ UNCHANGED <<kind, source, copied>> /\ creating = <<>> /\ creating' = <<>>
    BY DEF UpdateBackup, liveBackup, muFree
  <1>2. \A x \in Names : Exists(x)' => Exists(x)
    BY <1>1 DEF Exists, BackupInv, BackupTypes
  <1>3. Existing' \in SUBSET Existing /\ IsFiniteSet(Existing)
    BY <1>2 DEF Existing, QuotaInv
  <1>4. IsFiniteSet(Existing')
    BY <1>3, FS_Subset, ZenonT(30)
  <1>5. ASSUME NEW y, NEW t, NEW k PROVE Created(y, t, k)' \subseteq Created(y, t, k)
    BY <1>1, <1>2 DEF Created, Cluster
  <1>6. DescriptorTypes' /\ Admitted'
    BY <1>1 DEF QuotaInv, DescriptorTypes, Admitted
  <1> QED BY <1>4, <1>5, <1>6, ShrinkingKeeps, ZenonT(30)

\* One step of the composition keeps the quota.
LEMMA QuotaStep ==
  ASSUME BackupInv, QuotaInv, BackupsNext
  PROVE  QuotaInv'
  <1>1. CASE Administer
    BY <1>1, DescriptorsStay DEF Administer, entryVars
  <1>2. CASE \E t \in Tables : CreateTable(t) \/ DeleteTable(t) \/ \E f \in Fams : ModifyTable(t, f)
    <2>1. UNCHANGED entryVars /\ UNCHANGED creating
      BY <1>2 DEF CreateTable, DeleteTable, ModifyTable
    <2> QED BY <2>1, DescriptorsStay, ZenonT(30) DEF entryVars
  <1>3. ASSUME NEW b \in Names, NEW e \in 1..(2 * MaxTime),
               \/ \E t \in Tables, k \in Kinds : BeginCreateBackup(b, t, k, e)
               \/ UpdateBackup(b, e)
               \/ \E src \in Names : CopyBackup(b, src, e)
        PROVE  QuotaInv'
    BY <1>3, BeginQuota, UpdateQuota, CopyQuota
  <1>4. CASE CommitCreateBackup
    BY <1>4, CommitQuota
  <1>5. ASSUME NEW b \in Names, DeleteBackup(b) \/ PurgeListed(b)
        PROVE  QuotaInv'
    <2>1. UNCHANGED creating /\ (purge(b) \/ UNCHANGED entryVars)
      BY <1>5 DEF DeleteBackup, PurgeListed
    <2>2. CASE UNCHANGED entryVars
      BY <2>1, <2>2, DescriptorsStay DEF entryVars
    <2> QED BY <2>1, <2>2, PurgeQuota, ZenonT(30)
  <1>6. CASE \/ \E b \in Names, t \in Tables : RestoreTable(t, b)
             \/ AbortCreateBackup \/ ListExpired \/ EndPass \/ Tick
    <2>1. UNCHANGED entryVars /\ (creating' = <<>> \/ creating' = creating)
      BY <1>6 DEF RestoreTable, AbortCreateBackup, ListExpired, EndPass, Tick
    <2> QED BY <2>1, DescriptorsStay, ZenonT(30) DEF entryVars
  <1> QED BY <1>1, <1>2, <1>3, <1>4, <1>5, <1>6, ZenonT(30) DEF BackupsNext

\* QuotaInv is an invariant.
LEMMA QuotaInductive == BackupsSpec => []QuotaInv
  <1>1. Init => QuotaInv
    <2> SUFFICES ASSUME Init PROVE QuotaInv
      OBVIOUS
    <2>1. DescriptorTypes /\ Admitted
      BY DEF Init, DescriptorTypes, Admitted
    <2>2. \A x \in Names : ~Exists(x)
      BY DEF Init, Exists
    <2>3. Existing = {} /\ \A b, t, k : Created(b, t, k) = {}
      BY <2>2 DEF Existing, Created
    <2>4. IsFiniteSet(Existing) /\ \A b, t, k : Cardinality(Created(b, t, k)) = 0
      BY <2>3, FS_EmptySet, ZenonT(30)
    <2>5. WithinQuota
      BY <2>4, BackupAssumption DEF WithinQuota
    <2> QED BY <2>1, <2>4, <2>5 DEF QuotaInv
  <1>2. BackupInv /\ QuotaInv /\ [BackupsNext]_vars => QuotaInv'
    <2>1. ASSUME QuotaInv, UNCHANGED vars PROVE QuotaInv'
      BY <2>1, DescriptorsStay DEF vars, backupVars
    <2> QED BY <2>1, QuotaStep
  <1> QED BY <1>1, <1>2, BackupInductive, PTL DEF BackupsSpec

\* The backups created of a table in a cluster never exceed the quota of their
\* type, whatever is purged, copied, updated or re-created between the count
\* of checkBackupQuota and the transaction that writes the descriptor.
THEOREM QuotaKept == BackupsSpec => []QuotaHolds
  <1>1. QuotaInv => QuotaHolds
    <2> SUFFICES ASSUME QuotaInv, NEW b \in Names, NEW k \in Kinds
                 PROVE  Cardinality(Created(b, source[b], k)) <= MaxPerTable[k]
      BY DEF QuotaHolds, Created
    <2>1. source[b] \in Tables \cup {NoTable}
      BY DEF QuotaInv, DescriptorTypes
    <2> QED BY <2>1, ZenonT(30) DEF QuotaInv, WithinQuota
  <1> QED BY <1>1, QuotaInductive, PTL

-----------------------------------------------------------------------------
(* What a backup holds.  A backup is written where none exists, which        *)
(* CreateBackup has made sure of one step earlier (Admitted), and its expiry *)
(* is always within the retention counted from its start (Retained).         *)

Lasts(b, s, e) == \E max \in Retentions(b) : validTimes(s, e, max)

Retained ==
  /\ start \in [Names -> Int]
  /\ \A b \in Names : Exists(b) => Lasts(b, start[b], expire[b])
  /\ creating # <<>> =>
       /\ creating[5] \in Int
       /\ \E e \in Editions : validTimes(creating[5], creating[4], MaxRetention[e])

\* The names but b keep their backups.
OnlyChanges(b) ==
  \A x \in Names \ {b} :
    /\ expire'[x] = expire[x] /\ Contents(x)' = Contents(x)
    /\ x \in copied' <=> x \in copied

\* Every other step leaves the backups and the CreateBackup under way alone.
LEMMA RetainedStays ==
  ASSUME Retained, UNCHANGED <<expire, start, copied>>,
         creating' = <<>> \/ creating' = creating
  PROVE  Retained'
  <1>1. \A b \in Names : Retentions(b)' = Retentions(b)
    BY DEF Retentions
  <1>2. \A b \in Names : Exists(b)' => Lasts(b, start[b], expire[b])'
    BY <1>1, ZenonT(30) DEF Retained, Lasts, Exists, validTimes
  <1>3. creating' # <<>> =>
          /\ creating'[5] \in Int
          /\ \E e \in Editions : validTimes(creating'[5], creating'[4], MaxRetention[e])
    BY ZenonT(30) DEF Retained
  <1> QED BY <1>2, <1>3, ZenonT(30) DEF Retained, validTimes

\* A step that changes one backup, and leaves it within its retention.
LEMMA RetainedEntry ==
  ASSUME Retained, NEW b \in Names, OnlyChanges(b), start' \in [Names -> Int],
         Exists(b)' => Lasts(b, start[b], expire[b])',
         creating' = <<>> \/ creating' = creating
  PROVE  Retained'
  <1>1. ASSUME NEW x \in Names, Exists(x)', x # b
        PROVE  Lasts(x, start[x], expire[x])'
    <2>1. expire'[x] = expire[x] /\ (x \in copied' <=> x \in copied) /\ start'[x] = start[x]
      BY <1>1 DEF OnlyChanges, Contents
    <2>2. Retentions(x)' = Retentions(x)
      BY <2>1, ZenonT(30) DEF Retentions
    <2>3. Lasts(x, start[x], expire[x])
      BY <1>1, <2>1 DEF Retained, Exists
    <2> QED BY <2>1, <2>2, <2>3, ZenonT(30) DEF Lasts, validTimes
  <1>2. creating' # <<>> =>
          /\ creating'[5] \in Int
          /\ \E e \in Editions : validTimes(creating'[5], creating'[4], MaxRetention[e])
    BY ZenonT(30) DEF Retained
  <1> QED BY <1>1, <1>2, ZenonT(30) DEF Retained, validTimes

\* What a step that writes, updates or removes the backup b does.
EntryStep(b) ==
  /\ OnlyChanges(b)
  /\ start' \in [Names -> Int] /\ (creating' = <<>> \/ creating' = creating)
  /\ Exists(b) /\ Exists(b)' => Contents(b)' = Contents(b) /\ (b \in copied' <=> b \in copied)
  /\ Exists(b)' => Lasts(b, start[b], expire[b])'

\* The backups there are before and after the step hold what they held.
Steady ==
  \A b \in Names : Exists(b) /\ Exists(b)' =>
    Contents(b)' = Contents(b) /\ (b \in copied' <=> b \in copied)

\* The types the entries have.
LEMMA EntryTypes ==
  ASSUME BackupInv, QuotaInv, Retained
  PROVE  /\ expire \in [Names -> Int] /\ start \in [Names -> Int] /\ clock \in Int
         /\ manifest \in [Names -> SUBSET Fams] /\ snapshot \in [Names -> SUBSET Fams]
         /\ source \in [Names -> Tables \cup {NoTable}] /\ kind \in [Names -> Kinds \cup {"STANDARD"}]
  BY DEF BackupInv, BackupTypes, QuotaInv, DescriptorTypes, Retained

\* maxRetention is the period of an edition, registered or default.
LEMMA EditionsBound ==
  ASSUME AdminInv, NEW i
  PROVE  \E d \in Editions : maxRetention(i) = MaxRetention[d]
  <1>1. CASE i \in instances
    BY <1>1 DEF maxRetention, AdminInv, AdminTypeOK
  <1>2. CASE i \notin instances
    BY <1>2, AdminAssumption DEF maxRetention
  <1> QED BY <1>1, <1>2

\* Removing a backup.
LEMMA PurgeEntry ==
  ASSUME BackupInv, QuotaInv, Retained, NEW b \in Names, purge(b), UNCHANGED creating
  PROVE  EntryStep(b)
  <1>1. ~Exists(b)' /\ start' \in [Names -> Int]
    BY EntryTypes DEF purge, Exists
  <1>2. OnlyChanges(b)
    BY EntryTypes DEF purge, OnlyChanges, Contents
  <1> QED BY <1>1, <1>2, Zenon DEF EntryStep

\* Moving the expiry of a backup: the limit is counted from its start.
LEMMA UpdateEntry ==
  ASSUME AdminInv, BackupInv, QuotaInv, Retained, NEW b \in Names, NEW e \in Int, UpdateBackup(b, e)
  PROVE  EntryStep(b)
  <1>1. /\ expire' = [expire EXCEPT ![b] = e]
        /\ UNCHANGED <<start, kind, source, copied, manifest, snapshot, creating>>
        /\ validTimes(start[b], e, IF b \in copied THEN MaxCopyRetention ELSE maxRetention(b[1]))
    BY DEF UpdateBackup
  <1>2. OnlyChanges(b) /\ Contents(b)' = Contents(b) /\ expire'[b] = e
    BY <1>1, EntryTypes DEF OnlyChanges, Contents
  <1>3. Lasts(b, start[b], e)
    <2>1. CASE b \in copied
      BY <1>1, <2>1, ZenonT(30) DEF Lasts, Retentions
    <2>2. CASE b \notin copied
      <3>1. PICK d \in Editions : maxRetention(b[1]) = MaxRetention[d]
        BY EditionsBound
      <3>2. validTimes(start[b], e, MaxRetention[d])
        BY <1>1, <2>2, <3>1
      <3> QED BY <2>2, <3>2, ZenonT(30) DEF Lasts, Retentions
    <2> QED BY <2>1, <2>2
  <1>4. Lasts(b, start[b], expire[b])'
    BY <1>1, <1>2, <1>3, ZenonT(30) DEF Lasts, Retentions, validTimes
  <1>5. start' \in [Names -> Int]
    BY <1>1, EntryTypes
  <1> QED BY <1>1, <1>2, <1>4, <1>5, Zenon DEF EntryStep

\* A copy is written where there is no backup.
LEMMA CopyEntry ==
  ASSUME BackupInv, QuotaInv, Retained, NEW b \in Names, NEW src \in Names, NEW e \in Int,
         CopyBackup(b, src, e)
  PROVE  EntryStep(b)
  <1>1. /\ ~Exists(b) /\ validTimes(clock, e, MaxCopyRetention) /\ UNCHANGED creating
        /\ expire' = [expire EXCEPT ![b] = e] /\ start' = [start EXCEPT ![b] = clock]
        /\ copied' = copied \cup {b}
    BY DEF CopyBackup
  <1>2. OnlyChanges(b)
    BY EntryTypes DEF CopyBackup, OnlyChanges, Contents
  <1>3. start' \in [Names -> Int] /\ start'[b] = clock /\ expire'[b] = e
    BY <1>1, EntryTypes
  <1>4. Lasts(b, start[b], expire[b])'
    BY <1>1, <1>3, ZenonT(30) DEF Lasts, Retentions, validTimes
  <1> QED BY <1>1, <1>2, <1>3, <1>4, Zenon DEF EntryStep

\* So is the backup of a CreateBackup that commits.
LEMMA CommitEntry ==
  ASSUME BackupInv, QuotaInv, Retained, CommitCreateBackup
  PROVE  \E b \in Names : EntryStep(b)
  <1>1. PICK b \in Names : b = creating[1]
    BY DEF CommitCreateBackup, BackupInv, BackupTypes
  <1>2. /\ ~Exists(b) /\ creating[5] \in Int
        /\ \E e \in Editions : validTimes(creating[5], creating[4], MaxRetention[e])
    BY <1>1, ZenonT(30) DEF CommitCreateBackup, QuotaInv, Admitted, Retained
  <1>3. /\ expire' = [expire EXCEPT ![b] = creating[4]] /\ start' = [start EXCEPT ![b] = creating[5]]
        /\ copied' = copied \ {b} /\ creating' = <<>>
    BY <1>1 DEF CommitCreateBackup
  <1>4. OnlyChanges(b)
    BY <1>1, EntryTypes DEF CommitCreateBackup, OnlyChanges, Contents
  <1>5. start' \in [Names -> Int] /\ start'[b] = creating[5] /\ expire'[b] = creating[4]
    BY <1>2, <1>3, EntryTypes
  <1>6. Lasts(b, start[b], expire[b])'
    <2>1. b \notin copied'
      BY <1>3
    <2> QED BY <1>2, <1>5, <2>1, ZenonT(30) DEF Lasts, Retentions, validTimes
  <1>7. EntryStep(b)
    BY <1>2, <1>3, <1>4, <1>5, <1>6, Zenon DEF EntryStep
  <1> QED BY <1>7

\* One step of the composition.
LEMMA RetainedStep ==
  ASSUME AdminInv, BackupInv, QuotaInv, Retained, BackupsNext
  PROVE  Retained' /\ Steady
  <1>1. ASSUME NEW b \in Names, EntryStep(b) PROVE Retained' /\ Steady
    <2>1. Retained'
      BY <1>1, RetainedEntry DEF EntryStep
    <2>2. Steady
      BY <1>1, ZenonT(30) DEF EntryStep, OnlyChanges, Steady
    <2> QED BY <2>1, <2>2
  <1>2. ASSUME UNCHANGED entryVars PROVE Steady
    BY <1>2, ZenonT(30) DEF Steady, Contents, entryVars
  <1>3. ASSUME UNCHANGED entryVars, creating' = <<>> \/ creating' = creating
        PROVE  Retained' /\ Steady
    BY <1>2, <1>3, RetainedStays, ZenonT(30) DEF entryVars
  <1>4. CASE \/ Administer
             \/ \E t \in Tables : CreateTable(t) \/ DeleteTable(t) \/ \E f \in Fams : ModifyTable(t, f)
    <2>1. UNCHANGED entryVars /\ UNCHANGED creating
      BY <1>4 DEF Administer, CreateTable, DeleteTable, ModifyTable
    <2> QED BY <1>3, <2>1
  <1>5. CASE \/ \E b \in Names, t \in Tables : RestoreTable(t, b)
             \/ AbortCreateBackup \/ ListExpired \/ EndPass \/ Tick
    <2>1. UNCHANGED entryVars /\ (creating' = <<>> \/ creating' = creating)
      BY <1>5 DEF RestoreTable, AbortCreateBackup, ListExpired, EndPass, Tick
    <2> QED BY <1>3, <2>1
  <1>6. ASSUME NEW b \in Names, NEW t \in Tables, NEW k \in Kinds, NEW e \in Int,
               BeginCreateBackup(b, t, k, e)
        PROVE  Retained' /\ Steady
    <2>1. /\ UNCHANGED entryVars /\ creating' = <<b, k, t, e, clock>>
          /\ validTimes(clock, e, maxRetention(b[1]))
      BY <1>6 DEF BeginCreateBackup
    <2>2. PICK d \in Editions : maxRetention(b[1]) = MaxRetention[d]
      BY EditionsBound
    <2>3. creating'[4] = e /\ creating'[5] = clock /\ clock \in Int
      BY <2>1, EntryTypes
    <2>4. /\ creating'[5] \in Int
          /\ \E d1 \in Editions : validTimes(creating'[5], creating'[4], MaxRetention[d1])
      BY <2>1, <2>2, <2>3, ZenonT(30)
    <2>5. start' \in [Names -> Int]
      BY <2>1, EntryTypes DEF entryVars
    <2>6. \A x \in Names : Exists(x)' => Lasts(x, start[x], expire[x])'
      BY <2>1, ZenonT(30) DEF Retained, Lasts, Retentions, Exists, validTimes, entryVars
    <2>7. Retained'
      BY <2>4, <2>5, <2>6, ZenonT(30) DEF Retained, validTimes
    <2> QED BY <1>2, <2>1, <2>7
  <1>7. ASSUME NEW b \in Names, NEW e \in 1..(2 * MaxTime),
               \/ \E t \in Tables, k \in Kinds : BeginCreateBackup(b, t, k, e)
               \/ UpdateBackup(b, e)
               \/ \E src \in Names : CopyBackup(b, src, e)
        PROVE  Retained' /\ Steady
    <2>1. e \in Int
      BY <1>7
    <2> QED BY <1>1, <1>6, <1>7, <2>1, UpdateEntry, CopyEntry, ZenonT(30)
  <1>8. CASE CommitCreateBackup
    BY <1>1, <1>8, CommitEntry
  <1>9. ASSUME NEW b \in Names, DeleteBackup(b) \/ PurgeListed(b)
        PROVE  Retained' /\ Steady
    <2>1. UNCHANGED creating /\ (purge(b) \/ UNCHANGED entryVars)
      BY <1>9 DEF DeleteBackup, PurgeListed
    <2> QED BY <1>1, <1>3, <2>1, PurgeEntry, ZenonT(30)
  <1> QED BY <1>4, <1>5, <1>7, <1>8, <1>9, ZenonT(30) DEF BackupsNext

\* As long as a backup exists it holds the rows and the schema it was created
\* with, although CreateBackup writes it a step after it has looked for the
\* name, and no sequence of updates moves its expiry past the retention period
\* counted from its start.
THEOREM BackupsStay == BackupsSpec => BackupsImmutable
  <1> DEFINE Immutable == \A b \in Names :
               Exists(b) /\ Exists(b)' =>
                 /\ Contents(b)' = Contents(b)
                 /\ \E max \in Retentions(b) : validTimes(start[b], expire'[b], max)
  <1>1. Init => Retained
    BY DEF Init, Retained, Exists
  <1>2. AdminInv /\ BackupInv /\ QuotaInv /\ Retained /\ [BackupsNext]_vars => Retained'
    <2>1. ASSUME Retained, UNCHANGED vars PROVE Retained'
      BY <2>1, RetainedStays DEF vars, backupVars
    <2> QED BY <2>1, RetainedStep
  <1>3. AdminInv /\ BackupInv /\ QuotaInv /\ Retained /\ [BackupsNext]_vars => [Immutable]_vars
    <2> SUFFICES ASSUME AdminInv, BackupInv, QuotaInv, Retained, BackupsNext,
                        NEW b \in Names, Exists(b), Exists(b)'
                 PROVE  /\ Contents(b)' = Contents(b)
                        /\ \E max \in Retentions(b) : validTimes(start[b], expire'[b], max)
      BY ZenonT(30)
    <2>1. Retained' /\ Contents(b)' = Contents(b) /\ (b \in copied' <=> b \in copied)
      BY RetainedStep, ZenonT(30) DEF Steady
    <2>2. Retentions(b)' = Retentions(b) /\ start'[b] = start[b]
      BY <2>1 DEF Retentions, Contents
    <2>3. Lasts(b, start[b], expire[b])'
      BY <2>1 DEF Retained
    <2> QED BY <2>1, <2>2, <2>3, ZenonT(30) DEF Lasts, validTimes
  <1> QED BY <1>1, <1>2, <1>3, BackupInductive, QuotaInductive, PTL DEF BackupsSpec, BackupsImmutable

=============================================================================
