------------------------------- MODULE Backups -------------------------------
(* Table backups (localcloud_backups.go) composed with the administration of *)
(* the instances and clusters they live under.                               *)
(*                                                                           *)
(* The backup handlers hold s.mu; CreateBackup also holds src.mu for reading *)
(* between the encoding of the schema and the copy of the rows, which are    *)
(* two steps here.  purgeExpiredBackups takes no lock: it lists all backups, *)
(* then removes the ones whose listed expiry has passed one by one.  Time is *)
(* counted in units of the minimum retention.                                *)
EXTENDS InstanceAdmin

CONSTANTS Names,          \* backup names: <<instance, cluster, id>>
          Tables,         \* table names: <<instance, id>>
          Fams,           \* column families
          Kinds,          \* backup types
          HDD,            \* the clusters with HDD storage
          MaxPerTable,    \* maxStandardBackupsPerTbl, maxHotBackupsPerTbl
          MinRetention, MaxCopyRetention, MinCopyRemaining,
          MaxRetention,   \* by edition
          Strict,         \* isStrictAdmin()
          MaxTime         \* bound on the clock

ASSUME BackupAssumption ==
  /\ Names \subseteq Instances \X Clusters \X STRING
  /\ Tables \subseteq Instances \X STRING
  /\ MaxTime \in Nat /\ MinRetention \in Nat \ {0}
  /\ MaxPerTable \in [Kinds -> Nat]

NoTime == -1
NoTable == <<>>

VARIABLES
  clock,
  schema,    \* tbl.families of every table, {} when there is no table
  rows,      \* the families the stored rows of every table use
  expire,    \* backups_t: expiry of every backup, NoTime when there is none
  start,     \* its start time
  kind,      \* its type
  source,    \* its source table
  copied,    \* the names that hold a copy of a backup
  manifest,  \* backup_manifests_t: the families of the schema
  snapshot,  \* rows_t under the backup's name: the families of its rows
  creating,  \* the CreateBackup under way: <<>> or its name, type, source, expiry
  encoded,   \* the schema it has encoded
  listed,    \* what purgeExpiredBackups has listed and not visited yet
  revived    \* backups of deleted clusters updated at the instant they expired (history)

backupVars == <<clock, schema, rows, expire, start, kind, source, copied,
                manifest, snapshot, creating, encoded, listed, revived>>
vars == <<adminVars, backupVars>>
tableVars == <<schema, rows>>
entryVars == <<expire, start, kind, source, copied, manifest, snapshot, revived>>

Init ==
  /\ AdminInit
  /\ clock = 0
  /\ schema = [t \in Tables |-> {}] /\ rows = [t \in Tables |-> {}]
  /\ expire = [b \in Names |-> NoTime] /\ start = [b \in Names |-> 0]
  /\ kind = [b \in Names |-> "STANDARD"] /\ source = [b \in Names |-> NoTable]
  /\ copied = {} /\ manifest = [b \in Names |-> {}] /\ snapshot = [b \in Names |-> {}]
  /\ creating = <<>> /\ encoded = {}
  /\ listed = [b \in Names |-> NoTime]
  /\ revived = {}

Exists(b) == expire[b] # NoTime
Cluster(b) == <<b[1], b[2]>>
muFree == creating = <<>>

\* liveBackup and backupsUnder read the expiry instant itself differently:
\* the one hides a backup after it, the other lets go of it at that instant.
liveBackup(b) == Exists(b) /\ ~(clock > expire[b])
backupsUnder(S) == {b \in Names : Exists(b) /\ Cluster(b) \in S /\ clock < expire[b]}

\* Variant: only the instance is looked up.
requireInstanceOnly(c) == c[1] \in instances \/ ~Strict

\* Clusters of instances never registered are accepted unless strict.
requireCluster(c) == IF c[1] \in instances THEN c \in clusters ELSE ~Strict

maxRetention(i) == MaxRetention[IF i \in instances THEN edition[i] ELSE "ENTERPRISE"]

validTimes(created, e, max) == e >= created + MinRetention /\ e <= created + max

\* Variant: expired backups are left out of the count.
quotaOfLive(b, t, k) ==
  Cardinality({x \in backupsUnder({Cluster(b)}) : source[x] = t /\ kind[x] = k})
    < MaxPerTable[k]

\* All backups of the table in the cluster count, expired ones and copies too.
checkBackupQuota(b, t, k) ==
  Cardinality({x \in Names : Exists(x) /\ Cluster(x) = Cluster(b)
                             /\ source[x] = t /\ kind[x] = k}) < MaxPerTable[k]

-----------------------------------------------------------------------------
(* The source tables, as far as backups see them *)

CreateTable(t) ==
  /\ schema[t] = {} /\ muFree
  /\ \E fs \in (SUBSET Fams) \ {{}} :
       schema' = [schema EXCEPT ![t] = fs] /\ rows' = [rows EXCEPT ![t] = fs]
  /\ UNCHANGED <<adminVars, clock, entryVars, creating, encoded, listed>>

\* Variant: CreateBackup holds no lock on the table while it copies.
ModifyTableMeanwhile(t, f) ==
  /\ schema[t] # {}
  /\ \E fs \in {schema[t] \cup {f}, schema[t] \ {f}} :
       /\ fs # {}
       /\ schema' = [schema EXCEPT ![t] = fs] /\ rows' = [rows EXCEPT ![t] = fs]
  /\ UNCHANGED <<adminVars, clock, entryVars, creating, encoded, listed>>

\* ModifyColumnFamilies with the rows it writes or drops: one family more or
\* less, under tbl.mu, which a CreateBackup of the table holds for reading.
ModifyTable(t, f) ==
  /\ schema[t] # {} /\ ~(creating # <<>> /\ creating[3] = t)
  /\ \E fs \in {schema[t] \cup {f}, schema[t] \ {f}} :
       /\ fs # {}
       /\ schema' = [schema EXCEPT ![t] = fs] /\ rows' = [rows EXCEPT ![t] = fs]
  /\ UNCHANGED <<adminVars, clock, entryVars, creating, encoded, listed>>

DeleteTable(t) ==
  /\ schema[t] # {} /\ muFree
  /\ schema' = [schema EXCEPT ![t] = {}] /\ rows' = [rows EXCEPT ![t] = {}]
  /\ UNCHANGED <<adminVars, clock, entryVars, creating, encoded, listed>>

-----------------------------------------------------------------------------
(* Backups *)

\* Up to the encoding of the schema, with s.mu and src.mu held from here on.
BeginCreateBackup(b, t, k, e) ==
  /\ muFree
  /\ requireCluster(Cluster(b))
  /\ ~(k = "HOT" /\ Cluster(b) \in clusters /\ b[2] \in HDD)
  /\ b[1] = t[1]
  /\ schema[t] # {}
  /\ validTimes(clock, e, maxRetention(b[1]))
  /\ ~Exists(b)
  /\ checkBackupQuota(b, t, k)
  /\ creating' = <<b, k, t, e, clock>>
  /\ encoded' = schema[t]
  /\ UNCHANGED <<adminVars, clock, tableVars, entryVars, listed>>

CommitCreateBackup ==
  /\ creating # <<>>
  /\ LET b == creating[1]
     IN /\ snapshot' = [snapshot EXCEPT ![b] = rows[creating[3]]]
        /\ manifest' = [manifest EXCEPT ![b] = encoded]
        /\ kind' = [kind EXCEPT ![b] = creating[2]]
        /\ source' = [source EXCEPT ![b] = creating[3]]
        /\ expire' = [expire EXCEPT ![b] = creating[4]]
        /\ start' = [start EXCEPT ![b] = creating[5]]
        /\ copied' = copied \ {b} /\ revived' = revived \ {b}
  /\ creating' = <<>> /\ encoded' = {}
  /\ UNCHANGED <<adminVars, clock, tableVars, listed>>

\* The transaction fails, or the server stops before it commits.
AbortCreateBackup ==
  /\ creating # <<>>
  /\ creating' = <<>> /\ encoded' = {}
  /\ UNCHANGED <<adminVars, clock, tableVars, entryVars, listed>>

\* Variant: the retention is counted from now.
UpdateBackupFromNow(b, e) ==
  /\ muFree
  /\ liveBackup(b)
  /\ validTimes(clock, e,
                IF b \in copied THEN MaxCopyRetention ELSE maxRetention(b[1]))
  /\ expire' = [expire EXCEPT ![b] = e]
  /\ revived' = IF clock = expire[b] /\ Cluster(b) \notin clusters THEN revived \cup {b} ELSE revived
  /\ UNCHANGED <<adminVars, clock, tableVars, start, kind, source, copied,
                 manifest, snapshot, creating, encoded, listed>>

\* The new expiry is held against the start of the backup, not against now.
UpdateBackup(b, e) ==
  /\ muFree
  /\ liveBackup(b)
  /\ validTimes(start[b], e,
                IF b \in copied THEN MaxCopyRetention ELSE maxRetention(b[1]))
  /\ expire' = [expire EXCEPT ![b] = e]
  /\ revived' = IF clock = expire[b] /\ Cluster(b) \notin clusters THEN revived \cup {b} ELSE revived
  /\ UNCHANGED <<adminVars, clock, tableVars, start, kind, source, copied,
                 manifest, snapshot, creating, encoded, listed>>

\* purge: rows, manifest and descriptor in one transaction.
purge(b) ==
  /\ snapshot' = [snapshot EXCEPT ![b] = {}] /\ manifest' = [manifest EXCEPT ![b] = {}]
  /\ expire' = [expire EXCEPT ![b] = NoTime] /\ start' = [start EXCEPT ![b] = 0]
  /\ kind' = [kind EXCEPT ![b] = "STANDARD"] /\ source' = [source EXCEPT ![b] = NoTable]
  /\ copied' = copied \ {b} /\ revived' = revived \ {b}

DeleteBackup(b) ==
  /\ muFree
  /\ Exists(b)
  /\ purge(b)
  /\ UNCHANGED <<adminVars, clock, tableVars, creating, encoded, listed>>

\* No quota is looked at.  The copy keeps nothing of the original but rows,
\* manifest and source table, so it outlives it.
CopyBackup(b, src, e) ==
  /\ muFree
  /\ requireCluster(Cluster(b))
  /\ liveBackup(src)
  /\ src \notin copied
  /\ ~(expire[src] < clock + MinCopyRemaining)
  /\ ~Exists(b)
  /\ validTimes(clock, e, MaxCopyRetention)
  /\ manifest' = [manifest EXCEPT ![b] = manifest[src]]
  /\ snapshot' = [snapshot EXCEPT ![b] = snapshot[src]]
  /\ expire' = [expire EXCEPT ![b] = e] /\ start' = [start EXCEPT ![b] = clock]
  /\ kind' = [kind EXCEPT ![b] = "STANDARD"]
  /\ source' = [source EXCEPT ![b] = source[src]]
  /\ copied' = copied \cup {b} /\ revived' = revived \ {b}
  /\ UNCHANGED <<adminVars, clock, tableVars, creating, encoded, listed>>

\* The rows left under the name are cleared before the snapshot is copied.
\* localRequireInstance has seen the instance before s.mu was taken, so it may
\* be gone by now; what it guards is not used again.
RestoreTable(t, b) ==
  /\ muFree
  /\ liveBackup(b)
  /\ schema[t] = {}
  /\ schema' = [schema EXCEPT ![t] = manifest[b]]
  /\ rows' = [rows EXCEPT ![t] = snapshot[b]]
  /\ UNCHANGED <<adminVars, clock, entryVars, creating, encoded, listed>>

\* One maintenance pass: the list, then one transaction per expired entry.  A
\* restart or a failing transaction ends the pass.
ListExpired ==
  /\ listed = [b \in Names |-> NoTime]
  /\ \E b \in Names : Exists(b)
  /\ listed' = expire
  /\ UNCHANGED <<adminVars, clock, tableVars, entryVars, creating, encoded>>

\* What has become of the backup since it was listed is not looked at: one
\* whose expiry was put off, or another one of that name, is removed as well.
PurgeListed(b) ==
  /\ listed[b] # NoTime
  /\ listed' = [listed EXCEPT ![b] = NoTime]
  /\ IF clock < listed[b] THEN UNCHANGED entryVars ELSE purge(b)
  /\ UNCHANGED <<adminVars, clock, tableVars, creating, encoded>>

EndPass ==
  /\ listed # [b \in Names |-> NoTime]
  /\ listed' = [b \in Names |-> NoTime]
  /\ UNCHANGED <<adminVars, clock, tableVars, entryVars, creating, encoded>>

Tick ==
  /\ clock < MaxTime
  /\ clock' = clock + 1
  /\ UNCHANGED <<adminVars, tableVars, entryVars, creating, encoded, listed>>

\* The instance handlers, with the backups that stand in their way.
\* DeleteInstance takes the tables with it and leaves the expired backups.
Administer ==
  /\ muFree
  /\ LET inTheWay == {Cluster(b) : b \in backupsUnder(Instances \X Clusters)}
     IN AdminNext({c[1] : c \in inTheWay}, inTheWay)
  /\ LET gone == instances \ instances'
     IN /\ schema' = [t \in Tables |-> IF t[1] \in gone THEN {} ELSE schema[t]]
        /\ rows' = [t \in Tables |-> IF t[1] \in gone THEN {} ELSE rows[t]]
  /\ UNCHANGED <<clock, entryVars, creating, encoded, listed>>

BackupsNext ==
  \/ Administer
  \/ \E t \in Tables : CreateTable(t) \/ DeleteTable(t) \/ \E f \in Fams : ModifyTable(t, f)
  \/ \E b \in Names, e \in 1..(2 * MaxTime) :
       \/ \E t \in Tables, k \in Kinds : BeginCreateBackup(b, t, k, e)
       \/ UpdateBackup(b, e)
       \/ \E src \in Names : CopyBackup(b, src, e)
  \/ CommitCreateBackup \/ AbortCreateBackup
  \/ \E b \in Names : DeleteBackup(b) \/ PurgeListed(b)
  \/ \E b \in Names, t \in Tables : RestoreTable(t, b)
  \/ ListExpired \/ EndPass \/ Tick

BackupsSpec == Init /\ [][BackupsNext]_vars

-----------------------------------------------------------------------------
Times == NoTime..(2 * MaxTime)

TypeOK ==
  /\ AdminTypeOK
  /\ clock \in 0..MaxTime
  /\ schema \in [Tables -> SUBSET Fams] /\ rows \in [Tables -> SUBSET Fams]
  /\ expire \in [Names -> Times] /\ start \in [Names -> Times]
  /\ kind \in [Names -> Kinds] /\ source \in [Names -> Tables \cup {NoTable}]
  /\ copied \subseteq {b \in Names : Exists(b)} /\ revived \subseteq Names
  /\ manifest \in [Names -> SUBSET Fams] /\ snapshot \in [Names -> SUBSET Fams]
  /\ creating # <<>> => /\ creating[1] \in Names /\ creating[2] \in Kinds
                         /\ creating[3] \in Tables /\ creating[4] \in Times
  /\ encoded \subseteq Fams
  /\ listed \in [Names -> Times]

\* In strict mode an unexpired backup lies in an existing cluster of a
\* registered instance: CreateBackup and CopyBackup look the cluster up, and
\* DeleteCluster and DeleteInstance refuse while backupsUnder finds one.  The
\* one way round it is an UpdateBackup at the instant of expiry, when
\* backupsUnder no longer counts the backup and liveBackup still finds it.
LiveBackupHasCluster ==
  Strict => \A b \in Names : Exists(b) /\ clock < expire[b] /\ b \notin revived
                             => Cluster(b) \in clusters

\* The schema and the rows of a backup are of one moment of its table, though
\* CreateBackup reads them one after the other, and so are those of the copies
\* and of every table restored from one.
SnapshotsWhole ==
  /\ \A b \in Names : manifest[b] = snapshot[b]
  /\ \A t \in Tables : schema[t] = rows[t]

\* The backups created of a table in a cluster stay within the quota of their
\* type, whatever expires, is purged or copied meanwhile (copies are not
\* limited by CopyBackup and do not count here).
QuotaHolds ==
  \A b \in Names, k \in Kinds : Exists(b) =>
    Cardinality({x \in Names \ copied : Exists(x) /\ Cluster(x) = Cluster(b)
                  /\ source[x] = source[b] /\ kind[x] = k}) <= MaxPerTable[k]

Contents(b) == <<snapshot[b], manifest[b], kind[b], source[b], start[b]>>

\* The retention periods a backup may have been given.
Retentions(b) == IF b \in copied THEN {MaxCopyRetention} ELSE {MaxRetention[e] : e \in Editions}

\* "Immutable schema + row snapshot" (BIGTABLE_COMPATIBILITY.md): as long as a
\* backup exists its rows, schema, type, source and start stay what they were,
\* whatever is created, copied, restored or purged around it while CreateBackup
\* works in two steps; and however often UpdateBackup puts its expiry off, it
\* stays within the retention period counted from its start.
BackupsImmutable ==
  [][\A b \in Names :
       Exists(b) /\ Exists(b)' =>
         /\ Contents(b)' = Contents(b)
         /\ \E max \in Retentions(b) : validTimes(start[b], expire'[b], max)]_vars
=============================================================================
