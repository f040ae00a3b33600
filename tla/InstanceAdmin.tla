---------------------------- MODULE InstanceAdmin ----------------------------
(* Instances, clusters and app profiles: localcloud_instance_admin.go over   *)
(* sql_admin_metadata.go.                                                    *)
(*                                                                           *)
(* Every handler holds s.mu from its first look at the maps to its answer,   *)
(* so a handler is one action; it saves to the database first and changes    *)
(* the map after that, so a failing save changes nothing.  CreateInstance    *)
(* saves the instance, each cluster and the default profile one after the    *)
(* other and may stop after any of them.                                     *)
EXTENDS Integers, FiniteSets

CONSTANTS Instances,   \* instance names
          Clusters,    \* cluster ids
          Profiles,    \* app profile ids
          Default,     \* the id "default"
          Editions,    \* instance editions, "ENTERPRISE" when none is asked for
          NodeCounts   \* values of serve_nodes

ASSUME AdminAssumption == Default \in Profiles /\ "ENTERPRISE" \in Editions
                          /\ NodeCounts \subseteq Int /\ 1 \in NodeCounts

Types == {"UNSPECIFIED", "PRODUCTION", "DEVELOPMENT"}

VARIABLES
  instances,    \* s.instances: the registered names
  itype,        \* the type of each of them
  edition,      \* the edition of each of them
  clusters,     \* s.clusters: pairs of an instance and a cluster id
  nodes,        \* serve_nodes of each cluster
  profiles,     \* s.appProfiles: pairs of an instance and a profile id
  route,        \* the clusters a profile's routing policy names
  stored,       \* the rows of instances_t, clusters_t and app_profiles_t
  bare          \* instances a failed CreateInstance left without a cluster (history)

memory == <<instances, itype, edition, clusters, nodes, profiles, route>>
adminVars == <<memory, stored, bare>>

AdminInit ==
  /\ instances = {} /\ clusters = {} /\ profiles = {}
  /\ itype = [i \in Instances |-> "UNSPECIFIED"]
  /\ edition = [i \in Instances |-> "ENTERPRISE"]
  /\ nodes = [c \in Instances \X Clusters |-> 1]
  /\ route = [p \in Instances \X Profiles |-> {}]
  /\ stored = memory
  /\ bare = {}

\* A save followed by the change of the map: what is stored is what is held.
Saved == stored' = memory'

ClustersOf(i) == {c \in Clusters : <<i, c>> \in clusters}

-----------------------------------------------------------------------------
(* Instances *)

TypeOrProduction(t) == IF t = "UNSPECIFIED" THEN "PRODUCTION" ELSE t

\* cs are the clusters asked for.  `done` are those saved before a save
\* failed; only when all are does the default profile follow, routed to one of
\* them (the first by id), and its save may fail too.
CreateInstance(i, t, e, n, cs, done, complete) ==
  /\ i \notin instances
  /\ n >= 0 /\ cs # {} /\ done \subseteq cs /\ (complete => done = cs)
  /\ instances' = instances \cup {i}
  /\ itype' = [itype EXCEPT ![i] = TypeOrProduction(t)]
  /\ edition' = [edition EXCEPT ![i] = e]
  /\ clusters' = clusters \cup ({i} \X done)
  /\ IF complete /\ <<i, Default>> \notin profiles
     THEN /\ profiles' = profiles \cup {<<i, Default>>}
          /\ \E c \in cs : route' = [route EXCEPT ![<<i, Default>>] = {c}]
     ELSE UNCHANGED <<profiles, route>>
  /\ nodes' = [c \in Instances \X Clusters |-> IF c \in {i} \X done THEN n ELSE nodes[c]]
  /\ bare' = IF done = {} THEN bare \cup {i} ELSE bare
  /\ Saved

\* UpdateInstance leaves the type alone when the request does not set one.
UpdateInstance(i, t) ==
  /\ i \in instances
  /\ ~(itype[i] = "PRODUCTION" /\ t = "DEVELOPMENT")
  /\ itype' = [itype EXCEPT ![i] = IF t = "UNSPECIFIED" THEN @ ELSE t]
  /\ UNCHANGED <<instances, edition, clusters, nodes, profiles, route, bare>>
  /\ Saved

\* PartialUpdateInstance assigns what the mask names, set or not.
PartialUpdateInstance(i, paths, t, e) ==
  /\ i \in instances
  /\ paths # {}
  /\ ~("type" \in paths /\ itype[i] = "PRODUCTION" /\ t = "DEVELOPMENT")
  /\ itype' = [itype EXCEPT ![i] = IF "type" \in paths THEN t ELSE @]
  /\ edition' = [edition EXCEPT ![i] = IF "edition" \in paths THEN e ELSE @]
  /\ UNCHANGED <<instances, clusters, nodes, profiles, route, bare>>
  /\ Saved

\* What becomes of the maps when one transaction has removed an instance.  The
\* rows of profiles and clusters go by their parent column.
DeleteInstance(i, held) ==
  /\ i \in instances
  /\ ~held
  /\ instances' = instances \ {i}
  /\ clusters' = clusters \ ({i} \X Clusters)
  /\ profiles' = profiles \ ({i} \X Profiles)
  /\ route' = [p \in Instances \X Profiles |-> IF p[1] = i THEN {} ELSE route[p]]
  /\ itype' = [itype EXCEPT ![i] = "UNSPECIFIED"]
  /\ edition' = [edition EXCEPT ![i] = "ENTERPRISE"]
  /\ nodes' = [c \in Instances \X Clusters |-> IF c[1] = i THEN 1 ELSE nodes[c]]
  /\ bare' = bare \ {i}
  /\ Saved

-----------------------------------------------------------------------------
(* Clusters *)

CreateCluster(i, c, n) ==
  /\ i \in instances
  /\ <<i, c>> \notin clusters
  /\ n >= 0
  /\ nodes' = [nodes EXCEPT ![<<i, c>>] = n]
  /\ clusters' = clusters \cup {<<i, c>>}
  /\ bare' = bare \ {i}
  /\ UNCHANGED <<instances, itype, edition, profiles, route>>
  /\ Saved

UpdateCluster(i, c, n) ==
  /\ <<i, c>> \in clusters
  /\ n >= 0
  /\ nodes' = [nodes EXCEPT ![<<i, c>>] = n]
  /\ UNCHANGED <<instances, itype, edition, clusters, profiles, route, bare>>
  /\ Saved

\* Unlike UpdateCluster it does not look at the sign.
PartialUpdateCluster(i, c, n) ==
  /\ <<i, c>> \in clusters
  /\ nodes' = [nodes EXCEPT ![<<i, c>>] = n]
  /\ UNCHANGED <<instances, itype, edition, clusters, profiles, route, bare>>
  /\ Saved

\* Variant: app profiles are not looked at.
DeleteRoutedCluster(i, c, held) ==
  /\ <<i, c>> \in clusters
  /\ \E other \in ClustersOf(i) : other # c
  /\ ~held
  /\ clusters' = clusters \ {<<i, c>>}
  /\ nodes' = [nodes EXCEPT ![<<i, c>>] = 1]
  /\ UNCHANGED <<instances, itype, edition, profiles, route, bare>>
  /\ Saved

\* held: the cluster contains live backups.
DeleteCluster(i, c, held) ==
  /\ <<i, c>> \in clusters
  /\ \E other \in ClustersOf(i) : other # c
  /\ ~held
  /\ \A p \in profiles : p[1] = i => c \notin route[p]
  /\ clusters' = clusters \ {<<i, c>>}
  /\ nodes' = [nodes EXCEPT ![<<i, c>>] = 1]
  /\ UNCHANGED <<instances, itype, edition, profiles, route, bare>>
  /\ Saved

-----------------------------------------------------------------------------
(* App profiles.  A single-cluster policy names one cluster; a multi-cluster *)
(* policy names any set, the empty set standing for every cluster.           *)

validateRouting(i, r) == r \subseteq ClustersOf(i)

CreateAppProfile(i, p, r) ==
  /\ i \in instances
  /\ <<i, p>> \notin profiles
  /\ validateRouting(i, r)
  /\ profiles' = profiles \cup {<<i, p>>}
  /\ route' = [route EXCEPT ![<<i, p>>] = r]
  /\ UNCHANGED <<instances, itype, edition, clusters, nodes, bare>>
  /\ Saved

\* The instance is read off the profile's name, not looked up.
\* checkEtag refuses an etag other than the profile's; a request that leaves
\* the etag out goes ahead, so the two together do what is said here.
UpdateAppProfile(i, p, r) ==
  /\ <<i, p>> \in profiles
  /\ validateRouting(i, r)
  /\ route' = [route EXCEPT ![<<i, p>>] = r]
  /\ UNCHANGED <<instances, itype, edition, clusters, nodes, profiles, bare>>
  /\ Saved

DeleteAppProfile(i, p) ==
  /\ <<i, p>> \in profiles
  /\ profiles' = profiles \ {<<i, p>>}
  /\ route' = [route EXCEPT ![<<i, p>>] = {}]
  /\ UNCHANGED <<instances, itype, edition, clusters, nodes, bare>>
  /\ Saved

\* LoadAdminMetadata at the next start.
Restart ==
  /\ instances' = stored[1] /\ itype' = stored[2] /\ edition' = stored[3]
  /\ clusters' = stored[4] /\ nodes' = stored[5]
  /\ profiles' = stored[6] /\ route' = stored[7]
  /\ UNCHANGED <<stored, bare>>

-----------------------------------------------------------------------------
\* Live backups or protected children stand in the way of the deletion of the
\* instances in `held` and of the clusters in `heldClusters`.
AdminNext(held, heldClusters) ==
  \/ \E i \in Instances :
       \/ \E t \in Types, e \in Editions, cs \in SUBSET Clusters :
            \E n \in NodeCounts, done \in SUBSET cs, complete \in BOOLEAN :
              CreateInstance(i, t, e, n, cs, done, complete)
       \/ \E t \in Types : UpdateInstance(i, t)
       \/ \E paths \in SUBSET {"type", "edition"}, t \in Types, e \in Editions :
            PartialUpdateInstance(i, paths, t, e)
       \/ DeleteInstance(i, i \in held)
       \/ \E c \in Clusters, n \in NodeCounts :
            CreateCluster(i, c, n) \/ UpdateCluster(i, c, n) \/ PartialUpdateCluster(i, c, n)
       \/ \E c \in Clusters : DeleteCluster(i, c, <<i, c>> \in heldClusters)
       \/ \E p \in Profiles, r \in SUBSET Clusters :
            CreateAppProfile(i, p, r) \/ UpdateAppProfile(i, p, r)
       \/ \E p \in Profiles : DeleteAppProfile(i, p)
  \/ Restart

-----------------------------------------------------------------------------
(* Instance administration on its own, whatever stands in the way of a       *)
(* deletion.                                                                 *)

Next ==
  \E held \in SUBSET Instances, heldClusters \in SUBSET (Instances \X Clusters) :
    AdminNext(held, heldClusters)

Spec == AdminInit /\ [][Next]_adminVars

AdminTypeOK ==
  /\ instances \subseteq Instances
  /\ itype \in [Instances -> Types]
  /\ edition \in [Instances -> Editions]
  /\ clusters \subseteq Instances \X Clusters
  /\ nodes \in [Instances \X Clusters -> NodeCounts]
  /\ profiles \subseteq Instances \X Profiles
  /\ route \in [Instances \X Profiles -> SUBSET Clusters]
  /\ bare \subseteq instances

\* No dangling reference, whatever order instances, clusters and profiles are
\* created, updated and deleted in, and through failed creations and restarts:
\* clusters and profiles belong to registered instances, a profile routes to
\* clusters that exist (validateRoutingLocked against DeleteCluster), an
\* instance keeps a cluster once it has one, and the tables hold what the maps
\* hold, so that a restart changes nothing.
ReferencesHold ==
  /\ \A c \in clusters : c[1] \in instances
  /\ \A p \in profiles : p[1] \in instances /\ route[p] \subseteq ClustersOf(p[1])
  /\ \A i \in instances \ bare : ClustersOf(i) # {}
  /\ stored = memory
=============================================================================
