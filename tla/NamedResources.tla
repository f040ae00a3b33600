--------------------------- MODULE NamedResources ---------------------------
(* Authorized views, schema bundles and logical views with their etags,      *)
(* deletion protection and IAM policies (localcloud_authorized_views.go,     *)
(* localcloud_schema_bundles.go, localcloud_logical_views.go,                *)
(* sql_proto_store.go, sql_iam.go).                                          *)
(*                                                                           *)
(* A handler runs under s.mu and is one action, with two exceptions:         *)
(* UpdateLogicalView gives s.mu up while it validates the query, and         *)
(* SetIamPolicy looks the resource up before it takes s.mu.  An etag is a    *)
(* hash of the content, so it is represented by the content.  Clients        *)
(* read a resource, add one to what they read and send it back with its etag *)
(* (Update), or change the protection alone without an etag (Protect).       *)
(* ops.complete saves the operation that answers a change in a statement of  *)
(* its own, after the change: when that fails the client gets an error for a *)
(* change that has been made, and nothing here depends on which it gets.     *)
EXTENDS Integers

CONSTANTS Names,      \* resource names
          KindOf,     \* "view", "bundle" or "logical" for each of them
          Clients,
          MaxData,    \* bound on the updates of a resource or a policy
          Unreliable  \* the statement that deletes a policy may fail

ASSUME KindAssumption == KindOf \in [Names -> {"view", "bundle", "logical"}]
ASSUME MaxDataAssumption == MaxData \in Nat

VARIABLES
  meta,     \* authorized_views_t, schema_bundles_t, logical_views_t
  policy,   \* iam_policies_t: how often the policy was changed
  doing,    \* what every client is doing
  on,       \* the resource it does it to
  got,      \* the content it read, or the one UpdateLogicalView will store
  made,     \* updates of the resource since it was created (history)
  sets      \* updates of the policy since it was deleted (history)

resourceVars == <<meta, policy, doing, on, got, made, sets>>
clientVars == <<doing, on, got>>

Absent == [there |-> FALSE, data |-> 0, prot |-> FALSE]
NoName == 0
NoPolicy == -1
Contents == [there : BOOLEAN, data : 0..MaxData, prot : BOOLEAN]

InitResources ==
  /\ meta = [n \in Names |-> Absent] /\ policy = [n \in Names |-> NoPolicy]
  /\ doing = [c \in Clients |-> "idle"]
  /\ on = [c \in Clients |-> NoName] /\ got = [c \in Clients |-> Absent]
  /\ made = [n \in Names |-> 0] /\ sets = [n \in Names |-> 0]

\* Mutant: the etag is not compared.
checkNoEtag(requested, current) == current.there

\* contentEtag and checkEtag: an etag matches exactly the content it was given
\* out with.
checkEtag(requested, current) ==
  /\ requested.data = current.data
  /\ requested.prot = current.prot

Hold(c, n, content, at) ==
  /\ doing' = [doing EXCEPT ![c] = at]
  /\ on' = [on EXCEPT ![c] = n] /\ got' = [got EXCEPT ![c] = content]

Done(c) == Hold(c, NoName, Absent, "idle")

-----------------------------------------------------------------------------
(* Creation and deletion *)

\* Create: AlreadyExists for a name in use.
Create(n, p) ==
  /\ ~meta[n].there
  /\ (p => KindOf[n] # "bundle")
  /\ meta' = [meta EXCEPT ![n] = [there |-> TRUE, data |-> 0, prot |-> p]]
  /\ made' = [made EXCEPT ![n] = 0]
  /\ UNCHANGED <<policy, clientVars, sets>>

\* The resource first, then its policy, in two statements: the second may
\* fail, or the server stop before it.
Delete(n, policyToo) ==
  /\ policyToo \/ Unreliable
  /\ meta[n].there
  /\ ~meta[n].prot
  /\ meta' = [meta EXCEPT ![n] = Absent]
  /\ made' = [made EXCEPT ![n] = 0]
  /\ IF policyToo THEN /\ policy' = [policy EXCEPT ![n] = NoPolicy]
                       /\ sets' = [sets EXCEPT ![n] = 0]
                  ELSE UNCHANGED <<policy, sets>>
  /\ UNCHANGED clientVars

-----------------------------------------------------------------------------
(* Updates *)

Get(c, n) ==
  /\ doing[c] = "idle" /\ meta[n].there
  /\ Hold(c, n, meta[n], "read")
  /\ UNCHANGED <<meta, policy, made, sets>>

\* The request of a client is refused when the resource is gone or its etag is
\* no longer the one the client read.
Refuse(c) ==
  /\ doing[c] = "read"
  /\ ~meta[on[c]].there \/ ~checkEtag(got[c], meta[on[c]])
  /\ Done(c)
  /\ UNCHANGED <<meta, policy, made, sets>>

Accepted(c) ==
  /\ doing[c] = "read"
  /\ meta[on[c]].there
  /\ checkEtag(got[c], meta[on[c]])
  /\ got[c].data < MaxData /\ made[on[c]] < MaxData

\* UpdateAuthorizedView and UpdateSchemaBundle.
Update(c) ==
  /\ Accepted(c) /\ KindOf[on[c]] # "logical"
  /\ meta' = [meta EXCEPT ![on[c]].data = got[c].data + 1]
  /\ made' = [made EXCEPT ![on[c]] = @ + 1]
  /\ Done(c)
  /\ UNCHANGED <<policy, sets>>

\* UpdateAuthorizedView with the mask deletion_protection: the other fields
\* keep their values.
Protect(n, p) ==
  /\ meta[n].there /\ KindOf[n] = "view"
  /\ meta' = [meta EXCEPT ![n].prot = p]
  /\ UNCHANGED <<policy, clientVars, made, sets>>

\* UpdateLogicalView up to the release of s.mu, with an etag: the message to
\* store is made before the query is validated.
UpdateLogicalView(c) ==
  /\ Accepted(c) /\ KindOf[on[c]] = "logical"
  /\ Hold(c, on[c], [meta[on[c]] EXCEPT !.data = @ + 1], "validate")
  /\ UNCHANGED <<meta, policy, made, sets>>

\* The same without an etag, for the protection alone.
ProtectLogicalView(c, n, p) ==
  /\ doing[c] = "idle" /\ KindOf[n] = "logical" /\ meta[n].there
  /\ Hold(c, n, [meta[n] EXCEPT !.prot = p], "validateProtection")
  /\ UNCHANGED <<meta, policy, made, sets>>

\* After the validation, which may refuse the query, the message is stored
\* without another look at the view.
StoreLogicalView(c) ==
  /\ doing[c] \in {"validate", "validateProtection"}
  /\ \/ /\ meta' = [meta EXCEPT ![on[c]] = got[c]]
        /\ made' = [made EXCEPT ![on[c]] = @ + (IF doing[c] = "validate" THEN 1 ELSE 0)]
     \/ UNCHANGED <<meta, made>>
  /\ Done(c)
  /\ UNCHANGED <<policy, sets>>

-----------------------------------------------------------------------------
(* IAM policies.  A client reads the policy, the empty one when there is     *)
(* none, adds one and sends it back with its etag.                           *)

currentPolicy(n) == IF policy[n] = NoPolicy THEN 0 ELSE policy[n]

GetIamPolicy(c, n) ==
  /\ doing[c] = "idle" /\ meta[n].there
  /\ Hold(c, n, [Absent EXCEPT !.data = currentPolicy(n)], "policy")
  /\ UNCHANGED <<meta, policy, made, sets>>

\* requireIAMResource, before s.mu.
requireIAMResource(c) ==
  /\ doing[c] = "policy"
  /\ IF meta[on[c]].there THEN Hold(c, on[c], got[c], "set") ELSE Done(c)
  /\ UNCHANGED <<meta, policy, made, sets>>

\* The rest of SetIamPolicy, under s.mu.
SetIamPolicy(c) ==
  /\ doing[c] = "set"
  /\ IF got[c].data = currentPolicy(on[c]) /\ got[c].data < MaxData
     THEN /\ policy' = [policy EXCEPT ![on[c]] = got[c].data + 1]
          /\ sets' = [sets EXCEPT ![on[c]] = @ + 1]
     ELSE UNCHANGED <<policy, sets>>
  /\ Done(c)
  /\ UNCHANGED <<meta, made>>

NextResources ==
  \/ \E n \in Names, b \in BOOLEAN : Create(n, b) \/ Delete(n, b) \/ Protect(n, b)
  \/ \E c \in Clients, n \in Names : Get(c, n) \/ GetIamPolicy(c, n)
  \/ \E c \in Clients : \/ Refuse(c) \/ Update(c)
                        \/ UpdateLogicalView(c) \/ StoreLogicalView(c)
                        \/ requireIAMResource(c) \/ SetIamPolicy(c)
  \/ \E c \in Clients, n \in Names, p \in BOOLEAN : ProtectLogicalView(c, n, p)

SpecResources == InitResources /\ [][NextResources]_resourceVars

-----------------------------------------------------------------------------
(* Properties *)

\* The state has its types, and an idle client holds nothing.
TypesResources ==
  /\ meta \in [Names -> Contents]
  /\ policy \in [Names -> NoPolicy..MaxData]
  /\ doing \in [Clients -> {"idle", "read", "validate", "validateProtection", "policy", "set"}]
  /\ on \in [Clients -> Names \cup {NoName}] /\ got \in [Clients -> Contents]
  /\ \A c \in Clients : doing[c] # "idle" => on[c] \in Names
  /\ made \in [Names -> Nat] /\ sets \in [Names -> Nat]

\* Two clients that read a view, a bundle or a policy, change it and send it
\* back with the etag they read never undo one another: what is stored counts
\* every update, whatever changes of the protection, deletions and creations
\* under the same name go between (UpdateAuthorizedView, UpdateSchemaBundle,
\* SetIamPolicy).
NoLostUpdate ==
  \A n \in Names :
    /\ KindOf[n] # "logical" /\ meta[n].there => meta[n].data = made[n]
    /\ policy[n] # NoPolicy => policy[n] = sets[n]

\* An update of a logical view that carries an etag replaces the content that
\* etag stands for, and nothing else.  It fails: UpdateLogicalView compares
\* the etag before it gives s.mu up to validate the query, so of two clients
\* with the same etag one overwrites the other's update, or a deletion.
StaleLogicalEtagsFail ==
  [][\A c \in Clients :
       (doing[c] = "validate" /\ doing'[c] = "idle" /\ meta' # meta) =>
         meta[on[c]] = [got[c] EXCEPT !.data = @ - 1]]_resourceVars

\* "The view's IAM policy is deleted with it; a re-created view starts empty"
\* (DeleteAuthorizedView).  Not so: SetIamPolicy looks the view up before it
\* takes s.mu and stores the policy for its name, although the view has been
\* deleted in between; the next view of that name has the policy.
RecreatedViewStartsEmpty ==
  [][\A n \in Names, p \in BOOLEAN :
       KindOf[n] = "view" /\ Create(n, p) => policy[n] = NoPolicy]_resourceVars
=============================================================================
