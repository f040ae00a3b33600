-------------------------- MODULE MCNamedResources --------------------------
(* Clients of one authorized view, or of one logical view.                   *)
EXTENDS NamedResources

MCLogical == <<"logical">>
MCView == <<"view">>
=============================================================================
