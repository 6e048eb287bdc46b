------------------------------- MODULE MCSeed -------------------------------
(* Instance of Seed for TLC: a module with a child, one action, one setting. *)
EXTENDS Seed, TLC

CONSTANTS root, child

MCParentOf == root :> NoParent @@ child :> root
MCRoot == root :> NoParent
MCCatalogue == <<"modules", "permissions", "roles", "role_permissions", "admins",
                 "users", "settings", "records">>
=============================================================================
