-------------------------- MODULE MCAssetContract --------------------------
(* Instances of AssetContract: two wallets, one collection scope and one     *)
(* asset scope, and lists that grant each role.                              *)
EXTENDS AssetContract

CONSTANTS a, b, scope1, root0

G(w, r, s) == [who |-> w, role |-> r, scope |-> s]

MCScopes == {scope1}

(* The empty list, two editors, and a viewer with an editor whose grant is   *)
(* limited to one asset.                                                     *)
MCLists == { {},
             {G(a, "Editor", root0), G(b, "Editor", root0)},
             {G(a, "Viewer", root0), G(b, "Editor", scope1)} }

MCVersions == {1, 2}
=============================================================================
