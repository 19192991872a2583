---------------------------- MODULE MCEditorTeam ----------------------------
(* Two wallets, one token that the first creates, its lists and lives.      *)
EXTENDS EditorTeam, TLC

CONSTANTS a, b, t1

MCCreator == t1 :> a
MCLists == TeamList
=============================================================================
