-------------------------- MODULE MCCommentThread --------------------------
(* The comment thread with two assets and two sockets at a time.            *)
EXTENDS CommentThread

CONSTANTS a1, a2, s1, s2

MCAssets == {a1, a2}
MCSockets == {s1, s2}
=============================================================================
