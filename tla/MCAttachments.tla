---------------------------- MODULE MCAttachments ----------------------------
(* Model checking instances of Attachments. *)
EXTENDS Attachments, TLC

\* Two articles of one space and one of another.
MCArticle == 1 .. 3
MCSpace == 1 .. 2
MCSpaceOf == <<1, 1, 2>>

\* A file of two spaces, and one of two articles of a space.
MCSeed == {{<<1, "f1">>, <<3, "f1">>}, {<<1, "f1">>, <<2, "f1">>, <<1, "f2">>}}

\* One file of one article.
OneBound == {{<<1, "f1">>}}
=============================================================================
