----------------------------- MODULE MCSeasoned -----------------------------
(* Instances of Seasoned for TLC: one folder, one configuration. *)
EXTENDS Seasoned, TLC

CONSTANTS plain, p1, p2

MCSource == {"/w"}
MCFile == {"/w/a", "/w/b", "/w/c"}
MCKey == {"a", "b", "c"}
MCRelKey == "/w" :> ("/w/a" :> "a" @@ "/w/b" :> "b" @@ "/w/c" :> "c")
MCSourceOf == [c \in Config |-> [d \in Day |-> "/w"]]

\* The folder has three files, two of them, or none.
MCScans == "/w" :> {{"/w/a", "/w/b", "/w/c"}, {"/w/a", "/w/b"}, {}}

NoName == ""
=============================================================================
