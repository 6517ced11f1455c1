------------------------------ MODULE MCDaemon ------------------------------
(* Instances of Daemon for TLC. *)
EXTENDS Daemon, TLC

CONSTANTS plain, seasonal

\* A folder and, below it, the folder of a season.
MCSource == {"/w", "/w/fall"}
MCFile == {"/w/a", "/w/b", "/w/c", "/w/d", "/w/fall/e"}
MCKey == {"a", "b", "c", "d", "fall/e", "e"}
MCRelKey ==
  LET base == "/w/a" :> "a" @@ "/w/b" :> "b" @@ "/w/c" :> "c" @@ "/w/d" :> "d"
  IN  "/w" :> (base @@ "/w/fall/e" :> "fall/e")
      @@ "/w/fall" :> (base @@ "/w/fall/e" :> "e")

\* On day 2 the seasonal configuration draws from the season.
MCSourceOf ==
  [c \in Config |-> [d \in Day |-> IF c = seasonal /\ d = 2 THEN "/w/fall" ELSE "/w"]]

\* A folder of four; a season of one file that is sometimes not there.
MCScans ==
  "/w" :> {{"/w/a", "/w/b", "/w/c", "/w/d"}} @@ "/w/fall" :> {{"/w/fall/e"}, {}}

\* One file, and none for the season: what is drawn does not matter, only when.
SingleScans ==
  "/w" :> {{"/w/a"}} @@ "/w/fall" :> {{}}

NoName == ""
=============================================================================
