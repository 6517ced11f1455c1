----------------------------- MODULE MCOneShot -----------------------------
(* An instance of Setter, and so of OneShot, for TLC: one folder, one       *)
(* configuration, and machines with a backend of each kind.                 *)
EXTENDS Setter

CONSTANTS plain, p1, p2, second

MCSource == {"/w"}
MCFile == {"/w/a", "/w/b"}
MCKey == {"a", "b"}
MCRelKey == "/w" :> ("/w/a" :> "a" @@ "/w/b" :> "b")
MCSourceOf == [c \in Config |-> [d \in Day |-> "/w"]]
MCScans == "/w" :> {{"/w/a", "/w/b"}, {}}

NoName == ""

Linux(names, tools) ==
  [os |-> "linux", command |-> "unset", wayland |-> TRUE, desktop |-> names, installed |-> tools]

\* No tool for the desktop and no feh; two commands of which the second sets
\* all; two that each set one; a list; one that stays; two that are not bound.
MCHosts ==
  {Linux({"gnome"}, {"swww"}), Linux({"hyprland"}, {"hyprctl", "feh"}),
   Linux({"unity", "gnome"}, {"gsettings"}), Linux({"xfce"}, {"xfconf-query", "feh"}),
   Linux({"sway", "wlroots"}, {"swaybg"}),
   [Linux({"sway"}, {}) EXCEPT !.command = "good"],
   [Linux({}, {}) EXCEPT !.os = "windows"]}
=============================================================================
