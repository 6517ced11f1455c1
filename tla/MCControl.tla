----------------------------- MODULE MCControl ------------------------------
(* An instance of Control for TLC: one folder with one file, since what is *)
(* drawn does not matter here, only when.                                   *)
EXTENDS Control

CONSTANT plain

OneSource == {"/w"}
OneFile == {"/w/a"}
OneKey == {"a"}
OneRelKey == [src \in OneSource |-> [f \in OneFile |-> "a"]]
OneSourceOf == [c \in Config |-> [d \in Day |-> "/w"]]
OneScans == [src \in OneSource |-> {OneFile}]
NoName == ""
=============================================================================
