--------------------------- MODULE MCCommandLine ----------------------------
(* Instances of CommandLine for TLC. *)
EXTENDS CommandLine

AllOptions == StartOptions \cup {"/templates", "/timetrace"}

=============================================================================
