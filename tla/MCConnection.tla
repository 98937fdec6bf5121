---------------------------- MODULE MCConnection ----------------------------
(* Finite instances of Connection: every kind of profile.                  *)
EXTENDS Connection

AllProfiles == [ssh : BOOLEAN, refused : BOOLEAN]
=============================================================================
