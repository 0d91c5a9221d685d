----------------------------- MODULE MCOtaBoot -----------------------------
(* OtaBoot with images of two sections and two versions: the one the device *)
(* was made with and one to update to.                                      *)
EXTENDS OtaBoot

CONSTANTS oldBuild, newBuild

MCVersion == {oldBuild, newBuild}
=============================================================================
