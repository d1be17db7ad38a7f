---------------------------- MODULE MCAutopilot -----------------------------
(***************************************************************************)
(* Values for the constants that a configuration file cannot write down.   *)
(***************************************************************************)
EXTENDS AutopilotProps

MCDrives == {1, 2}
ThreeDrives == {1, 2, 3}
OneDrive == {1}
MCIDs == {"a", "b"}
OneID == {"a"}

MCPool == <<"a", "b">>
SparePool == <<"spare", "a", "spare", "b">>
NoPool == <<>>
OneIDPool == <<"a">>

NoEdits == {}
ReplaceBySpare == {<<"spare", "a">>}
=============================================================================
