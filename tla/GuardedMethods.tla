--------------------------- MODULE GuardedMethods ---------------------------
(***************************************************************************)
(* The methods of the platform client (platform/) and of campaigns         *)
(* (integration/campaigns.go) that write a revisioned resource: what       *)
(* guards the write and what its answer is checked for.                    *)
(***************************************************************************)

Method(keyed, guarded, native, checked) ==
  [keyed |-> keyed, guarded |-> guarded, native |-> native, checked |-> checked]

ApplyGraphCommand == Method(TRUE, TRUE, TRUE, "operation")
AssignStage == Method(TRUE, FALSE, FALSE, "operation")
AnalyticsApply == Method(TRUE, FALSE, FALSE, "operation")
SaveDashboard == Method(TRUE, TRUE, FALSE, "identity")
SaveStageSet == Method(TRUE, TRUE, FALSE, "identity")
SaveStageView == Method(TRUE, TRUE, FALSE, "identity")
UpdateArticle == Method(FALSE, TRUE, FALSE, "revision")
UpdateCampaign == Method(FALSE, TRUE, FALSE, "identity")
LaunchCampaign == Method(FALSE, TRUE, FALSE, "identity")
PrepareCampaign == Method(FALSE, TRUE, FALSE, "identity")
UpdateScheme == Method(FALSE, FALSE, FALSE, "identity")
RenameFile == Method(FALSE, FALSE, FALSE, "identity")

EditMethods == {ApplyGraphCommand, AssignStage, AnalyticsApply, SaveDashboard, SaveStageSet,
            SaveStageView, UpdateArticle, UpdateCampaign, LaunchCampaign, PrepareCampaign,
            UpdateScheme, RenameFile}
NoMethod == Method(FALSE, FALSE, FALSE, "nothing")
=============================================================================
