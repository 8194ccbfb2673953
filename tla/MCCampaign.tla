----------------------------- MODULE MCCampaign -----------------------------
(* Campaign on small instances, and with the numbers of the code.           *)
EXTENDS CampaignContract

\* A small campaign: one core skill per world and two lead-in battles, the
\* second long enough for the review of an earlier world to leave room for
\* the current one. The learner is right, or misses an item.
OneSkill == <<1, 1>>

MidLeadIns == <<1, 3>>

RightOrMissed == {<<"right">>, <<"wrong", "guess">>}

\* The pinned catalog: its first worlds, and the items of its battles.
CatalogSkills == <<2, 1, 1>>

CatalogLeadIns == <<3, 4, 4, 5>>

AlwaysRight == {<<"right">>}

RightThenCorrected == {<<"right">>, <<"corrected">>}
=============================================================================
