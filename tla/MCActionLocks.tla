--------------------------- MODULE MCActionLocks ---------------------------
(* What HAProxyDeployer.getAfterChildrenUpdatedAction builds for a service  *)
(* behind a gateway whose cloud has no firewall: "Update HAProxy            *)
(* Configuration" is the sequence of the group "Delete HAProxy              *)
(* Configuration" and the group "Configure HAProxy", of one leaf each.  The *)
(* groups of one member that it lies in are left out.                       *)
EXTENDS ActionLocks

UpdateGroups == {"update", "delete", "configure"}
UpdateActions == UpdateGroups \cup {"deleteConfig", "configureConfig"}
UpdateChildren == [g \in UpdateGroups |->
  CASE g = "update"    -> <<"delete", "configure">>
    [] g = "delete"    -> <<"deleteConfig">>
    [] g = "configure" -> <<"configureConfig">>]
UpdateRequires == [a \in UpdateActions |->
  IF a = "configure" THEN {"delete"} ELSE {}]
=============================================================================
