------------------------- MODULE MCNotificationCenter -------------------------
(* A small instance of the notification center: channels whose configs are   *)
(* valid, or do not parse, and the two marks of one condition.               *)
EXTENDS NotificationCenter

Raw(notifier, level, namespace, labels) ==
    [notifier |-> notifier, level |-> level, namespace |-> namespace, labels |-> labels]

\* At the default level; and at the lowest one, for a label of the experiment.
MCRawConfigs ==
    {Raw("slack", "", "", {}), Raw("slack", "verbose", "", {"app"})}

MCMarks ==
    {[reason |-> "TargetsError", message |-> "Missing Candidate"],
     [reason |-> "TargetsFound", message |-> ""]}
==============================================================================
