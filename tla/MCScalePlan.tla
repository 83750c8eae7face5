------------------------------ MODULE MCScalePlan ------------------------------
(***************************************************************************)
(* ScalePlan for TLC: the replicas of a Deployment, the two bounds of an   *)
(* autoscaler (the upper one up-only, the lower one unset at first) and a  *)
(* custom resource.                                                        *)
(***************************************************************************)
EXTENDS ScalePlan

MCEntry(kind, paths, skip, default) ==
  [kind |-> kind, paths |-> paths, skip |-> skip, default |-> default]

MCCatalog ==
  [k \in {"web", "min", "max", "again", "custom", "external"} |->
     CASE k = "web"      -> MCEntry("Deployment", <<"replicas">>, FALSE, Unset)
       [] k = "min"      -> MCEntry("HPA", <<"min">>, FALSE, Unset)
       [] k = "max"      -> MCEntry("HPA", <<"max">>, TRUE, Unset)
       [] k = "again"    -> MCEntry("HPA", <<"min">>, FALSE, Unset)
       [] k = "custom"   -> MCEntry("Custom", <<"low", "high">>, FALSE, 2)
       [] k = "external" -> MCEntry("Queue", <<>>, FALSE, Unset)]

Tokens(keys) == [i \in DOMAIN keys |-> [key |-> keys[i], name |-> ""]]

MCFields ==
  {<<"Deployment", "w", "replicas">>, <<"HPA", "w", "min">>, <<"HPA", "w", "max">>}
MCUser ==
  [f \in MCFields |-> IF f[3] = "min" THEN Unset ELSE 2]
\* The third one has a blank and a second token of a key; the last three are
\* refused.
MCAnnotations ==
  {Tokens(<<"web", "min", "max">>), Tokens(<<"min", "max">>),
   Tokens(<<"min", "", "web", "min">>),
   Tokens(<<"", "">>), Tokens(<<"min", "unknown">>),
   <<[key |-> "", name |-> "w"]>>}
MCAnnotationsExternal == MCAnnotations \cup {Tokens(<<"external">>)}
\* A second catalog key for a path.
MCAnnotationsAlias == {Tokens(<<"min">>), Tokens(<<"again">>)}

\* A custom resource that leaves a path to its default.
MCFieldsCustom ==
  {<<"Deployment", "w", "replicas">>, <<"Custom", "w", "low">>, <<"Custom", "w", "high">>}
MCUserCustom == [f \in MCFieldsCustom |-> IF f[3] = "low" THEN Unset ELSE 1]
MCAnnotationsCustom == {Tokens(<<"web", "custom">>)}
=============================================================================
