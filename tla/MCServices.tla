---------------------------- MODULE MCServices ----------------------------
(* Instances of Services for TLC. *)
EXTENDS Services

CONSTANTS g1, g2, a1

Jobs ==
    {<<g1, "login">>} \cup ({g2} \X {"check", "list", "add", "rotate"})
    \cup ({a1} \X {"revoke", "drop"})

Sample ==
    HttpsFields \cup {"maxConcurrent", "statusCommand", "sshFallbackEnabled"}
=============================================================================
