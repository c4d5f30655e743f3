---------------------------- MODULE MCSupervisorTurn ----------------------------
(* An instance of SupervisorTurn: anonymous and authenticated senders, with  *)
(* the plans of two domains.                                                 *)
EXTENDS SupervisorTurn

Plain == [forced |-> FALSE, authenticated |-> TRUE, internal |-> FALSE, thirdParty |-> FALSE,
          summary |-> FALSE, configured |-> TRUE]

MCRequests ==
    {Plain, [Plain EXCEPT !.authenticated = FALSE, !.forced = TRUE], [Plain EXCEPT !.summary = TRUE],
     [Plain EXCEPT !.internal = TRUE, !.thirdParty = TRUE],
     [Plain EXCEPT !.internal = TRUE, !.configured = FALSE]}

(* As the planner's normalisation leaves them: a grounded plan names its    *)
(* specialists, a second domain makes a request a multi_domain one unless   *)
(* only the planner saw it, and a refusal has its own strategy.             *)
Grounded(kind, domain, secondary, specialists, strategy) ==
    [NoPlan EXCEPT !.kind = kind, !.domain = domain, !.secondary = secondary,
                   !.specialists = specialists, !.strategy = strategy]

MCPlans ==
    {Grounded("multi_domain", "finance", TRUE, {"finance", "workflow"}, "structured_tools"),
     Grounded("complex", "institution", FALSE, {"institution", "document"}, "hybrid_retrieval")}
    \cup {Grounded(k, "institution", s, {"institution"}, "hybrid_retrieval") :
             k \in {"simple", "sensitive"}, s \in BOOLEAN}
    \cup {Grounded(k, "finance", FALSE, {"workflow"}, "structured_tools") : k \in {"simple", "sensitive"}}
    \cup {[Grounded(k, "finance", k # "simple", {"finance"}, "deny") EXCEPT !.deny = TRUE] :
             k \in {"simple", "multi_domain"}}
    \cup {[Grounded("sensitive", "finance", FALSE, {"workflow"}, "clarify")
             EXCEPT !.clarify = TRUE, !.question = q] : q \in BOOLEAN}
=================================================================================
