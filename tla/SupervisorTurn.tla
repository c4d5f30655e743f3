---------------------------- MODULE SupervisorTurn ----------------------------
(***************************************************************************)
(* One turn of the specialist supervisor stack: run_specialist_supervisor  *)
(* with its budget, its specialists, the manager, the judge and the repair.*)
(*                                                                         *)
(* The message is given by what the flow asks of it; what a lane, a model  *)
(* or an agent says is a choice.  Any awaited call may raise.  An answer   *)
(* is the name of the place that wrote it and whether it was reworded.     *)
(***************************************************************************)
EXTENDS Naturals, Sequences, FiniteSets

CONSTANTS
    Requests,    \* what the flow can tell of a message and its sender
    Plans,       \* the plans considered
    MaxActs      \* bound on what one run changes in api-core

Kinds == {"simple", "complex", "ambiguous", "sensitive", "multi_domain"}
Domains == {"institution", "calendar", "academic", "finance", "support", "workflow"}
Strategies == {"direct_answer", "structured_tools", "hybrid_retrieval", "graph_rag", "document_search",
               "pricing_projection", "workflow_status", "clarify", "deny"}
Specialists == {"academic", "finance", "institution", "workflow", "document"}
Request == [forced: BOOLEAN, authenticated: BOOLEAN, internal: BOOLEAN, thirdParty: BOOLEAN,
            summary: BOOLEAN, configured: BOOLEAN]
Plan == [kind: Kinds, domain: Domains, secondary: BOOLEAN, specialists: SUBSET Specialists,
         strategy: Strategies, deny: BOOLEAN, clarify: BOOLEAN, question: BOOLEAN]

ASSUME SupervisorAssumption ==
    /\ Requests \subseteq Request
    /\ Plans \subseteq Plan
    /\ MaxActs \in Nat

VARIABLES
    request,
    pc,          \* the lane or stage the run is in
    plan,        \* the plan, once there is one
    results,     \* what the specialists found, by specialist
    session,     \* the manager runs with the session memory
    extra,       \* the manager's own tool calls found something
    draft,       \* the draft of the manager or of the repair
    verdict,     \* the last verdict
    answer,      \* the answer about to be stored
    guarded,     \* storing it happens inside the try of the flow
    acts,        \* history: changes made in api-core
    stored,      \* storing was tried
    posted,      \* the assistant messages that reached the transcript
    reply        \* what the caller of the stack got

vars == <<request, pc, plan, results, session, extra, draft, verdict, answer, guarded,
          acts, stored, posted, reply>>
made == <<request, plan, results, session, extra, draft, verdict>>

None == "none"
Drafts == {"draft", "repaired"}
Verdict == [of: Drafts \cup {None}, real: BOOLEAN, approved: BOOLEAN, issues: BOOLEAN, clarify: BOOLEAN,
            question: BOOLEAN, revised: BOOLEAN]
NoPlan == [kind |-> "simple", domain |-> "institution", secondary |-> FALSE, specialists |-> {},
           strategy |-> "direct_answer", deny |-> FALSE, clarify |-> FALSE, question |-> FALSE]
NoVerdict == [of |-> None, real |-> FALSE, approved |-> FALSE, issues |-> FALSE, clarify |-> FALSE,
              question |-> FALSE, revised |-> FALSE]

NoResults == [s \in {} |-> None]

(* The lanes before the planner, in the order they are tried.               *)
Lanes == <<"preflight", "shortcut", "teacher", "academic", "third_party", "memory", "fast",
           "internal_tool", "resolved", "tool_first", "general", "unconfigured", "guardrail", "planner">>
LaneNames == {Lanes[i] : i \in 1..Len(Lanes)} \ {"planner"}
Following(lane) == Lanes[1 + CHOOSE i \in 1..Len(Lanes) : Lanes[i] = lane]

NoAnswer == [from |-> None, reworded |-> FALSE]

Init ==
    /\ request \in Requests
    /\ pc = Lanes[1]
    /\ plan = NoPlan /\ results = NoResults /\ session = FALSE /\ extra = FALSE
    /\ draft = None /\ verdict = NoVerdict
    /\ answer = NoAnswer /\ guarded = FALSE
    /\ acts = 0 /\ stored = FALSE /\ posted = <<>> /\ reply = NoAnswer

-----------------------------------------------------------------------------
(* derive_execution_budget, should_use_manager, should_run_judge and        *)
(* should_run_repair.  More than one specialist always run in parallel.     *)

Budget(max, manager, judged, memory, direct) ==
    [max |-> max, manager |-> manager, judge |-> judged, repair |-> judged, session |-> memory,
     direct |-> direct]

MultiDomain(p) == p.secondary \/ p.kind = "multi_domain"

(* Variant: a plan that refuses or asks is given the budget of its kind.    *)
DeriveBudgetIgnoresRefusal(p) ==
    IF MultiDomain(p) \/ p.kind \in {"complex", "ambiguous", "sensitive"}
    THEN Budget(3, TRUE, TRUE, TRUE, FALSE) ELSE Budget(1, request.summary, FALSE, FALSE, TRUE)

DeriveBudget(p) ==
    LET publicDocuments ==
            /\ ~request.authenticated /\ p.domain \in {"institution", "calendar"}
            /\ p.strategy \in {"structured_tools", "hybrid_retrieval", "document_search", "graph_rag",
                               "direct_answer"}
            /\ MultiDomain(p) \/ p.kind \in {"complex", "ambiguous"}
        premium == MultiDomain(p) \/ p.kind \in {"complex", "ambiguous", "sensitive"}
        protectedTools == p.domain \in {"academic", "finance"} /\ p.strategy = "structured_tools"
        workflowTools == /\ p.domain \in {"workflow", "support"}
                         /\ p.strategy \in {"structured_tools", "workflow_status"}
        lowRisk == /\ p.domain = "institution"
                   /\ p.strategy \in {"direct_answer", "document_search", "hybrid_retrieval",
                                      "pricing_projection"}
        s == request.summary
    IN CASE p.deny \/ p.clarify -> Budget(0, FALSE, FALSE, FALSE, TRUE)
         [] publicDocuments /\ ~(p.deny \/ p.clarify) -> Budget(2, FALSE, FALSE, FALSE, TRUE)
         [] premium /\ ~publicDocuments /\ ~(p.deny \/ p.clarify) -> Budget(3, TRUE, TRUE, TRUE, FALSE)
         [] OTHER -> IF protectedTools \/ workflowTools THEN Budget(1, s, FALSE, FALSE, TRUE)
                     ELSE IF p.strategy = "graph_rag" \/ lowRisk THEN Budget(1, s, FALSE, FALSE, ~s)
                     ELSE Budget(IF s THEN 2 ELSE 1, s, FALSE, s, ~s)

budget == DeriveBudget(plan)

NeedsManager ==
    /\ budget.manager /\ ~plan.deny /\ ~plan.clarify
    /\ MultiDomain(plan) \/ Cardinality(DOMAIN results) > 1 \/ ~budget.direct

ShouldRunJudge ==
    /\ budget.judge
    /\ \/ plan.domain \in {"academic", "finance"}
       \/ plan.kind # "simple"
       \/ Cardinality(DOMAIN results) > 1

ShouldRunRepair == budget.repair /\ (plan.kind # "simple" \/ plan.domain \in {"academic", "finance"})

-----------------------------------------------------------------------------
(* The specialists and what is made of their results without a manager.     *)

(* The order of the registry: by execution priority, then by name.          *)
Rank == [academic |-> 1, finance |-> 2, institution |-> 3, workflow |-> 4, document |-> 5]
Selected ==
    LET Before(s) == {t \in plan.specialists : Rank[t] < Rank[s]}
    IN {s \in plan.specialists : Cardinality(Before(s)) < budget.max}

CombinableWith ==
    [institution |-> {"workflow", "document"}, academic |-> {"finance", "workflow"},
     finance |-> {"academic", "workflow"}, workflow |-> {"institution", "academic", "finance"},
     document |-> {"institution"}]

(* A confidence is high from 0.7 on and fair from 0.55 on.                  *)
Outcome == [confidence: {"high", "fair", "low"}, negative: BOOLEAN]

(* Those that can come first by (negative, -confidence, priority).          *)
Grade(o) == (IF o.negative THEN 3 ELSE 0)
            + (CASE o.confidence = "high" -> 0 [] o.confidence = "fair" -> 1 [] o.confidence = "low" -> 2)
Best == {s \in DOMAIN results : \A t \in DOMAIN results : Grade(results[s]) <= Grade(results[t])}

MultiComposed ==
    /\ plan.kind = "multi_domain"
    /\ Cardinality(DOMAIN results) > 1
    /\ \A s \in DOMAIN results :
         /\ DOMAIN results \ {s} \subseteq CombinableWith[s]
         /\ results[s].confidence = "high" /\ ~results[s].negative

DirectComposed == plan.kind # "multi_domain" /\ \E s \in Best : results[s].confidence = "high"

BudgetComposed == \E s \in Best : ~results[s].negative /\ results[s].confidence # "low"

-----------------------------------------------------------------------------
(* Leaving the flow: an answer is about to be stored, or an exception has   *)
(* left it and _run_specialist replies for it.                              *)

Deliver(from, inTry) ==
    /\ answer' = [from |-> from, reworded |-> FALSE]
    /\ guarded' = inTry
    /\ pc' = "rewriting"

FallBack == Deliver("manager_safe_fallback", FALSE)

Crash == pc' = "crashed" /\ UNCHANGED <<answer, guarded>>

At(stage) == pc = stage

(* Whether the flow looks at a lane at all, and whether it must answer.     *)
Tried(lane) ==
    CASE lane = "preflight" -> ~request.forced
      [] lane = "shortcut" -> request.internal
      [] lane = "third_party" -> request.authenticated /\ request.thirdParty
      [] lane \in {"fast", "resolved", "general"} -> ~(request.forced /\ ~request.authenticated)
      [] lane = "unconfigured" -> ~request.configured
      [] OTHER -> TRUE
Certain == {"third_party", "unconfigured"}
Awaited == {"shortcut", "teacher", "academic", "memory", "internal_tool", "resolved", "tool_first", "general"}
ToolLanes == {"shortcut", "internal_tool", "tool_first"}

PassLane(lane) ==
    /\ At(lane)
    /\ Tried(lane) => lane \notin Certain
    /\ pc' = Following(lane)
    /\ UNCHANGED <<made, answer, guarded, acts, stored, posted, reply>>

AnswerLane(lane) ==
    /\ At(lane) /\ Tried(lane)
    /\ Deliver(lane, FALSE)
    /\ UNCHANGED <<made, acts, stored, posted, reply>>

CrashLane(lane) ==
    /\ At(lane) /\ Tried(lane) /\ lane \in Awaited
    /\ Crash
    /\ UNCHANGED <<made, acts, stored, posted, reply>>

(* A tool lane books or opens a ticket; then it answers, or one of its      *)
(* later calls raises.                                                      *)
ActInLane(lane) ==
    /\ At(lane) /\ Tried(lane) /\ lane \in ToolLanes
    /\ acts < MaxActs /\ acts' = acts + 1
    /\ Deliver(lane, FALSE) \/ Crash
    /\ UNCHANGED <<made, stored, posted, reply>>

MakePlan ==
    /\ At("planner")
    /\ plan' \in Plans
    /\ pc' = "planned"
    /\ UNCHANGED <<request, results, session, extra, draft, verdict, answer, guarded, acts, stored, posted, reply>>

PlannerFails ==
    /\ At("planner")
    /\ Deliver("planner_safe_fallback", FALSE)
    /\ UNCHANGED <<made, acts, stored, posted, reply>>

(* A plan that asks but has no question goes on, with an empty budget.      *)
FollowPlan ==
    /\ At("planned")
    /\ IF plan.deny THEN Deliver("planner_denied", FALSE)
       ELSE IF plan.clarify /\ plan.question THEN Deliver("planner_clarify", FALSE)
       ELSE pc' = "specialists" /\ UNCHANGED <<answer, guarded>>
    /\ UNCHANGED <<made, acts, stored, posted, reply>>

(* Variant: the tool calls of the agents are not awaited.                   *)
AgentActsInBackground ==
    /\ plan # NoPlan /\ pc # "replied"
    /\ acts < MaxActs /\ acts' = acts + 1
    /\ UNCHANGED <<made, pc, answer, guarded, stored, posted, reply>>

(* An agent uses a tool that books, cancels or opens a ticket: a specialist *)
(* the budget lets run, or any of them as a tool of the manager.            *)
AgentActs ==
    /\ \/ At("specialists") /\ "workflow" \in Selected
       \/ At("manager")
    /\ acts < MaxActs /\ acts' = acts + 1
    /\ UNCHANGED <<made, pc, answer, guarded, stored, posted, reply>>

(* Variant: a specialist that raised is kept with an empty result.          *)
SpecialistsEndRaised ==
    /\ At("specialists")
    /\ results' \in [Selected -> Outcome \cup {[confidence |-> None, negative |-> FALSE]}]
    /\ pc' = "deciding"
    /\ UNCHANGED <<request, plan, session, extra, draft, verdict, answer, guarded, acts, stored, posted, reply>>

(* A specialist that raises is dropped, with whatever it has done.          *)
SpecialistsEnd ==
    /\ At("specialists")
    /\ \E ran \in SUBSET Selected : results' \in [ran -> Outcome]
    /\ pc' = "deciding"
    /\ UNCHANGED <<request, plan, session, extra, draft, verdict, answer, guarded, acts, stored, posted, reply>>

Decide ==
    /\ At("deciding")
    /\ LET straight == budget.direct \/ ~NeedsManager IN
       IF straight /\ MultiComposed
       THEN Deliver("multi_specialist_direct", TRUE) /\ UNCHANGED session
       ELSE IF straight /\ DirectComposed
       THEN Deliver("specialist_direct", TRUE) /\ UNCHANGED session
       ELSE IF NeedsManager
       THEN /\ session' \in {FALSE, budget.session}      \* the memory may be unavailable
            /\ pc' = "manager" /\ UNCHANGED <<answer, guarded>>
       ELSE /\ Deliver(IF BudgetComposed THEN "budget_direct" ELSE "budget_safe_fallback", TRUE)
            /\ UNCHANGED session
    /\ UNCHANGED <<request, plan, results, extra, draft, verdict, acts, stored, posted, reply>>

(* Without a judge the draft gets an approving verdict nobody gave.         *)
ManagerDrafts ==
    /\ At("manager")
    /\ draft' = "draft" /\ session' = FALSE
    /\ extra' \in BOOLEAN
    /\ IF ShouldRunJudge THEN pc' = "judge" /\ UNCHANGED verdict
       ELSE /\ verdict' = [NoVerdict EXCEPT !.of = "draft", !.approved = TRUE]
            /\ pc' = "gate"
    /\ UNCHANGED <<request, plan, results, answer, guarded, acts, stored, posted, reply>>

(* A manager that raises with the session memory runs again without it.     *)
ManagerFails ==
    /\ At("manager")
    /\ session' = FALSE
    /\ IF session THEN UNCHANGED <<pc, answer, guarded>> ELSE FallBack
    /\ UNCHANGED <<request, plan, results, extra, draft, verdict, acts, stored, posted, reply>>

(* Variant: what the judge says of a repaired draft is repaired again.      *)
RepairNeededAgain(v) ==
    ShouldRunRepair /\ DOMAIN results # {} /\ (~v.approved \/ v.issues) /\ ~v.clarify

RepairNeeded(v) ==
    /\ ShouldRunRepair /\ draft = "draft"
    /\ DOMAIN results # {} /\ (~v.approved \/ v.issues) /\ ~v.clarify

JudgeEnds ==
    /\ At("judge")
    /\ verdict' \in {v \in Verdict : v.of = draft /\ v.real /\ (v.question => v.clarify)}
    /\ pc' = IF RepairNeeded(verdict') THEN "repair" ELSE "gate"
    /\ UNCHANGED <<request, plan, results, session, extra, draft, answer, guarded, acts, stored, posted, reply>>

(* Variant: the repaired draft is not judged again.                         *)
RepairEndsUnjudged ==
    /\ At("repair")
    /\ draft' = "repaired" /\ pc' = "gate"
    /\ UNCHANGED <<request, plan, results, session, extra, verdict, answer, guarded, acts, stored, posted, reply>>

RepairEnds ==
    /\ At("repair")
    /\ draft' = "repaired" /\ pc' = "judge"
    /\ UNCHANGED <<request, plan, results, session, extra, verdict, answer, guarded, acts, stored, posted, reply>>

JudgeOrRepairFails ==
    /\ pc \in {"judge", "repair"}
    /\ FallBack
    /\ UNCHANGED <<made, acts, stored, posted, reply>>

(* grounding_gate_answer, then build_answer_payload                         *)
Gate ==
    LET needsGrounds ==
            \/ plan.specialists # {}
            \/ plan.strategy \in {"structured_tools", "hybrid_retrieval", "graph_rag", "document_search",
                                  "workflow_status", "pricing_projection"}
        through == verdict.approved /\ (needsGrounds => DOMAIN results # {} \/ extra)
        asks == verdict.clarify /\ verdict.question
    IN
    /\ At("gate")
    /\ Deliver(CASE asks -> "judge_question"
                 [] ~asks /\ ~through -> "safe_clarify"
                 [] OTHER -> IF verdict.revised THEN "judge_revision" ELSE draft,
               FALSE)
    /\ UNCHANGED <<made, acts, stored, posted, reply>>

-----------------------------------------------------------------------------
(* _persist_and_dump: the composer and the refiner may reword any answer,   *)
(* the turn is posted, and only then the answer is returned.                *)

Reword ==
    /\ At("rewriting")
    /\ \E b \in BOOLEAN : answer' = [answer EXCEPT !.reworded = b]
    /\ pc' = "storing"
    /\ UNCHANGED <<made, guarded, acts, stored, posted, reply>>

(* An exception before the turn is posted: inside the try it is caught.     *)
PersistRaises ==
    /\ At("rewriting")
    /\ IF guarded THEN FallBack ELSE Crash
    /\ UNCHANGED <<made, acts, stored, posted, reply>>

(* A post that fails or times out is forgotten; it may have landed.         *)
Store ==
    /\ At("storing")
    /\ stored' = TRUE
    /\ posted' \in {posted, Append(posted, answer)}
    /\ pc' = "returning"
    /\ UNCHANGED <<made, answer, guarded, acts, reply>>

(* Variant: the answer is stored first and reworded afterwards.             *)
ReturnReworded ==
    /\ At("returning")
    /\ reply' = [answer EXCEPT !.reworded = TRUE]
    /\ pc' = "replied"
    /\ UNCHANGED <<made, answer, guarded, acts, stored, posted>>

Return ==
    /\ At("returning")
    /\ reply' = answer
    /\ pc' = "replied"
    /\ UNCHANGED <<made, answer, guarded, acts, stored, posted>>

(* _run_specialist                                                          *)
ReplyForCrash ==
    /\ At("crashed")
    /\ reply' = [from |-> "request_failed", reworded |-> FALSE]
    /\ pc' = "replied"
    /\ UNCHANGED <<made, answer, guarded, acts, stored, posted>>

-----------------------------------------------------------------------------
Next ==
    \/ \E lane \in LaneNames : PassLane(lane) \/ AnswerLane(lane) \/ CrashLane(lane) \/ ActInLane(lane)
    \/ MakePlan \/ PlannerFails \/ FollowPlan
    \/ AgentActs \/ SpecialistsEnd \/ Decide
    \/ ManagerDrafts \/ ManagerFails \/ JudgeEnds \/ RepairEnds \/ JudgeOrRepairFails \/ Gate
    \/ Reword \/ PersistRaises \/ Store \/ Return \/ ReplyForCrash

Spec == Init /\ [][Next]_vars

(* Every call of an agent, of api-core and of the refiner ends or times out. *)
FairSpec == Spec /\ WF_vars(Next)

-----------------------------------------------------------------------------
(* Properties *)

Answers == [from: LaneNames \cup Drafts \cup
                  {None, "planner_safe_fallback", "planner_denied", "planner_clarify", "manager_safe_fallback",
                   "multi_specialist_direct", "specialist_direct", "budget_direct", "budget_safe_fallback",
                   "judge_question", "safe_clarify", "judge_revision", "request_failed"},
            reworded: BOOLEAN]
Stages == {"planner", "planned", "specialists", "deciding", "manager", "judge", "repair", "gate",
           "rewriting", "storing", "returning", "crashed", "replied"}

TypeOK ==
    /\ request \in Requests
    /\ pc \in LaneNames \cup Stages
    /\ plan \in Plans \cup {NoPlan}
    /\ \E ran \in SUBSET Specialists : results \in [ran -> Outcome]
    /\ session \in BOOLEAN /\ extra \in BOOLEAN
    /\ draft \in Drafts \cup {None} /\ verdict \in Verdict
    /\ answer \in Answers /\ reply \in Answers /\ posted \in Seq(Answers)
    /\ guarded \in BOOLEAN /\ stored \in BOOLEAN
    /\ acts \in 0..MaxActs

(* What the transcript keeps of a turn is what the caller is shown: the     *)
(* answer that was stored is the reply, word for word, whichever exception  *)
(* was caught on the way, and a run that ends in the request_failed reply   *)
(* has stored nothing.                                                      *)
TranscriptTellsTheShown ==
    /\ Len(posted) <= 1
    /\ At("replied") /\ posted # <<>> => posted[1] = reply

(* A draft of the manager reaches the user only with an approving verdict   *)
(* on that very draft, given by the judge itself for every kind of request  *)
(* the planner calls delicate, and never without a specialist's result when *)
(* the plan asks for specialists.                                           *)
DeliveredDraftWasJudged ==
    answer.from \in Drafts =>
        /\ verdict.of = answer.from /\ verdict.approved
        /\ plan.kind # "simple" \/ (MultiDomain(plan) /\ plan.domain \in {"academic", "finance"})
              => verdict.real
        /\ plan.specialists # {} => DOMAIN results # {} \/ extra

(* A plan that refuses or asks back makes no specialist and no manager run, *)
(* changes nothing, and is answered by a refusal, a question or a fallback, *)
(* even when the planner asks without giving a question.                    *)
RefusalRunsNothing ==
    plan.deny \/ plan.clarify =>
        /\ DOMAIN results = {} /\ draft = None /\ acts = 0
        /\ answer.from \in {None, "planner_denied", "planner_clarify", "budget_safe_fallback",
                            "manager_safe_fallback"}

(* The run keeps what a stack promises: it acts before it stores, stores    *)
(* before it replies, and does nothing afterwards.                          *)
Run == INSTANCE StackRun WITH
    stage <- IF At("replied") THEN "replied" ELSE IF stored THEN "stored" ELSE "fresh",
    acts <- acts
ImplementsStackRun == Run!Spec

(* Whatever raises, the caller gets a reply: the manager is not run again   *)
(* and the draft not repaired for ever.                                     *)
EveryTurnAnswered == <>At("replied")
=============================================================================
