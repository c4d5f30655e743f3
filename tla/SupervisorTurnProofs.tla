-------------------------- MODULE SupervisorTurnProofs --------------------------
(***************************************************************************)
(* For any messages, plans and number of changes: what a turn of the       *)
(* supervisor stores is what it shows, its drafts are judged, its refusals *)
(* run nothing, it is a run as StackRun has it, and it runs out of steps.  *)
(***************************************************************************)
EXTENDS SupervisorTurn, FiniteSetTheorems, TLAPS

Managed == {"manager", "judge", "repair", "gate"}
Working == LaneNames \cup {"planner", "planned", "specialists", "deciding"} \cup Managed

(* Nothing is answered while the run is at work and nothing is stored       *)
(* before there is an answer.                                               *)
Answering ==
    /\ pc \in Working => answer = NoAnswer
    /\ pc \notin {"returning", "replied"} => ~stored /\ posted = <<>>
    /\ pc = "returning" => posted \in {<<>>, <<answer>>}

(* Nothing is done before there is a plan, no draft before the manager.     *)
Planning ==
    /\ pc \in LaneNames \cup {"planner"} => plan = NoPlan
    /\ pc \in LaneNames \cup {"planner", "planned"} => acts = 0
    /\ pc \in LaneNames \cup {"planner", "planned", "specialists"} => DOMAIN results = {}
    /\ pc \in Working \ Managed => draft = None

(* The manager runs where it is due, the judge where it is.                 *)
Supervised ==
    /\ pc \in Managed => NeedsManager
    /\ pc \in {"judge", "repair"} => draft \in Drafts
    /\ pc = "gate" => draft \in Drafts /\ verdict.of = draft /\ (ShouldRunJudge => verdict.real)

IInv ==
    /\ TypeOK /\ Answering /\ Planning /\ Supervised
    /\ TranscriptTellsTheShown /\ DeliveredDraftWasJudged /\ RefusalRunsNothing

-----------------------------------------------------------------------------
(* Plans and budgets *)

(* The lanes are not stages of the planner or of what follows it, and after *)
(* a lane comes another one or the planner.                                 *)
LEMMA LanesLead ==
    /\ LaneNames \cap {"planner", "planned", "specialists", "deciding", "manager", "judge", "repair", "gate",
                       "rewriting", "storing", "returning", "crashed", "replied"} = {}
    /\ \A lane \in LaneNames : Following(lane) \in LaneNames \cup {"planner"}
<1>1. Len(Lanes) = 14 /\ Lanes[14] = "planner"
  BY DEF Lanes
<1>2. LaneNames \cap {"planner", "planned", "specialists", "deciding", "manager", "judge", "repair", "gate",
                      "rewriting", "storing", "returning", "crashed", "replied"} = {}
  <2> SUFFICES ASSUME NEW i \in 1..14, Lanes[i] # "planner"
               PROVE  Lanes[i] \notin {"planner", "planned", "specialists", "deciding", "manager", "judge", "repair",
                                       "gate", "rewriting", "storing", "returning", "crashed", "replied"}
    BY <1>1 DEF LaneNames
  <2> QED
    BY DEF Lanes
<1>3. ASSUME NEW lane \in LaneNames PROVE Following(lane) \in LaneNames \cup {"planner"}
  <2> DEFINE k == CHOOSE i \in 1..Len(Lanes) : Lanes[i] = lane
  <2>1. lane # "planner" /\ \E i \in 1..Len(Lanes) : Lanes[i] = lane
    BY DEF LaneNames
  <2>2. k \in 1..Len(Lanes) /\ Lanes[k] = lane
    BY <2>1
  <2>3. 1 + k \in 1..Len(Lanes) /\ Following(lane) = Lanes[1 + k]
    BY <1>1, <2>1, <2>2 DEF Following
  <2> QED
    BY <2>3 DEF LaneNames
<1> QED
  BY <1>2, <1>3

(* What stands for a plan before there is one is a plan too.                *)
LEMMA PlanIsPlan == TypeOK => plan \in Plan
<1>1. {} \in SUBSET Specialists
  OBVIOUS
<1>2. NoPlan \in Plan
  BY <1>1 DEF NoPlan, Plan, Kinds, Domains, Strategies
<1> QED
  BY <1>2, SupervisorAssumption DEF TypeOK

(* Two plans without a difference have the same budget.                     *)
LEMMA SameBudget ==
    UNCHANGED <<request, plan, results>> =>
        (NeedsManager' <=> NeedsManager) /\ (ShouldRunJudge' <=> ShouldRunJudge)
BY DEF NeedsManager, ShouldRunJudge, budget, DeriveBudget, MultiDomain, Budget

(* A refusal has an empty budget, under which no specialist is selected.    *)
LEMMA RefusalSelectsNone ==
    ASSUME plan.deny \/ plan.clarify, plan.specialists \in SUBSET Specialists
    PROVE  Selected = {} /\ ~NeedsManager
<1>1. budget.max = 0
  BY DEF budget, DeriveBudget, Budget
<1>2. \A s : Cardinality({t \in plan.specialists : Rank[t] < Rank[s]}) \in Nat
  <2>1. IsFiniteSet(Specialists)
    <3> DEFINE two == {"academic", "finance"}
               three == two \cup {"institution"}
               four == three \cup {"workflow"}
    <3>1. IsFiniteSet(two)
      <4>1. IsFiniteSet({"academic"}) /\ two = {"academic"} \cup {"finance"}
        BY FS_Singleton
      <4> QED
        BY <4>1, FS_AddElement
    <3>2. IsFiniteSet(three)
      BY <3>1, FS_AddElement
    <3>3. IsFiniteSet(four)
      BY <3>2, FS_AddElement
    <3>4. Specialists = four \cup {"document"}
      BY DEF Specialists
    <3> QED
      BY <3>3, <3>4, FS_AddElement
  <2> TAKE s
  <2>2. {t \in plan.specialists : Rank[t] < Rank[s]} \subseteq Specialists
    OBVIOUS
  <2> QED
    BY <2>1, <2>2, FS_Subset, FS_CardinalityType
<1> QED
  BY <1>1, <1>2 DEF Selected, NeedsManager

(* Whether the manager would have a session.                                *)
LEMMA BudgetSession == TypeOK => budget.session \in BOOLEAN
<1> SUFFICES ASSUME TypeOK PROVE budget.session \in BOOLEAN
  OBVIOUS
<1>1. request.summary \in BOOLEAN
  BY SupervisorAssumption DEF TypeOK, Request
<1>2. budget.session = FALSE \/ budget.session = TRUE \/ budget.session = request.summary
  BY DEF budget, DeriveBudget, Budget
<1> QED
  BY <1>1, <1>2

(* Where the manager runs on a plan that is not a simple one, or on two     *)
(* domains of protected data, the judge runs too.                           *)
LEMMA ManagerIsJudged ==
    ASSUME NeedsManager, plan \in Plan,
           plan.kind # "simple" \/ (MultiDomain(plan) /\ plan.domain \in {"academic", "finance"})
    PROVE  ShouldRunJudge
<1>1. ~plan.deny /\ ~plan.clarify /\ budget.manager
  BY DEF NeedsManager
<1>2. MultiDomain(plan) \/ plan.kind \in {"complex", "ambiguous", "sensitive"}
  BY DEF Plan, Kinds, MultiDomain
<1>3. budget.judge
  BY <1>1, <1>2 DEF budget, DeriveBudget, Budget
<1> QED
  BY <1>3 DEF ShouldRunJudge
(* An outcome of an arm that was dropped is no result.                      *)
LEMMA NoBest == DOMAIN results = {} => Best = {} /\ ~MultiComposed /\ ~DirectComposed /\ ~BudgetComposed
<1> SUFFICES ASSUME DOMAIN results = {} PROVE Best = {} /\ ~MultiComposed /\ ~DirectComposed /\ ~BudgetComposed
  OBVIOUS
<1>1. Best = {}
  BY DEF Best
<1>2. Cardinality(DOMAIN results) = 0
  BY FS_EmptySet
<1> QED
  BY <1>1, <1>2 DEF MultiComposed, DirectComposed, BudgetComposed

-----------------------------------------------------------------------------
(* The invariant *)

(* A run begins with nothing planned, drafted or answered.                  *)
LEMMA InitInv == Init => IInv
<1> SUFFICES ASSUME Init PROVE IInv
  OBVIOUS
<1>1. pc \in LaneNames /\ pc = "preflight"
  <2>1. Lanes[1] = "preflight" /\ Len(Lanes) = 14
    BY DEF Lanes
  <2> QED
    BY <2>1 DEF Init, LaneNames
<1>2. results \in [{} -> Outcome] /\ DOMAIN results = {}
  BY DEF Init, NoResults
<1>3. TypeOK
  <2>1. \E ran \in SUBSET Specialists : results \in [ran -> Outcome]
    BY <1>2
  <2>2. posted \in Seq(Answers) /\ answer \in Answers /\ reply \in Answers
    BY DEF Init, NoAnswer, Answers
  <2>3. verdict \in Verdict
    BY DEF Init, NoVerdict, Verdict
  <2>4. request \in Requests /\ pc \in LaneNames /\ plan = NoPlan /\ acts \in 0..MaxActs
    BY <1>1, SupervisorAssumption DEF Init
  <2> QED
    BY <2>1, <2>2, <2>3, <2>4 DEF Init, TypeOK
<1>4. Answering /\ Planning /\ Supervised
  BY <1>1, <1>2, LanesLead DEF Init, Answering, Planning, Supervised, Managed
<1>5. TranscriptTellsTheShown /\ DeliveredDraftWasJudged /\ RefusalRunsNothing
  <2>1. pc # "replied" /\ posted = <<>> /\ ~plan.deny /\ ~plan.clarify /\ answer.from = "none"
    BY <1>1 DEF Init, NoPlan, NoAnswer, None
  <2> QED
    BY <2>1 DEF TranscriptTellsTheShown, DeliveredDraftWasJudged, RefusalRunsNothing, At, Drafts
<1> QED
  BY <1>3, <1>4, <1>5 DEF IInv

(* A step from a stage at work to a stage at work.                          *)
LEMMA WorkingStep ==
    ASSUME IInv, pc \in Working, pc' \in Working,
           UNCHANGED <<request, answer, stored, posted, reply>>,
           TypeOK', Planning', Supervised',
           (plan.deny \/ plan.clarify)' => DOMAIN results' = {} /\ draft' = None /\ acts' = 0
    PROVE  IInv'
<1>1. pc # "returning" /\ pc # "replied" /\ pc' # "returning" /\ pc' # "replied"
  BY LanesLead DEF Working, Managed
<1>2. answer = NoAnswer /\ answer' = NoAnswer /\ posted' = <<>> /\ ~stored'
  BY <1>1 DEF IInv, Answering
<1>3. Answering' /\ TranscriptTellsTheShown'
  BY <1>1, <1>2 DEF Answering, TranscriptTellsTheShown, At
<1>4. DeliveredDraftWasJudged' /\ RefusalRunsNothing'
  BY <1>2 DEF DeliveredDraftWasJudged, RefusalRunsNothing, NoAnswer, Drafts, None
<1> QED
  BY <1>3, <1>4 DEF IInv

(* A step that delivers an answer of a stage at work.                       *)
LEMMA DeliverStep ==
    ASSUME IInv, pc \in Working, NEW from, NEW inTry, Deliver(from, inTry),
           UNCHANGED <<request, plan, results, extra, draft, verdict, stored, posted, reply>>,
           TypeOK',
           plan.deny \/ plan.clarify =>
              /\ from \in {"planner_denied", "planner_clarify", "budget_safe_fallback", "manager_safe_fallback"}
              /\ acts' = acts,
           from \in Drafts => pc = "gate" /\ from = draft /\ verdict.approved
                              /\ (plan.specialists # {} => DOMAIN results # {} \/ extra)
    PROVE  IInv'
<1>1. /\ pc # "returning" /\ pc # "replied" /\ pc' = "rewriting" /\ answer'.from = from
      /\ pc' \notin Working
  BY LanesLead DEF Working, Managed, Deliver
<1>2. Answering' /\ Planning' /\ Supervised' /\ TranscriptTellsTheShown'
  BY <1>1 DEF IInv, Answering, Planning, Supervised, TranscriptTellsTheShown, At, Working, Managed
<1>3. RefusalRunsNothing'
  BY <1>1 DEF IInv, RefusalRunsNothing
<1>4. DeliveredDraftWasJudged'
  <2> SUFFICES ASSUME from \in Drafts PROVE DeliveredDraftWasJudged'
    BY <1>1 DEF DeliveredDraftWasJudged
  <2>1. pc = "gate" /\ verdict.of = from /\ NeedsManager /\ (ShouldRunJudge => verdict.real)
    BY DEF IInv, Supervised, Managed
  <2>2. plan \in Plan
    BY PlanIsPlan DEF IInv
  <2>3. plan.kind # "simple" \/ (MultiDomain(plan) /\ plan.domain \in {"academic", "finance"}) => verdict.real
    BY <2>1, <2>2, ManagerIsJudged
  <2> QED
    BY <1>1, <2>1, <2>3 DEF DeliveredDraftWasJudged, MultiDomain
<1> QED
  BY <1>2, <1>3, <1>4 DEF IInv

(* A step that crashes a lane.                                              *)
LEMMA CrashStep ==
    ASSUME IInv, pc \in LaneNames, Crash, UNCHANGED <<made, stored, posted, reply>>, TypeOK'
    PROVE  IInv'
<1>1. /\ pc # "returning" /\ pc # "replied" /\ pc' = "crashed" /\ answer' = answer /\ answer = NoAnswer
      /\ pc' \notin Working
  BY LanesLead DEF IInv, Answering, Working, Managed, Crash
<1>2. Answering' /\ Planning' /\ Supervised' /\ TranscriptTellsTheShown'
  BY <1>1 DEF IInv, Answering, Planning, Supervised, TranscriptTellsTheShown, At, Working, Managed, made
<1>3. RefusalRunsNothing'
  BY <1>1 DEF IInv, Planning, RefusalRunsNothing, NoPlan, made
<1>4. DeliveredDraftWasJudged'
  BY <1>1 DEF DeliveredDraftWasJudged, NoAnswer, Drafts, None
<1> QED
  BY <1>2, <1>3, <1>4 DEF IInv
-----------------------------------------------------------------------------
(* The lanes and the planner *)

(* A lane passes the message on, answers it, crashes, or does so after it   *)
(* has changed something in api-core.                                       *)
LEMMA LaneSteps ==
    ASSUME IInv, NEW lane \in LaneNames,
           PassLane(lane) \/ AnswerLane(lane) \/ CrashLane(lane) \/ ActInLane(lane)
    PROVE  IInv'
<1> USE DEF made
<1>1. pc = lane /\ pc \in Working /\ plan = NoPlan /\ acts = 0
  BY DEF IInv, Planning, Working, PassLane, AnswerLane, CrashLane, ActInLane, At
<1>2. CASE PassLane(lane)
  <2>1. pc' \in LaneNames \cup {"planner"} /\ pc' \in Working
    BY <1>2, LanesLead DEF PassLane, Working
  <2>2. TypeOK'
    BY <1>2, <2>1 DEF PassLane, IInv, TypeOK, Stages
  <2>3. Planning' /\ Supervised'
    BY <1>1, <1>2, <2>1, LanesLead DEF PassLane, IInv, Planning, Supervised, Managed, Working
  <2>4. ~(plan.deny \/ plan.clarify)'
    BY <1>1, <1>2 DEF PassLane, NoPlan
  <2> QED
    BY <1>1, <1>2, <2>1, <2>2, <2>3, <2>4, WorkingStep DEF PassLane
<1>3. ASSUME Deliver(lane, FALSE), UNCHANGED <<made, stored, posted, reply>>, acts' \in 0..MaxActs
      PROVE  IInv'
  <2>1. TypeOK'
    <3>1. answer' \in Answers
      BY <1>3 DEF Deliver, Answers
    <3> QED
      BY <1>3, <3>1 DEF Deliver, IInv, TypeOK, Stages
  <2>2. lane \notin Drafts
    <3>1. \A i \in 1..14 : Lanes[i] \notin Drafts
      BY DEF Lanes, Drafts
    <3>2. Len(Lanes) = 14
      BY DEF Lanes
    <3> QED
      BY <3>1, <3>2 DEF LaneNames
  <2> QED
    BY <1>1, <1>3, <2>1, <2>2, DeliverStep DEF NoPlan
<1>4. ASSUME Crash, UNCHANGED <<made, stored, posted, reply>>, acts' \in 0..MaxActs
      PROVE  IInv'
  <2>1. TypeOK'
    BY <1>4 DEF Crash, IInv, TypeOK, Stages
  <2> QED
    BY <1>1, <1>4, <2>1, CrashStep
<1>5. acts \in 0..MaxActs /\ (acts < MaxActs => acts + 1 \in 0..MaxActs)
  BY SupervisorAssumption DEF IInv, TypeOK
<1> QED
  BY <1>2, <1>3, <1>4, <1>5 DEF PassLane, AnswerLane, CrashLane, ActInLane

(* The planner makes a plan, or its answer is a fallback.                   *)
LEMMA PlannerSteps == ASSUME IInv, MakePlan \/ PlannerFails PROVE IInv'
<1> USE DEF made
<1>1. /\ pc = "planner" /\ pc \in Working /\ plan = NoPlan /\ acts = 0 /\ DOMAIN results = {}
      /\ draft = None
  BY LanesLead DEF IInv, Planning, Working, MakePlan, PlannerFails, At, Managed
<1>2. CASE MakePlan
  <2>1. pc' = "planned" /\ pc' \in Working
    BY <1>2 DEF MakePlan, Working
  <2>2. TypeOK'
    BY <1>2 DEF MakePlan, IInv, TypeOK, Stages
  <2>3. Planning' /\ Supervised'
    BY <1>1, <1>2, <2>1, LanesLead DEF MakePlan, Planning, Supervised, Managed, Working
  <2> QED
    BY <1>1, <1>2, <2>1, <2>2, <2>3, WorkingStep DEF MakePlan
<1>3. CASE PlannerFails
  <2>1. answer' \in Answers
    BY <1>3 DEF PlannerFails, Deliver, Answers
  <2>2. TypeOK'
    BY <1>3, <2>1 DEF PlannerFails, Deliver, IInv, TypeOK, Stages
  <2> QED
    BY <1>1, <1>3, <2>2, DeliverStep DEF PlannerFails, NoPlan, Drafts
<1> QED
  BY <1>2, <1>3

(* A plan is followed, refused or answered by a question.                   *)
LEMMA FollowPlanStep == ASSUME IInv, FollowPlan PROVE IInv'
<1> USE DEF made
<1>1. /\ pc = "planned" /\ pc \in Working /\ acts = 0 /\ DOMAIN results = {} /\ draft = None
      /\ UNCHANGED <<made, acts, stored, posted, reply>>
  BY LanesLead DEF IInv, Planning, Working, FollowPlan, At, Managed
<1>2. CASE pc' = "specialists" /\ UNCHANGED <<answer, guarded>>
  <2>1. pc' \in Working
    BY <1>2 DEF Working
  <2>2. TypeOK'
    BY <1>1, <1>2 DEF IInv, TypeOK, Stages
  <2>3. Planning' /\ Supervised'
    BY <1>1, <1>2, <2>1, LanesLead DEF Planning, Supervised, Managed, Working
  <2> QED
    BY <1>1, <1>2, <2>1, <2>2, <2>3, WorkingStep
<1>3. ASSUME NEW from \in {"planner_denied", "planner_clarify"}, Deliver(from, FALSE)
      PROVE  IInv'
  <2>1. answer' \in Answers
    BY <1>3 DEF Deliver, Answers
  <2>2. TypeOK'
    BY <1>1, <1>3, <2>1 DEF Deliver, IInv, TypeOK, Stages
  <2> QED
    BY <1>1, <1>3, <2>2, DeliverStep DEF Drafts
<1> QED
  BY <1>2, <1>3 DEF FollowPlan
-----------------------------------------------------------------------------
(* The specialists and what is made of their results *)

(* An agent changes something in api-core.                                  *)
LEMMA AgentActsStep == ASSUME IInv, AgentActs PROVE IInv'
<1> USE DEF made
<1>1. pc \in {"specialists", "manager"} /\ pc' = pc /\ pc \in Working /\ acts' \in 0..MaxActs
  BY SupervisorAssumption DEF IInv, TypeOK, AgentActs, At, Working, Managed
<1>2. TypeOK'
  BY <1>1 DEF AgentActs, IInv, TypeOK
<1>3. Planning' /\ Supervised'
  BY <1>1, SameBudget, LanesLead DEF AgentActs, IInv, Planning, Supervised, Working
<1>4. ~(plan.deny \/ plan.clarify)
  <2>1. plan.specialists \in SUBSET Specialists
    BY PlanIsPlan DEF IInv, Plan
  <2>2. CASE pc = "specialists"
    BY <2>1, <2>2, RefusalSelectsNone DEF AgentActs, At
  <2>3. CASE pc = "manager"
    BY <2>1, <2>3, RefusalSelectsNone DEF IInv, Supervised, Managed
  <2> QED
    BY <1>1, <2>2, <2>3
<1> QED
  BY <1>1, <1>2, <1>3, <1>4, WorkingStep DEF AgentActs

(* The specialists end; of a refusal none has run.                          *)
LEMMA SpecialistsEndStep == ASSUME IInv, SpecialistsEnd PROVE IInv'
<1>1. /\ pc = "specialists" /\ pc' = "deciding" /\ pc \in Working /\ pc' \in Working /\ draft = None
  BY LanesLead DEF SpecialistsEnd, At, IInv, Planning, Working, Managed
<1>2. Selected \subseteq plan.specialists /\ plan.specialists \in SUBSET Specialists
  BY PlanIsPlan DEF IInv, Plan, Selected
<1>3. PICK ran \in SUBSET Selected : results' \in [ran -> Outcome]
  BY DEF SpecialistsEnd
<1>4. TypeOK'
  <2>1. \E some \in SUBSET Specialists : results' \in [some -> Outcome]
    BY <1>2, <1>3
  <2> QED
    BY <1>1, <2>1 DEF SpecialistsEnd, IInv, TypeOK, Stages
<1>5. Planning' /\ Supervised'
  BY <1>1, LanesLead DEF SpecialistsEnd, Planning, Supervised, Managed, Working
<1>6. plan.deny \/ plan.clarify => DOMAIN results' = {} /\ acts = 0
  BY <1>2, <1>3, RefusalSelectsNone DEF IInv, RefusalRunsNothing
<1> QED
  BY <1>1, <1>4, <1>5, <1>6, WorkingStep DEF SpecialistsEnd

(* An answer is made of the results, or the manager is called.              *)
LEMMA DecideStep == ASSUME IInv, Decide PROVE IInv'
<1>1. /\ pc = "deciding" /\ pc \in Working /\ draft = None
      /\ UNCHANGED <<request, plan, results, extra, draft, verdict, acts, stored, posted, reply>>
  BY LanesLead DEF Decide, At, IInv, Planning, Working, Managed
<1>2. session' \in BOOLEAN
  BY BudgetSession DEF Decide, IInv, TypeOK
<1>3. plan.deny \/ plan.clarify => ~NeedsManager /\ DOMAIN results = {} /\ acts = 0
  BY PlanIsPlan, RefusalSelectsNone DEF IInv, Plan, RefusalRunsNothing
<1>4. CASE NeedsManager /\ pc' = "manager" /\ UNCHANGED <<answer, guarded>>
  <2>1. pc' \in Working
    BY <1>4 DEF Working, Managed
  <2>2. TypeOK'
    BY <1>1, <1>2, <1>4 DEF IInv, TypeOK, Stages
  <2>3. Planning' /\ Supervised'
    BY <1>1, <1>4, SameBudget, LanesLead DEF Planning, Supervised, Managed, Working
  <2> QED
    BY <1>1, <1>3, <1>4, <2>1, <2>2, <2>3, WorkingStep
<1>5. ASSUME NEW from \in {"multi_specialist_direct", "specialist_direct", "budget_direct",
                           "budget_safe_fallback"},
             Deliver(from, TRUE),
             plan.deny \/ plan.clarify => from = "budget_safe_fallback"
      PROVE  IInv'
  <2>1. answer' \in Answers
    BY <1>5 DEF Deliver, Answers
  <2>2. TypeOK'
    BY <1>1, <1>2, <1>5, <2>1 DEF Deliver, IInv, TypeOK, Stages
  <2> QED
    BY <1>1, <1>5, <2>2, DeliverStep DEF Drafts
<1>6. plan.deny \/ plan.clarify => ~MultiComposed /\ ~DirectComposed /\ ~BudgetComposed
  BY <1>3, NoBest
<1> QED
  BY <1>4, <1>5, <1>6 DEF Decide

-----------------------------------------------------------------------------
(* The manager, the judge and the repair *)

(* At these stages the plan is no refusal.                                  *)
LEMMA ManagedPlan == IInv /\ pc \in Managed => NeedsManager /\ ~plan.deny /\ ~plan.clarify
BY DEF IInv, Supervised, NeedsManager

(* Their calls may end the turn with the fallback.                          *)
LEMMA FallBackStep ==
    ASSUME IInv, pc \in Managed, FallBack, session' \in BOOLEAN,
           UNCHANGED <<request, plan, results, extra, draft, verdict, acts, stored, posted, reply>>
    PROVE  IInv'
<1>1. pc \in Working /\ Deliver("manager_safe_fallback", FALSE)
  BY DEF Working, FallBack
<1>2. answer' \in Answers
  BY <1>1 DEF Deliver, Answers
<1>3. TypeOK'
  BY <1>1, <1>2 DEF Deliver, IInv, TypeOK, Stages
<1> QED
  BY <1>1, <1>3, DeliverStep DEF Drafts

(* The manager drafts, or raises.                                           *)
LEMMA ManagerSteps == ASSUME IInv, ManagerDrafts \/ ManagerFails PROVE IInv'
<1>1. pc = "manager" /\ pc \in Managed /\ pc \in Working /\ NeedsManager /\ ~plan.deny /\ ~plan.clarify
  BY ManagedPlan DEF ManagerDrafts, ManagerFails, At, Managed, Working
<1>2. CASE ManagerDrafts
  <2>1. pc' \in {"judge", "gate"} /\ pc' \in Working /\ verdict' \in Verdict /\ draft' = "draft"
    BY <1>2 DEF ManagerDrafts, Working, Managed, IInv, TypeOK, Verdict, NoVerdict, Drafts
  <2>2. TypeOK'
    BY <1>2, <2>1 DEF ManagerDrafts, IInv, TypeOK, Stages, Drafts
  <2>3. Planning'
    BY <1>2, <2>1, LanesLead DEF ManagerDrafts, Planning, Managed
  <2>4. Supervised'
    <3>1. NeedsManager' /\ (ShouldRunJudge' <=> ShouldRunJudge)
      BY <1>1, <1>2, SameBudget DEF ManagerDrafts
    <3>2. pc' = "gate" => ~ShouldRunJudge /\ verdict'.of = "draft"
      BY <1>2 DEF ManagerDrafts, NoVerdict
    <3> QED
      BY <2>1, <3>1, <3>2 DEF Supervised, Drafts
  <2> QED
    BY <1>1, <1>2, <2>1, <2>2, <2>3, <2>4, WorkingStep DEF ManagerDrafts
<1>3. CASE ManagerFails /\ session
  <2>1. TypeOK'
    BY <1>3 DEF ManagerFails, IInv, TypeOK
  <2>2. Planning' /\ Supervised'
    BY <1>1, <1>3, SameBudget, LanesLead DEF ManagerFails, IInv, Planning, Supervised, Managed
  <2> QED
    BY <1>1, <1>3, <2>1, <2>2, WorkingStep DEF ManagerFails
<1>4. CASE ManagerFails /\ ~session
  BY <1>1, <1>4, FallBackStep DEF ManagerFails
<1> QED
  BY <1>2, <1>3, <1>4

(* The judge gives its verdict on the draft, or the draft is repaired and   *)
(* goes back to the judge.                                                  *)
LEMMA JudgeSteps == ASSUME IInv, JudgeEnds \/ RepairEnds PROVE IInv'
<1>1. /\ pc \in {"judge", "repair"} /\ pc \in Managed /\ pc \in Working /\ draft \in Drafts
      /\ NeedsManager /\ ~plan.deny /\ ~plan.clarify
  BY ManagedPlan DEF JudgeEnds, RepairEnds, At, Managed, Working, IInv, Supervised
<1>2. pc' \in {"judge", "repair", "gate"} /\ pc' \in Working /\ draft' \in Drafts /\ verdict' \in Verdict
  BY <1>1 DEF JudgeEnds, RepairEnds, Managed, Working, Drafts, IInv, TypeOK
<1>3. pc' = "gate" => verdict'.of = draft' /\ verdict'.real
  BY DEF JudgeEnds, RepairEnds
<1>4. TypeOK'
  BY <1>2 DEF JudgeEnds, RepairEnds, IInv, TypeOK, Stages
<1>5. Planning'
  BY <1>2, LanesLead DEF Planning, Managed
<1>6. Supervised'
  <2>1. NeedsManager'
    BY <1>1, SameBudget DEF JudgeEnds, RepairEnds
  <2> QED
    BY <1>2, <1>3, <2>1 DEF Supervised
<1> QED
  BY <1>1, <1>2, <1>4, <1>5, <1>6, WorkingStep DEF JudgeEnds, RepairEnds

(* The gate lets the draft through, revised or not, or asks.                *)
LEMMA GateStep == ASSUME IInv, Gate PROVE IInv'
<1>1. /\ pc = "gate" /\ pc \in Working /\ draft \in Drafts /\ ~plan.deny /\ ~plan.clarify
      /\ UNCHANGED <<made, acts, stored, posted, reply>>
  BY ManagedPlan DEF Gate, At, Managed, Working, IInv, Supervised
<1>2. PICK from \in {"judge_question", "safe_clarify", "judge_revision", draft} :
         /\ Deliver(from, FALSE)
         /\ from = draft => /\ verdict.approved
                            /\ plan.specialists # {} => DOMAIN results # {} \/ extra
  BY <1>1 DEF Gate, Drafts
<1>3. answer' \in Answers
  BY <1>1, <1>2 DEF Deliver, Answers
<1>4. TypeOK'
  BY <1>1, <1>2, <1>3 DEF Deliver, IInv, TypeOK, Stages, made
<1> QED
  BY <1>1, <1>2, <1>4, DeliverStep DEF Drafts, made
-----------------------------------------------------------------------------
(* Storing and replying *)

(* From the answer on only the answer, the transcript and the reply change. *)
LEMMA ClosingSteps ==
    ASSUME IInv, Reword \/ PersistRaises \/ Store \/ Return \/ ReplyForCrash
    PROVE  IInv'
<1> USE DEF made
<1>1. /\ pc \in {"rewriting", "storing", "returning", "crashed"} /\ pc \notin Working
      /\ pc' \in {"rewriting", "storing", "returning", "crashed", "replied"} /\ pc' \notin Working
      /\ UNCHANGED <<made, acts>>
  BY LanesLead DEF Reword, PersistRaises, Store, Return, ReplyForCrash, At, FallBack, Deliver, Crash,
                   Working, Managed
<1>2. answer' \in Answers /\ reply' \in Answers /\ posted' \in Seq(Answers)
  <2>1. Reword => answer' \in Answers
    BY DEF Reword, IInv, TypeOK, Answers
  <2>2. PersistRaises => answer' \in Answers
    <3>1. FallBack => answer' \in Answers
      BY DEF FallBack, Deliver, Answers
    <3>2. Crash => answer' \in Answers
      BY DEF Crash, IInv, TypeOK
    <3> QED
      BY <3>1, <3>2 DEF PersistRaises
  <2>3. ReplyForCrash => reply' \in Answers
    BY DEF ReplyForCrash, Answers
  <2>4. Store => posted' \in Seq(Answers)
    BY DEF Store, IInv, TypeOK
  <2> QED
    BY <2>1, <2>2, <2>3, <2>4 DEF Reword, PersistRaises, Store, Return, ReplyForCrash, IInv, TypeOK
<1>3. stored' \in BOOLEAN /\ guarded' \in BOOLEAN
  BY DEF Reword, PersistRaises, Store, Return, ReplyForCrash, IInv, TypeOK, FallBack, Deliver, Crash
<1>4. TypeOK'
  BY <1>1, <1>2, <1>3 DEF IInv, TypeOK, Stages
<1>5. Planning' /\ Supervised'
  BY <1>1, LanesLead DEF Planning, Supervised, Working, Managed
<1>6. Answering' /\ TranscriptTellsTheShown'
  <2>1. posted \in {<<>>, <<answer>>} /\ (pc # "returning" => posted = <<>> /\ ~stored)
    BY <1>1 DEF IInv, Answering
  <2>2. pc' \notin {"returning", "replied"} => posted' = <<>> /\ ~stored'
    BY <2>1 DEF Reword, PersistRaises, Store, Return, ReplyForCrash, At, FallBack, Deliver, Crash
  <2>3. pc' = "returning" => posted' \in {<<>>, <<answer'>>}
    <3>1. pc' = "returning" => Store
      BY DEF Reword, PersistRaises, Store, Return, ReplyForCrash, FallBack, Deliver, Crash
    <3>2. Append(<<>>, answer) = <<answer>>
      OBVIOUS
    <3> QED
      BY <2>1, <3>1, <3>2 DEF Store, At
  <2>4. pc' = "replied" => posted' \in {<<>>, <<reply'>>}
    BY <2>1 DEF Reword, PersistRaises, Store, Return, ReplyForCrash, At, FallBack, Deliver, Crash
  <2>5. Len(posted') <= 1 /\ (pc' = "replied" /\ posted' # <<>> => posted'[1] = reply')
    BY <1>1, <2>2, <2>3, <2>4
  <2> QED
    BY <1>1, <2>2, <2>3, <2>5 DEF Answering, TranscriptTellsTheShown, At
<1>7. answer'.from \in {answer.from, "manager_safe_fallback"}
  BY DEF Reword, PersistRaises, Store, Return, ReplyForCrash, FallBack, Deliver, Crash, IInv, TypeOK, Answers
<1>8. RefusalRunsNothing'
  BY <1>1, <1>7 DEF IInv, RefusalRunsNothing
<1>9. DeliveredDraftWasJudged'
  BY <1>1, <1>7 DEF IInv, DeliveredDraftWasJudged, MultiDomain, Drafts
<1> QED
  BY <1>4, <1>5, <1>6, <1>8, <1>9 DEF IInv

-----------------------------------------------------------------------------
(* The theorems *)

(* Every step keeps the invariant.                                          *)
LEMMA StepInv == IInv /\ [Next]_vars => IInv'
<1> SUFFICES ASSUME IInv, [Next]_vars PROVE IInv'
  OBVIOUS
<1>1. CASE UNCHANGED vars
  BY <1>1, SameBudget DEF vars, IInv, TypeOK, Answering, Planning, Supervised, TranscriptTellsTheShown, At,
                          DeliveredDraftWasJudged, RefusalRunsNothing, MultiDomain
<1>2. CASE \E lane \in LaneNames : PassLane(lane) \/ AnswerLane(lane) \/ CrashLane(lane) \/ ActInLane(lane)
  BY <1>2, LaneSteps
<1>3. CASE MakePlan \/ PlannerFails \/ FollowPlan
  BY <1>3, PlannerSteps, FollowPlanStep
<1>4. CASE AgentActs \/ SpecialistsEnd \/ Decide
  BY <1>4, AgentActsStep, SpecialistsEndStep, DecideStep
<1>5. CASE ManagerDrafts \/ ManagerFails \/ JudgeEnds \/ RepairEnds \/ Gate
  BY <1>5, ManagerSteps, JudgeSteps, GateStep
<1>6. CASE JudgeOrRepairFails
  <2>1. pc \in Managed /\ FallBack /\ session' \in BOOLEAN
        /\ UNCHANGED <<request, plan, results, extra, draft, verdict, acts, stored, posted, reply>>
    BY <1>6 DEF JudgeOrRepairFails, Managed, made, IInv, TypeOK
  <2> QED
    BY <2>1, FallBackStep
<1>7. CASE Reword \/ PersistRaises \/ Store \/ Return \/ ReplyForCrash
  BY <1>7, ClosingSteps
<1> QED
  BY <1>1, <1>2, <1>3, <1>4, <1>5, <1>6, <1>7 DEF Next

LEMMA InvHolds == Spec => []IInv
BY InitInv, StepInv, PTL DEF Spec

(* Every value the run keeps is well formed.                                *)
THEOREM TypeCorrect == Spec => []TypeOK
<1>1. IInv => TypeOK
  BY DEF IInv
<1> QED
  BY <1>1, InvHolds, PTL

(* What the transcript keeps of a turn is what the caller is shown.         *)
THEOREM TranscriptTold == Spec => []TranscriptTellsTheShown
<1>1. IInv => TranscriptTellsTheShown
  BY DEF IInv
<1> QED
  BY <1>1, InvHolds, PTL

(* A draft of the manager reaches the user only with a verdict on it.       *)
THEOREM DraftsJudged == Spec => []DeliveredDraftWasJudged
<1>1. IInv => DeliveredDraftWasJudged
  BY DEF IInv
<1> QED
  BY <1>1, InvHolds, PTL

(* A plan that refuses or asks runs no specialist and changes nothing.      *)
THEOREM RefusalsRunNothing == Spec => []RefusalRunsNothing
<1>1. IInv => RefusalRunsNothing
  BY DEF IInv
<1> QED
  BY <1>1, InvHolds, PTL

-----------------------------------------------------------------------------
(* The refinement *)

RunStage == IF At("replied") THEN "replied" ELSE IF stored THEN "stored" ELSE "fresh"

(* A step from before the answer is a step of the run that may only act.    *)
LEMMA FreshStep ==
    ASSUME pc # "replied", pc' # "replied", ~stored, ~stored', acts' \in {acts, acts + 1}
    PROVE  [Run!Next]_<<RunStage, acts>>
<1>1. RunStage = "fresh" /\ RunStage' = "fresh"
  BY DEF RunStage, At
<1>2. acts' = acts => UNCHANGED <<RunStage, acts>>
  BY <1>1
<1>3. acts' = acts + 1 => Run!Act
  BY <1>1 DEF Run!Act, RunStage
<1> QED
  BY <1>2, <1>3 DEF Run!Next

(* Every step of a turn is a step of the run it implements.                 *)
LEMMA StepRefines == IInv /\ [Next]_vars => [Run!Next]_<<RunStage, acts>>
<1> SUFFICES ASSUME IInv, [Next]_vars PROVE [Run!Next]_<<RunStage, acts>>
  OBVIOUS
<1>1. CASE UNCHANGED vars
  BY <1>1 DEF vars, RunStage, At
<1>2. CASE \E lane \in LaneNames : PassLane(lane) \/ AnswerLane(lane) \/ CrashLane(lane) \/ ActInLane(lane)
  <2>1. PICK lane \in LaneNames : PassLane(lane) \/ AnswerLane(lane) \/ CrashLane(lane) \/ ActInLane(lane)
    BY <1>2
  <2>2. pc = lane /\ acts' \in {acts, acts + 1} /\ UNCHANGED stored
        /\ pc' \in LaneNames \cup {"planner", "rewriting", "crashed"}
    BY <2>1, LanesLead DEF PassLane, AnswerLane, CrashLane, ActInLane, At, Deliver, Crash
  <2> QED
    BY <2>2, FreshStep, LanesLead DEF IInv, Answering
<1>3. CASE \/ MakePlan \/ PlannerFails \/ FollowPlan \/ AgentActs \/ SpecialistsEnd \/ Decide
           \/ ManagerDrafts \/ ManagerFails \/ JudgeEnds \/ RepairEnds \/ JudgeOrRepairFails \/ Gate
           \/ Reword \/ PersistRaises
  <2>1. pc \notin {"returning", "replied"} /\ pc' # "replied" /\ acts' \in {acts, acts + 1} /\ UNCHANGED stored
    BY <1>3 DEF MakePlan, PlannerFails, FollowPlan, AgentActs, SpecialistsEnd, Decide, ManagerDrafts,
                ManagerFails, JudgeEnds, RepairEnds, JudgeOrRepairFails, Gate, Reword, PersistRaises, At,
                FallBack, Deliver, Crash
  <2> QED
    BY <2>1, FreshStep DEF IInv, Answering
<1>4. CASE Store
  <2>1. RunStage = "fresh" /\ RunStage' = "stored" /\ acts' = acts
    BY <1>4 DEF Store, At, RunStage, IInv, Answering
  <2> QED
    BY <2>1 DEF Run!Next, Run!Store, RunStage
<1>5. CASE Return \/ ReplyForCrash
  <2>1. RunStage # "replied" /\ RunStage' = "replied" /\ acts' = acts
    BY <1>5 DEF Return, ReplyForCrash, At, RunStage
  <2> QED
    BY <2>1 DEF Run!Next, Run!Reply, RunStage
<1> QED
  BY <1>1, <1>2, <1>3, <1>4, <1>5 DEF Next

(* A turn of the supervisor is a run: it acts before it stores, stores      *)
(* before it replies, and then does nothing more.                           *)
THEOREM Refinement == Spec => ImplementsStackRun
<1>1. Init => Run!Init
  <2>1. Init => pc = "preflight" /\ ~stored /\ acts = 0
    BY DEF Init, Lanes
  <2> QED
    BY <2>1 DEF Run!Init, At
<1>2. IInv /\ [Next]_vars => [Run!Next]_<<IF At("replied") THEN "replied" ELSE IF stored THEN "stored" ELSE "fresh",
                                         acts>>
  BY StepRefines DEF RunStage
<1> QED
  BY <1>1, <1>2, InvHolds, PTL DEF Spec, ImplementsStackRun, Run!Spec

-----------------------------------------------------------------------------
(* A turn comes to an end *)

(* The place of a lane, the planner being the last.                         *)
PlaceOf(lane) == CHOOSE i \in 1..Len(Lanes) : Lanes[i] = lane
Early == LaneNames \cup {"planner"}

(* How far the other stages are from the reply.                             *)
Distance ==
    [planned |-> 15, specialists |-> 14, deciding |-> 13, manager |-> 10, repair |-> 8, judge |-> 7, gate |-> 6,
     rewriting |-> 3, storing |-> 2, returning |-> 1, crashed |-> 1, replied |-> 0]

(* Three stages may be come back to, once each: the manager that runs again *)
(* without the session memory, the judge of the repaired draft, and the     *)
(* answer that replaces one which could not be stored.                      *)
Again ==
    IF \/ pc = "manager" /\ session
       \/ pc = "judge" /\ draft # "repaired"
       \/ pc = "rewriting" /\ guarded
    THEN 2 ELSE 0

StepsLeft == (MaxActs - acts) + (IF pc \in Early THEN 30 - PlaceOf(pc) ELSE Distance[pc]) + Again

(* What leads where: the place after a lane's is that of the next one.      *)
LEMMA PlaceAfter ==
    /\ \A stage \in Early : PlaceOf(stage) \in 1..14
    /\ \A lane \in LaneNames : PlaceOf(lane) < 14 /\ PlaceOf(Following(lane)) = PlaceOf(lane) + 1
    /\ PlaceOf("planner") = 14
<1>1. Len(Lanes) = 14 /\ Lanes[14] = "planner" /\ \A i, j \in 1..14 : Lanes[i] = Lanes[j] => i = j
  BY DEF Lanes
<1>2. \A i \in 1..14 : PlaceOf(Lanes[i]) = i
  BY <1>1 DEF PlaceOf
<1>3. \A lane \in LaneNames : \E i \in 1..14 : lane = Lanes[i] /\ i # 14
  BY <1>1 DEF LaneNames
<1>4. \A lane \in LaneNames : Following(lane) = Lanes[1 + PlaceOf(lane)]
  BY DEF Following, PlaceOf
<1>5. ASSUME NEW lane \in LaneNames
      PROVE  PlaceOf(lane) \in 1..14 /\ PlaceOf(lane) < 14 /\ PlaceOf(Following(lane)) = PlaceOf(lane) + 1
  <2>1. PICK i \in 1..14 : lane = Lanes[i] /\ i # 14
    BY <1>3
  <2>2. PlaceOf(lane) = i /\ 1 + i \in 1..14 /\ 1 + i = i + 1
    BY <1>2, <2>1
  <2> QED
    BY <1>2, <1>4, <2>1, <2>2
<1> QED
  BY <1>1, <1>2, <1>5 DEF Early

LEMMA StepsLeftBounded == TypeOK => StepsLeft \in 0..(29 + MaxActs)
<1> SUFFICES ASSUME TypeOK PROVE StepsLeft \in 0..(29 + MaxActs)
  OBVIOUS
<1>1. MaxActs \in Nat /\ acts \in 0..MaxActs
  BY SupervisorAssumption DEF TypeOK
<1>2. CASE pc \in Early
  <2>1. Again = 0 /\ PlaceOf(pc) \in 1..14
    BY <1>2, LanesLead, PlaceAfter DEF Early, Again
  <2> QED
    BY <1>1, <1>2, <2>1 DEF StepsLeft
<1>3. CASE pc \notin Early
  <2>1. pc \in Stages \ {"planner"} /\ Again \in {0, 2}
    BY <1>3 DEF TypeOK, Early, Again
  <2>2. Distance[pc] \in 0..15
    BY <2>1 DEF Stages, Distance
  <2> QED
    BY <1>1, <1>3, <2>1, <2>2 DEF StepsLeft
<1> QED
  BY <1>2, <1>3

LEMMA LaneStepsLeft ==
    ASSUME TypeOK, NEW lane \in LaneNames,
           PassLane(lane) \/ AnswerLane(lane) \/ CrashLane(lane) \/ ActInLane(lane)
    PROVE  StepsLeft' < StepsLeft
<1>1. MaxActs \in Nat /\ acts \in 0..MaxActs /\ acts' \in {acts, acts + 1}
  BY SupervisorAssumption DEF TypeOK, PassLane, AnswerLane, CrashLane, ActInLane
<1>2. pc = lane /\ pc \in Early /\ Again = 0 /\ PlaceOf(pc) \in 1..14 /\ PlaceOf(pc) < 14
  BY LanesLead, PlaceAfter DEF Early, Again, PassLane, AnswerLane, CrashLane, ActInLane, At
<1>3. StepsLeft = (MaxActs - acts) + (30 - PlaceOf(pc)) /\ StepsLeft > (MaxActs - acts) + 16
  BY <1>1, <1>2 DEF StepsLeft
<1>4. CASE PassLane(lane)
  <2>1. pc' = Following(lane) /\ pc' \in Early /\ acts' = acts
    BY <1>4, LanesLead DEF PassLane, Early
  <2>2. Again' = 0
    BY <2>1, LanesLead DEF Early, Again
  <2>3. PlaceOf(pc') = PlaceOf(pc) + 1
    BY <1>2, <2>1, PlaceAfter
  <2>4. StepsLeft' = (MaxActs - acts) + (30 - (PlaceOf(pc) + 1)) + 0
    BY <2>1, <2>2, <2>3 DEF StepsLeft
  <2> QED
    BY <1>1, <1>2, <1>3, <2>4
<1>5. CASE ~PassLane(lane)
  <2>1. pc' \in {"rewriting", "crashed"} /\ pc' \notin Early
    BY <1>5, LanesLead DEF AnswerLane, CrashLane, ActInLane, Deliver, Crash, Early
  <2>2. StepsLeft' = (MaxActs - acts') + Distance[pc'] + Again'
    BY <2>1 DEF StepsLeft
  <2>3. Distance[pc'] \in {1, 3} /\ Again' \in {0, 2}
    BY <2>1 DEF Distance, Again
  <2> QED
    BY <1>1, <1>3, <2>2, <2>3
<1> QED
  BY <1>4, <1>5

LEMMA PlannerStepsLeft ==
    ASSUME TypeOK, MakePlan \/ PlannerFails PROVE StepsLeft' < StepsLeft
<1>1. MaxActs \in Nat /\ acts \in 0..MaxActs /\ acts' = acts
  BY SupervisorAssumption DEF TypeOK, MakePlan, PlannerFails
<1>2. pc = "planner" /\ Again = 0
  BY DEF MakePlan, PlannerFails, At, Again
<1>3. StepsLeft = (MaxActs - acts) + 16
  BY <1>1, <1>2, PlaceAfter DEF StepsLeft, Early
<1>4. pc' \in {"planned", "rewriting"} /\ pc' \notin Early
  BY LanesLead DEF MakePlan, PlannerFails, Deliver, Early
<1>5. StepsLeft' = (MaxActs - acts) + Distance[pc'] + Again'
  BY <1>1, <1>4 DEF StepsLeft
<1>6. \/ Distance[pc'] = 3 /\ Again' \in {0, 2}
      \/ Distance[pc'] = 15 /\ Again' = 0
  BY <1>4 DEF Distance, Again
<1> QED
  BY <1>1, <1>3, <1>5, <1>6

LEMMA LateStepsLeft ==
    ASSUME TypeOK, TypeOK',
           \/ FollowPlan \/ AgentActs \/ SpecialistsEnd \/ Decide
           \/ ManagerDrafts \/ ManagerFails \/ JudgeEnds \/ RepairEnds \/ JudgeOrRepairFails \/ Gate
           \/ Reword \/ PersistRaises \/ Store \/ Return \/ ReplyForCrash
    PROVE  StepsLeft' < StepsLeft
<1> DEFINE Left == Distance[pc] + Again
<1>1. MaxActs \in Nat /\ acts \in 0..MaxActs /\ acts' \in 0..MaxActs
  BY SupervisorAssumption DEF TypeOK
<1>2. pc \in Stages \ {"planner"} /\ pc' \in Stages \ {"planner"} /\ pc \notin Early /\ pc' \notin Early
  BY LanesLead DEF FollowPlan, AgentActs, SpecialistsEnd, Decide, ManagerDrafts, ManagerFails, JudgeEnds, RepairEnds,
                   JudgeOrRepairFails, Gate, Reword, PersistRaises, Store, Return, ReplyForCrash,
                   FallBack, Deliver, Crash, At, Early, Stages
<1>3. Distance[pc] \in 0..15 /\ Distance[pc'] \in 0..15 /\ Again \in 0..2 /\ Again' \in 0..2
  BY <1>2 DEF Distance, Again, Stages
<1>4. StepsLeft = (MaxActs - acts) + Left /\ StepsLeft' = (MaxActs - acts') + Left'
  BY <1>1, <1>2, <1>3 DEF StepsLeft
<1>5. CASE AgentActs
  <2>1. acts' = acts + 1 /\ Left' = Left
    BY <1>5 DEF AgentActs, made, Distance, Again
  <2> QED
    BY <1>1, <1>3, <1>4, <2>1
<1>6. CASE ~AgentActs
  <2>1. acts' = acts
    BY <1>6 DEF FollowPlan, SpecialistsEnd, Decide, ManagerDrafts, ManagerFails, JudgeEnds, RepairEnds,
                JudgeOrRepairFails, Gate, Reword, PersistRaises, Store, Return, ReplyForCrash, FallBack, Deliver, Crash
  <2>2. Left' < Left
    <3>1. CASE FollowPlan \/ SpecialistsEnd \/ Decide
      <4>1. \/ pc = "planned" /\ pc' \in {"specialists", "rewriting"}
            \/ pc = "specialists" /\ pc' = "deciding"
            \/ pc = "deciding" /\ pc' \in {"manager", "rewriting"}
        BY <3>1 DEF FollowPlan, SpecialistsEnd, Decide, Deliver, At
      <4> QED
        BY <4>1 DEF Distance, Again
    <3>2. CASE ManagerDrafts \/ ManagerFails
      BY <3>2 DEF ManagerDrafts, ManagerFails, FallBack, Deliver, At, Distance, Again, TypeOK
    <3>3. CASE JudgeEnds \/ RepairEnds \/ JudgeOrRepairFails
      BY <3>3 DEF JudgeEnds, RepairEnds, RepairNeeded, JudgeOrRepairFails, FallBack, Deliver, At, Distance, Again
    <3>4. CASE Gate
      BY <3>4 DEF Gate, Deliver, At, Distance, Again
    <3>5. CASE Reword \/ PersistRaises \/ Store \/ Return \/ ReplyForCrash
      BY <3>5 DEF Reword, PersistRaises, Store, Return, ReplyForCrash, FallBack, Deliver, Crash, At, Distance, Again
    <3> QED
      BY <1>6, <3>1, <3>2, <3>3, <3>4, <3>5
  <2> QED
    BY <1>1, <1>3, <1>4, <2>1, <2>2
<1> QED
  BY <1>5, <1>6

(* No turn goes on for ever, whatever is tried again in it: every step      *)
(* brings it nearer to its reply, which is at most 29 steps away, not       *)
(* counting the changes in api-core.                                        *)
THEOREM TurnsRunOut == Spec => [](StepsLeft \in 0..(29 + MaxActs)) /\ [][StepsLeft' < StepsLeft]_vars
<1>1. ASSUME IInv, IInv', Next PROVE StepsLeft' < StepsLeft
  <2>1. TypeOK /\ TypeOK'
    BY <1>1 DEF IInv
  <2> QED
    BY <1>1, <2>1, LaneStepsLeft, PlannerStepsLeft, LateStepsLeft DEF Next
<1>2. IInv /\ IInv' /\ [Next]_vars => [StepsLeft' < StepsLeft]_vars
  BY <1>1
<1>3. IInv => StepsLeft \in 0..(29 + MaxActs)
  BY StepsLeftBounded DEF IInv
<1> QED
  BY <1>2, <1>3, InvHolds, PTL DEF Spec
=============================================================================
