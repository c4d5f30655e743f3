-------------------------- MODULE SchoolAccessProofs --------------------------
(***************************************************************************)
(* What SchoolAccess checks on a small school, for every school: any       *)
(* number of people, classes and edits.                                    *)
(***************************************************************************)
EXTENDS SchoolAccess, TLAPS

(* The resource names what the action is about. *)
Asked(a, res) ==
    /\ a \in StudentReads => res.student # Null
    /\ a = "teacher.schedule.read" => res.teacher # Null
    /\ a = "actor.administrative.read" => res.user # Null

-----------------------------------------------------------------------------
(* The two policies                                                         *)

(* Roles exclude each other, so at most one rule of OPA holds, and it is    *)
(* the one whose branch the local function takes.                           *)
LEMMA OpenRules ==
    ASSUME NEW sub \in Subject, NEW res, NEW w \in Reasons,
           NEW a \in {"health.read", "identity.context.read", "calendar.read", "ticket.create"}
    PROVE  OpaRule(w, a, sub, res) <=> w = LocalReason(a, sub, res)
BY DEF OpaRule, OpaOpenRule, OpaStaffRule, LocalReason, LocalAuthenticated, LocalScoped,
       Own, Subject, Reasons, NoMatch

LEMMA AcademicRules ==
    ASSUME NEW sub \in Subject, NEW res, NEW w \in Reasons, res.student # Null
    PROVE  OpaRule(w, "student.academic.read", sub, res)
               <=> w = LocalReason("student.academic.read", sub, res)
BY DEF OpaRule, OpaOpenRule, OpaAcademicRule, OpaStaffRule, LocalReason, LocalAuthenticated,
       LocalAcademic, Own, Subject, Reasons, NoMatch, Roles

LEMMA FinanceRules ==
    ASSUME NEW sub \in Subject, NEW res, NEW w \in Reasons, res.student # Null
    PROVE  OpaRule(w, "student.finance.read", sub, res)
               <=> w = LocalReason("student.finance.read", sub, res)
BY DEF OpaRule, OpaOpenRule, OpaFinanceRule, OpaStaffRule, LocalReason, LocalAuthenticated,
       LocalFinance, Own, Subject, Reasons, NoMatch, Roles

LEMMA AdminRules ==
    ASSUME NEW sub \in Subject, NEW res, NEW w \in Reasons, res.student # Null
    PROVE  OpaRule(w, "student.admin.read", sub, res)
               <=> w = LocalReason("student.admin.read", sub, res)
BY DEF OpaRule, OpaOpenRule, OpaAdminRule, OpaStaffRule, LocalReason, LocalAuthenticated,
       LocalAdmin, Own, Subject, Reasons, NoMatch, Roles

LEMMA StaffRules ==
    ASSUME NEW sub \in Subject, NEW res, NEW w \in Reasons,
           NEW a \in {"teacher.schedule.read", "actor.administrative.read",
                      "operations.overview.read", "support.handoffs.read",
                      "support.handoffs.manage"},
           Asked(a, res)
    PROVE  OpaRule(w, a, sub, res) <=> w = LocalReason(a, sub, res)
BY DEF OpaRule, OpaOpenRule, OpaStaffRule, LocalReason, LocalAuthenticated,
       LocalSchedule, LocalScoped, Own, Asked, Subject, Reasons, NoMatch, Roles, Internal

LEMMA LocalIsReason ==
    ASSUME NEW sub \in Subject, NEW res, NEW a \in Actions
    PROVE  LocalReason(a, sub, res) \in Reasons \cup {NoMatch}
<1>1. /\ LocalAcademic(sub, res) \in Reasons \cup {NoMatch}
      /\ LocalFinance(sub, res) \in Reasons \cup {NoMatch}
      /\ LocalAdmin(sub, res) \in Reasons \cup {NoMatch}
      /\ LocalSchedule(sub, res) \in Reasons \cup {NoMatch}
  BY DEF LocalAcademic, LocalFinance, LocalAdmin, LocalSchedule, Reasons
<1>2. LocalAuthenticated(a, sub, res) \in Reasons \cup {NoMatch}
  BY <1>1 DEF LocalAuthenticated, LocalScoped, Actions, Reasons
<1> QED BY <1>2 DEF LocalReason, Reasons

LEMMA AnswersAgree ==
    ASSUME NEW sub \in Subject, NEW res, NEW a \in Actions, Asked(a, res)
    PROVE  OpaAnswers(a, sub, res) = {LocalReason(a, sub, res)}
<1>1. ASSUME NEW w \in Reasons
      PROVE  OpaRule(w, a, sub, res) <=> w = LocalReason(a, sub, res)
  BY OpenRules, AcademicRules, FinanceRules, AdminRules, StaffRules
     DEF Actions, Asked, StudentReads
<1>2. OpaReasons(a, sub, res) = {LocalReason(a, sub, res)} \ {NoMatch}
  <2>1. NoMatch \notin Reasons BY DEF NoMatch, Reasons
  <2> QED BY <1>1, <2>1, LocalIsReason DEF OpaReasons
<1>3. CASE LocalReason(a, sub, res) = NoMatch
  BY <1>2, <1>3 DEF OpaAnswers
<1>4. CASE LocalReason(a, sub, res) # NoMatch
  BY <1>2, <1>4 DEF OpaAnswers
<1> QED BY <1>3, <1>4

-----------------------------------------------------------------------------
(* Type correctness                                                         *)

(* What a person is, from the disjointness of the sets.                     *)
LEMMA RolesTyped ==
    ASSUME NEW u \in People
    PROVE  /\ RoleOf(u) \in Roles
           /\ RoleOf(u) = "guardian" <=> u \in Guardians
           /\ RoleOf(u) = "student" <=> u \in Students
           /\ RoleOf(u) = "teacher" <=> u \in Teachers
           /\ u \in Staff <=> RoleOf(u) \in Internal
           /\ u \in Staff => RoleOf(u) = u
           /\ u # Null
BY AccessAssumption DEF RoleOf, People, Roles, Internal

LEMMA SubjectBuilt ==
    ASSUME NEW r \in Roles, NEW u \in People, NEW st \in Students \cup {Null},
           NEW t \in Teachers \cup {Null}, NEW l \in SUBSET Students, NEW ac \in SUBSET Students,
           NEW fi \in SUBSET Students, NEW cl \in SUBSET Classes
    PROVE  [role |-> r, authenticated |-> TRUE, user |-> u, student |-> st, teacher |-> t,
            linked |-> l, academic |-> ac, financial |-> fi, classes |-> cl] \in Subject
BY DEF Subject

LEMMA ActorTyped ==
    ASSUME NEW u \in People
    PROVE  ActorOf(u) \in Subject
<1> DEFINE dependents == {s \in Students : <<u, s>> \in linked /\ StudentVisible(u, s)}
           own == IF u \in Students /\ \E c \in Classes : <<u, c>> \in enrolled THEN {u} ELSE {}
           student == IF own = {} THEN Null ELSE u
           teacher == IF u \in Teachers THEN u ELSE Null
           academic == own \cup {s \in dependents : <<u, s>> \in shows["academic"]}
           financial == own \cup {s \in dependents : <<u, s>> \in shows["finance"]}
           classes == {c \in Classes : <<u, c>> \in assigned}
<1>1. /\ student \in Students \cup {Null} /\ teacher \in Teachers \cup {Null}
      /\ own \cup dependents \in SUBSET Students
      /\ academic \in SUBSET Students /\ financial \in SUBSET Students
      /\ classes \in SUBSET Classes /\ RoleOf(u) \in Roles
  BY RolesTyped
<1>2. ActorOf(u) = [role |-> RoleOf(u), authenticated |-> TRUE, user |-> u, student |-> student,
                    teacher |-> teacher, linked |-> own \cup dependents, academic |-> academic,
                    financial |-> financial, classes |-> classes]
  BY Zenon DEF ActorOf
<1> HIDE DEF own, dependents, student, teacher, academic, financial, classes
<1> QED BY <1>1, <1>2, SubjectBuilt

LEMMA DecisionTyped ==
    ASSUME NEW a, NEW sub, NEW res, LocalReason(a, sub, res) \in Reasons \cup {NoMatch},
           NEW w \in Decisions(a, sub, res)
    PROVE  w \in Reasons \cup {NoMatch}
BY DEF Decisions, OpaAnswers, OpaReasons

LEMMA ActionTyped ==
    ASSUME NEW a \in Reads
    PROVE  ActionOf(a) \in Actions
BY DEF ActionOf, Reads, StudentReads, Actions

LEMMA TypeInit == Init => TypeOK
<1> SUFFICES ASSUME Init PROVE TypeOK
  OBVIOUS
<1>1. shows \in [Domains -> SUBSET (Guardians \X Students)]
  BY DEF Init
<1>2. homeroom \in [Classes -> Teachers \cup {Null}] /\ contract \in [Students -> Guardians \cup {Null}]
  BY DEF Init
<1> QED BY <1>1, <1>2 DEF Init, TypeOK, Ended

LEMMA TypeStep == TypeOK /\ [Next]_vars => TypeOK'
<1> SUFFICES ASSUME TypeOK, [Next]_vars PROVE TypeOK'
  OBVIOUS
<1> USE DEF TypeOK
<1>1. CASE EditTables
  <2> USE <1>1 DEF Edit
  <2>1. ASSUME NEW g \in Guardians, NEW s \in Students, NEW visible \in SUBSET Domains,
               Edit, SetLink(g, s, visible)
        PROVE  TypeOK'
    <3>1. shows' \in [Domains -> SUBSET (Guardians \X Students)]
      <4>1. \A d \in Domains : shows[d] \subseteq Guardians \X Students OBVIOUS
      <4>2. \A d \in Domains :
               (IF d \in visible THEN shows[d] \cup {<<g, s>>} ELSE shows[d] \ {<<g, s>>})
                  \in SUBSET (Guardians \X Students)
        BY <4>1
      <4> QED BY <4>2, <2>1 DEF SetLink
    <3> QED BY <3>1, <2>1 DEF SetLink
  <2>2. ASSUME NEW g \in Guardians, NEW s \in Students, Edit, DeleteLink(g, s)
        PROVE  TypeOK'
    <3>1. shows' \in [Domains -> SUBSET (Guardians \X Students)]
      <4>1. \A d \in Domains : shows[d] \ {<<g, s>>} \in SUBSET (Guardians \X Students) OBVIOUS
      <4> QED BY <4>1, <2>2 DEF DeleteLink
    <3> QED BY <3>1, <2>2 DEF DeleteLink
  <2>3. ASSUME NEW g \in Guardians, NEW s \in Students, Edit, SignContract(g, s)
        PROVE  TypeOK'
    BY <2>3 DEF SignContract
  <2>4. ASSUME NEW s \in Students, NEW c \in Classes, Edit, ChangeEnrollment(s, c)
        PROVE  TypeOK'
    BY <2>4 DEF ChangeEnrollment, Toggle
  <2>5. ASSUME NEW t \in Teachers, NEW c \in Classes, Edit, ChangeAssignment(t, c)
        PROVE  TypeOK'
    BY <2>5 DEF ChangeAssignment, Toggle
  <2>6. ASSUME NEW t \in Teachers, NEW c \in Classes, Edit, SetHomeroom(t, c)
        PROVE  TypeOK'
    BY <2>6 DEF SetHomeroom
  <2> QED BY <1>1, <2>1, <2>2, <2>3, <2>4, <2>5, <2>6 DEF EditTables
<1>2. ASSUME NEW u \in People, NEW a \in Reads, NEW s \in Students, Resolve(u, a, s)
      PROVE  TypeOK'
  BY <1>2, ActorTyped DEF Resolve, tables, Ended
<1>3. CASE Decide
  <2>1. why' \in Reasons \cup {NoMatch}
    BY <1>3, ActionTyped, LocalIsReason, DecisionTyped DEF Decide
  <2> QED BY <1>3, <2>1 DEF Decide, tables, Ended
<1>4. ASSUME ReadRows PROVE shown' \in BOOLEAN /\ entitled' \in BOOLEAN
  <2>1. Shows(act, caller, target) \in BOOLEAN
    BY Zenon DEF Shows, AssessmentsVisible, StudentVisible, CanAccessStudent
  <2>2. (MatrixAllows(act, caller, target) \/ BeyondMatrix(act, caller, target)) \in BOOLEAN
    OBVIOUS
  <2> QED BY <1>4, <2>1, <2>2 DEF ReadRows
<1>5. CASE ReadAndAnswer
  BY <1>5, <1>4 DEF ReadAndAnswer, tables, Ended
<1>6. CASE ReadFirst
  <2>1. class' \in Classes \cup {Null} /\ (stage' = "read" /\ act \in StudentReads => class' # Null)
    BY <1>6, AccessAssumption DEF ReadFirst, SummaryClasses, StudentReads
  <2> QED BY <1>6, <1>4, <2>1 DEF ReadFirst, tables, Ended
<1>7. CASE DecideAndAnswer
  <2>1. why' \in Reasons \cup {NoMatch}
    BY <1>7, ActionTyped, LocalIsReason, DecisionTyped DEF DecideAndAnswer
  <2> QED BY <1>7, <2>1 DEF DecideAndAnswer, tables, Ended
<1>8. CASE UNCHANGED vars
  BY <1>8 DEF vars, tables, request
<1> QED BY <1>1, <1>2, <1>3, <1>5, <1>6, <1>7, <1>8 DEF Next

(* Every reachable state is of its types; in particular a teacher's summary *)
(* that was read is about a class.                                          *)
THEOREM TypeCorrect == Spec => []TypeOK
BY TypeInit, TypeStep, PTL DEF Spec

-----------------------------------------------------------------------------
(* The record of a decision                                                 *)

RecordInv ==
    /\ stage \notin Ended => recorded = "none"
    /\ RecordTellsOutcome

LEMMA RecordStep == TypeOK /\ RecordInv /\ [Next]_vars => RecordInv'
<1> SUFFICES ASSUME TypeOK, RecordInv, [Next]_vars PROVE RecordInv'
  OBVIOUS
<1> USE DEF RecordInv, RecordTellsOutcome, Ended
<1>1. CASE EditTables
  BY <1>1 DEF EditTables, Edit
<1>2. CASE \E u \in People, a \in Reads, s \in Students : Resolve(u, a, s)
  BY <1>2 DEF Resolve
<1>3. CASE Decide
  BY <1>3 DEF Decide
<1>4. CASE ReadAndAnswer
  BY <1>4 DEF ReadAndAnswer
<1>5. CASE ReadFirst
  BY <1>5 DEF ReadFirst
<1>6. CASE DecideAndAnswer
  BY <1>6 DEF DecideAndAnswer
<1>7. CASE UNCHANGED vars
  BY <1>7 DEF vars, request
<1> QED BY <1>1, <1>2, <1>3, <1>4, <1>5, <1>6, <1>7 DEF Next

(* A grant is on record exactly for what was served, a refusal only for     *)
(* what was refused, whichever of the two orders the handler works in.      *)
THEOREM RecordIsOutcome == Spec => []RecordTellsOutcome
<1>1. Init => RecordInv
  BY DEF Init, RecordInv, RecordTellsOutcome, Ended
<1>2. RecordInv => RecordTellsOutcome
  BY DEF RecordInv
<1> QED BY <1>1, <1>2, RecordStep, TypeCorrect, PTL DEF Spec

-----------------------------------------------------------------------------
(* The fallback                                                             *)

LEMMA HandlersAsk ==
    ASSUME NEW u \in People, NEW s \in Students, NEW c, NEW a
    PROVE  Asked(a, Resource(a, u, s, c)) /\ Asked(ActionOf(a), Resource(a, u, s, c))
BY AccessAssumption, RolesTyped DEF Asked, ActionOf, Resource, StudentReads

(* For every school: whatever a handler asks about the actor of a request,  *)
(* OPA, when it answers, and the local function decide alike, for the same  *)
(* reason.                                                                  *)
THEOREM FallbackIsPolicy == Spec => []FallbackAgrees
<1>1. FallbackAgrees
  <2> SUFFICES ASSUME NEW u \in People, NEW a \in Actions, NEW s \in Students, NEW c \in Classes \cup {Null}
               PROVE  OpaAnswers(a, ActorOf(u), Resource(a, u, s, c))
                         = {LocalReason(a, ActorOf(u), Resource(a, u, s, c))}
    BY DEF FallbackAgrees
  <2> QED BY ActorTyped, HandlersAsk, AnswersAgree
<1> QED BY <1>1, PTL

-----------------------------------------------------------------------------
(* Entitlement                                                              *)

FlagsOnLinks == \A d \in Domains : shows[d] \subseteq linked

AdminReaders == Guardians \cup Students \cup {"coordinator", "admin"}

EntitledInv ==
    /\ FlagsOnLinks
    /\ stage # "idle" => actor.role = RoleOf(caller)
    /\ stage = "decided" /\ act = "student.admin.read" /\ why # NoMatch => caller \in AdminReaders
    /\ stage \in {"read", "served"} /\ shown => entitled

(* Row level security alone would show a student's row to a teacher and to  *)
(* the finance team; for that one act the policy is what refuses them.  The *)
(* class of a summary is seen by way of the student, so a guardian who sees *)
(* it is linked and a teacher who does teaches the student.                 *)
LEMMA RowsAreEntitled ==
    ASSUME TypeOK, FlagsOnLinks, NEW u \in People, NEW s \in Students, NEW a \in Reads,
           Shows(a, u, s), a = "student.admin.read" => u \in AdminReaders
    PROVE  MatrixAllows(a, u, s) \/ BeyondMatrix(a, u, s)
<1> USE DEF Domains, BeyondMatrix
<1>1. /\ \A d \in Domains : <<u, s>> \in shows[d] => u \in Guardians /\ <<u, s>> \in linked
      /\ \A c \in Classes : <<u, c>> \in assigned => u \in Teachers
  BY DEF TypeOK, FlagsOnLinks
<1>2. CASE a = "student.academic.read"
  BY <1>1, <1>2 DEF Shows, AssessmentsVisible, CanAccessStudent, MatrixAllows
<1>3. CASE a = "student.finance.read"
  BY <1>1, <1>3 DEF Shows, AssessmentsVisible, CanAccessStudent, MatrixAllows
<1>4. CASE a = "student.admin.read"
  <2>1. StudentVisible(u, s) BY <1>4 DEF Shows, AssessmentsVisible
  <2>2. u \in AdminReaders BY <1>4
  <2>3. u \notin Teachers /\ u # "finance"
    BY <2>2, AccessAssumption DEF AdminReaders, Internal
  <2> QED BY <1>1, <1>4, <2>1, <2>2, <2>3 DEF StudentVisible, CanAccessStudent, MatrixAllows, AdminReaders
<1>5. CASE a = "student.assessments.read"
  <2>1. StudentVisible(u, s) /\ \E c \in Classes : CanAccessClass(u, c)
    BY <1>5 DEF Shows, AssessmentsVisible, SummaryClasses, ActionOf
  <2>2. u \in Staff => u # "finance"
    <3>1. u \in Staff => u \notin Guardians \cup Students \cup Teachers \cup {Null}
      BY AccessAssumption
    <3> QED BY <2>1, <3>1 DEF CanAccessClass, TypeOK
  <2> QED BY <1>1, <1>5, <2>1, <2>2 DEF StudentVisible, CanAccessStudent, MatrixAllows
<1>6. CASE a \notin StudentReads
  BY <1>6 DEF MatrixAllows
<1> QED BY <1>2, <1>3, <1>4, <1>5, <1>6 DEF StudentReads

LEMMA AdminPolicy ==
    ASSUME NEW u \in People, NEW sub \in Subject, sub.role = RoleOf(u), NEW s \in Students,
           NEW w \in Decisions("student.admin.read", sub, Resource("student.admin.read", u, s, Null)),
           w # NoMatch
    PROVE  u \in AdminReaders
<1> DEFINE a == "student.admin.read"
           res == Resource(a, u, s, Null)
<1>1. w = LocalReason(a, sub, res)
  BY HandlersAsk, AnswersAgree DEF Decisions, Actions
<1>2. LocalReason(a, sub, res) = LocalAdmin(sub, res)
  BY DEF LocalReason, LocalAuthenticated, Subject
<1>3. sub.role \in {"guardian", "student", "coordinator", "admin"}
  BY <1>1, <1>2 DEF LocalAdmin
<1> QED BY <1>3, RolesTyped DEF AdminReaders, Internal

LEMMA EntitledStep == TypeOK /\ EntitledInv /\ [Next]_vars => EntitledInv'
<1> SUFFICES ASSUME TypeOK, EntitledInv, [Next]_vars PROVE EntitledInv'
  OBVIOUS
<1> USE DEF EntitledInv
<1>1. CASE EditTables
  <2>1. FlagsOnLinks'
    <3>1. ASSUME NEW g \in Guardians, NEW s \in Students, NEW visible \in SUBSET Domains,
                 SetLink(g, s, visible)
          PROVE  FlagsOnLinks'
      BY <3>1 DEF SetLink, FlagsOnLinks
    <3>2. ASSUME NEW g \in Guardians, NEW s \in Students, DeleteLink(g, s)
          PROVE  FlagsOnLinks'
      BY <3>2 DEF DeleteLink, FlagsOnLinks
    <3>3. CASE UNCHANGED <<linked, shows>>
      BY <3>3 DEF FlagsOnLinks
    <3> QED BY <1>1, <3>1, <3>2, <3>3
            DEF EditTables, SignContract, ChangeEnrollment, ChangeAssignment, SetHomeroom
  <2> QED BY <1>1, <2>1 DEF EditTables, Edit, RoleOf
<1>2. ASSUME NEW u \in People, NEW a \in Reads, NEW s \in Students, Resolve(u, a, s)
      PROVE  EntitledInv'
  BY <1>2 DEF Resolve, tables, ActorOf, RoleOf, FlagsOnLinks
<1>3. CASE Decide
  <2>1. act = "student.admin.read" /\ why' # NoMatch => caller \in AdminReaders
    BY <1>3, AdminPolicy DEF Decide, ActionOf, TypeOK
  <2> QED BY <1>3, <2>1 DEF Decide, tables, RoleOf, FlagsOnLinks, AdminReaders
<1>4. ASSUME ReadRows, stage \in {"resolved", "decided"},
             act = "student.admin.read" => caller \in AdminReaders
      PROVE  shown' => entitled'
  BY <1>4, RowsAreEntitled DEF ReadRows, TypeOK
<1>5. CASE ReadAndAnswer
  BY <1>5, <1>4 DEF ReadAndAnswer, tables, RoleOf, FlagsOnLinks
<1>6. CASE ReadFirst
  BY <1>6, <1>4 DEF ReadFirst, ReadsFirst, ActionOf, tables, RoleOf, FlagsOnLinks
<1>7. CASE DecideAndAnswer
  BY <1>7 DEF DecideAndAnswer, tables, RoleOf, FlagsOnLinks
<1>8. CASE UNCHANGED vars
  BY <1>8 DEF vars, tables, request, RoleOf, FlagsOnLinks
<1> QED BY <1>1, <1>2, <1>3, <1>5, <1>6, <1>7, <1>8 DEF Next

(* Nobody is shown records which neither the matrix, over the tables they   *)
(* are read from, nor one of the named grants beyond it lets them read,     *)
(* however old the decision is.                                             *)
THEOREM ShownOnlyAsEntitled == Spec => []ShownAsEntitled
<1>1. Init => EntitledInv
  BY DEF Init, EntitledInv, FlagsOnLinks
<1>2. EntitledInv => ShownAsEntitled
  BY DEF EntitledInv, ShownAsEntitled
<1> QED BY <1>1, <1>2, EntitledStep, TypeCorrect, PTL DEF Spec

-----------------------------------------------------------------------------
(* Granted and shown                                                        *)

Granting(u, a, s) == LocalReason(ActionOf(a), ActorOf(u), Resource(a, u, s, Null)) # NoMatch

(* What may keep a granted read from being answered.                        *)
NothingToShow(a, u, s) ==
    \/ ActionOf(a) = "student.academic.read" /\ \A c \in Classes : <<s, c>> \notin enrolled
    \/ a = "student.finance.read" /\ (contract[s] = Null \/ ~CanAccessGuardian(u, contract[s]))

GrantInv ==
    /\ stage \in {"idle", "resolved", "read"} => why = NoMatch
    /\ stage = "resolved" /\ ~edited => actor = ActorOf(caller)
    /\ stage = "decided" /\ ~edited /\ why # NoMatch
          => /\ Granting(caller, act, target)
             /\ ~(ActionOf(act) = "student.academic.read" /\ caller \in Teachers)
    /\ stage = "read" /\ ~edited => shown
    /\ GrantedIsShown

(* A grant over the tables of now finds and shows the rows.                 *)
LEMMA GrantShows ==
    ASSUME TypeOK, NEW u \in People, NEW s \in Students, NEW a \in Reads,
           Granting(u, a, s), ~(ActionOf(a) = "student.academic.read" /\ u \in Teachers),
           ~NothingToShow(a, u, s)
    PROVE  Found(a, u, s) /\ Shows(a, u, s)
<1> DEFINE A == ActorOf(u)
<1>1. /\ A.role = RoleOf(u)
      /\ A.student # Null => A.student = u
      /\ \A x \in Students : x \in A.academic /\ u \notin Students
            => <<u, x>> \in linked /\ <<u, x>> \in shows["academic"]
      /\ \A x \in Students : x \in A.financial /\ u \notin Students
            => <<u, x>> \in shows["finance"]
      /\ \A x \in Students : x \in A.linked /\ u \notin Students => StudentVisible(u, x)
      /\ A.authenticated = TRUE
  BY DEF ActorOf
<1> HIDE DEF A
<1>2. RoleOf(u) = "guardian" => u \notin Students
  BY RolesTyped, AccessAssumption
<1> USE DEF Domains
<1>3. CASE ActionOf(a) = "student.academic.read"
  <2>1. LocalAcademic(A, Resource(a, u, s, Null)) # NoMatch
    BY <1>1, <1>3 DEF Granting, LocalReason, LocalAuthenticated, A
  <2>2. a \in StudentReads /\ Resource(a, u, s, Null).student = s
    BY <1>3 DEF ActionOf, Resource, StudentReads
  <2>3. PICK c \in Classes : <<s, c>> \in enrolled
    BY <1>3 DEF NothingToShow
  <2>4. A.role # "teacher"
    BY <1>1, <1>3, RolesTyped
  <2>8. ASSUME CanAccessStudent(u, s, "academic"), CanAccessClass(u, c)
        PROVE  Found(a, u, s) /\ Shows(a, u, s)
    <3>1. c \in SummaryClasses(u, s)
      BY <2>3, <2>8 DEF SummaryClasses, StudentVisible
    <3> QED BY <1>3, <2>2, <2>8, <3>1 DEF Found, ActionOf, Shows, AssessmentsVisible, ActionOf, StudentReads
  <2>5. CASE A.role = "guardian" /\ s \in A.academic
    <3>1. <<u, s>> \in linked /\ <<u, s>> \in shows["academic"]
      BY <1>1, <1>2, <2>5
    <3> QED BY <2>3, <2>8, <3>1 DEF CanAccessStudent, CanAccessClass
  <2>6. CASE A.role = "student" /\ u = s
    BY <2>3, <2>6, <2>8 DEF CanAccessStudent, CanAccessClass
  <2>7. CASE A.role \in {"coordinator", "admin"}
    <3>1. u \in Staff /\ u \in {"coordinator", "admin"}
      BY <1>1, <2>7, RolesTyped DEF Internal
    <3> QED BY <2>8, <3>1 DEF CanAccessStudent, CanAccessClass
  <2> QED BY <1>1, <2>1, <2>2, <2>4, <2>5, <2>6, <2>7 DEF LocalAcademic, Own
<1>4. CASE a = "student.finance.read"
  <2>1. LocalFinance(A, Resource(a, u, s, Null)) # NoMatch
    BY <1>1, <1>4 DEF Granting, ActionOf, LocalReason, LocalAuthenticated, A
  <2>2. Resource(a, u, s, Null).student = s BY <1>4 DEF Resource, StudentReads
  <2>3. contract[s] # Null /\ CanAccessGuardian(u, contract[s])
    BY <1>4 DEF NothingToShow
  <2>4. CASE A.role = "guardian" /\ s \in A.financial
    BY <1>1, <1>2, <1>4, <2>3, <2>4 DEF Found, ActionOf, Shows, AssessmentsVisible, CanAccessStudent
  <2>5. CASE A.role = "student" /\ u = s
    BY <1>4, <2>3, <2>5 DEF Found, ActionOf, Shows, AssessmentsVisible, CanAccessStudent
  <2>6. CASE A.role \in {"finance", "admin"}
    <3>1. u \in Staff /\ u \in {"finance", "admin"}
      BY <1>1, <2>6, RolesTyped DEF Internal
    <3> QED BY <1>4, <2>3, <3>1 DEF Found, ActionOf, Shows, AssessmentsVisible, CanAccessStudent
  <2> QED BY <1>1, <2>1, <2>2, <2>4, <2>5, <2>6 DEF LocalFinance, Own
<1>5. CASE a = "student.admin.read"
  <2>1. LocalAdmin(A, Resource(a, u, s, Null)) # NoMatch
    BY <1>1, <1>5 DEF Granting, ActionOf, LocalReason, LocalAuthenticated, A
  <2>2. Resource(a, u, s, Null).student = s BY <1>5 DEF Resource, StudentReads
  <2>3. CASE A.role = "guardian" /\ s \in A.linked
    BY <1>1, <1>2, <1>5, <2>3 DEF Found, ActionOf, Shows, AssessmentsVisible
  <2>4. CASE A.role = "student" /\ u = s
    BY <1>5, <2>4 DEF Found, ActionOf, Shows, AssessmentsVisible, StudentVisible, CanAccessStudent
  <2>5. CASE A.role \in {"coordinator", "admin"}
    <3>1. u \in Staff /\ u \in {"coordinator", "admin"}
      BY <1>1, <2>5, RolesTyped DEF Internal
    <3> QED BY <1>5, <3>1 DEF Found, ActionOf, Shows, AssessmentsVisible, StudentVisible, CanAccessStudent
  <2> QED BY <1>1, <2>1, <2>2, <2>3, <2>4, <2>5 DEF LocalAdmin, Own
<1>6. CASE a \notin StudentReads
  BY <1>6 DEF Found, ActionOf, Shows, AssessmentsVisible, StudentReads
<1> QED BY <1>3, <1>4, <1>5, <1>6 DEF StudentReads, ActionOf

LEMMA GrantStep == TypeOK /\ EntitledInv /\ GrantInv /\ [Next]_vars => GrantInv'
<1> SUFFICES ASSUME TypeOK, EntitledInv, GrantInv, [Next]_vars PROVE GrantInv'
  OBVIOUS
<1> USE DEF GrantInv, GrantedIsShown, Ended
<1>1. CASE EditTables
  BY <1>1 DEF EditTables, Edit
<1>2. ASSUME NEW u \in People, NEW a \in Reads, NEW s \in Students, Resolve(u, a, s)
      PROVE  GrantInv'
  BY <1>2 DEF Resolve, tables, ActorOf, StudentVisible, CanAccessStudent, RoleOf
<1>3. CASE Decide
  <2>1. ASSUME ~edited, why' # NoMatch
        PROVE  Granting(caller, act, target) /\ ~(ActionOf(act) = "student.academic.read" /\ caller \in Teachers)
    <3>1. actor = ActorOf(caller) /\ actor \in Subject /\ caller \in People /\ target \in Students
          /\ ActionOf(act) \in Actions
      BY <1>3, <2>1, ActionTyped DEF Decide, TypeOK
    <3>2. Decisions(ActionOf(act), actor, Resource(act, caller, target, Null))
            = {LocalReason(ActionOf(act), actor, Resource(act, caller, target, Null))}
      BY <3>1, HandlersAsk, AnswersAgree DEF Decisions
    <3>3. actor.role = "teacher" <=> caller \in Teachers
      BY <1>3, <3>1, RolesTyped DEF Decide, EntitledInv
    <3> QED BY <1>3, <2>1, <3>1, <3>2, <3>3 DEF Decide, ReadsFirst, Granting
  <2>2. UNCHANGED <<tables, caller, act, target, edited>> /\ stage' = "decided"
    BY <1>3 DEF Decide
  <2>3. (Granting(caller, act, target) <=> Granting(caller, act, target)')
    BY <2>2 DEF tables, Granting, ActorOf, StudentVisible, CanAccessStudent, RoleOf, Resource
  <2> QED BY <2>1, <2>2, <2>3
<1>4. CASE ReadAndAnswer
  <2>1. CASE why # NoMatch /\ ~edited
    <3>1. Granting(caller, act, target) /\ ~(ActionOf(act) = "student.academic.read" /\ caller \in Teachers)
      BY <1>4, <2>1 DEF ReadAndAnswer
    <3>2. caller \in People /\ target \in Students /\ act \in Reads
      BY <1>4 DEF ReadAndAnswer, TypeOK
    <3>3. \/ NothingToShow(act, caller, target)
          \/ Found(act, caller, target) /\ Shows(act, caller, target)
      BY <3>1, <3>2, GrantShows
    <3>4. \/ NothingToShow(act, caller, target)'
          \/ stage' = "served" /\ shown'
      <4>1. NothingToShow(act, caller, target)' <=> NothingToShow(act, caller, target)
        BY <1>4 DEF ReadAndAnswer, tables, NothingToShow, CanAccessGuardian
      <4>2. CASE NothingToShow(act, caller, target)
        BY <4>1, <4>2
      <4>3. CASE Found(act, caller, target) /\ Shows(act, caller, target)
        BY <1>4, <2>1, <4>3 DEF ReadAndAnswer, ReadRows
      <4> QED BY <3>3, <4>2, <4>3
    <3> QED BY <1>4, <3>4 DEF ReadAndAnswer, NothingToShow
  <2>2. CASE why = NoMatch \/ edited
    BY <1>4, <2>2 DEF ReadAndAnswer
  <2> QED BY <2>1, <2>2
<1>5. CASE ReadFirst
  <2>1. why = NoMatch /\ why' = why /\ edited' = edited /\ stage' \in {"read", "missing"}
    BY <1>5 DEF ReadFirst
  <2>2. stage' = "read" => shown'
    <3>1. caller \in People /\ (act # "teacher.schedule.read" => caller \in Teachers)
      BY <1>5, RolesTyped DEF ReadFirst, ReadsFirst, EntitledInv, TypeOK
    <3>2. ASSUME act # "teacher.schedule.read", SummaryClasses(caller, target) # {}
          PROVE  CanAccessStudent(caller, target, "academic")
      <4>1. StudentVisible(caller, target) BY <3>2 DEF SummaryClasses
      <4>2. caller \notin Staff
        BY <3>1, <3>2, RolesTyped, AccessAssumption
      <4>3. \A d \in Domains : <<caller, target>> \notin shows[d]
        BY <3>1, <3>2, AccessAssumption DEF TypeOK
      <4> QED BY <4>1, <4>2, <4>3 DEF StudentVisible, CanAccessStudent, Domains
    <3>3. shown' = Shows(act, caller, target)
      BY <1>5 DEF ReadFirst, ReadRows
    <3>4. CASE ActionOf(act) = "student.academic.read"
      BY <1>5, <3>2, <3>3, <3>4 DEF ReadFirst, Shows, AssessmentsVisible, ActionOf
    <3>5. CASE act = "teacher.schedule.read"
      BY <3>3, <3>5 DEF Shows, AssessmentsVisible
    <3> QED BY <1>5, <3>4, <3>5 DEF ReadFirst, ReadsFirst
  <2> QED BY <2>1, <2>2
<1>6. CASE DecideAndAnswer
  BY <1>6 DEF DecideAndAnswer
<1>7. CASE UNCHANGED vars
  <2> USE <1>7 DEF vars, tables, request
  <2>1. Granting(caller, act, target) <=> Granting(caller, act, target)'
    BY DEF Granting, ActorOf, StudentVisible, CanAccessStudent, RoleOf, Resource
  <2>2. ActorOf(caller)' = ActorOf(caller)
    BY DEF ActorOf, StudentVisible, CanAccessStudent, RoleOf
  <2>3. CanAccessGuardian(caller, contract[target])' <=> CanAccessGuardian(caller, contract[target])
    BY DEF CanAccessGuardian
  <2> QED BY <2>1, <2>2, <2>3
<1> QED BY <1>1, <1>2, <1>3, <1>4, <1>5, <1>6, <1>7 DEF Next

(* What the policy grants over tables that have not changed since, row      *)
(* level security does not hide.                                            *)
THEOREM GrantsAreShown == Spec => []GrantedIsShown
<1>1. Init => GrantInv
  BY DEF Init, GrantInv, GrantedIsShown, Ended
<1>2. Init => EntitledInv
  BY DEF Init, EntitledInv, FlagsOnLinks
<1>3. GrantInv => GrantedIsShown
  BY DEF GrantInv
<1> QED BY <1>1, <1>2, <1>3, GrantStep, EntitledStep, TypeCorrect, PTL DEF Spec

=============================================================================
