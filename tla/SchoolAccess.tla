----------------------------- MODULE SchoolAccess -----------------------------
(***************************************************************************)
(* Reading a student's data through api-core: the actor is resolved from   *)
(* the school's tables in one transaction, the policy decides over that    *)
(* snapshot, the rows are read in another transaction under row level      *)
(* security, which looks at the tables of that moment, and the decision is *)
(* recorded in the transaction that reads.                                 *)
(*                                                                         *)
(* One request; the tables may change between its steps.  Every decision   *)
(* is awaited, so it is a step of its own.  What a summary contains beyond *)
(* its being found is left out.                                            *)
(***************************************************************************)
EXTENDS Naturals, PolicyDecision

CONSTANTS Guardians, Students, Teachers,   \* a person's row, user and id are one
          Staff,                           \* internal users, named by their role
          Classes,
          MaxEdits                         \* bound on the changes of the tables

ASSUME AccessAssumption ==
    /\ Staff \subseteq Internal
    /\ MaxEdits \in Nat
    /\ Guardians \cap (Students \cup Teachers \cup Internal \cup Classes \cup {Null}) = {}
    /\ Students \cap (Teachers \cup Internal \cup Classes \cup {Null}) = {}
    /\ Teachers \cap (Internal \cup Classes \cup {Null}) = {}
    /\ Null \notin Internal \cup Classes

VARIABLES
    linked,      \* school.guardian_student_links
    shows,       \* ... and their can_view_academic and can_view_finance
    enrolled,    \* school.enrollments
    assigned,    \* academic.teacher_assignments
    homeroom,    \* classes.homeroom_teacher_id
    contract,    \* finance.contracts: the guardian who signed a student's
    edits,       \* how often the tables have changed
    stage, caller, act, target,   \* the request
    actor,       \* the ActorContext it resolved
    class,       \* the class of the summary read before the decision
    why,         \* the decision
    recorded,    \* what conversation.access_decisions keeps of it
    shown,       \* the summary carries the records the act is about
    entitled,    \* history: the caller was entitled to them when they were read
    edited       \* history: the tables have changed since the actor was resolved

tables == <<linked, shows, enrolled, assigned, homeroom, contract, edits>>
request == <<stage, caller, act, target, actor, class, why, recorded, shown, entitled, edited>>
vars == <<tables, request>>

Domains == {"academic", "finance"}
People == Guardians \cup Students \cup Teachers \cup Staff
StudentReads == {"student.academic.read", "student.finance.read", "student.admin.read",
                 "student.assessments.read"}
Reads == StudentReads \cup {"teacher.schedule.read", "actor.administrative.read"}
Ended == {"served", "refused", "missing"}

RoleOf(u) ==
    CASE u \in Guardians -> "guardian"
      [] u \in Students -> "student"
      [] u \in Teachers -> "teacher"
      [] OTHER -> u

Subject == [role: Roles, authenticated: {TRUE}, user: People, student: Students \cup {Null},
            teacher: Teachers \cup {Null}, linked: SUBSET Students, academic: SUBSET Students,
            financial: SUBSET Students, classes: SUBSET Classes]

-----------------------------------------------------------------------------
(* Row level security: functions of schema runtime, over the tables of now. *)

(* Variant: a link is enough for a guardian, whatever it may show.          *)
CanAccessStudentAnyLink(u, s, domain) ==
    \/ u \in Staff /\ (u = "admin" \/ u = (IF domain = "academic" THEN "coordinator" ELSE "finance"))
    \/ u = s
    \/ <<u, s>> \in linked
    \/ domain = "academic" /\ \E c \in Classes : <<u, c>> \in assigned /\ <<s, c>> \in enrolled

(* runtime.can_access_student *)
CanAccessStudent(u, s, domain) ==
    \/ u \in Staff /\ (u = "admin" \/ u = (IF domain = "academic" THEN "coordinator" ELSE "finance"))
    \/ u = s
    \/ <<u, s>> \in shows[domain]
    \/ domain = "academic" /\ \E c \in Classes : <<u, c>> \in assigned /\ <<s, c>> \in enrolled

(* The policies of school.students and, by the student, school.enrollments. *)
StudentVisible(u, s) == \E d \in Domains : CanAccessStudent(u, s, d)

(* Variant: guardians are left out of the policy of classes.                *)
CanAccessClassNoGuardian(u, c) ==
    \/ u \in Staff /\ u # "finance"
    \/ <<u, c>> \in assigned \/ homeroom[c] = u
    \/ <<u, c>> \in enrolled

(* runtime.can_access_class *)
CanAccessClass(u, c) ==
    \/ u \in Staff /\ u # "finance"
    \/ <<u, c>> \in assigned \/ homeroom[c] = u
    \/ <<u, c>> \in enrolled
    \/ \E s \in Students : <<u, s>> \in linked /\ <<s, c>> \in enrolled

(* runtime.can_access_guardian *)
CanAccessGuardian(u, g) ==
    \/ u \in {"finance", "admin"}
    \/ u = g
    \/ u \in Students /\ <<g, u>> \in linked

-----------------------------------------------------------------------------
(* resolve_actor_context runs under row level security itself: a link that  *)
(* shows nothing leads to no student, and a student who is not enrolled has *)
(* no student id.  The class of a student is left out, no rule looks at it. *)

ActorOf(u) ==
    LET dependents == {s \in Students : <<u, s>> \in linked /\ StudentVisible(u, s)}
        isEnrolled == \E c \in Classes : <<u, c>> \in enrolled
        own == IF u \in Students /\ isEnrolled THEN {u} ELSE {}
    IN [role |-> RoleOf(u), authenticated |-> TRUE, user |-> u,
        student |-> IF own = {} THEN Null ELSE u,
        teacher |-> IF u \in Teachers THEN u ELSE Null,
        linked |-> own \cup dependents,
        academic |-> own \cup {s \in dependents : <<u, s>> \in shows["academic"]},
        financial |-> own \cup {s \in dependents : <<u, s>> \in shows["finance"]},
        classes |-> {c \in Classes : <<u, c>> \in assigned}]

NoActor == [role |-> "staff", authenticated |-> TRUE, user |-> Null, student |-> Null,
            teacher |-> Null, linked |-> {}, academic |-> {}, financial |-> {}, classes |-> {}]

Resource(a, u, s, c) ==
    [student |-> IF a \in StudentReads THEN s ELSE Null,
     class |-> c,
     teacher |-> IF a = "teacher.schedule.read" THEN u ELSE Null,
     user |-> IF a = "actor.administrative.read" THEN u ELSE Null,
     scope |-> IF a \in {"operations.overview.read", "support.handoffs.read"}
               THEN IF RoleOf(u) \in Internal THEN "global" ELSE "self"
               ELSE "none",
     visibility |-> "none"]

(* What a person may read of a student, as an outsider would judge what the *)
(* code shows; no part of the code.                                         *)
(*                                                                          *)
(* docs/security/access-control-matrix.md, its cells "Ler" and "Amplo" and  *)
(* the rules of section 4, with a link's two marks where the school keeps   *)
(* them.  A class's assessments are no record of the student's own: there a *)
(* link is enough, as in "apenas dados dos alunos vinculados".              *)
MatrixAllows(a, u, s) ==
    LET asGuardian(domain) == u \in Guardians /\ <<u, s>> \in linked /\ <<u, s>> \in shows[domain]
        asTeacher == \E c \in Classes : <<u, c>> \in assigned /\ <<s, c>> \in enrolled
    IN \/ a \notin StudentReads
       \/ a # "student.finance.read" /\ u = s
       \/ a = "student.academic.read" /\ (asGuardian("academic") \/ asTeacher \/ u = "coordinator")
       \/ a = "student.assessments.read" /\ (<<u, s>> \in linked \/ asTeacher \/ u = "coordinator")
       \/ a = "student.finance.read" /\ (asGuardian("finance") \/ u = "finance")
       \/ a = "student.admin.read" /\ (asGuardian("academic") \/ asGuardian("finance"))

(* What policy.rego and the row policies grant beyond those cells: all to   *)
(* the technical admin, whom the matrix denies by default (lines 28 and     *)
(* 69), and the whole where it says "Limitado": a student's own finances    *)
(* (line 20), a student's administrative data to coordination (line 25).    *)
BeyondMatrix(a, u, s) ==
    \/ u = "admin"
    \/ a = "student.finance.read" /\ u = s
    \/ a = "student.admin.read" /\ u = "coordinator"

Init ==
    /\ linked = {} /\ shows = [d \in Domains |-> {}]
    /\ enrolled = {} /\ assigned = {}
    /\ homeroom = [c \in Classes |-> Null]
    /\ contract = [s \in Students |-> Null]
    /\ edits = 0
    /\ stage = "idle" /\ caller = Null /\ act = "health.read" /\ target = Null
    /\ actor = NoActor /\ class = Null /\ why = NoMatch /\ recorded = "none"
    /\ shown = FALSE /\ entitled = FALSE /\ edited = FALSE

-----------------------------------------------------------------------------
(* The tables are filled and changed by the tools that seed them.           *)

Edit ==
    /\ stage \notin Ended /\ edits < MaxEdits
    /\ edits' = edits + 1
    /\ edited' = (stage # "idle")
    /\ UNCHANGED <<stage, caller, act, target, actor, class, why, recorded, shown, entitled>>

Toggle(pair, set) == IF pair \in set THEN set \ {pair} ELSE set \cup {pair}

SetLink(g, s, visible) ==
    /\ linked' = linked \cup {<<g, s>>}
    /\ shows' = [d \in Domains |-> IF d \in visible THEN shows[d] \cup {<<g, s>>}
                                                    ELSE shows[d] \ {<<g, s>>}]
    /\ UNCHANGED <<enrolled, assigned, homeroom, contract>>

DeleteLink(g, s) ==
    /\ linked' = linked \ {<<g, s>>}
    /\ shows' = [d \in Domains |-> shows[d] \ {<<g, s>>}]
    /\ UNCHANGED <<enrolled, assigned, homeroom, contract>>

ChangeEnrollment(s, c) ==
    /\ enrolled' = Toggle(<<s, c>>, enrolled)
    /\ UNCHANGED <<linked, shows, assigned, homeroom, contract>>

ChangeAssignment(t, c) ==
    /\ assigned' = Toggle(<<t, c>>, assigned)
    /\ UNCHANGED <<linked, shows, enrolled, homeroom, contract>>

SetHomeroom(t, c) ==
    /\ homeroom' = [homeroom EXCEPT ![c] = t]
    /\ UNCHANGED <<linked, shows, enrolled, assigned, contract>>

SignContract(g, s) ==
    /\ contract' = [contract EXCEPT ![s] = g]
    /\ UNCHANGED <<linked, shows, enrolled, assigned, homeroom>>

EditTables ==
    /\ Edit
    /\ \/ \E g \in Guardians, s \in Students :
             \/ \E visible \in SUBSET Domains : SetLink(g, s, visible)
             \/ DeleteLink(g, s)
             \/ SignContract(g, s)
       \/ \E s \in Students, c \in Classes : ChangeEnrollment(s, c)
       \/ \E t \in Teachers, c \in Classes : ChangeAssignment(t, c) \/ SetHomeroom(t, c)

-----------------------------------------------------------------------------
(* The request *)

Resolve(u, a, s) ==
    /\ stage = "idle"
    /\ stage' = "resolved"
    /\ caller' = u /\ act' = a /\ target' = s
    /\ actor' = ActorOf(u)
    /\ edited' = FALSE
    /\ UNCHANGED <<tables, class, why, recorded, shown, entitled>>

(* What the policy is asked: the assessments of a student's class are       *)
(* academic data to it.                                                     *)
ActionOf(a) == IF a = "student.assessments.read" THEN "student.academic.read" ELSE a

(* A teacher's class must be known before the decision, so there the rows   *)
(* are read first.                                                          *)
ReadsFirst ==
    \/ act = "teacher.schedule.read"
    \/ ActionOf(act) = "student.academic.read" /\ actor.role = "teacher"

Decide ==
    /\ stage = "resolved" /\ ~ReadsFirst
    /\ why' \in Decisions(ActionOf(act), actor, Resource(act, caller, target, Null))
    /\ stage' = "decided"
    /\ UNCHANGED <<tables, caller, act, target, actor, class, recorded, shown, entitled, edited>>

(* Variant: the class is outer joined, so that one hidden from the caller   *)
(* leaves a row without it.                                                 *)
SummaryClassesOuter(u, s) ==
    {IF CanAccessClass(u, c) THEN c ELSE Null :
        c \in {k \in Classes : StudentVisible(u, s) /\ <<s, k>> \in enrolled}}

(* The classes a summary may be about: its query takes the first row.       *)
SummaryClasses(u, s) ==
    {c \in Classes : StudentVisible(u, s) /\ <<s, c>> \in enrolled /\ CanAccessClass(u, c)}

(* get_student_academic_summary, the attendance timeline and the upcoming   *)
(* assessments, by one inner join;                                          *)
(* get_student_financial_summary joins the contract and its guardian;       *)
(* get_student_administrative_status outer joins them.                      *)
Found(a, u, s) ==
    CASE ActionOf(a) = "student.academic.read" -> SummaryClasses(u, s) # {}
      [] a = "student.finance.read"
            -> /\ CanAccessStudent(u, s, "finance")
               /\ contract[s] # Null /\ CanAccessGuardian(u, contract[s])
      [] a = "student.admin.read" -> StudentVisible(u, s)
      [] OTHER -> TRUE

(* Assessments are grade items of the class, behind its assignments: both   *)
(* have the policy of the class.                                            *)
AssessmentsVisible(u, s) == SummaryClasses(u, s) # {}

(* Grades, attendance, invoices and the student's row have policies of      *)
(* their own, which may hide what the summary is found by.                  *)
Shows(a, u, s) ==
    CASE a = "student.academic.read" -> CanAccessStudent(u, s, "academic")
      [] a = "student.finance.read" -> CanAccessStudent(u, s, "finance")
      [] a = "student.admin.read" -> StudentVisible(u, s)
      [] a = "student.assessments.read" -> AssessmentsVisible(u, s)
      [] OTHER -> TRUE

ReadRows ==
    /\ shown' = Shows(act, caller, target)
    /\ entitled' = (MatrixAllows(act, caller, target) \/ BeyondMatrix(act, caller, target))

(* Variant: the decision is committed before the rows are read.             *)
ReadAndAnswerRecordingFirst ==
    /\ stage = "decided"
    /\ recorded' = IF why = NoMatch THEN "deny" ELSE "allow"
    /\ stage' = IF why = NoMatch THEN "refused"
                ELSE IF Found(act, caller, target) THEN "served" ELSE "missing"
    /\ ReadRows
    /\ UNCHANGED <<tables, caller, act, target, actor, class, why, edited>>

(* One transaction: the decision is recorded, then a refusal or a missing   *)
(* row raises, which rolls the record back with the rest.                   *)
ReadAndAnswer ==
    /\ stage = "decided"
    /\ \/ /\ why = NoMatch
          /\ stage' = "refused"
          /\ UNCHANGED <<recorded, shown, entitled>>
       \/ /\ why # NoMatch /\ ~Found(act, caller, target)
          /\ stage' = "missing"
          /\ UNCHANGED <<recorded, shown, entitled>>
       \/ /\ why # NoMatch /\ Found(act, caller, target)
          /\ stage' = "served"
          /\ recorded' = "allow"
          /\ ReadRows
    /\ UNCHANGED <<tables, caller, act, target, actor, class, why, edited>>

(* The academic data a teacher reads, and the schedule, which only teachers *)
(* have.                                                                    *)
ReadFirst ==
    /\ stage = "resolved" /\ ReadsFirst
    /\ \/ /\ act # "teacher.schedule.read"
          /\ \E c \in SummaryClasses(caller, target) : class' = c
          /\ stage' = "read"
       \/ /\ act = "teacher.schedule.read" /\ caller \in Teachers
          /\ stage' = "read"
          /\ UNCHANGED class
       \/ /\ IF act = "teacher.schedule.read" THEN caller \notin Teachers
                                              ELSE SummaryClasses(caller, target) = {}
          /\ stage' = "missing"
          /\ UNCHANGED class
    /\ ReadRows
    /\ UNCHANGED <<tables, caller, act, target, actor, why, recorded, edited>>

(* The transaction is still open, and commits before a refusal is raised.   *)
DecideAndAnswer ==
    /\ stage = "read"
    /\ why' \in Decisions(ActionOf(act), actor, Resource(act, caller, target, class))
    /\ recorded' = IF why' = NoMatch THEN "deny" ELSE "allow"
    /\ stage' = IF why' = NoMatch THEN "refused" ELSE "served"
    /\ UNCHANGED <<tables, caller, act, target, actor, class, shown, entitled, edited>>

Next ==
    \/ EditTables
    \/ \E u \in People, a \in Reads, s \in Students : Resolve(u, a, s)
    \/ Decide \/ ReadAndAnswer \/ ReadFirst \/ DecideAndAnswer

Spec == Init /\ [][Next]_vars

-----------------------------------------------------------------------------
(* Properties *)

TypeOK ==
    /\ linked \subseteq Guardians \X Students
    /\ shows \in [Domains -> SUBSET (Guardians \X Students)]
    /\ enrolled \subseteq Students \X Classes
    /\ assigned \subseteq Teachers \X Classes
    /\ homeroom \in [Classes -> Teachers \cup {Null}]
    /\ contract \in [Students -> Guardians \cup {Null}]
    /\ edits \in Nat
    /\ stage \in Ended \cup {"idle", "resolved", "decided", "read"}
    /\ stage # "idle" => /\ caller \in People /\ act \in Reads /\ target \in Students
                        /\ actor \in Subject
    /\ class \in Classes \cup {Null}
    /\ stage = "read" /\ act \in StudentReads => class # Null
    /\ why \in Reasons \cup {NoMatch}
    /\ recorded \in {"none", "allow", "deny"}
    /\ shown \in BOOLEAN /\ entitled \in BOOLEAN /\ edited \in BOOLEAN

(* The two policies are one: whatever a handler asks about the actor a      *)
(* request would resolve now, over whatever links, enrolments and classes   *)
(* there are, the local function gives OPA's decision and OPA's reason.     *)
FallbackAgrees ==
    stage = "idle" =>
        \A u \in People, a \in Actions, s \in Students, c \in Classes \cup {Null} :
            OpaAnswers(a, ActorOf(u), Resource(a, u, s, c))
                = {LocalReason(a, ActorOf(u), Resource(a, u, s, c))}

(* Nobody is shown a student's records whom neither the matrix, over the    *)
(* tables at the moment they are read, nor one of the three grants beyond   *)
(* it entitles, even when the decision is older than a withdrawal.  Of a    *)
(* class's assessments this says less: row level security asks for a link,  *)
(* so only the decision, possibly a stale one, looks at the academic mark.  *)
ShownAsEntitled == stage = "served" /\ shown => entitled

(* Two layers, one answer: what the policy grants, row level security does  *)
(* not hide, unless the tables changed in between, the student is in no     *)
(* class, or the contract is another guardian's.                            *)
GrantedIsShown ==
    stage \in Ended /\ why # NoMatch /\ ~edited =>
        \/ stage = "served" /\ shown
        \/ ActionOf(act) = "student.academic.read" /\ \A c \in Classes : <<target, c>> \notin enrolled
        \/ act = "student.finance.read"
             /\ (contract[target] = Null \/ ~CanAccessGuardian(caller, contract[target]))

(* What the record of decisions says of a request is how it ended: it holds *)
(* a grant exactly of what was served, a refusal only of what was refused.  *)
RecordTellsOutcome ==
    stage \in Ended =>
        /\ recorded = "allow" <=> stage = "served"
        /\ recorded = "deny" => stage = "refused"

(* "O sistema deve negar e registrar": a refusal leaves a record.           *)
RefusalRecorded == stage = "refused" => recorded = "deny"
=============================================================================
