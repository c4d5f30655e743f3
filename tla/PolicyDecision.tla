---------------------------- MODULE PolicyDecision ----------------------------
(***************************************************************************)
(* The access policy of api-core, which exists twice: as rules that an OPA *)
(* server evaluates (infra/compose/opa/policy.rego) and as the function    *)
(* _local_policy_decision that answers when OPA does not, in five seconds, *)
(* with a decision (services/policy.py).                                   *)
(*                                                                         *)
(* A decision is its reason; NoMatch is the only one that refuses.  Ids    *)
(* are uuids, written alike by both sides; Null is a missing or null field.*)
(***************************************************************************)
EXTENDS FiniteSets

CONSTANTS Null

Roles == {"guardian", "student", "teacher", "staff", "finance", "coordinator", "admin"}
Actions == {"health.read", "identity.context.read", "calendar.read", "ticket.create",
            "student.academic.read", "student.finance.read", "student.admin.read",
            "teacher.schedule.read", "actor.administrative.read",
            "operations.overview.read", "support.handoffs.read", "support.handoffs.manage"}
Internal == {"staff", "finance", "coordinator", "admin"}

NoMatch == "no_matching_policy"
Reasons == {"health_check", "identity_context_for_authenticated_actor", "public_calendar",
            "public_ticket_creation",
            "guardian_linked_academic_access", "student_self_academic_access",
            "teacher_class_academic_access", "coordination_academic_access",
            "guardian_linked_finance_access", "student_self_finance_access",
            "finance_team_access", "guardian_linked_admin_access",
            "student_self_admin_access", "coordination_admin_access",
            "teacher_own_schedule", "admin_schedule_access",
            "self_administrative_status_read", "self_operations_overview",
            "global_operations_overview", "self_support_handoffs_read",
            "global_support_handoffs_read", "manage_support_handoffs"}

-----------------------------------------------------------------------------
(* policy.rego: a rule per reason.  sub is the subject, res the resource.   *)

OpaOpenRule(why, act, sub, res) ==
    \/ why = "health_check" /\ act = "health.read"
    \/ why = "identity_context_for_authenticated_actor"
         /\ act = "identity.context.read" /\ sub.authenticated
    \/ why = "public_calendar" /\ act = "calendar.read" /\ res.visibility = "public"
    \/ why = "public_ticket_creation" /\ act = "ticket.create"

OpaAcademicRule(why, sub, res) ==
    \/ why = "guardian_linked_academic_access"
         /\ sub.role = "guardian" /\ res.student \in sub.academic
    \/ why = "student_self_academic_access"
         /\ sub.role = "student" /\ res.student = sub.student
    \/ why = "teacher_class_academic_access"
         /\ sub.role = "teacher" /\ res.class # Null /\ res.class \in sub.classes
    \/ why = "coordination_academic_access" /\ sub.role \in {"coordinator", "admin"}

OpaFinanceRule(why, sub, res) ==
    \/ why = "guardian_linked_finance_access"
         /\ sub.role = "guardian" /\ res.student \in sub.financial
    \/ why = "student_self_finance_access"
         /\ sub.role = "student" /\ res.student = sub.student
    \/ why = "finance_team_access" /\ sub.role \in {"finance", "admin"}

OpaAdminRule(why, sub, res) ==
    \/ why = "guardian_linked_admin_access"
         /\ sub.role = "guardian" /\ res.student \in sub.linked
    \/ why = "student_self_admin_access"
         /\ sub.role = "student" /\ res.student = sub.student
    \/ why = "coordination_admin_access" /\ sub.role \in {"coordinator", "admin"}

OpaStaffRule(why, act, sub, res) ==
    \/ act = "teacher.schedule.read" /\
         \/ why = "teacher_own_schedule" /\ sub.role = "teacher" /\ res.teacher = sub.teacher
         \/ why = "admin_schedule_access" /\ sub.role \in {"coordinator", "admin"}
    \/ act = "actor.administrative.read"
         /\ why = "self_administrative_status_read" /\ res.user = sub.user
    \/ act = "operations.overview.read" /\
         \/ why = "self_operations_overview" /\ res.scope = "self"
         \/ why = "global_operations_overview" /\ res.scope = "global" /\ sub.role \in Internal
    \/ act = "support.handoffs.read" /\
         \/ why = "self_support_handoffs_read" /\ res.scope = "self"
         \/ why = "global_support_handoffs_read" /\ res.scope = "global" /\ sub.role \in Internal
    \/ act = "support.handoffs.manage"
         /\ why = "manage_support_handoffs" /\ sub.role \in Internal

OpaRule(why, act, sub, res) ==
    \/ OpaOpenRule(why, act, sub, res)
    \/ /\ sub.authenticated
       /\ \/ act = "student.academic.read" /\ OpaAcademicRule(why, sub, res)
          \/ act = "student.finance.read" /\ OpaFinanceRule(why, sub, res)
          \/ act = "student.admin.read" /\ OpaAdminRule(why, sub, res)
          \/ OpaStaffRule(why, act, sub, res)

OpaReasons(act, sub, res) == {why \in Reasons : OpaRule(why, act, sub, res)}

(* Two rules that hold give "reason" two values, which OPA reports as an    *)
(* error: there is no decision then.                                        *)
OpaAnswers(act, sub, res) ==
    LET rs == OpaReasons(act, sub, res)
    IN IF rs = {} THEN {NoMatch}
       ELSE {why \in rs : \A other \in rs : other = why}

-----------------------------------------------------------------------------
(* _local_policy_decision: an action's first branch that applies.  An empty *)
(* id in the resource never equals the actor's.                             *)

Own(id, mine) == id # Null /\ id = mine

LocalAcademic(sub, res) ==
    CASE sub.role = "guardian" /\ res.student \in sub.academic -> "guardian_linked_academic_access"
      [] sub.role = "student" /\ Own(res.student, sub.student) -> "student_self_academic_access"
      [] sub.role = "teacher" /\ res.class # Null /\ res.class \in sub.classes
            -> "teacher_class_academic_access"
      [] sub.role \in {"coordinator", "admin"} -> "coordination_academic_access"
      [] OTHER -> NoMatch

LocalFinance(sub, res) ==
    CASE sub.role = "guardian" /\ res.student \in sub.financial -> "guardian_linked_finance_access"
      [] sub.role = "student" /\ Own(res.student, sub.student) -> "student_self_finance_access"
      [] sub.role \in {"finance", "admin"} -> "finance_team_access"
      [] OTHER -> NoMatch

(* Variant: the list of students whose grades a guardian may see is taken   *)
(* for the list of linked ones.                                             *)
LocalAdminAcademicOnly(sub, res) ==
    CASE sub.role = "guardian" /\ res.student \in sub.academic -> "guardian_linked_admin_access"
      [] sub.role = "student" /\ Own(res.student, sub.student) -> "student_self_admin_access"
      [] sub.role \in {"coordinator", "admin"} -> "coordination_admin_access"
      [] OTHER -> NoMatch

LocalAdmin(sub, res) ==
    CASE sub.role = "guardian" /\ res.student \in sub.linked -> "guardian_linked_admin_access"
      [] sub.role = "student" /\ Own(res.student, sub.student) -> "student_self_admin_access"
      [] sub.role \in {"coordinator", "admin"} -> "coordination_admin_access"
      [] OTHER -> NoMatch

LocalSchedule(sub, res) ==
    CASE sub.role = "teacher" /\ Own(res.teacher, sub.teacher) -> "teacher_own_schedule"
      [] sub.role \in {"coordinator", "admin"} -> "admin_schedule_access"
      [] OTHER -> NoMatch

LocalScoped(sub, res, self, global) ==
    CASE res.scope = "self" -> self
      [] res.scope = "global" /\ sub.role \in Internal -> global
      [] OTHER -> NoMatch

LocalAuthenticated(act, sub, res) ==
    CASE act = "identity.context.read" -> "identity_context_for_authenticated_actor"
      [] act = "student.academic.read" -> LocalAcademic(sub, res)
      [] act = "student.finance.read" -> LocalFinance(sub, res)
      [] act = "student.admin.read" -> LocalAdmin(sub, res)
      [] act = "teacher.schedule.read" -> LocalSchedule(sub, res)
      [] act = "actor.administrative.read" /\ Own(res.user, sub.user)
            -> "self_administrative_status_read"
      [] act = "operations.overview.read"
            -> LocalScoped(sub, res, "self_operations_overview", "global_operations_overview")
      [] act = "support.handoffs.read"
            -> LocalScoped(sub, res, "self_support_handoffs_read", "global_support_handoffs_read")
      [] act = "support.handoffs.manage" /\ sub.role \in Internal -> "manage_support_handoffs"
      [] OTHER -> NoMatch

LocalReason(act, sub, res) ==
    CASE act = "health.read" -> "health_check"
      [] act = "calendar.read"
            -> IF res.visibility = "public" THEN "public_calendar" ELSE NoMatch
      [] act = "ticket.create" -> "public_ticket_creation"
      [] OTHER -> IF sub.authenticated THEN LocalAuthenticated(act, sub, res) ELSE NoMatch

(* decide_policy: OPA's decision, or the local one when the call fails, is  *)
(* late, or brings none.                                                    *)
Decisions(act, sub, res) == OpaAnswers(act, sub, res) \cup {LocalReason(act, sub, res)}
=============================================================================
