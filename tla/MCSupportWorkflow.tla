-------------------------- MODULE MCSupportWorkflow --------------------------
(* Instances of SupportWorkflow for TLC.                                    *)
EXTENDS SupportWorkflow, TLC

CONSTANTS t1, ana, op, x, y

OneThread == {t1}
Everyone == {ana, op}
OperatorsOnly == {op}
OneText == {x}
TwoTexts == {x, y}
NoChat == {}
FinanceOnly == {"financeiro"}
VisitsOnly == {}
=============================================================================
