------------------------------- MODULE MCExam -------------------------------
EXTENDS ExamPool
MCSlots == {1, 2}
MCTasks == {1, 2, 3}
MCTexts == {1, 2}
MCKinds == {[s \in MCSlots |-> "mcq"], [s \in MCSlots |-> IF s = 1 THEN "fitb" ELSE "other"]}
MCPlan == [s \in MCSlots |-> [task |-> s, reuse |-> FALSE]]
=============================================================================
