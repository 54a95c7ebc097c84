---------------------------- MODULE MC_Approvals ----------------------------
(* Two calls on one target, a read-only call on another, and a question.   *)
EXTENDS Approvals

CONSTANTS write1, write2, read, question, file1, file2

MCCalls == {write1, write2, read, question}
MCQuestions == {question}
MCReadOnly == {read}
MCTargets == {file1, file2}
MCTarget == [c \in MCCalls |-> IF c \in {write1, write2} THEN file1 ELSE file2]
=============================================================================
