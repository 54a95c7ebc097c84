----------------------------- MODULE MC_ProjectList -----------------------------
(* The markers never reach the tab, and the ends told follow from where     *)
(* the clones stand.                                                        *)
EXTENDS ProjectList

Stage == [t \in Tasks |-> <<task[t].st, task[t].name, task[t].aborted, task[t].again>>]
View == <<disk, meta, rows, Stage, clones, deleting, asked, disturbed, cvars>>
=============================================================================
