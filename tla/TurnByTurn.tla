------------------------------ MODULE TurnByTurn ------------------------------
(***************************************************************************)
(* What a session promises its clients about turns: they run one by one.   *)
(* A turn begins when none is running, and what is told of a turn's end is *)
(* about the one that is running, once, before the next begins.  It is     *)
(* told as cancelled if and only if the user pressed interrupt.  Only when *)
(* the subprocess is gone may a turn be given up without a word.           *)
(* TurnLifecycle implements this if requests are handled one at a time.    *)
(***************************************************************************)
EXTENDS Naturals

CONSTANT MaxTurns       \* bound on the turns begun

VARIABLES
  begun,      \* turns begun so far; the last of them is the one that runs
  running,    \* whether it runs
  pressed,    \* whether the user pressed interrupt since the last end was told
  report,     \* report[t]: what clients were told of the end of turn t
  gone        \* whether a subprocess died by itself

tvars == <<begun, running, pressed, report, gone>>

TInit == /\ begun = 0 /\ running = FALSE /\ pressed = FALSE /\ gone = FALSE
         /\ report = [t \in 1..MaxTurns |-> "open"]

(* A prompt forgets what was pressed before it, a compaction does not.     *)
BeginTurn == /\ ~running /\ begun < MaxTurns
             /\ running' = TRUE /\ begun' = begun + 1
             /\ pressed' \in {FALSE, pressed}
             /\ UNCHANGED <<report, gone>>

Press == /\ pressed' = TRUE
         /\ UNCHANGED <<begun, running, report, gone>>

Tell == /\ running /\ running' = FALSE /\ pressed' = FALSE
        /\ \E outcome \in {"finished", "error"} :
             report' = [report EXCEPT ![begun] = IF pressed THEN "cancelled" ELSE outcome]
        /\ UNCHANGED <<begun, gone>>

Lose == /\ gone' = TRUE
        /\ UNCHANGED <<begun, running, pressed, report>>

GiveUp == /\ gone /\ running' = FALSE
          /\ UNCHANGED <<begun, pressed, report, gone>>

TNext == BeginTurn \/ Press \/ Tell \/ Lose \/ GiveUp

TSpec == TInit /\ [][TNext]_tvars
===============================================================================
