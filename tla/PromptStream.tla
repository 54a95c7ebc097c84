---------------------------- MODULE PromptStream ----------------------------
(***************************************************************************)
(* What a session promises about the prompts it sends to its `claude`      *)
(* subprocess: the subprocess reads them in the order in which the turns   *)
(* began, each at most once, and reads none after the stream was closed.   *)
(* MessageBridge is shown to implement this specification.                 *)
(***************************************************************************)
EXTENDS Naturals, Sequences

CONSTANT Prompts        \* contents a turn can push

VARIABLES pushed,       \* every prompt ever pushed, oldest first
          delivered,    \* every prompt the subprocess has read, oldest first
          closed        \* the stream has ended

pvars == <<pushed, delivered, closed>>

PInit == pushed = <<>> /\ delivered = <<>> /\ closed = FALSE

Offer == /\ \E p \in Prompts : pushed' = Append(pushed, p)
         /\ UNCHANGED <<delivered, closed>>

Deliver == /\ ~closed
           /\ Len(delivered) < Len(pushed)
           /\ delivered' = Append(delivered, pushed[Len(delivered) + 1])
           /\ UNCHANGED <<pushed, closed>>

Shut == /\ closed' = TRUE
        /\ UNCHANGED <<pushed, delivered>>

PNext == Offer \/ Deliver \/ Shut

PSpec == PInit /\ [][PNext]_pvars
=============================================================================
