-------------------------- MODULE CommandDelivery --------------------------
(***************************************************************************)
(* What SsvcCommandsQueue promises those who push commands.  Commands are  *)
(* numbered as they are made.  Each is handed over or refused, is in the   *)
(* hands of one worker, alone, and ends once:                              *)
(*   - refused or dropped: it never reached the line;                      *)
(*   - sent or ok: it did;                                                 *)
(*   - unknown: it did, or its attempts are used up.                       *)
(* A command that reached the line is not put back, is written as often as *)
(* it has attempts at most, and once at most if it must not be repeated.   *)
(***************************************************************************)
EXTENDS Naturals, Sequences

VARIABLES
    fate,    \* what became of each command that was made
    making,  \* commands whose callers have not handed them over yet
    queued,  \* commands that wait for the worker
    current, \* the worker's command, has it one write only, and the attempts left
    written, \* commands that reached the line
    line     \* what was written and the controller has not read

deliveryVars == <<fate, making, queued, current, written, line>>

Nobody == [id |-> 0, once |-> FALSE, left |-> 0]
Number == Len(fate) + 1

DeliveryInit ==
    /\ fate = << >> /\ making = {} /\ queued = {}
    /\ current = Nobody /\ written = {} /\ line = << >>

Make ==
    /\ fate' = Append(fate, "open")
    /\ making' = making \cup {Number}
    /\ UNCHANGED <<queued, current, written, line>>

\* The worker pushes a command itself while it delivers another.
Post ==
    /\ current # Nobody
    /\ fate' = Append(fate, "open")
    /\ queued' = queued \cup {Number}
    /\ UNCHANGED <<making, current, written, line>>

Accept(i) ==
    /\ i \in making
    /\ making' = making \ {i} /\ queued' = queued \cup {i}
    /\ UNCHANGED <<fate, current, written, line>>

Refuse(i) ==
    /\ i \in making
    /\ making' = making \ {i}
    /\ fate' = [fate EXCEPT ![i] = "refused"]
    /\ UNCHANGED <<queued, current, written, line>>

Take(i) ==
    /\ current = Nobody /\ i \in queued
    /\ queued' = queued \ {i}
    /\ current' \in [id: {i}, once: BOOLEAN, left: Nat]
    /\ UNCHANGED <<fate, making, written, line>>

-----------------------------------------------------------------------------
(* The worker has a command.                                               *)

Unsent == current # Nobody /\ current.id \notin written
Sent == current # Nobody /\ current.id \in written

AttemptUsed ==
    /\ current.left > 0
    /\ current' = [current EXCEPT !.left = @ - 1]

Ends(result) ==
    /\ current' = Nobody
    /\ fate' = [fate EXCEPT ![current.id] = result]

PutBack ==
    /\ Unsent
    /\ queued' = queued \cup {current.id} /\ current' = Nobody
    /\ UNCHANGED <<fate, making, written, line>>

Drop ==
    /\ Unsent
    /\ Ends("dropped")
    /\ UNCHANGED <<making, queued, written, line>>

\* An attempt that does not reach the line
Miss ==
    /\ current # Nobody /\ AttemptUsed
    /\ UNCHANGED <<fate, making, queued, written, line>>

\* With the write the command may be done.
Write ==
    /\ current # Nobody /\ current.left > 0
    /\ current.once => current.id \notin written
    /\ Len(line') = Len(line) + 1 /\ line'[Len(line')].id = current.id
    /\ line' = Append(line, line'[Len(line')])
    /\ written' = written \cup {current.id}
    /\ \/ AttemptUsed /\ UNCHANGED fate
       \/ Ends("sent")
    /\ UNCHANGED <<making, queued>>

Succeed ==
    /\ Sent
    /\ Ends("ok")
    /\ UNCHANGED <<making, queued, written, line>>

GiveUp ==
    /\ Sent \/ (current # Nobody /\ current.left = 0)
    /\ Ends("unknown")
    /\ UNCHANGED <<making, queued, written, line>>

\* The controller's part
Read ==
    /\ line # << >>
    /\ line' = Tail(line)
    /\ UNCHANGED <<fate, making, queued, current, written>>

DeliveryNext ==
    \/ Make \/ Post
    \/ \E i \in making : Accept(i) \/ Refuse(i)
    \/ \E i \in queued : Take(i)
    \/ PutBack \/ Drop \/ Miss \/ Write \/ Succeed \/ GiveUp \/ Read

DeliverySpec == DeliveryInit /\ [][DeliveryNext]_deliveryVars
=============================================================================
