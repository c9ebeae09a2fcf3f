-------------------------------- MODULE Spool --------------------------------
(***************************************************************************)
(* What the message store promises to the rest of the program, with no     *)
(* files, no processes and no crashes: the life of one message.  A message *)
(* becomes visible once (Publish), is worked on by taking it out of the    *)
(* queue, and leaves the store for good only from the hands of the one who *)
(* took it.  A message that has been delivered never goes back to the      *)
(* queue, and is never delivered again.  FileStore implements this.        *)
(***************************************************************************)
EXTENDS Naturals

CONSTANT Id            \* the messages

VARIABLES status,      \* where each message is
          sends        \* how often each message was sent to all its recipients

spoolVars == <<status, sends>>

Status == {"unpublished", "queued", "held", "failed", "gone"}

SpoolInit == /\ status = [i \in Id |-> "unpublished"]
             /\ sends  = [i \in Id |-> 0]

Move(i, from, to) == /\ status[i] = from
                     /\ status' = [status EXCEPT ![i] = to]
                     /\ UNCHANGED sends

Publish(i) == Move(i, "unpublished", "queued")
Take(i)    == Move(i, "queued", "held")
Release(i) == sends[i] = 0 /\ Move(i, "held", "queued")
Fail(i)    == sends[i] = 0 /\ Move(i, "held", "failed")
Retry(i)   == Move(i, "failed", "queued")
Remove(i)  == Move(i, "held", "gone")

Deliver(i) == /\ status[i] = "held"
              /\ sends[i] = 0
              /\ sends' = [sends EXCEPT ![i] = 1]
              /\ UNCHANGED status

SpoolNext == \E i \in Id : \/ Publish(i) \/ Take(i) \/ Release(i) \/ Fail(i)
                           \/ Retry(i) \/ Remove(i) \/ Deliver(i)

SpoolSpec == SpoolInit /\ [][SpoolNext]_spoolVars
=============================================================================
