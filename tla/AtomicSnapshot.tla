--------------------------- MODULE AtomicSnapshot ---------------------------
(***************************************************************************)
(* What the self-state plane promises its consumers, whatever the protocol *)
(* behind it: one writer publishes snapshots 1, 2, ...; a read returns,    *)
(* whole, the snapshot that was current at one moment during the read, or  *)
(* reports that it could not obtain one.  Snapshot 0 is the empty plane.   *)
(***************************************************************************)
EXTENDS Naturals

CONSTANTS Reader, NoView

VARIABLES
    current,   \* the number of the latest complete snapshot
    sampled,   \* sampled[r]: what r's read would return now
    view       \* view[r]: the snapshot r's last successful read returned

snapshotVars == <<current, sampled, view>>

Init ==
    /\ current = 0
    /\ sampled = [r \in Reader |-> 0]
    /\ view = [r \in Reader |-> NoView]

Publish ==
    /\ current' = current + 1
    /\ UNCHANGED <<sampled, view>>

Sample(r) ==
    /\ sampled' = [sampled EXCEPT ![r] = current]
    /\ UNCHANGED <<current, view>>

Return(r) ==
    /\ view' = [view EXCEPT ![r] = sampled[r]]
    /\ UNCHANGED <<current, sampled>>

Next == Publish \/ \E r \in Reader : Sample(r) \/ Return(r)

Spec == Init /\ [][Next]_snapshotVars

=============================================================================
