---------------------------- MODULE AtLeastOnce -----------------------------
(***************************************************************************)
(* What the runtime promises about delivery (architecture.md:52-61, 440),  *)
(* with no queues, tokens, checkpoints or positions in it.                 *)
(*                                                                         *)
(* An event is replayable once the source has committed it.  The runtime   *)
(* captures replayable events, the embedder acknowledges captured ones,    *)
(* and only acknowledged events may cease to be replayable.  At every      *)
(* moment a crash costs nothing: what was captured and not acknowledged    *)
(* can be captured again.                                                  *)
(***************************************************************************)
CONSTANT Events

VARIABLES
    replayable,    \* what a process started now would capture
    captured,      \* what the source has handed to the runtime so far
    acked          \* what the embedder has acknowledged so far

vars == <<replayable, captured, acked>>

Init ==
    /\ replayable \subseteq Events
    /\ captured = {}
    /\ acked = {}

(* The source commits new events.                                          *)
Commit ==
    \E new \in SUBSET (Events \ (replayable \cup captured \cup acked)) :
        /\ replayable' = replayable \cup new
        /\ UNCHANGED <<captured, acked>>

Capture ==
    \E events \in SUBSET replayable :
        /\ captured' = captured \cup events
        /\ UNCHANGED <<replayable, acked>>

Acknowledge ==
    \E events \in SUBSET captured :
        /\ acked' = acked \cup events
        /\ UNCHANGED <<replayable, captured>>

(* A checkpoint or a confirmation releases acknowledged events.            *)
Release ==
    \E events \in SUBSET acked :
        /\ replayable' = replayable \ events
        /\ UNCHANGED <<captured, acked>>

Next == Commit \/ Capture \/ Acknowledge \/ Release

Spec == Init /\ [][Next]_vars

(* Nothing captured and unacknowledged is beyond recovery.                 *)
Recoverable == captured \ acked \subseteq replayable
=============================================================================
