------------------------------ MODULE MCTransport ------------------------------
EXTENDS Transport, TLC
CONSTANTS c1, c2, c3, d1, d2, d3

Base == [kind |-> c1 :> "session" @@ c2 :> "session" @@ c3 :> "stop",
         carries |-> [c \in Clients |-> d1], installed |-> <<d1>>, damaged |-> {},
         faults |-> {"cut", "cancel", "disconnect", "killMaster", "kill"}, limit |-> 1,
         stream |-> TRUE, tcp |-> TRUE, socat |-> TRUE, mosh |-> FALSE, container |-> FALSE]

\* Two sessions share a master while stop runs, over every kind of forward.
Sharing ==
  {Base} \cup {[Base EXCEPT !.stream = FALSE, !.tcp = f[1], !.socat = f[2], !.container = f[3]] :
    f \in {<<TRUE, TRUE, TRUE>>, <<TRUE, FALSE, FALSE>>, <<TRUE, FALSE, TRUE>>, <<FALSE, TRUE, FALSE>>}}
\* Three previews of two versions install and prune at the same time on a host
\* with a damaged agent and an unused one.
Versions ==
  {[Base EXCEPT !.kind = [c \in Clients |-> "preview"], !.carries = c1 :> d1 @@ c2 :> d2 @@ c3 :> d1,
                !.installed = <<d3, d1>>, !.damaged = {d1}, !.faults = {"cancel", "upgrade"}]}
\* One session and one preview under every fault.
Mixed ==
  {[Base EXCEPT !.kind = c1 :> "session" @@ c2 :> "preview" @@ c3 :> "absent",
                !.carries = c1 :> d1 @@ c2 :> d @@ c3 :> d1, !.installed = <<d3, d1>>, !.damaged = {d1},
                !.faults = @ \cup {"hang", "upgrade"}] : d \in {d1, d2}}
All == Sharing \cup Versions \cup Mixed
Idle == {[Base EXCEPT !.kind = c1 :> "session" @@ c2 :> "absent" @@ c3 :> "absent", !.mosh = TRUE]}
=============================================================================
