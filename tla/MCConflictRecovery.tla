---------------------------- MODULE MCConflictRecovery ----------------------------
(* The instances of ConflictRecovery that TLC checks. *)
EXTENDS ConflictRecovery

Both == [p |-> "directory", q |-> "regular"]
Base == [script |-> <<"prefer local">>, kind |-> Both, nested |-> {"q"}, conflicts |-> {"p"}, old |-> 0, keep |-> 1,
         edited |-> "remote", edits |-> 2, faults |-> {}]
Local(s) == [s EXCEPT !.script = <<"prefer remote">>, !.edited = "local"]
Swapped(s) == [s EXCEPT !.conflicts = {"q"}]

\* Edits during a resolution, one fault each.
Singles == {Base, Swapped(Base), Local(Base), Swapped(Local(Base))}
Edits == {[s EXCEPT !.faults = {f}] : s \in Singles, f \in {"crash", "cut"}}
         \cup {[s EXCEPT !.faults = {f}, !.edits = 1] : s \in Singles, f \in {"power", "disk", "cancel", "rot"}}
\* Two paths in one archive.
Pairs == {[s EXCEPT !.conflicts = {"p", "q"}, !.edits = 0, !.faults = {f}] :
            s \in {Base, Local(Base)}, f \in {"power", "disk", "cut"}}
\* A resolution that fails, and another one.
Again == {[s EXCEPT !.script = <<@[1], @[1]>>, !.edits = 1, !.faults = {f}] :
            s \in {Base, Swapped(Local(Base))}, f \in {"crash", "cut", "disk"}}
\* Maintenance of older archives, after a resolution or alone.
\* (StalePrune: a stale tombstone before a power loss.)
Old == [Base EXCEPT !.conflicts = {"p", "q"}, !.old = 2, !.edits = 0]
StalePrune == {[Old EXCEPT !.script = <<"prune", "prune">>, !.faults = {f, "power"}] : f \in {"disk", "crash"}}
Maintenance ==
  StalePrune
  \cup {[Old EXCEPT !.script = <<c, d>>, !.faults = {f, g}, !.keep = n] :
     c \in {"prune"}, d \in {"prune", "restore", "verify"}, f \in {"crash", "power", "disk", "cancel"},
     g \in {"rot", "disk"}, n \in {1, 2}}
  \cup {[Old EXCEPT !.script = <<c>>, !.faults = {"rot", f}] : c \in {"restore", "verify"}, f \in {"disk", "cancel"}}
\* What an interrupted resolution left behind, and a command that meets it.
Left(s, next) == [s EXCEPT !.script = <<@[1], next>>, !.edits = 0, !.old = 1, !.faults = {"crash"}]
Leftovers == {Left(s, next) : s \in {Base, Swapped(Local(Base))}, next \in {"restore", "prune", "verify"}}
All == Leftovers \cup Edits \cup Pairs \cup Again \cup Maintenance
\* What goes wrong with an agent whose client was killed after its acknowledgement.
LatePrune == {[Base EXCEPT !.script = <<"prefer local", "prefer remote", "prune">>, !.conflicts = {"p", "q"},
                           !.edits = 0, !.faults = {"crash"}]}
LocalLoser == {[Local(Base) EXCEPT !.edits = 1]}
TwoPaths == {"p", "q"}
=============================================================================
