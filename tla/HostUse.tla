-------------------------------- MODULE HostUse --------------------------------
(***************************************************************************)
(* What the host lifecycle lock and the session leases promise about the   *)
(* use of configured hosts (docs/architecture.md, "Shutdown and recovery"; *)
(* docs/security.md, "Host retirement"): a session becomes visible only on *)
(* a configured host on which nobody is at work, and a host is retired, or *)
(* worked on by `stop' and `clean', only while no session uses it.         *)
(***************************************************************************)
CONSTANTS Hosts, Sessions, Admins, HostOf

VARIABLES
  configured,   \* hosts in the global configuration
  live,         \* sessions other processes can see and whose owner holds the lease
  atWork        \* `stop' and `clean' commands past their wait for the sessions

vars == <<configured, live, atWork>>

InUse(h) == \E s \in live : HostOf[s] = h

Init ==
  /\ configured \in SUBSET Hosts
  /\ live = {}
  /\ atWork = {}

Join(s) ==
  /\ HostOf[s] \in configured
  /\ \A a \in atWork : HostOf[a] # HostOf[s]
  /\ live' = live \cup {s}
  /\ UNCHANGED <<configured, atWork>>

Leave(s) ==
  /\ live' = live \ {s}
  /\ UNCHANGED <<configured, atWork>>

Begin(a) ==
  /\ ~InUse(HostOf[a])
  /\ atWork' = atWork \cup {a}
  /\ UNCHANGED <<configured, live>>

End(a) ==
  /\ atWork' = atWork \ {a}
  /\ UNCHANGED <<configured, live>>

Register(h) ==
  /\ configured' = configured \cup {h}
  /\ UNCHANGED <<live, atWork>>

Retire(h) ==
  /\ ~InUse(h)
  /\ configured' = configured \ {h}
  /\ UNCHANGED <<live, atWork>>

Next ==
  \/ \E s \in Sessions : Join(s) \/ Leave(s)
  \/ \E a \in Admins : Begin(a) \/ End(a)
  \/ \E h \in Hosts : Register(h) \/ Retire(h)

Spec == Init /\ [][Next]_vars
=============================================================================
