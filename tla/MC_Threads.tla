------------------------------- MODULE MC_Threads -------------------------------
(***************************************************************************)
(* Small instances of the threads of a server: the hand-over of            *)
(* connections to the prespawned ones (PreSpawnedPool), and starting and   *)
(* stopping them all (ServerLifecycle, as Life).  The first looks at a     *)
(* server that serves and the second does not look at connections, so a    *)
(* behaviour is one of those named in Views.                               *)
(***************************************************************************)
EXTENDS PreSpawnedPool

CONSTANTS
  Views,
  MAX_TRIES_TO_BIND_TO_PORT, Prespawned, MaxFresh, PrivilegedPort, StopAnytime, Signals

VARIABLES
  view,
  app, server, keep_var_on_stack, server_running, stopping, root, bindTries, bound, pool,
  epollThread, fresh, freed, kill, exited

Life == INSTANCE ServerLifecycle WITH stop_server <- stopping

lifeVars == << app, server, keep_var_on_stack, server_running, stopping, root, bindTries,
               bound, pool, epollThread, fresh, freed, kill, exited >>

ASSUME LifecycleAssumption == Life!Parameters

MCInit == view \in Views /\ Init /\ Life!Init

MCNext ==
  \/ view = "pool" /\ Next /\ UNCHANGED << view, lifeVars >>
  \/ view = "life" /\ Life!Next /\ UNCHANGED << view, vars >>

MCSpec == MCInit /\ [][MCNext]_<< view, vars, lifeVars >>

\* The fairness of the two, each in its own behaviours.
MCFairSpec ==
  /\ MCSpec
  /\ \A s \in Slots : WF_vars(view = "pool" /\ WorkWithoutTimeout(s))
  /\ \A d \in Dispatchers : WF_vars(view = "pool" /\ Dispatch(d))
  /\ WF_lifeVars(view = "life" /\ ~exited /\ Life!Application)
  /\ WF_lifeVars(view = "life" /\ ~exited /\ Life!ServerThread)

ContextOutlivesCopy     == Life!ContextOutlivesCopy
ContextOutlivesReader   == Life!ContextOutlivesReader
StartComesBack          == Life!StartComesBack
DeadServerIsNotRunning  == Life!DeadServerIsNotRunning
InstanceOutlivesThreads == Life!InstanceOutlivesThreads
BoundBeforeRootDropped  == Life!BoundBeforeRootDropped
GaveUpUnbound           == Life!GaveUpUnbound
=============================================================================
