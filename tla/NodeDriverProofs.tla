--------------------------- MODULE NodeDriverProofs ---------------------------
(***************************************************************************)
(* Proofs about NodeDriver, for any bound of the faults.                   *)
(***************************************************************************)
EXTENDS NodeDriver, TLAPS

\* The driver starts with the invariant.
LEMMA DriverInvInit == Init => DriverInv
<1> SUFFICES ASSUME Init PROVE DriverInv
  OBVIOUS
<1>1. TypeOK
  <2>1. /\ pc \in [main : MainPc, watcher : WatcherPc]
        /\ connectionLost \in BOOLEAN /\ changed \in BOOLEAN
        /\ registered \in BOOLEAN /\ cut \in BOOLEAN
    BY DEF Init, MainPc, WatcherPc
  <2>2. /\ request \in [Process -> {"none", "sent", "OK", "error"}]
        /\ servers \in [Server -> {"none", "serving", "draining", "stopped"}]
        /\ split \in BOOLEAN /\ calls \subseteq Server
    BY DEF Init, Process, Server
  <2>3. /\ conn \in {"Ready", "Lost"} /\ seen \in {"Ready", "Lost"}
        /\ late \subseteq {"register", "unregister"}
        /\ faults \in 0 .. MaxFaults
    BY FaultsAssumption DEF Init
  <2> QED
    BY <2>1, <2>2, <2>3 DEF TypeOK
<1>2. ~connectionLost /\ ~cut
  BY DEF Init
<1>3. Undisturbed /\ EndedIsGone
  BY <1>2 DEF Init, Undisturbed, EndedIsGone, Process
<1>4. NotYetServing /\ StoppedRunNothing /\ CallsComplete
  BY <1>2 DEF Init, NotYetServing, StoppedRunNothing, CallsComplete, Server
<1>5. WatcherRelies
  BY DEF Init, WatcherRelies, Process
<1> QED
  BY <1>1, <1>3, <1>4, <1>5 DEF DriverInv

-----------------------------------------------------------------------------
\* What the steps do to the servers and to their calls.
TypedServers ==
    /\ split \in BOOLEAN /\ cut \in BOOLEAN /\ calls \subseteq Server
    /\ servers \in [Server -> {"none", "serving", "draining", "stopped"}]

\* Every other variable has its type.
TypedWatch ==
    /\ registered \in BOOLEAN
    /\ conn \in {"Ready", "Lost"} /\ seen \in {"Ready", "Lost"}
    /\ pc \in [main : MainPc, watcher : WatcherPc]
    /\ request \in [Process -> {"none", "sent", "OK", "error"}]
    /\ late \subseteq {"register", "unregister"}
    /\ connectionLost \in BOOLEAN /\ changed \in BOOLEAN
    /\ faults \in 0 .. MaxFaults

\* Every step of the driver keeps the types of its servers.
LEMMA ServersTyped == TypedServers /\ [Next]_vars => TypedServers'
<1> SUFFICES ASSUME TypedServers, [Next]_vars PROVE TypedServers'
  OBVIOUS
<1>1. CASE UNCHANGED serving
  BY <1>1 DEF serving, TypedServers
<1>2. CASE Start
  BY <1>2 DEF Start, Starts, TypedServers
<1>3. ASSUME NEW p \in Process, Registered(p) PROVE TypedServers'
  BY <1>3 DEF Registered, Starts, TypedServers
<1>4. ASSUME NEW s \in Server, CallArrives(s) \/ CallReturns(s)
      PROVE  TypedServers'
  BY <1>4 DEF CallArrives, CallReturns, TypedServers
<1>5. ASSUME NEW s \in Server, Stops(s) \/ Stopped(s) PROVE TypedServers'
  BY <1>5 DEF Stops, Stopped, TypedServers
<1>6. CASE Ends
  <2>1. calls' = {} /\ split' = split
        /\ servers' \in [Server -> {"none", "serving", "draining", "stopped"}]
    BY <1>6 DEF Ends
  <2>2. cut' \in BOOLEAN
    BY <1>6 DEF Ends, TypedServers
  <2> QED
    BY <2>1, <2>2 DEF TypedServers
<1> QED
  BY <1>1, <1>2, <1>3, <1>4, <1>5, <1>6
  DEF Next, DriverSteps, Faults, vars, serving, Looks, Waits, Wakes, Registers,
      RegisterRetries, Unregisters, Unregistered, Signalled, Serves, ServesLate,
      Reconnects, ConnBreaks, UnregisterFails, RegistryRestarts, CallbackFails

\* Every step of the driver, of the registry and every fault keeps the others.
LEMMA WatchTyped == TypedWatch /\ [Next]_vars => TypedWatch'
<1> SUFFICES ASSUME TypedWatch, [Next]_vars PROVE TypedWatch'
  OBVIOUS
<1> USE FaultsAssumption DEF TypedWatch, MainPc, WatcherPc, Process, watch
<1>1. CASE Start
  BY <1>1 DEF Start
<1>2. CASE Looks
  BY <1>2 DEF Looks
<1>3. CASE Waits
  BY <1>3 DEF Waits
<1>4. CASE Wakes
  BY <1>4 DEF Wakes
<1>5. ASSUME NEW p \in Process, Registers(p) PROVE TypedWatch'
  BY <1>5 DEF Registers
<1>6. ASSUME NEW p \in Process, Registered(p) PROVE TypedWatch'
  BY <1>6 DEF Registered
<1>7. ASSUME NEW p \in Process, RegisterRetries(p) PROVE TypedWatch'
  BY <1>7 DEF RegisterRetries
<1>8. CASE Unregisters
  BY <1>8 DEF Unregisters
<1>9. CASE Unregistered
  BY <1>9 DEF Unregistered
<1>10. CASE Ends
  BY <1>10 DEF Ends
<1>11. CASE Signalled
  BY <1>11 DEF Signalled
<1>12. ASSUME NEW p \in Process, Serves(p) PROVE TypedWatch'
  <2>1. registered' \in BOOLEAN
    BY <1>12 DEF Serves
  <2>2. request' \in [Process -> {"none", "sent", "OK", "error"}]
    BY <1>12 DEF Serves
  <2> QED
    BY <1>12, <2>1, <2>2 DEF Serves
<1>13. CASE ServesLate
  <2>1. registered' \in BOOLEAN
    BY <1>13 DEF ServesLate
  <2>2. late' \subseteq late
    BY <1>13 DEF ServesLate
  <2> QED
    BY <1>13, <2>1, <2>2 DEF ServesLate
<1>14. CASE Reconnects
  BY <1>14 DEF Reconnects
<1>15. CASE ConnBreaks
  BY <1>15 DEF ConnBreaks
<1>16. CASE UnregisterFails
  BY <1>16 DEF UnregisterFails
<1>17. CASE RegistryRestarts
  <2>1. changed' \in BOOLEAN
    BY <1>17 DEF RegistryRestarts
  <2>2. request' \in [Process -> {"none", "sent", "OK", "error"}]
    BY <1>17 DEF RegistryRestarts
  <2>3. registered' \in BOOLEAN
    BY <1>17 DEF RegistryRestarts
  <2> QED
    BY <1>17, <2>1, <2>2, <2>3 DEF RegistryRestarts
<1>18. ASSUME NEW p \in Process, CallbackFails(p) PROVE TypedWatch'
  BY <1>18 DEF CallbackFails
<1>19. ASSUME NEW s \in Server,
              CallArrives(s) \/ CallReturns(s) \/ Stops(s) \/ Stopped(s)
       PROVE  TypedWatch'
  BY <1>19 DEF CallArrives, CallReturns, Stops, Stopped
<1>20. CASE UNCHANGED vars
  BY <1>20 DEF vars
<1> QED
  BY <1>1, <1>2, <1>3, <1>4, <1>5, <1>6, <1>7, <1>8, <1>9, <1>10, <1>11, <1>12,
     <1>13, <1>14, <1>15, <1>16, <1>17, <1>18, <1>19, <1>20
  DEF Next, DriverSteps, Faults

\* Every step keeps the types.
LEMMA TypeStep == TypeOK /\ [Next]_vars => TypeOK'
<1>1. TypeOK <=> TypedServers /\ TypedWatch
  BY DEF TypeOK, TypedServers, TypedWatch
<1>2. TypeOK' <=> TypedServers' /\ TypedWatch'
  BY DEF TypeOK, TypedServers, TypedWatch
<1> QED
  BY <1>1, <1>2, ServersTyped, WatchTyped

-----------------------------------------------------------------------------
\* A fault ends what the invariant promises: it is a step to faults # 0.
LEMMA FaultStep == TypeOK /\ Faults => faults' # 0
  BY FaultsAssumption DEF TypeOK, Faults, ConnBreaks, UnregisterFails,
     RegistryRestarts, CallbackFails, Process

\* No step disturbs an undisturbed driver without being a fault.
LEMMA UndisturbedStep ==
    DriverInv /\ [Next]_vars => Undisturbed' /\ EndedIsGone'
<1> SUFFICES ASSUME DriverInv, [Next]_vars PROVE Undisturbed' /\ EndedIsGone'
  OBVIOUS
<1>0. TypedWatch /\ Undisturbed /\ EndedIsGone
  BY DEF DriverInv, TypeOK, TypedWatch
<1> USE <1>0 DEF TypedWatch, Undisturbed, EndedIsGone, MainPc, WatcherPc,
                 Process, watch
<1>1. CASE Start
  BY <1>1 DEF Start
<1>2. CASE Looks
  BY <1>2 DEF Looks
<1>3. CASE Waits
  BY <1>3 DEF Waits
<1>4. CASE Wakes
  BY <1>4 DEF Wakes
<1>5. ASSUME NEW p \in Process, Registers(p)
      PROVE  Undisturbed' /\ EndedIsGone'
  BY <1>5 DEF Registers
<1>6. ASSUME NEW p \in Process, Registered(p)
      PROVE  Undisturbed' /\ EndedIsGone'
  BY <1>6 DEF Registered
<1>7. ASSUME NEW p \in Process, RegisterRetries(p)
      PROVE  Undisturbed' /\ EndedIsGone'
  BY <1>7 DEF RegisterRetries
<1>8. CASE Unregisters
  BY <1>8 DEF Unregisters
<1>9. CASE Unregistered
  BY <1>9 DEF Unregistered
<1>10. CASE Ends
  BY <1>10 DEF Ends
<1>11. CASE Signalled
  BY <1>11 DEF Signalled
<1>12. ASSUME NEW p \in Process, Serves(p)
       PROVE  Undisturbed' /\ EndedIsGone'
  BY <1>12 DEF Serves
<1>13. CASE ServesLate
  BY <1>13 DEF ServesLate
<1>14. CASE Reconnects
  BY <1>14 DEF Reconnects
<1>15. CASE Faults
  BY <1>15, FaultStep DEF DriverInv
<1>16. ASSUME NEW s \in Server,
              CallArrives(s) \/ CallReturns(s) \/ Stops(s) \/ Stopped(s)
       PROVE  Undisturbed' /\ EndedIsGone'
  <2>1. UNCHANGED <<conn, pc, request, late, registered, watch, faults>>
    BY <1>16 DEF CallArrives, CallReturns, Stops, Stopped
  <2> QED
    BY <2>1
<1>17. CASE UNCHANGED vars
  BY <1>17 DEF vars
<1> QED
  BY <1>1, <1>2, <1>3, <1>4, <1>5, <1>6, <1>7, <1>8, <1>9, <1>10, <1>11, <1>12,
     <1>13, <1>14, <1>15, <1>16, <1>17
  DEF Next, DriverSteps

\* The servers are started once.
LEMMA StartsStep == DriverInv /\ [Next]_vars => NotYetServing'
<1> SUFFICES ASSUME DriverInv, [Next]_vars PROVE NotYetServing'
  OBVIOUS
<1>0. TypedServers /\ TypedWatch /\ NotYetServing
  BY DEF DriverInv, TypeOK, TypedServers, TypedWatch
<1> USE <1>0 DEF TypedServers, TypedWatch, NotYetServing, MainPc, WatcherPc,
                 Process, Server, serving
<1>1. CASE Start
  BY <1>1 DEF Start, Starts
<1>2. CASE UNCHANGED <<serving, pc>>
  BY <1>2
<1>3. CASE Looks \/ Waits \/ Wakes \/ Unregisters \/ Unregistered \/ Signalled
  BY <1>3 DEF Looks, Waits, Wakes, Unregisters, Unregistered, Signalled
<1>4. ASSUME NEW p \in Process, Registers(p) \/ RegisterRetries(p)
      PROVE  NotYetServing'
  BY <1>4 DEF Registers, RegisterRetries
<1>5. ASSUME NEW p \in Process, Registered(p) PROVE NotYetServing'
  BY <1>5 DEF Registered
<1>6. ASSUME NEW s \in Server, Stops(s) \/ Stopped(s) PROVE NotYetServing'
  BY <1>6 DEF Stops, Stopped
<1>7. CASE Ends
  BY <1>7 DEF Ends
<1>8. ASSUME NEW s \in Server, CallArrives(s) \/ CallReturns(s)
      PROVE  NotYetServing'
  BY <1>8 DEF CallArrives, CallReturns
<1> QED
  BY <1>1, <1>2, <1>3, <1>4, <1>5, <1>6, <1>7, <1>8
  DEF Next, DriverSteps, Faults, vars, Serves, ServesLate, Reconnects,
      ConnBreaks, UnregisterFails, RegistryRestarts, CallbackFails

\* Running calls are cut off only where unregistering failed.
LEMMA CallsStep ==
    DriverInv /\ [Next]_vars => StoppedRunNothing' /\ CallsComplete'
<1> SUFFICES ASSUME DriverInv, [Next]_vars
             PROVE  StoppedRunNothing' /\ CallsComplete'
  OBVIOUS
<1>0. TypedServers /\ NotYetServing /\ StoppedRunNothing /\ CallsComplete
  BY DEF DriverInv, TypeOK, TypedServers
<1>1. CASE Faults
  BY <1>0, <1>1, FaultStep
  DEF DriverInv, Faults, ConnBreaks, UnregisterFails, RegistryRestarts,
      CallbackFails, serving, StoppedRunNothing, CallsComplete
<1>2. CASE UNCHANGED <<serving, faults>>
  BY <1>0, <1>2 DEF serving, StoppedRunNothing, CallsComplete
<1>3. CASE Start
  <2>1. pc.main = "start" /\ "controller" \in Server
    BY <1>3 DEF Start, Server
  <2>2. UNCHANGED <<calls, cut, faults>>
    BY <1>3 DEF Start
  <2>3. ASSUME NEW s \in calls PROVE servers'[s] \in {"serving", "draining"}
    <3>1. s # "controller"
      BY <1>0, <2>1, <2>3 DEF StoppedRunNothing, NotYetServing
    <3> QED
      BY <1>0, <1>3, <2>3, <3>1
      DEF Start, Starts, TypedServers, StoppedRunNothing
  <2> QED
    BY <1>0, <2>2, <2>3 DEF StoppedRunNothing, CallsComplete
<1>4. ASSUME NEW s \in Server, CallArrives(s) \/ CallReturns(s)
      PROVE  StoppedRunNothing' /\ CallsComplete'
  BY <1>0, <1>4
  DEF CallArrives, CallReturns, TypedServers, StoppedRunNothing, CallsComplete
<1>5. ASSUME NEW s \in Server, Stops(s) \/ Stopped(s)
      PROVE  StoppedRunNothing' /\ CallsComplete'
  BY <1>0, <1>5
  DEF Stops, Stopped, TypedServers, StoppedRunNothing, CallsComplete
<1>6. CASE Ends
  <2>1. calls' = {} /\ faults' = faults /\ cut' = (cut \/ calls # {})
    BY <1>6 DEF Ends
  <2>2. ASSUME faults = 0 PROVE calls = {}
    <3>1. pc.main = "stopping"
      BY <1>6, <2>2 DEF Ends, DriverInv, Undisturbed
    <3>2. \A s \in Server : servers[s] \in {"none", "stopped"}
      BY <1>6, <3>1 DEF Ends
    <3> QED
      BY <1>0, <3>2 DEF TypedServers, StoppedRunNothing
  <2>3. CallsComplete'
    BY <1>0, <2>1, <2>2 DEF CallsComplete
  <2> QED
    BY <2>1, <2>3 DEF StoppedRunNothing
<1>7. ASSUME NEW p \in Process, Registered(p)
      PROVE  StoppedRunNothing' /\ CallsComplete'
  <2>1. UNCHANGED <<calls, cut, faults>>
    BY <1>7 DEF Registered
  <2>2. ASSUME NEW s \in calls PROVE servers'[s] \in {"serving", "draining"}
    <3>1. CASE p = "main"
      <4>1. s # "node"
        BY <1>0, <1>7, <2>2, <3>1
        DEF Registered, StoppedRunNothing, NotYetServing
      <4> QED
        BY <1>0, <1>7, <2>2, <4>1
        DEF Registered, Starts, TypedServers, StoppedRunNothing
    <3>2. CASE p # "main"
      BY <1>0, <1>7, <2>2, <3>2 DEF Registered, StoppedRunNothing
    <3> QED
      BY <3>1, <3>2
  <2> QED
    BY <1>0, <2>1, <2>2 DEF StoppedRunNothing, CallsComplete
<1> QED
  BY <1>1, <1>2, <1>3, <1>4, <1>5, <1>6, <1>7
  DEF Next, DriverSteps, vars, serving, Looks, Waits, Wakes, Registers,
      RegisterRetries, Unregisters, Unregistered, Signalled, Serves, ServesLate,
      Reconnects

\* What the watcher relies on survives every step and every fault.
LEMMA WatcherStep == DriverInv /\ [Next]_vars => WatcherRelies'
<1> SUFFICES ASSUME DriverInv, [Next]_vars PROVE WatcherRelies'
  OBVIOUS
<1>0. TypedWatch /\ WatcherRelies
  BY DEF DriverInv, TypeOK, TypedWatch
<1> USE <1>0 DEF TypedWatch, WatcherRelies, MainPc, WatcherPc, Process, watch
<1>1. CASE Start
  BY <1>1 DEF Start
<1>2. CASE Looks
  BY <1>2 DEF Looks
<1>3. CASE Waits
  BY <1>3 DEF Waits
<1>4. CASE Wakes
  BY <1>4 DEF Wakes
<1>5. ASSUME NEW p \in Process, Registers(p) PROVE WatcherRelies'
  BY <1>5 DEF Registers
<1>6. ASSUME NEW p \in Process, Registered(p) PROVE WatcherRelies'
  BY <1>6 DEF Registered
<1>7. ASSUME NEW p \in Process, RegisterRetries(p) PROVE WatcherRelies'
  BY <1>7 DEF RegisterRetries
<1>8. CASE Unregisters
  BY <1>8 DEF Unregisters
<1>9. CASE Unregistered
  BY <1>9 DEF Unregistered
<1>10. CASE Ends
  BY <1>10 DEF Ends
<1>11. CASE Signalled
  BY <1>11 DEF Signalled
<1>12. ASSUME NEW p \in Process, Serves(p) PROVE WatcherRelies'
  BY <1>12 DEF Serves
<1>13. CASE ServesLate
  BY <1>13 DEF ServesLate
<1>14. CASE Reconnects
  BY <1>14 DEF Reconnects
<1>15. CASE ConnBreaks
  BY <1>15 DEF ConnBreaks
<1>16. CASE UnregisterFails
  BY <1>16 DEF UnregisterFails
<1>17. CASE RegistryRestarts
  BY <1>17 DEF RegistryRestarts
<1>18. ASSUME NEW p \in Process, CallbackFails(p) PROVE WatcherRelies'
  BY <1>18 DEF CallbackFails
<1>19. ASSUME NEW s \in Server,
              CallArrives(s) \/ CallReturns(s) \/ Stops(s) \/ Stopped(s)
       PROVE  WatcherRelies'
  <2>1. UNCHANGED <<conn, pc, request, late, registered, watch, changed>>
    BY <1>19 DEF CallArrives, CallReturns, Stops, Stopped
  <2> QED
    BY <2>1
<1>20. CASE UNCHANGED vars
  BY <1>20 DEF vars
<1> QED
  BY <1>1, <1>2, <1>3, <1>4, <1>5, <1>6, <1>7, <1>8, <1>9, <1>10, <1>11, <1>12,
     <1>13, <1>14, <1>15, <1>16, <1>17, <1>18, <1>19, <1>20
  DEF Next, DriverSteps, Faults

-----------------------------------------------------------------------------
(***************************************************************************)
(* The inductive invariant of the driver.                                  *)
(***************************************************************************)
THEOREM DriverInvariant == Spec => []DriverInv
<1>1. DriverInv /\ [Next]_vars => DriverInv'
  BY TypeStep, UndisturbedStep, StartsStep, CallsStep, WatcherStep DEF DriverInv
<1> QED
  BY DriverInvInit, <1>1, PTL DEF Spec

(***************************************************************************)
(* A node that ends is not in the registry, if nothing went wrong.         *)
(***************************************************************************)
THEOREM EndedIsGoneHolds == Spec => []EndedIsGone
<1>1. DriverInv => EndedIsGone
  BY DEF DriverInv
<1> QED
  BY DriverInvariant, <1>1, PTL

(***************************************************************************)
(* A driver that is told to end cuts no running call off, if nothing went  *)
(* wrong.                                                                  *)
(***************************************************************************)
THEOREM CallsCompleteHolds == Spec => []CallsComplete
<1>1. DriverInv => CallsComplete
  BY DEF DriverInv
<1> QED
  BY DriverInvariant, <1>1, PTL

(***************************************************************************)
(* The safety half of LossesHeal: an alarm is not lost, in whatever order  *)
(* losses, restarts of the registry and failed registrations come.         *)
(***************************************************************************)
LEMMA AlarmStep ==
    ASSUME DriverInv, Next, pc.main = "running", Alarmed, ~registered
    PROVE  Alarmed' \/ registered' \/ pc'.main # "running"
<1> DEFINE Goal == Alarmed' \/ registered' \/ pc'.main # "running"
<1>0. TypedWatch /\ WatcherRelies
  BY DEF DriverInv, TypeOK, TypedWatch
<1> USE <1>0 DEF TypedWatch, Alarmed, Process, watch
<1>1. CASE Looks
  BY <1>1 DEF Looks
<1>2. CASE Waits
  BY <1>2 DEF Waits
<1>3. CASE Wakes
  BY <1>3 DEF Wakes
<1>4. ASSUME NEW p \in Process, Registers(p) PROVE Goal
  BY <1>4 DEF Registers
<1>5. ASSUME NEW p \in Process, Registered(p) PROVE Goal
  BY <1>5 DEF Registered, WatcherRelies
<1>6. ASSUME NEW p \in Process, RegisterRetries(p) PROVE Goal
  BY <1>6 DEF RegisterRetries
<1>7. CASE Start \/ Unregisters \/ Unregistered \/ Ends \/ Signalled
  BY <1>7 DEF Start, Unregisters, Unregistered, Ends, Signalled
<1>8. CASE Reconnects \/ ConnBreaks
  BY <1>8 DEF Reconnects, ConnBreaks
<1>9. CASE RegistryRestarts
  BY <1>9 DEF RegistryRestarts
<1>10. CASE UNCHANGED <<pc, seen, connectionLost, changed>>
  BY <1>10
<1>11. \A p \in Process : Serves(p) => UNCHANGED <<pc, watch, changed>>
  BY DEF Serves
<1> QED
  BY <1>1, <1>2, <1>3, <1>4, <1>5, <1>6, <1>7, <1>8, <1>9, <1>10, <1>11
  DEF Next, DriverSteps, Faults, ServesLate, UnregisterFails, CallbackFails,
      CallArrives, CallReturns, Stops, Stopped

\* The watcher does not forget a loss (waitAndWatchConnection and register).
THEOREM AlarmStaysHolds == Spec => AlarmStays
<1>1. DriverInv /\ [Next]_vars =>
          [(pc.main = "running" /\ Alarmed /\ ~registered) =>
               (Alarmed' \/ registered' \/ pc.main' # "running")]_vars
  <2> SUFFICES ASSUME DriverInv, Next, pc.main = "running", Alarmed, ~registered
               PROVE  Alarmed' \/ registered' \/ pc.main' # "running"
    OBVIOUS
  <2>1. pc.main' = pc'.main
    OBVIOUS
  <2> QED
    BY <2>1, AlarmStep
<1> QED
  BY DriverInvariant, <1>1, PTL DEF Spec, AlarmStays
=============================================================================
