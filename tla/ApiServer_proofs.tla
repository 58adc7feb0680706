--------------------------- MODULE ApiServer_proofs ---------------------------
(***************************************************************************)
(* Proofs about ApiServer for any number of requests and connections.      *)
(***************************************************************************)
EXTENDS ApiServer, FiniteSetTheorems, TLAPS

\* The pool is a finite number of connections, all lent to different requests.
LEMMA QueryingIsFinite == IsFiniteSet(Querying) /\ Cardinality(Querying) \in Nat
BY ServerAssumption, FS_Subset, FS_CardinalityType DEF Querying

\* Whoever stops querying leaves room in the pool.
LEMMA FewerQuerying ==
    ASSUME ServerTypeOK, Querying' \subseteq Querying
    PROVE  Cardinality(Querying') <= MaxConns
<1>1. IsFiniteSet(Querying) /\ Cardinality(Querying) \in Nat
  BY QueryingIsFinite
<1>2. Cardinality(Querying') \in Nat /\ Cardinality(Querying') <= Cardinality(Querying)
  BY <1>1, FS_Subset, FS_CardinalityType
<1> QED BY <1>1, <1>2, ServerAssumption DEF ServerTypeOK

\* Query takes a connection only if one is left.
LEMMA QueryKeepsBound ==
    ASSUME ServerTypeOK, NEW r \in Requests, Query(r)
    PROVE  Cardinality(Querying') <= MaxConns
<1>1. Querying' = Querying \cup {r} /\ r \notin Querying
  BY DEF Query, Move, Querying, ServerTypeOK, Request
<1>2. Cardinality(Querying') = Cardinality(Querying) + 1
  BY <1>1, QueryingIsFinite, FS_AddElement
<1>3. Cardinality(Querying) < MaxConns
  BY DEF Query
<1> QED BY <1>2, <1>3, QueryingIsFinite, ServerAssumption

\* The end of the process, from a place where no statement runs or by a signal
\* that kills.
LEMMA ExitKeepsServerInv ==
    ASSUME ServerInv, main # "exited", NEW code \in {"ok", "error", "killed"}, Exit(code),
           code # "killed" => Querying = {},
           code = "ok" => exitCode = "ok"
    PROVE  ServerInv'
<1>1. Querying' = {}
  BY DEF Exit, Querying
<1>2. Cardinality(Querying') <= MaxConns
  BY <1>1, FewerQuerying DEF ServerInv
<1>3. \A r \in Requests : req'[r] \in Request
  BY DEF ServerInv, ServerTypeOK, Exit, Request
<1>4. ServerTypeOK'
  BY <1>2, <1>3 DEF ServerInv, ServerTypeOK, Exit
<1>5. CleanExitCutsNothing'
  BY DEF ServerInv, CleanExitCutsNothing, Exit
<1>6. NoStatementIsCut'
  <2> SUFFICES ASSUME code # "killed", NEW r \in Requests
               PROVE  req'[r].state # "cut_querying"
    BY DEF NoStatementIsCut, Exit
  <2>1. req[r].state # "querying"
    BY DEF Querying
  <2>2. req[r].state # "cut_querying"
    BY DEF ServerInv
  <2> QED BY <2>1, <2>2 DEF Exit
<1> QED BY <1>4, <1>5, <1>6 DEF ServerInv, Exit

\* run() returns: the requests stay as they are, and "ok" is only for a process
\* without active ones.
LEMMA CloseKeepsServerInv ==
    ASSUME ServerInv, main \in {"wire", "serving", "draining"},
           NEW code \in {"ok", "error"}, Close(code), listener' = listener,
           code = "ok" => Active = {}
    PROVE  ServerInv'
<1>1. Querying' = Querying
  BY DEF Close, Querying
<1>2. ServerTypeOK'
  BY <1>1, FewerQuerying DEF ServerInv, ServerTypeOK, Close
<1>3. CleanExitCutsNothing'
  <2> SUFFICES ASSUME code = "ok", NEW r \in Requests
               PROVE  req[r].state \in {"none", "answered"}
    BY DEF CleanExitCutsNothing, Close
  <2>1. req[r].state \notin {"running", "querying", "storing"}
    BY DEF Active
  <2>2. req[r].state \notin {"cut", "cut_querying"}
    BY DEF ServerInv
  <2> QED BY <2>1, <2>2 DEF ServerInv, ServerTypeOK, Request
<1>4. NoStatementIsCut'
  BY DEF ServerInv, NoStatementIsCut, Close
<1> QED BY <1>2, <1>3, <1>4 DEF ServerInv, Close

\* A request that moves on was active, so run() has not returned "ok".
LEMMA MoveKeepsServerInv ==
    ASSUME ServerInv, NEW r \in Requests,
           NEW q \in {"running", "querying", "storing", "answered"},
           Move(r, q), req[r].state \in {"running", "querying", "storing"},
           Cardinality(Querying') <= MaxConns
    PROVE  ServerInv'
<1>1. ServerTypeOK'
  BY DEF ServerInv, ServerTypeOK, Move, Request
<1>2. CleanExitCutsNothing'
  BY DEF ServerInv, ServerTypeOK, CleanExitCutsNothing, Move
<1>3. NoStatementIsCut'
  BY DEF ServerInv, ServerTypeOK, NoStatementIsCut, Move, Request
<1> QED BY <1>1, <1>2, <1>3 DEF ServerInv, ServerTypeOK, Move, Request

LEMMA ServerInvHolds == Spec => []ServerInv
<1>1. Init => ServerInv
  <2> SUFFICES ASSUME Init PROVE ServerInv
    OBVIOUS
  <2>1. Querying = {}
    BY DEF Init, Querying
  <2>2. Cardinality(Querying) <= MaxConns
    BY <2>1, FS_EmptySet, ServerAssumption
  <2> QED
    BY <2>2 DEF Init, ServerInv, ServerTypeOK, Request, Families, CleanExitCutsNothing, NoStatementIsCut
<1>2. ServerInv /\ [Next]_vars => ServerInv'
  <2> SUFFICES ASSUME ServerInv, [Next]_vars PROVE ServerInv'
    OBVIOUS
  <2>1. ASSUME req' = req, exitCode' = exitCode, ServerTypeOK',
               main \in {"load", "connect", "wire"} \/ main' \notin {"load", "connect", "wire"},
               main' \in {"closing", "exited"} <=> main \in {"closing", "exited"},
               main' = "exited" <=> main = "exited"
        PROVE  ServerInv'
    BY <2>1 DEF ServerInv, CleanExitCutsNothing, NoStatementIsCut
  <2>2. req' = req => Cardinality(Querying') <= MaxConns
    BY FewerQuerying DEF ServerInv, Querying
  <2>3. CASE LoadConfig
    BY <2>1, <2>2, <2>3 DEF LoadConfig, ServerInv, ServerTypeOK
  <2>4. CASE Connect
    BY <2>1, <2>2, <2>4 DEF Connect, ServerInv, ServerTypeOK
  <2>5. CASE Wire
    BY <2>1, <2>2, <2>5 DEF Wire, Wired, ServerInv, ServerTypeOK, Families
  <2>6. CASE Signal
    BY <2>1, <2>2, <2>6 DEF Signal, ServerInv, ServerTypeOK
  <2>7. CASE ListenFails
    BY <2>1, <2>2, <2>7 DEF ListenFails, ServerInv, ServerTypeOK
  <2>8. CASE SelectSignal
    BY <2>1, <2>2, <2>8 DEF SelectSignal, ServerInv, ServerTypeOK
  <2>9. main \in {"load", "connect", "wire"} => Querying = {}
    BY DEF ServerInv, Querying
  <2>10. CASE LoadFails
    BY <2>9, <2>10, ExitKeepsServerInv DEF LoadFails
  <2>11. CASE ConnectFails
    BY <2>9, <2>11, ExitKeepsServerInv DEF ConnectFails
  <2>12. CASE Kill
    BY <2>12, ExitKeepsServerInv DEF Kill
  <2>13. CASE Closed
    <3>1. exitCode \in {"ok", "error"}
      BY <2>13 DEF Closed, ServerInv
    <3> QED BY <3>1, <2>13, ExitKeepsServerInv DEF Closed
  <2>14. CASE WireFails
    BY <2>14, CloseKeepsServerInv DEF WireFails
  <2>15. CASE SelectListenError
    BY <2>15, CloseKeepsServerInv DEF SelectListenError
  <2>16. CASE Drained
    BY <2>16, CloseKeepsServerInv DEF Drained
  <2>17. CASE TimeOut
    BY <2>17, CloseKeepsServerInv DEF TimeOut
  <2>18. ASSUME NEW r \in Requests, NEW family \in Families, Accept(r, family) PROVE ServerInv'
    <3>1. Querying' = Querying
      BY <2>18 DEF Accept, Querying, ServerInv, ServerTypeOK, Request
    <3>2. ServerTypeOK'
      BY <2>18, <3>1, FewerQuerying DEF Accept, ServerInv, ServerTypeOK, Request
    <3>3. exitCode # "ok" /\ main \notin {"load", "connect", "wire", "exited"}
      BY <2>18 DEF Accept, Connected
    <3>4. \A x \in Requests : req'[x].state \notin {"cut", "cut_querying"}
      BY <2>18, <3>3 DEF Accept, ServerInv, ServerTypeOK, Request
    <3> QED
      BY <2>18, <3>2, <3>3, <3>4 DEF Accept, ServerInv, CleanExitCutsNothing, NoStatementIsCut
  <2>19. ASSUME NEW r \in Requests, Query(r) PROVE ServerInv'
    BY <2>19, QueryKeepsBound, MoveKeepsServerInv DEF Query, ServerInv
  <2>20. ASSUME NEW r \in Requests, NEW q \in {"running", "storing", "answered"},
                Move(r, q), req[r].state \in {"running", "querying", "storing"}
         PROVE  ServerInv'
    <3>1. Querying' \subseteq Querying
      BY <2>20 DEF Move, Querying, ServerInv, ServerTypeOK, Request
    <3> QED BY <2>20, <3>1, FewerQuerying, MoveKeepsServerInv DEF ServerInv
  <2>21. ASSUME NEW r \in Requests, RequestStep(r) PROVE ServerInv'
    BY <2>18, <2>19, <2>20, <2>21 DEF RequestStep, QueryReturns, Store, StoreReturns, Answer
  <2>22. CASE UNCHANGED vars
    BY <2>1, <2>2, <2>22 DEF vars, ServerInv, ServerTypeOK
  <2> QED
    BY <2>3, <2>4, <2>5, <2>6, <2>7, <2>8, <2>10, <2>11, <2>12, <2>13, <2>14, <2>15, <2>16,
       <2>17, <2>21, <2>22 DEF Next, MainStep
<1> QED BY <1>1, <1>2, PTL DEF Spec

\* Type correctness, and the bound of the pool, for any number of requests.
THEOREM ServerTypeCorrect == Spec => []ServerTypeOK
<1>1. ServerInv => ServerTypeOK
  BY DEF ServerInv
<1> QED BY <1>1, ServerInvHolds, PTL

\* A run() that returns nil has answered every request it accepted.
THEOREM CleanExit == Spec => []CleanExitCutsNothing
<1>1. ServerInv => CleanExitCutsNothing
  BY DEF ServerInv
<1> QED BY <1>1, ServerInvHolds, PTL

\* No return of run() interrupts a statement: the deferred Close waits for it.
THEOREM StatementsFinish == Spec => []NoStatementIsCut
<1>1. ServerInv => NoStatementIsCut
  BY DEF ServerInv
<1> QED BY <1>1, ServerInvHolds, PTL

-----------------------------------------------------------------------------
(* The tiers.                                                              *)

LEMMA WiringInvHolds == Spec => []WiringInv
<1>1. Init => WiringInv
  BY DEF Init, WiringInv, TiersAsDocumented
<1>2. WiringInv /\ [Next]_vars => WiringInv'
  <2> SUFFICES ASSUME WiringInv, [Next]_vars PROVE WiringInv'
    OBVIOUS
  <2> USE DEF WiringInv, TiersAsDocumented, ConfigIsValid
  <2>1. CASE LoadConfig
    BY <2>1 DEF LoadConfig, Environment
  <2>2. CASE Connect
    BY <2>2 DEF Connect
  <2>3. CASE Wire
    BY <2>3 DEF Wire, Wired
  <2>4. CASE LoadFails \/ ConnectFails \/ Kill \/ Closed
    BY <2>4 DEF LoadFails, ConnectFails, Kill, Closed, Exit
  <2>5. CASE WireFails \/ SelectListenError \/ Drained \/ TimeOut
    BY <2>5 DEF WireFails, SelectListenError, Drained, TimeOut, Close
  <2>6. CASE SelectSignal \/ Signal \/ ListenFails \/ UNCHANGED vars
    BY <2>6 DEF SelectSignal, Signal, ListenFails, vars
  <2>7. ASSUME NEW r \in Requests, RequestStep(r) PROVE WiringInv'
    BY <2>7 DEF RequestStep, Accept, Query, QueryReturns, Store, StoreReturns, Answer, Move
  <2> QED BY <2>1, <2>2, <2>3, <2>4, <2>5, <2>6, <2>7 DEF Next, MainStep
<1> QED BY <1>1, <1>2, PTL DEF Spec

\* In every environment the routes are those that README.md promises.
THEOREM TiersHold == Spec => []TiersAsDocumented
<1>1. WiringInv => TiersAsDocumented
  BY DEF WiringInv
<1> QED BY <1>1, WiringInvHolds, PTL

=============================================================================
