--------------------------- MODULE SendNotifyProofs ---------------------------
(* The send notification for any ring capacity, any number of writes and any *)
(* width of call_num.                                                        *)
EXTENDS SendNotify, TLAPS

IndInv == TypeOK /\ CallNumBalance

(* The socket starts in a state of the invariant. *)
LEMMA InitInd == Init => IndInv
<1> SUFFICES ASSUME Init PROVE IndInv
  OBVIOUS
<1>1. again \in BOOLEAN
  BY Zenon DEF Init
<1> QED
  BY <1>1, SendNotifyAssumption DEF Init, IndInv, TypeOK, CallNumBalance

(* A step of the application thread or of the stack thread keeps call_num   *)
(* in balance with the messages under way.                                  *)
LEMMA StepInd == IndInv /\ [Next]_vars => IndInv'
<1> SUFFICES ASSUME IndInv, [Next]_vars PROVE IndInv'
  OBVIOUS
<1> USE SendNotifyAssumption DEF IndInv, TypeOK, CallNumBalance
<1>1. CASE UNCHANGED vars
  BY <1>1 DEF vars
<1>2. CASE Write
  BY <1>2 DEF Write
<1>3. CASE WriteMerged
  BY <1>3 DEF WriteMerged, ringVars
<1>4. CASE LoadCallNum
  BY <1>4 DEF LoadCallNum, ringVars
<1>5. CASE PushSend
  BY <1>5 DEF PushSend, ringVars
<1>6. CASE CountSend
  BY <1>6 DEF CountSend, ringVars, Inc
<1>7. CASE Pop
  BY <1>7 DEF Pop, ringVars
<1>8. CASE LwipTake
  BY <1>8 DEF LwipTake, DataOut
<1>9. CASE LwipStop
  BY <1>9 DEF LwipStop, ringVars, DataOut
<1>10. CASE Replenish
  <2>1. again' \in BOOLEAN
    BY <1>10, Zenon DEF Replenish
  <2> QED
    BY <1>10, <2>1 DEF Replenish, FreeCount
<1>11. CASE ReplenishFails
  BY <1>11 DEF ReplenishFails, ringVars
<1>12. CASE DecCallNum
  BY <1>12 DEF DecCallNum, ringVars, Dec
<1>13. CASE TestDrained
  BY <1>13 DEF TestDrained, ringVars
<1>14. CASE TestCallNum
  BY <1>14 DEF TestCallNum, ringVars
<1>15. CASE RepostSend
  BY <1>15 DEF RepostSend, ringVars
<1>16. CASE RecountSend
  BY <1>16 DEF RecountSend, ringVars, Inc
<1>17. CASE CallReplenish
  BY <1>17 DEF CallReplenish, ringVars
<1>18. CASE RpcReplenish
  <2>1. avail' \in 0..(Capacity - (written - sent)) /\ setbacks' \subseteq {"lwip", "pool"}
    <3>1. CASE avail' = avail + FreeCount /\ UNCHANGED <<setbacks, written, sent>>
      BY <3>1 DEF FreeCount
    <3>2. CASE setbacks' = setbacks \cup {"pool"} /\ UNCHANGED ringVars
      BY <3>2 DEF ringVars
    <3> QED
      BY <1>18, <3>1, <3>2 DEF RpcReplenish, ringVars
  <2> QED
    BY <1>18, <2>1 DEF RpcReplenish
<1> QED
  BY <1>1, <1>2, <1>3, <1>4, <1>5, <1>6, <1>7, <1>8, <1>9, <1>10, <1>11,
     <1>12, <1>13, <1>14, <1>15, <1>16, <1>17, <1>18 DEF Next, AppStep, StackStep

(* call_num is always the messages under way less the increments due.       *)
THEOREM Balance == Spec => [](TypeOK /\ CallNumBalance)
  BY InitInd, StepInd, PTL DEF Spec, IndInv

(* A write that posts no message because call_num is 2 or more always has a *)
(* queued message to rely on.                                               *)
THEOREM SkipIsSafeCorrect == Spec => []SkipIsSafe
<1>1. TypeOK /\ CallNumBalance => SkipIsSafe
  BY SendNotifyAssumption DEF TypeOK, CallNumBalance, SkipIsSafe
<1> QED
  BY <1>1, Balance, PTL

(* One socket holds at most three messages of a pool at any time.           *)
THEOREM ThreeSendsAtMostCorrect == Spec => []ThreeSendsAtMost
<1>1. TypeOK /\ CallNumBalance => ThreeSendsAtMost
  BY SendNotifyAssumption DEF TypeOK, CallNumBalance, ThreeSendsAtMost
<1> QED
  BY <1>1, Balance, PTL
=============================================================================
