------------------------- MODULE PagingFileIoProofs -------------------------
(***************************************************************************)
(* Proofs about PagingFileIo: its inductive invariant, and from it that a  *)
(* request is completed once and only when it is over, and that the        *)
(* reserve MDL serves one request at a time.                               *)
(***************************************************************************)
EXTENDS PagingFileIo, FiniteSetTheorems, TLAPS

\* What the invariant says of one request.
RequestOK(r) ==
    /\ io[r] \in Locals
    /\ irp[r] \in MasterIrps
    /\ assoc[r] \in [Runs(r) -> IrpPlaces]
    /\ moved[r] \in [Runs(r) -> Nat]
    /\ master[r] \in IrpPlaces
    /\ irp[r].completed > 0 =>
          /\ irp[r].completed = 1
          /\ InFlight(r) = {}
          /\ master[r] = "none"
          /\ \/ io[r].pc = "return"
             \/ io[r].pc = "end" /\ io[r].irpCount = 0
    /\ io[r].pc # "idle" =>
          irp[r].irpCount = io[r].irpCount + Cardinality(InFlight(r))
    /\ RequestInv(r)

\* Shapes are nonempty sequences of positive numbers.
LEMMA ShapeFacts ==
    ASSUME NEW shape \in Shapes
    PROVE  /\ Len(shape) \in Nat \ {0}
           /\ DOMAIN shape = 1..Len(shape)
           /\ \A k \in DOMAIN shape : shape[k] \in Nat \ {0}
<1>1. shape \in Seq(Nat \ {0}) /\ shape # <<>>
  BY ShapeAssumption
<1> QED
  BY <1>1

LEMMA RunsFacts ==
    ASSUME NEW r \in Requests, io[r] \in Locals
    PROVE  /\ LastRun(r) \in Nat
           /\ Runs(r) = 1..LastRun(r)
           /\ \A k \in Runs(r) : io[r].shape[k] \in Nat \ {0}
           /\ io[r].shape # <<>> => io[r].shape \in Shapes
<1>1. CASE io[r].shape = <<>>
  BY <1>1 DEF Runs, LastRun
<1>2. CASE io[r].shape \in Shapes
  BY <1>2, ShapeFacts DEF Runs, LastRun
<1> QED
  BY <1>1, <1>2 DEF Locals

\* The IRPs sent for a request are finitely many.
LEMMA InFlightFinite ==
    ASSUME NEW r \in Requests, io[r] \in Locals
    PROVE  /\ IsFiniteSet(InFlight(r))
           /\ Cardinality(InFlight(r)) \in Nat
           /\ Cardinality(InFlight(r)) = 0 <=> InFlight(r) = {}
<1>1. IsFiniteSet(Runs(r))
  BY RunsFacts, FS_Interval
<1>2. InFlight(r) \subseteq Runs(r)
  BY DEF InFlight
<1>3. IsFiniteSet(InFlight(r))
  BY <1>1, <1>2, FS_Subset
<1> QED
  BY <1>3, FS_CardinalityType, FS_EmptySet

\* The end of the loop body, whichever way it goes.
LEMMA AdvanceFacts ==
    ASSUME NEW o \in Locals, o.shape \in Shapes,
           o.run <= Len(o.shape), o.next <= o.left
    PROVE  /\ Advance(o) \in Locals
           /\ Advance(o).shape = o.shape
           /\ Advance(o).irpCount = o.irpCount
           /\ Advance(o).mdlIsReserve = FALSE
           /\ Advance(o).next = 0
           /\ \/ /\ o.next < o.left
                 /\ Advance(o).pc = "loop"
                 /\ Advance(o).run = o.run
                 /\ Advance(o).left = o.left - o.next
              \/ /\ o.next = o.left
                 /\ o.run < Len(o.shape)
                 /\ Advance(o).pc = "loop"
                 /\ Advance(o).run = o.run + 1
                 /\ Advance(o).left = o.shape[o.run + 1]
              \/ /\ o.next = o.left
                 /\ o.run = Len(o.shape)
                 /\ Advance(o).pc = "end"
                 /\ Advance(o).run = o.run
                 /\ Advance(o).left = o.left
<1> DEFINE dropped == [o EXCEPT !.next = 0, !.mdlIsReserve = FALSE]
<1>1. /\ o.run \in Nat \ {0} /\ o.left \in Nat /\ o.next \in Nat
      /\ Len(o.shape) \in Nat \ {0}
  BY ShapeFacts DEF Locals
<1>2. dropped \in Locals
  BY DEF Locals
<1>3. /\ dropped.shape = o.shape /\ dropped.irpCount = o.irpCount
      /\ dropped.mdlIsReserve = FALSE /\ dropped.next = 0
      /\ dropped.run = o.run /\ dropped.left = o.left
  BY DEF Locals
<1>4. /\ o.left > o.next =>
            Advance(o) = [dropped EXCEPT !.pc = "loop", !.left = o.left - o.next]
      /\ ~ (o.left > o.next) /\ o.run < Len(o.shape) =>
            Advance(o) = [dropped EXCEPT !.pc = "loop", !.run = o.run + 1,
                                         !.left = o.shape[o.run + 1]]
      /\ ~ (o.left > o.next) /\ ~ (o.run < Len(o.shape)) =>
            Advance(o) = [dropped EXCEPT !.pc = "end"]
  BY DEF Advance
<1> HIDE DEF dropped
<1>5. CASE o.left > o.next
  <2>1. Advance(o) = [dropped EXCEPT !.pc = "loop", !.left = o.left - o.next]
    BY <1>4, <1>5
  <2>2. o.left - o.next \in Nat
    BY <1>1, <1>5
  <2>3. Advance(o) \in Locals
    BY <1>2, <2>1, <2>2 DEF Locals, Places
  <2>4. /\ Advance(o).pc = "loop" /\ Advance(o).left = o.left - o.next
        /\ Advance(o).run = o.run
        /\ Advance(o).shape = o.shape /\ Advance(o).irpCount = o.irpCount
        /\ Advance(o).mdlIsReserve = FALSE /\ Advance(o).next = 0
    BY <1>2, <1>3, <2>1 DEF Locals
  <2> QED
    BY <1>1, <1>5, <2>3, <2>4
<1>6. CASE ~ (o.left > o.next) /\ o.run < Len(o.shape)
  <2>1. Advance(o) = [dropped EXCEPT !.pc = "loop", !.run = o.run + 1,
                                     !.left = o.shape[o.run + 1]]
    BY <1>4, <1>6
  <2>2. o.shape[o.run + 1] \in Nat /\ o.run + 1 \in Nat \ {0}
    BY <1>1, <1>6, ShapeFacts
  <2>3. Advance(o) \in Locals
    BY <1>2, <2>1, <2>2 DEF Locals, Places
  <2>4. /\ Advance(o).pc = "loop" /\ Advance(o).left = o.shape[o.run + 1]
        /\ Advance(o).run = o.run + 1
        /\ Advance(o).shape = o.shape /\ Advance(o).irpCount = o.irpCount
        /\ Advance(o).mdlIsReserve = FALSE /\ Advance(o).next = 0
    BY <1>2, <1>3, <2>1 DEF Locals
  <2> QED
    BY <1>1, <1>6, <2>3, <2>4
<1>7. CASE ~ (o.left > o.next) /\ ~ (o.run < Len(o.shape))
  <2>1. Advance(o) = [dropped EXCEPT !.pc = "end"]
    BY <1>4, <1>7
  <2>2. Advance(o) \in Locals
    BY <1>2, <2>1 DEF Locals, Places
  <2>3. /\ Advance(o).pc = "end" /\ Advance(o).left = o.left
        /\ Advance(o).run = o.run
        /\ Advance(o).shape = o.shape /\ Advance(o).irpCount = o.irpCount
        /\ Advance(o).mdlIsReserve = FALSE /\ Advance(o).next = 0
    BY <1>2, <1>3, <2>1 DEF Locals
  <2> QED
    BY <1>1, <1>7, <2>2, <2>3
<1> QED
  BY <1>5, <1>6, <1>7

\* Noting how an IRP went keeps the rest of it.
Noted(m, s, i) == [m EXCEPT !.status = s, !.information = i]

LEMMA NotedFacts ==
    ASSUME NEW m \in MasterIrps, NEW s \in {"ok", "error"}, NEW i \in Nat
    PROVE  /\ Noted(m, s, i) \in MasterIrps
           /\ Noted(m, s, i).status = s
           /\ Noted(m, s, i).completed = m.completed
           /\ Noted(m, s, i).irpCount = m.irpCount
<1> DEFINE infos == Nat \cup {Pages(shape) : shape \in Shapes}
<1>1. i \in infos
  OBVIOUS
<1>2. MasterIrps = [irpCount : Nat, status : {"ok", "error"}, completed : {0, 1},
                    information : infos]
  BY DEF MasterIrps
<1> HIDE DEF infos
<1> QED
  BY <1>1, <1>2 DEF Noted

LEMMA RequestsOK ==
    ASSUME IInv
    PROVE  \A r \in Requests : RequestOK(r)
BY DEF IInv, TypeOK, RequestOK, CompletedIsOver, CountIsPieces

\* A request that nobody works on stays as it is.
LEMMA Frame ==
    ASSUME NEW q \in Requests, RequestOK(q),
           io'[q] = io[q], irp'[q] = irp[q], assoc'[q] = assoc[q],
           master'[q] = master[q], moved'[q] = moved[q]
    PROVE  RequestOK(q)'
<1>1. InFlight(q)' = InFlight(q) /\ Runs(q)' = Runs(q) /\ LastRun(q)' = LastRun(q)
  BY DEF InFlight, Runs, LastRun
<1> QED
  BY <1>1 DEF RequestOK, RequestInv, CountKeepsMaster, MasterAlone, IdleIsNew,
              ReserveMarked, RunAtHand, RunsBehind

\* A step of one request keeps the invariant if it keeps what the invariant
\* says of that request and of the reserve MDL.
LEMMA OneRequest ==
    ASSUME IInv, NEW r \in Requests,
           io' = [io EXCEPT ![r] = io'[r]],
           irp' = [irp EXCEPT ![r] = irp'[r]],
           master' = [master EXCEPT ![r] = master'[r]],
           DOMAIN assoc' = Requests, DOMAIN moved' = Requests,
           \A q \in Requests \ {r} : assoc'[q] = assoc[q] /\ moved'[q] = moved[q],
           reserve' \in BOOLEAN,
           RequestOK(r)', OneReserve'
    PROVE  IInv'
<1>1. ASSUME NEW q \in Requests PROVE RequestOK(q)'
  <2>1. CASE q = r
    BY <2>1
  <2>2. CASE q # r
    <3>1. /\ io'[q] = io[q] /\ irp'[q] = irp[q] /\ assoc'[q] = assoc[q]
          /\ master'[q] = master[q] /\ moved'[q] = moved[q]
      BY <2>2 DEF IInv, TypeOK
    <3> QED
      BY <3>1, RequestsOK, Frame
  <2> QED
    BY <2>1, <2>2
<1>2. /\ io'[r] \in Locals /\ irp'[r] \in MasterIrps /\ master'[r] \in IrpPlaces
  BY <1>1 DEF RequestOK
<1>3. /\ io' \in [Requests -> Locals] /\ irp' \in [Requests -> MasterIrps]
      /\ master' \in [Requests -> IrpPlaces]
      /\ DOMAIN assoc' = Requests /\ DOMAIN moved' = Requests
  BY <1>2 DEF IInv, TypeOK
<1>4. TypeOK'
  BY <1>1, <1>3 DEF TypeOK, RequestOK
<1>5. CompletedIsOver' /\ CountIsPieces' /\ \A q \in Requests : RequestInv(q)'
  BY <1>1 DEF RequestOK, CompletedIsOver, CountIsPieces
<1> QED
  BY <1>4, <1>5 DEF IInv

-----------------------------------------------------------------------------
(* Each action keeps the invariant *)

\* The thread decides to use the master.
LEMMA ReuseMasterStep ==
    ASSUME IInv, NEW r \in Requests, ReuseMaster(r)
    PROVE  IInv'
<1>1. RequestOK(r) /\ RequestInv(r)
  BY RequestsOK DEF RequestOK
<1>2. io[r] \in Locals /\ io[r].left \in Nat
  BY <1>1 DEF RequestOK, Locals
<1>3. /\ io' = [io EXCEPT ![r] = io'[r]]
      /\ io'[r] = [io[r] EXCEPT !.pc = "drain",
                               !.next = io[r].left]
  BY DEF ReuseMaster, IInv, TypeOK
<1>4. /\ io'[r].pc = "drain"
      /\ io'[r].shape = io[r].shape
      /\ io'[r].run = io[r].run
      /\ io'[r].left = io[r].left
      /\ io'[r].next = io[r].left
      /\ io'[r].irpCount = io[r].irpCount
      /\ io'[r].mdlIsReserve = io[r].mdlIsReserve
  BY <1>2, <1>3 DEF Locals
<1>5. /\ io[r].pc = "loop"
      /\ irp' = irp /\ assoc' = assoc /\ master' = master /\ moved' = moved
      /\ reserve' = reserve
  BY DEF ReuseMaster
<1>6. InFlight(r)' = InFlight(r) /\ Runs(r)' = Runs(r) /\ LastRun(r)' = LastRun(r)
  BY <1>4, <1>5 DEF InFlight, Runs, LastRun
<1>7. io'[r] \in Locals
  BY <1>2, <1>3 DEF Locals, Places
<1>8. /\ CountKeepsMaster(r)' /\ MasterAlone(r)'
      /\ IdleIsNew(r)' /\ ReserveMarked(r)'
  BY <1>1, <1>4, <1>5, <1>6
  DEF RequestInv, CountKeepsMaster, MasterAlone, IdleIsNew, ReserveMarked, Looping
<1>9. RunAtHand(r)'
  BY <1>1, <1>2, <1>4, <1>5, <1>6
  DEF RequestInv, MasterAlone, RunAtHand, Looping
<1>10. RunsBehind(r)'
  BY <1>1, <1>4, <1>5, <1>6 DEF RequestInv, RunsBehind
<1>11. RequestOK(r)'
  BY <1>1, <1>4, <1>5, <1>6, <1>7, <1>8, <1>9, <1>10 DEF RequestOK, RequestInv
<1>12. \A q \in Requests \ {r} : HoldsReserve(q)' <=> HoldsReserve(q)
  BY <1>3, <1>5 DEF HoldsReserve, IInv, TypeOK
<1>13. OneReserve'
  BY <1>1, <1>4, <1>5, <1>12
  DEF OneReserve, HoldsReserve, RequestInv, ReserveMarked, IInv
<1> QED
  BY <1>3, <1>5, <1>11, <1>13, OneRequest DEF IInv, TypeOK

\* The thread decides to wait for the reserve MDL.
LEMMA NeedReserveStep ==
    ASSUME IInv, NEW r \in Requests, NeedReserve(r)
    PROVE  IInv'
<1>1. RequestOK(r) /\ RequestInv(r)
  BY RequestsOK DEF RequestOK
<1>2. io[r] \in Locals /\ io[r].left \in Nat
  BY <1>1 DEF RequestOK, Locals
<1>3. /\ io' = [io EXCEPT ![r] = io'[r]]
      /\ io'[r] = [io[r] EXCEPT !.pc = "reserve"]
  BY DEF NeedReserve, IInv, TypeOK
<1>4. /\ io'[r].pc = "reserve"
      /\ io'[r].shape = io[r].shape
      /\ io'[r].run = io[r].run
      /\ io'[r].left = io[r].left
      /\ io'[r].next = io[r].next
      /\ io'[r].irpCount = io[r].irpCount
      /\ io'[r].mdlIsReserve = io[r].mdlIsReserve
  BY <1>2, <1>3 DEF Locals
<1>5. /\ io[r].pc = "loop"
      /\ irp' = irp /\ assoc' = assoc /\ master' = master /\ moved' = moved
      /\ reserve' = reserve
  BY DEF NeedReserve
<1>6. InFlight(r)' = InFlight(r) /\ Runs(r)' = Runs(r) /\ LastRun(r)' = LastRun(r)
  BY <1>4, <1>5 DEF InFlight, Runs, LastRun
<1>7. io'[r] \in Locals
  BY <1>2, <1>3 DEF Locals, Places
<1>8. /\ CountKeepsMaster(r)' /\ MasterAlone(r)'
      /\ IdleIsNew(r)' /\ ReserveMarked(r)'
  BY <1>1, <1>4, <1>5, <1>6
  DEF RequestInv, CountKeepsMaster, MasterAlone, IdleIsNew, ReserveMarked, Looping
<1>9. RunAtHand(r)'
  BY <1>1, <1>2, <1>4, <1>5, <1>6
  DEF RequestInv, MasterAlone, RunAtHand, Looping
<1>10. RunsBehind(r)'
  BY <1>1, <1>4, <1>5, <1>6 DEF RequestInv, RunsBehind
<1>11. RequestOK(r)'
  BY <1>1, <1>4, <1>5, <1>6, <1>7, <1>8, <1>9, <1>10 DEF RequestOK, RequestInv
<1>12. \A q \in Requests \ {r} : HoldsReserve(q)' <=> HoldsReserve(q)
  BY <1>3, <1>5 DEF HoldsReserve, IInv, TypeOK
<1>13. OneReserve'
  BY <1>1, <1>4, <1>5, <1>12
  DEF OneReserve, HoldsReserve, RequestInv, ReserveMarked, IInv
<1> QED
  BY <1>3, <1>5, <1>11, <1>13, OneRequest DEF IInv, TypeOK

\* The reserve MDL goes to a request only when none holds it.
LEMMA TakeReserveStep ==
    ASSUME IInv, NEW r \in Requests, TakeReserve(r)
    PROVE  IInv'
<1>1. RequestOK(r) /\ RequestInv(r)
  BY RequestsOK DEF RequestOK
<1>2. io[r] \in Locals /\ io[r].left \in Nat
  BY <1>1 DEF RequestOK, Locals
<1>3. /\ io' = [io EXCEPT ![r] = io'[r]]
      /\ io'[r] = [io[r] EXCEPT !.pc = "drain",
                               !.mdlIsReserve = TRUE,
                               !.next = IF io[r].left > ReserveSize THEN ReserveSize ELSE io[r].left]
  BY DEF TakeReserve, IInv, TypeOK
<1>4. /\ io'[r].pc = "drain"
      /\ io'[r].shape = io[r].shape
      /\ io'[r].run = io[r].run
      /\ io'[r].left = io[r].left
      /\ io'[r].next = IF io[r].left > ReserveSize THEN ReserveSize ELSE io[r].left
      /\ io'[r].irpCount = io[r].irpCount
      /\ io'[r].mdlIsReserve = TRUE
  BY <1>2, <1>3 DEF Locals
<1>5. /\ io[r].pc = "reserve"
      /\ irp' = irp /\ assoc' = assoc /\ master' = master /\ moved' = moved
      /\ reserve /\ reserve' = FALSE
  BY DEF TakeReserve
<1>6. InFlight(r)' = InFlight(r) /\ Runs(r)' = Runs(r) /\ LastRun(r)' = LastRun(r)
  BY <1>4, <1>5 DEF InFlight, Runs, LastRun
<1>7. io'[r] \in Locals
  BY <1>2, <1>3, ReserveAssumption DEF Locals, Places
<1>8. /\ CountKeepsMaster(r)' /\ MasterAlone(r)'
      /\ IdleIsNew(r)' /\ ReserveMarked(r)'
  BY <1>1, <1>4, <1>5, <1>6
  DEF RequestInv, CountKeepsMaster, MasterAlone, IdleIsNew, ReserveMarked, Looping
<1>9. RunAtHand(r)'
  BY <1>1, <1>2, <1>4, <1>5, <1>6, ReserveAssumption
  DEF RequestInv, MasterAlone, RunAtHand, Looping
<1>10. RunsBehind(r)'
  BY <1>1, <1>4, <1>5, <1>6 DEF RequestInv, RunsBehind
<1>11. RequestOK(r)'
  BY <1>1, <1>4, <1>5, <1>6, <1>7, <1>8, <1>9, <1>10 DEF RequestOK, RequestInv
<1>12. \A q \in Requests \ {r} : HoldsReserve(q)' <=> HoldsReserve(q)
  BY <1>3, <1>5 DEF HoldsReserve, IInv, TypeOK
<1>13. OneReserve'
  BY <1>1, <1>4, <1>5, <1>12
  DEF OneReserve, HoldsReserve, RequestInv, ReserveMarked, IInv
<1> QED
  BY <1>3, <1>5, <1>11, <1>13, OneRequest DEF IInv, TypeOK

\* The master is sent when every associated IRP is back and none failed.
LEMMA SendMasterStep ==
    ASSUME IInv, NEW r \in Requests, SendMaster(r)
    PROVE  IInv'
<1>1. RequestOK(r) /\ RequestInv(r)
  BY RequestsOK DEF RequestOK
<1>2. io[r] \in Locals /\ io[r].irpCount \in Nat
  BY <1>1 DEF RequestOK, Locals
<1>3. /\ io' = [io EXCEPT ![r] = io'[r]]
      /\ \E p \in {"end", "piece"} : io'[r] = [io[r] EXCEPT !.pc = p]
  BY DEF SendMaster, IInv, TypeOK
<1>4. /\ io'[r].shape = io[r].shape /\ io'[r].run = io[r].run
      /\ io'[r].left = io[r].left /\ io'[r].next = io[r].next
      /\ io'[r].irpCount = io[r].irpCount
      /\ io'[r].mdlIsReserve = io[r].mdlIsReserve
  BY <1>2, <1>3 DEF Locals
<1>5. /\ io[r].pc = "drain"
      /\ irp[r].irpCount = io[r].irpCount
      /\ irp' = irp /\ assoc' = assoc /\ moved' = moved /\ reserve' = reserve
  BY DEF SendMaster
<1>6. \/ /\ irp[r].status = "error"
         /\ io'[r].pc = "end" /\ master' = master
      \/ /\ irp[r].status = "ok"
         /\ io'[r].pc = "piece" /\ master' = [master EXCEPT ![r] = "disk"]
         /\ master'[r] = "disk"
  BY <1>1, <1>2 DEF SendMaster, IInv, TypeOK, RequestOK, MasterIrps, Locals
<1>7. InFlight(r)' = InFlight(r) /\ Runs(r)' = Runs(r) /\ LastRun(r)' = LastRun(r)
  BY <1>4, <1>5 DEF InFlight, Runs, LastRun
<1>8. InFlight(r) = {} /\ irp[r].completed = 0 /\ master[r] = "none"
  <2>1. Cardinality(InFlight(r)) \in Nat
    BY <1>2, InFlightFinite
  <2>2. irp[r].irpCount = io[r].irpCount + Cardinality(InFlight(r))
    BY <1>1, <1>5 DEF RequestOK
  <2>3. Cardinality(InFlight(r)) = 0
    BY <1>2, <1>5, <2>1, <2>2
  <2>4. irp[r].completed \in {0, 1}
    BY <1>1 DEF RequestOK, MasterIrps
  <2> QED
    BY <1>1, <1>2, <1>5, <2>3, <2>4, InFlightFinite
    DEF RequestOK, RequestInv, MasterAlone
<1>9. io'[r] \in Locals /\ master'[r] \in IrpPlaces
  BY <1>2, <1>3, <1>6, <1>8 DEF Locals, Places, IrpPlaces
<1>10. CountKeepsMaster(r)' /\ MasterAlone(r)' /\ IdleIsNew(r)' /\ ReserveMarked(r)'
  BY <1>1, <1>4, <1>5, <1>6, <1>7, <1>8
  DEF RequestInv, CountKeepsMaster, MasterAlone, IdleIsNew, ReserveMarked, Looping
<1>11. RunAtHand(r)'
  BY <1>1, <1>4, <1>5, <1>6, <1>7, <1>8 DEF RequestInv, RunAtHand, Looping
<1>12. RunsBehind(r)'
  BY <1>1, <1>4, <1>5, <1>6, <1>7, <1>8 DEF RequestInv, RunsBehind
<1>13. RequestOK(r)'
  BY <1>1, <1>4, <1>5, <1>6, <1>7, <1>8, <1>9, <1>10, <1>11, <1>12
  DEF RequestOK, RequestInv
<1>14. \A q \in Requests \ {r} : HoldsReserve(q)' <=> HoldsReserve(q)
  BY <1>3, <1>6 DEF HoldsReserve, IInv, TypeOK
<1>15. HoldsReserve(r)' => HoldsReserve(r)
  BY <1>4, <1>5, <1>8 DEF HoldsReserve
<1>16. OneReserve'
  BY <1>5, <1>14, <1>15 DEF OneReserve, IInv
<1> QED
  BY <1>3, <1>5, <1>6, <1>13, <1>16, OneRequest DEF IInv, TypeOK

\* The thread has its master back and goes on or leaves the loop.
LEMMA PieceReturnsStep ==
    ASSUME IInv, NEW r \in Requests, PieceReturns(r)
    PROVE  IInv'
<1>1. RequestOK(r) /\ RequestInv(r)
  BY RequestsOK DEF RequestOK
<1>2. io[r] \in Locals
  BY <1>1 DEF RequestOK
<1>3. /\ io[r].pc = "piece" /\ master[r] = "back"
      /\ irp' = irp /\ assoc' = assoc /\ moved' = moved /\ reserve' = reserve
      /\ master' = [master EXCEPT ![r] = "none"] /\ master'[r] = "none"
      /\ io' = [io EXCEPT ![r] = io'[r]]
      /\ irp[r].status = "error" =>
            io'[r] = [io[r] EXCEPT !.pc = "end", !.mdlIsReserve = FALSE]
      /\ irp[r].status # "error" => io'[r] = Advance(io[r])
  BY DEF PieceReturns, IInv, TypeOK
<1>4. /\ LastRun(r) \in Nat /\ Runs(r) = 1..LastRun(r)
      /\ \A k \in Runs(r) : io[r].shape[k] \in Nat \ {0}
      /\ io[r].shape \in Shapes
  BY <1>1, <1>2, <1>3, RunsFacts DEF RequestInv, IdleIsNew
<1>5. /\ io[r].run \in Nat \ {0} /\ io[r].left \in Nat /\ io[r].next \in Nat
      /\ irp[r].status \in {"ok", "error"} /\ irp[r].completed = 0
  BY <1>1, <1>3 DEF RequestOK, RequestInv, MasterAlone, Locals, MasterIrps
<1>6. /\ io[r].run \in Runs(r) /\ io[r].run <= Len(io[r].shape)
      /\ io[r].next <= io[r].left
  BY <1>1, <1>3, <1>4, <1>5
  DEF RequestInv, CountKeepsMaster, RunAtHand, Looping, LastRun
<1>7. /\ io'[r] \in Locals
      /\ io'[r].shape = io[r].shape /\ io'[r].irpCount = io[r].irpCount
      /\ io'[r].mdlIsReserve = FALSE
      /\ irp[r].status = "error" => io'[r].pc = "end"
      /\ irp[r].status = "ok" =>
            /\ io'[r].next = 0
            /\ \/ /\ io[r].next < io[r].left /\ io'[r].pc = "loop"
                  /\ io'[r].run = io[r].run
                  /\ io'[r].left = io[r].left - io[r].next
               \/ /\ io[r].next = io[r].left /\ io[r].run < LastRun(r)
                  /\ io'[r].pc = "loop" /\ io'[r].run = io[r].run + 1
                  /\ io'[r].left = io[r].shape[io[r].run + 1]
               \/ /\ io[r].next = io[r].left /\ io[r].run = LastRun(r)
                  /\ io'[r].pc = "end" /\ io'[r].run = io[r].run
  <2>1. CASE irp[r].status = "error"
    <3>1. io'[r] = [io[r] EXCEPT !.pc = "end", !.mdlIsReserve = FALSE]
      BY <1>3, <2>1
    <3>2. io'[r] \in Locals
      BY <1>2, <3>1 DEF Locals, Places
    <3>3. /\ io'[r].pc = "end" /\ io'[r].mdlIsReserve = FALSE
          /\ io'[r].shape = io[r].shape /\ io'[r].irpCount = io[r].irpCount
      BY <1>2, <3>1 DEF Locals
    <3> QED
      BY <2>1, <3>2, <3>3
  <2>2. CASE irp[r].status = "ok"
    <3> DEFINE o == io[r]
    <3>1. io'[r] = Advance(o)
      BY <1>3, <2>2
    <3>2. /\ o \in Locals /\ o.shape \in Shapes
          /\ o.run <= Len(o.shape) /\ o.next <= o.left
      BY <1>2, <1>4, <1>6
    <3>3. LastRun(r) = Len(o.shape)
      BY DEF LastRun
    <3>4. o = io[r]
      OBVIOUS
    <3> HIDE DEF o
    <3>5. /\ Advance(o) \in Locals
          /\ Advance(o).shape = o.shape /\ Advance(o).irpCount = o.irpCount
          /\ Advance(o).mdlIsReserve = FALSE /\ Advance(o).next = 0
          /\ \/ /\ o.next < o.left /\ Advance(o).pc = "loop"
                /\ Advance(o).run = o.run /\ Advance(o).left = o.left - o.next
             \/ /\ o.next = o.left /\ o.run < LastRun(r) /\ Advance(o).pc = "loop"
                /\ Advance(o).run = o.run + 1 /\ Advance(o).left = o.shape[o.run + 1]
             \/ /\ o.next = o.left /\ o.run = LastRun(r)
                /\ Advance(o).pc = "end" /\ Advance(o).run = o.run
      BY <3>2, <3>3, AdvanceFacts
    <3>6. irp[r].status # "error"
      BY <2>2
    <3> QED
      BY <3>1, <3>4, <3>5, <3>6
  <2> QED
    BY <1>5, <2>1, <2>2
<1>8. InFlight(r)' = InFlight(r) /\ Runs(r)' = Runs(r) /\ LastRun(r)' = LastRun(r)
  BY <1>3, <1>7 DEF InFlight, Runs, LastRun
<1>9. io'[r].pc \in {"loop", "end"}
  BY <1>5, <1>7
<1>10. CountKeepsMaster(r)'
  BY <1>1, <1>2, <1>3, <1>4, <1>5, <1>7, <1>8
  DEF RequestInv, CountKeepsMaster, Looping, Locals
<1>11. MasterAlone(r)' /\ IdleIsNew(r)' /\ ReserveMarked(r)'
  BY <1>1, <1>3, <1>5, <1>7, <1>9
  DEF RequestInv, MasterAlone, IdleIsNew, ReserveMarked
<1>12. /\ \A k \in Runs(r) : moved[r][k] \in Nat
       /\ moved[r][io[r].run] + io[r].left =
             IF irp[r].status = "ok" THEN io[r].shape[io[r].run] + io[r].next
                                     ELSE io[r].shape[io[r].run]
  BY <1>1, <1>3 DEF RequestOK, RequestInv, RunAtHand, Looping
<1>13. RunAtHand(r)' /\ RunsBehind(r)'
  <2>1. \A k \in Runs(r) : moved[r][k] <= io[r].shape[k]
    BY <1>1 DEF RequestInv, RunsBehind
  <2>2. CASE irp[r].status = "error"
    BY <1>3, <1>7, <1>8, <2>1, <2>2 DEF RunAtHand, RunsBehind, Looping
  <2>3. CASE irp[r].status = "ok" /\ io'[r].pc = "loop" /\ io'[r].run = io[r].run
    <3>1. /\ io'[r].left = io[r].left - io[r].next /\ io'[r].next = 0
          /\ io[r].next < io[r].left
      BY <1>5, <1>7, <2>3
    <3>2. \A k \in Runs(r) : k > io[r].run => moved[r][k] = 0
      BY <1>1, <1>3 DEF RequestInv, RunAtHand, Looping
    <3>3. moved[r][io[r].run] \in Nat /\ io[r].shape[io[r].run] \in Nat
      BY <1>4, <1>6, <1>12
    <3>4. moved[r][io[r].run] + io'[r].left = io[r].shape[io[r].run]
      BY <1>5, <1>12, <2>3, <3>1, <3>3
    <3>5. \A k \in Runs(r) : k < io[r].run => assoc[r][k] = "disk" \/ moved[r][k] = io[r].shape[k]
      BY <1>1, <1>3, <2>3 DEF RequestInv, RunsBehind
    <3>6. RunAtHand(r)'
      BY <1>3, <1>5, <1>7, <1>8, <2>3, <3>1, <3>2, <3>4 DEF RunAtHand
    <3> QED
      BY <1>3, <1>7, <1>8, <2>1, <2>3, <3>5, <3>6 DEF RunsBehind
  <2>4. CASE irp[r].status = "ok" /\ ~ (io'[r].pc = "loop" /\ io'[r].run = io[r].run)
    <3>1. /\ io[r].next = io[r].left
          /\ \/ /\ io[r].run < LastRun(r) /\ io'[r].pc = "loop"
                /\ io'[r].run = io[r].run + 1 /\ io'[r].next = 0
                /\ io'[r].left = io[r].shape[io[r].run + 1]
             \/ /\ io[r].run = LastRun(r) /\ io'[r].pc = "end"
                /\ io'[r].run = io[r].run
      BY <1>7, <2>4
    <3>2. \A k \in Runs(r) : k > io[r].run => moved[r][k] = 0
      BY <1>1, <1>3 DEF RequestInv, RunAtHand, Looping
    <3>3. moved[r][io[r].run] \in Nat /\ io[r].shape[io[r].run] \in Nat
      BY <1>4, <1>6, <1>12
    <3>4. moved[r][io[r].run] = io[r].shape[io[r].run]
      BY <1>5, <1>12, <2>4, <3>1, <3>3
    <3>5. \A k \in Runs(r) : k < io[r].run => assoc[r][k] = "disk" \/ moved[r][k] = io[r].shape[k]
      BY <1>1, <1>3, <2>4 DEF RequestInv, RunsBehind
    <3>6. RunAtHand(r)'
      BY <1>3, <1>4, <1>5, <1>7, <1>8, <2>4, <3>1, <3>2 DEF RunAtHand, Looping
    <3>7. ASSUME NEW k \in Runs(r), k < io'[r].run \/ io'[r].pc = "end"
          PROVE  assoc[r][k] = "disk" \/ moved[r][k] = io[r].shape[k]
      <4>1. k < io[r].run \/ k = io[r].run
        BY <1>4, <1>5, <3>1, <3>7
      <4> QED
        BY <3>4, <3>5, <4>1
    <3>8. io'[r].pc # "return"
      BY <3>1
    <3> QED
      BY <1>3, <1>7, <1>8, <2>1, <3>6, <3>7, <3>8 DEF RunsBehind
  <2> QED
    BY <1>5, <2>2, <2>3, <2>4
<1>14. RequestOK(r)'
  BY <1>1, <1>3, <1>5, <1>7, <1>8, <1>9, <1>10, <1>11, <1>13
  DEF RequestOK, RequestInv, IrpPlaces
<1>15. \A q \in Requests \ {r} : HoldsReserve(q)' <=> HoldsReserve(q)
  BY <1>3 DEF HoldsReserve, IInv, TypeOK
<1>16. OneReserve'
  BY <1>3, <1>7, <1>15 DEF OneReserve, HoldsReserve, IInv
<1> QED
  BY <1>3, <1>14, <1>16, OneRequest DEF IInv, TypeOK

\* An associated IRP is sent for the run at hand, and counted.
LEMMA SendAssociatedStep ==
    ASSUME IInv, NEW r \in Requests, SendAssociated(r)
    PROVE  IInv'
<1>1. RequestOK(r) /\ RequestInv(r)
  BY RequestsOK DEF RequestOK
<1> DEFINE o == [io[r] EXCEPT !.next = io[r].left, !.irpCount = io[r].irpCount - 1]
           run == io[r].run
<1>2. io[r] \in Locals
  BY <1>1 DEF RequestOK
<1>3. /\ io[r].pc = "loop"
      /\ irp' = irp /\ master' = master /\ moved' = moved /\ reserve' = reserve
      /\ assoc' = [assoc EXCEPT ![r][run] = "disk"]
      /\ io' = [io EXCEPT ![r] = io'[r]]
      /\ io'[r] = Advance(o)
  BY DEF SendAssociated, IInv, TypeOK
<1>4. /\ LastRun(r) \in Nat /\ Runs(r) = 1..LastRun(r)
      /\ \A k \in Runs(r) : io[r].shape[k] \in Nat \ {0}
      /\ io[r].shape \in Shapes
  BY <1>1, <1>2, <1>3, RunsFacts DEF RequestInv, IdleIsNew
<1>5. /\ run \in Nat \ {0} /\ io[r].left \in Nat
      /\ io[r].irpCount \in Nat
      /\ irp[r].status \in {"ok", "error"} /\ irp[r].completed = 0
      /\ master[r] = "none"
  BY <1>1, <1>3 DEF RequestOK, RequestInv, MasterAlone, Locals, MasterIrps
<1>6. /\ run \in Runs(r) /\ run <= Len(io[r].shape)
      /\ io[r].irpCount > LastRun(r) - run
      /\ \A k \in Runs(r) : k >= run => assoc[r][k] = "none"
  BY <1>1, <1>3, <1>4, <1>5
  DEF RequestInv, CountKeepsMaster, Looping, LastRun
<1>7. /\ o \in Locals /\ o.shape = io[r].shape /\ o.run = run
      /\ o.left = io[r].left /\ o.next = io[r].left
      /\ o.irpCount = io[r].irpCount - 1
  <2>1. io[r].irpCount - 1 \in Nat
    BY <1>4, <1>5, <1>6
  <2> QED
    BY <1>2, <1>5, <2>1 DEF Locals
<1>8. /\ io'[r] \in Locals
      /\ io'[r].shape = io[r].shape /\ io'[r].irpCount = io[r].irpCount - 1
      /\ io'[r].mdlIsReserve = FALSE /\ io'[r].next = 0
      /\ \/ /\ run < LastRun(r) /\ io'[r].pc = "loop" /\ io'[r].run = run + 1
            /\ io'[r].left = io[r].shape[run + 1]
         \/ /\ run = LastRun(r) /\ io'[r].pc = "end" /\ io'[r].run = run
  <2> HIDE DEF o
  <2>1. o.shape \in Shapes /\ o.run <= Len(o.shape) /\ o.next <= o.left /\ ~ (o.next < o.left)
    BY <1>4, <1>5, <1>6, <1>7
  <2>2. io'[r] = Advance(o)
    BY <1>3
  <2>3. o \in Locals /\ LastRun(r) = Len(o.shape) /\ o.run = run
    BY <1>7 DEF LastRun
  <2> HIDE DEF run
  <2>4. /\ Advance(o) \in Locals
        /\ Advance(o).shape = o.shape /\ Advance(o).irpCount = o.irpCount
        /\ Advance(o).mdlIsReserve = FALSE /\ Advance(o).next = 0
        /\ \/ /\ run < LastRun(r) /\ Advance(o).pc = "loop" /\ Advance(o).run = run + 1
              /\ Advance(o).left = o.shape[run + 1]
           \/ /\ run = LastRun(r) /\ Advance(o).pc = "end" /\ Advance(o).run = run
    BY <2>1, <2>3, AdvanceFacts
  <2> QED
    BY <1>7, <2>2, <2>4
<1>9. Runs(r)' = Runs(r) /\ LastRun(r)' = LastRun(r)
  BY <1>8 DEF Runs, LastRun
<1>10. assoc'[r] = [assoc[r] EXCEPT ![run] = "disk"] /\ assoc[r] \in [Runs(r) -> IrpPlaces]
  BY <1>1, <1>3 DEF RequestOK, IInv, TypeOK
<1>11. /\ InFlight(r)' = InFlight(r) \cup {run} /\ run \notin InFlight(r)
  <2>1. InFlight(r)' = {k \in Runs(r) : assoc'[r][k] # "none"}
    BY <1>9 DEF InFlight
  <2>2. \A k \in Runs(r) : assoc'[r][k] = IF k = run THEN "disk" ELSE assoc[r][k]
    BY <1>10
  <2>3. InFlight(r) = {k \in Runs(r) : assoc[r][k] # "none"}
    BY DEF InFlight
  <2>4. assoc[r][run] = "none" /\ run \in Runs(r)
    BY <1>5, <1>6
  <2> HIDE DEF run
  <2>5. \A k \in Runs(r) : assoc'[r][k] # "none" <=> assoc[r][k] # "none" \/ k = run
    BY <2>2
  <2> QED
    BY <2>1, <2>3, <2>4, <2>5
<1>12. irp'[r].irpCount = io'[r].irpCount + Cardinality(InFlight(r)')
  <2>1. Cardinality(InFlight(r)') = Cardinality(InFlight(r)) + 1
    BY <1>2, <1>11, InFlightFinite, FS_AddElement
  <2>2. irp[r].irpCount = io[r].irpCount + Cardinality(InFlight(r))
    BY <1>1, <1>3 DEF RequestOK
  <2> QED
    BY <1>2, <1>3, <1>5, <1>8, <2>1, <2>2, InFlightFinite
<1>13. CountKeepsMaster(r)'
  <2> HIDE DEF o, run
  <2>1. CASE run < LastRun(r)
    <3>1. /\ io'[r].run = run + 1
          /\ io'[r].irpCount = io[r].irpCount - 1
      BY <1>4, <1>5, <1>8, <2>1
    <3>2. io'[r].run <= LastRun(r) /\ io'[r].irpCount > LastRun(r) - io'[r].run
      BY <1>4, <1>5, <1>6, <2>1, <3>1
    <3>3. \A k \in Runs(r) : k >= run + 1 => k >= run /\ k # run
      BY <1>4, <1>5
    <3>4. \A k \in Runs(r) : k >= run + 1 => assoc'[r][k] = "none"
      BY <1>6, <1>10, <3>3
    <3> QED
      BY <1>9, <3>1, <3>2, <3>4 DEF CountKeepsMaster
  <2>2. CASE run = LastRun(r)
    <3>1. io'[r].pc = "end"
      BY <1>4, <1>8, <2>2
    <3> QED
      BY <3>1 DEF CountKeepsMaster, Looping
  <2> QED
    BY <1>4, <1>6, <2>1, <2>2
<1>14. MasterAlone(r)' /\ IdleIsNew(r)' /\ ReserveMarked(r)'
  BY <1>1, <1>3, <1>5, <1>8
  DEF RequestInv, MasterAlone, IdleIsNew, ReserveMarked
<1>15. /\ \A k \in Runs(r) : moved[r][k] \in Nat /\ moved[r][k] <= io[r].shape[k]
       /\ \A k \in Runs(r) : k > run => moved[r][k] = 0
  BY <1>1, <1>3 DEF RequestOK, RequestInv, RunAtHand, RunsBehind, Looping
<1>16. RunAtHand(r)'
  <2> HIDE DEF o, run
  <2>1. CASE run < LastRun(r)
    <3>1. /\ io'[r].pc = "loop" /\ io'[r].run = run + 1 /\ io'[r].next = 0
          /\ io'[r].left = io[r].shape[run + 1]
          /\ io'[r].shape = io[r].shape
      BY <1>4, <1>5, <1>8, <2>1
    <3>2. run + 1 \in Runs(r) /\ \A k \in Runs(r) : k > run + 1 => k > run
      BY <1>4, <1>5, <2>1
    <3>3. moved'[r][run + 1] = 0 /\ io[r].shape[run + 1] \in Nat \ {0}
      BY <1>3, <1>4, <1>5, <1>15, <3>2
    <3>4. \A k \in Runs(r) : k > run + 1 => moved'[r][k] = 0
      BY <1>3, <1>15, <3>2
    <3> QED
      BY <1>3, <1>5, <1>9, <3>1, <3>3, <3>4 DEF RunAtHand
  <2>2. CASE run = LastRun(r)
    <3>1. io'[r].pc = "end"
      BY <1>4, <1>8, <2>2
    <3> QED
      BY <3>1 DEF RunAtHand, Looping
  <2> QED
    BY <1>4, <1>6, <2>1, <2>2
<1>17. RunsBehind(r)'
  <2>1. ASSUME irp[r].status = "ok", NEW k \in Runs(r), k < io'[r].run \/ io'[r].pc = "end"
        PROVE  assoc'[r][k] = "disk" \/ moved[r][k] = io[r].shape[k]
    <3>1. CASE k = run
      BY <1>6, <1>10, <3>1
    <3>2. CASE k # run
      <4>1. k < run
        BY <1>4, <1>5, <1>8, <2>1, <3>2
      <4>2. assoc[r][k] = "disk" \/ moved[r][k] = io[r].shape[k]
        BY <1>1, <1>3, <2>1, <4>1 DEF RequestInv, RunsBehind
      <4> QED
        BY <1>10, <3>2, <4>2
    <3> QED
      BY <3>1, <3>2
  <2>2. io'[r].pc # "return"
    BY <1>8
  <2> QED
    BY <1>3, <1>8, <1>9, <1>15, <2>1, <2>2 DEF RunsBehind
<1>18. assoc'[r] \in [Runs(r) -> IrpPlaces]
  BY <1>10 DEF IrpPlaces
<1>19. RequestOK(r)'
  BY <1>1, <1>3, <1>5, <1>8, <1>9, <1>12, <1>13, <1>14, <1>16, <1>17, <1>18
  DEF RequestOK, RequestInv
<1>20. \A q \in Requests \ {r} : HoldsReserve(q)' <=> HoldsReserve(q)
  BY <1>3 DEF HoldsReserve, IInv, TypeOK
<1>21. OneReserve'
  BY <1>3, <1>8, <1>20 DEF OneReserve, HoldsReserve, IInv
<1> QED
  BY <1>3, <1>19, <1>21, OneRequest DEF IInv, TypeOK

\* The thread leaves; a request with runs that were not sent is completed.
LEMMA FinishStep ==
    ASSUME IInv, NEW r \in Requests, Finish(r)
    PROVE  IInv'
<1>1. RequestOK(r) /\ RequestInv(r)
  BY RequestsOK DEF RequestOK
<1>2. io[r] \in Locals /\ irp[r] \in MasterIrps /\ io[r].irpCount \in Nat
  BY <1>1 DEF RequestOK, Locals
<1>3. /\ io[r].pc = "end"
      /\ assoc' = assoc /\ master' = master /\ moved' = moved /\ reserve' = reserve
      /\ io' = [io EXCEPT ![r] = io'[r]]
      /\ io'[r] = [io[r] EXCEPT !.pc = "return"]
      /\ irp' = [irp EXCEPT ![r] = irp'[r]]
      /\ \/ io[r].irpCount = 0 /\ irp'[r] = irp[r]
         \/ /\ io[r].irpCount # 0 /\ irp[r].irpCount = io[r].irpCount
            /\ irp'[r] = [irp[r] EXCEPT !.completed = irp[r].completed + 1]
  BY DEF Finish, IInv, TypeOK
<1>4. /\ io'[r].pc = "return" /\ io'[r].shape = io[r].shape
      /\ io'[r].run = io[r].run /\ io'[r].left = io[r].left
      /\ io'[r].next = io[r].next /\ io'[r].irpCount = io[r].irpCount
      /\ io'[r].mdlIsReserve = io[r].mdlIsReserve
      /\ io'[r] \in Locals
  BY <1>2, <1>3 DEF Locals, Places
<1>5. InFlight(r)' = InFlight(r) /\ Runs(r)' = Runs(r) /\ LastRun(r)' = LastRun(r)
  BY <1>3, <1>4 DEF InFlight, Runs, LastRun
<1>6. master[r] = "none"
  BY <1>1, <1>3 DEF RequestOK, RequestInv, MasterAlone, IrpPlaces
<1>7. /\ irp'[r] \in MasterIrps
      /\ irp'[r].irpCount = irp[r].irpCount /\ irp'[r].status = irp[r].status
      /\ irp'[r].completed > 0 => irp'[r].completed = 1 /\ InFlight(r) = {}
  <2>1. CASE irp'[r] = irp[r]
    BY <1>1, <2>1 DEF RequestOK
  <2>2. CASE /\ io[r].irpCount # 0 /\ irp[r].irpCount = io[r].irpCount
             /\ irp'[r] = [irp[r] EXCEPT !.completed = irp[r].completed + 1]
    <3>1. irp[r].completed = 0
      BY <1>1, <1>2, <1>3, <2>2 DEF RequestOK, MasterIrps
    <3>2. InFlight(r) = {}
      <4>1. irp[r].irpCount = io[r].irpCount + Cardinality(InFlight(r))
        BY <1>1, <1>3 DEF RequestOK
      <4>2. Cardinality(InFlight(r)) = 0
        BY <1>2, <2>2, <4>1, InFlightFinite
      <4> QED
        BY <1>2, <4>2, InFlightFinite
    <3>3. irp'[r] = [irp[r] EXCEPT !.completed = 1]
      BY <2>2, <3>1
    <3> QED
      BY <1>2, <3>2, <3>3 DEF MasterIrps
  <2> QED
    BY <1>3, <2>1, <2>2
<1>8. /\ CountKeepsMaster(r)' /\ MasterAlone(r)' /\ IdleIsNew(r)'
      /\ ReserveMarked(r)' /\ RunAtHand(r)'
  BY <1>1, <1>3, <1>4, <1>6
  DEF RequestInv, CountKeepsMaster, MasterAlone, IdleIsNew, ReserveMarked,
      RunAtHand, Looping
<1>9. RunsBehind(r)'
  BY <1>1, <1>3, <1>4, <1>5, <1>6, <1>7 DEF RequestInv, RunsBehind
<1>10. RequestOK(r)'
  BY <1>1, <1>3, <1>4, <1>5, <1>6, <1>7, <1>8, <1>9 DEF RequestOK, RequestInv
<1>11. \A q \in Requests \ {r} : HoldsReserve(q)' <=> HoldsReserve(q)
  BY <1>3 DEF HoldsReserve, IInv, TypeOK
<1>12. ~ HoldsReserve(r)'
  BY <1>4 DEF HoldsReserve
<1>13. OneReserve'
  BY <1>3, <1>11, <1>12 DEF OneReserve, IInv
<1> QED
  BY <1>3, <1>10, <1>13, OneRequest DEF IInv, TypeOK

\* What the completion routines of a run rely on: the request is not over, and
\* its master is not out.
LEMMA OutFacts ==
    ASSUME IInv, NEW r \in Requests, NEW k \in Runs(r), assoc[r][k] # "none"
    PROVE  /\ RequestOK(r) /\ RequestInv(r)
           /\ io[r] \in Locals /\ irp[r] \in MasterIrps
           /\ k \in InFlight(r)
           /\ irp[r].completed = 0 /\ master[r] = "none"
           /\ io[r].pc # "idle"
           /\ io[r].pc \in Looping => k # io[r].run /\ k < io[r].run
           /\ io[r].shape \in Shapes
           /\ LastRun(r) \in Nat /\ Runs(r) = 1..LastRun(r)
           /\ \A j \in Runs(r) : io[r].shape[j] \in Nat /\ moved[r][j] \in Nat
<1>1. RequestOK(r) /\ RequestInv(r)
  BY RequestsOK DEF RequestOK
<1>2. io[r] \in Locals /\ irp[r] \in MasterIrps /\ irp[r].completed \in {0, 1}
  BY <1>1 DEF RequestOK, MasterIrps
<1>3. k \in InFlight(r)
  BY DEF InFlight
<1>4. irp[r].completed = 0 /\ master[r] = "none"
  BY <1>1, <1>2, <1>3 DEF RequestOK, RequestInv, MasterAlone, IrpPlaces
<1>5. /\ LastRun(r) \in Nat /\ Runs(r) = 1..LastRun(r)
      /\ \A j \in Runs(r) : io[r].shape[j] \in Nat
      /\ io[r].shape # <<>> => io[r].shape \in Shapes
  BY <1>2, RunsFacts
<1>6. io[r].shape # <<>>
  BY DEF Runs
<1>7. io[r].pc # "idle" /\ \A j \in Runs(r) : moved[r][j] \in Nat
  BY <1>1, <1>6 DEF RequestOK, RequestInv, IdleIsNew
<1>8. io[r].pc \in Looping => k < io[r].run
  <2>1. io[r].run \in Nat
    BY <1>2 DEF Locals
  <2> QED
    BY <1>1, <1>5, <2>1 DEF RequestInv, CountKeepsMaster
<1> QED
  BY <1>1, <1>2, <1>3, <1>4, <1>5, <1>6, <1>7, <1>8

\* The disk has transferred the run of an associated IRP.
LEMMA AssociatedDoneStep ==
    ASSUME IInv, NEW r \in Requests, NEW k \in Runs(r), AssociatedDone(r, k)
    PROVE  IInv'
<1>1. /\ assoc[r][k] = "disk"
      /\ io' = io /\ irp' = irp /\ master' = master /\ reserve' = reserve
      /\ assoc' = [assoc EXCEPT ![r][k] = "back"]
      /\ moved' = [moved EXCEPT ![r][k] = io[r].shape[k]]
  BY DEF AssociatedDone
<1>2. /\ RequestOK(r) /\ RequestInv(r)
      /\ irp[r].completed = 0 /\ master[r] = "none"
      /\ io[r].pc \in Looping => k # io[r].run /\ k < io[r].run
      /\ \A j \in Runs(r) : io[r].shape[j] \in Nat /\ moved[r][j] \in Nat
  BY <1>1, OutFacts
<1>3. Runs(r)' = Runs(r) /\ LastRun(r)' = LastRun(r)
  BY <1>1 DEF Runs, LastRun
<1>4. /\ assoc'[r] = [assoc[r] EXCEPT ![k] = "back"] /\ assoc[r] \in [Runs(r) -> IrpPlaces]
      /\ moved'[r] = [moved[r] EXCEPT ![k] = io[r].shape[k]]
      /\ moved[r] \in [Runs(r) -> Nat]
  BY <1>1, <1>2 DEF RequestOK, IInv, TypeOK
<1>5. /\ assoc'[r] \in [Runs(r) -> IrpPlaces] /\ moved'[r] \in [Runs(r) -> Nat]
      /\ \A j \in Runs(r) : /\ assoc'[r][j] = "none" <=> assoc[r][j] = "none"
                            /\ j # k => assoc'[r][j] = assoc[r][j] /\ moved'[r][j] = moved[r][j]
      /\ moved'[r][k] = io[r].shape[k]
  BY <1>1, <1>2, <1>4 DEF IrpPlaces
<1>6. InFlight(r)' = InFlight(r)
  BY <1>3, <1>5 DEF InFlight
<1>7. CountKeepsMaster(r)'
  BY <1>1, <1>2, <1>3, <1>5 DEF RequestInv, CountKeepsMaster
<1>8. MasterAlone(r)' /\ IdleIsNew(r)' /\ ReserveMarked(r)'
  BY <1>1, <1>2, <1>3, <1>6 DEF RequestInv, MasterAlone, IdleIsNew, ReserveMarked
<1>9. RunAtHand(r)'
  <2>1. io[r].pc \in Looping => io[r].run \in Runs(r) /\ io[r].run \in Nat
    <3>1. io[r].run \in Nat \ {0} /\ Runs(r) = 1..LastRun(r) /\ LastRun(r) \in Nat
      BY <1>1, <1>2, OutFacts DEF Locals
    <3> QED
      BY <1>2, <3>1 DEF RequestInv, CountKeepsMaster
  <2>2. \A j \in Runs(r) : j > io[r].run /\ io[r].pc \in Looping => j # k
    <3>1. io[r].run \in Nat \ {0} /\ Runs(r) = 1..LastRun(r) /\ LastRun(r) \in Nat
      BY <1>1, <1>2, OutFacts DEF Locals
    <3> QED
      BY <1>2, <3>1
  <2> QED
    BY <1>1, <1>2, <1>3, <1>5, <2>1, <2>2 DEF RequestInv, RunAtHand
<1>10. RunsBehind(r)'
  BY <1>1, <1>2, <1>3, <1>5 DEF RequestInv, RunsBehind
<1>11. RequestOK(r)'
  BY <1>1, <1>2, <1>3, <1>5, <1>6, <1>7, <1>8, <1>9, <1>10 DEF RequestOK, RequestInv
<1>12. OneReserve'
  BY <1>1 DEF OneReserve, HoldsReserve, IInv
<1> QED
  BY <1>1, <1>11, <1>12, OneRequest DEF IInv, TypeOK

\* The error of a run is noted in the master.
LEMMA AssociatedFailsStep ==
    ASSUME IInv, NEW r \in Requests, NEW k \in Runs(r), AssociatedFails(r, k)
    PROVE  IInv'
<1>1. /\ assoc[r][k] = "disk"
      /\ io' = io /\ moved' = moved /\ master' = master /\ reserve' = reserve
      /\ assoc' = [assoc EXCEPT ![r][k] = "back"]
      /\ irp' = [irp EXCEPT ![r] = irp'[r]]
      /\ irp'[r] = [irp[r] EXCEPT !.status = "error", !.information = 0]
  BY DEF AssociatedFails, IInv, TypeOK
<1>2. /\ RequestOK(r) /\ RequestInv(r) /\ irp[r] \in MasterIrps
      /\ irp[r].completed = 0 /\ master[r] = "none"
  BY <1>1, OutFacts
<1>3. Runs(r)' = Runs(r) /\ LastRun(r)' = LastRun(r)
  BY <1>1 DEF Runs, LastRun
<1>4. /\ assoc'[r] = [assoc[r] EXCEPT ![k] = "back"] /\ assoc[r] \in [Runs(r) -> IrpPlaces]
  BY <1>1, <1>2 DEF RequestOK, IInv, TypeOK
<1>5. /\ assoc'[r] \in [Runs(r) -> IrpPlaces]
      /\ \A j \in Runs(r) : assoc'[r][j] = "none" <=> assoc[r][j] = "none"
  BY <1>1, <1>4 DEF IrpPlaces
<1>6. InFlight(r)' = InFlight(r)
  BY <1>3, <1>5 DEF InFlight
<1>7. /\ irp'[r] \in MasterIrps
      /\ irp'[r].status = "error" /\ irp'[r].completed = 0
      /\ irp'[r].irpCount = irp[r].irpCount
  <2>1. /\ irp[r] \in MasterIrps /\ "error" \in {"ok", "error"} /\ 0 \in Nat
        /\ irp'[r] = Noted(irp[r], "error", 0)
    BY <1>1, <1>2 DEF Noted
  <2>2. /\ irp'[r] \in MasterIrps
        /\ irp'[r].status = "error" /\ irp'[r].completed = irp[r].completed
        /\ irp'[r].irpCount = irp[r].irpCount
    BY <2>1, NotedFacts
  <2> QED
    BY <1>2, <2>2
<1>8. /\ CountKeepsMaster(r)' /\ MasterAlone(r)' /\ IdleIsNew(r)'
      /\ ReserveMarked(r)' /\ RunAtHand(r)' /\ RunsBehind(r)'
  <2>1. CountKeepsMaster(r)'
    BY <1>1, <1>2, <1>3, <1>5 DEF RequestInv, CountKeepsMaster
  <2>2. MasterAlone(r)' /\ IdleIsNew(r)' /\ ReserveMarked(r)'
    BY <1>1, <1>2, <1>3, <1>6, <1>7
    DEF RequestInv, MasterAlone, IdleIsNew, ReserveMarked
  <2>3. RunAtHand(r)'
    BY <1>1, <1>2, <1>3 DEF RequestInv, RunAtHand
  <2>4. RunsBehind(r)'
    BY <1>1, <1>2, <1>3, <1>7 DEF RequestInv, RunsBehind
  <2> QED
    BY <2>1, <2>2, <2>3, <2>4
<1>9. RequestOK(r)'
  BY <1>1, <1>2, <1>3, <1>5, <1>6, <1>7, <1>8 DEF RequestOK, RequestInv
<1>10. OneReserve'
  BY <1>1 DEF OneReserve, HoldsReserve, IInv
<1> QED
  BY <1>1, <1>9, <1>10, OneRequest DEF IInv, TypeOK

\* An associated IRP leaves; the last one completes the master, whose thread
\* has sent every run by then.
LEMMA AssociatedReturnsStep ==
    ASSUME IInv, NEW r \in Requests, NEW k \in Runs(r), AssociatedReturns(r, k)
    PROVE  IInv'
<1>1. /\ assoc[r][k] = "back"
      /\ io' = io /\ moved' = moved /\ master' = master /\ reserve' = reserve
      /\ assoc' = [assoc EXCEPT ![r][k] = "none"]
      /\ irp' = [irp EXCEPT ![r] = irp'[r]]
      /\ irp'[r] = [irp[r] EXCEPT !.irpCount = irp[r].irpCount - 1,
                       !.completed = IF irp[r].irpCount = 1
                                     THEN irp[r].completed + 1 ELSE irp[r].completed]
  BY DEF AssociatedReturns, IInv, TypeOK
<1>2. /\ RequestOK(r) /\ RequestInv(r)
      /\ io[r] \in Locals /\ irp[r] \in MasterIrps
      /\ k \in InFlight(r)
      /\ irp[r].completed = 0 /\ master[r] = "none"
      /\ io[r].pc # "idle"
      /\ LastRun(r) \in Nat
  BY <1>1, OutFacts
<1>3. Runs(r)' = Runs(r) /\ LastRun(r)' = LastRun(r)
  BY <1>1 DEF Runs, LastRun
<1>4. /\ assoc'[r] = [assoc[r] EXCEPT ![k] = "none"] /\ assoc[r] \in [Runs(r) -> IrpPlaces]
  BY <1>1, <1>2 DEF RequestOK, IInv, TypeOK
<1>5. /\ assoc'[r] \in [Runs(r) -> IrpPlaces]
      /\ \A j \in Runs(r) : /\ j # k => assoc'[r][j] = assoc[r][j]
                            /\ assoc'[r][j] = "disk" <=> assoc[r][j] = "disk"
      /\ assoc'[r][k] = "none"
  BY <1>1, <1>4 DEF IrpPlaces
<1>6. InFlight(r)' = InFlight(r) \ {k}
  <2>1. InFlight(r)' = {j \in Runs(r) : assoc'[r][j] # "none"}
    BY <1>3 DEF InFlight
  <2> QED
    BY <1>5, <2>1 DEF InFlight
<1>7. /\ Cardinality(InFlight(r)') = Cardinality(InFlight(r)) - 1
      /\ Cardinality(InFlight(r)) \in Nat \ {0}
      /\ Cardinality(InFlight(r)') = 0 <=> InFlight(r)' = {}
  <2>1. IsFiniteSet(InFlight(r)) /\ Cardinality(InFlight(r)) \in Nat
    BY <1>2, InFlightFinite
  <2>2. IsFiniteSet(InFlight(r)')
    BY <1>6, <2>1, FS_RemoveElement
  <2> QED
    BY <1>2, <1>6, <2>1, <2>2, FS_RemoveElement, FS_EmptySet
<1>8. /\ irp[r].irpCount = io[r].irpCount + Cardinality(InFlight(r))
      /\ io[r].irpCount \in Nat /\ irp[r].irpCount \in Nat \ {0}
  <2>1. irp[r].irpCount = io[r].irpCount + Cardinality(InFlight(r))
    BY <1>2 DEF RequestOK
  <2>2. io[r].irpCount \in Nat
    BY <1>2 DEF Locals
  <2> QED
    BY <1>7, <2>1, <2>2
<1>9. /\ irp'[r] \in MasterIrps
      /\ irp'[r].irpCount = irp[r].irpCount - 1 /\ irp'[r].status = irp[r].status
      /\ irp'[r].completed = IF irp[r].irpCount = 1 THEN 1 ELSE 0
  <2>1. irp[r].irpCount - 1 \in Nat
    BY <1>8
  <2>2. CASE irp[r].irpCount = 1
    <3>1. irp'[r] = [irp[r] EXCEPT !.irpCount = irp[r].irpCount - 1, !.completed = 1]
      BY <1>1, <1>2, <2>2
    <3> QED
      BY <1>2, <2>1, <2>2, <3>1 DEF MasterIrps
  <2>3. CASE irp[r].irpCount # 1
    <3>1. irp'[r] = [irp[r] EXCEPT !.irpCount = irp[r].irpCount - 1, !.completed = 0]
      BY <1>1, <1>2, <2>3
    <3> QED
      BY <1>2, <2>1, <2>3, <3>1 DEF MasterIrps
  <2> QED
    BY <2>2, <2>3
<1>10. irp'[r].irpCount = io[r].irpCount + Cardinality(InFlight(r)')
  BY <1>7, <1>8, <1>9
<1>11. irp'[r].completed > 0 =>
          /\ irp'[r].completed = 1
          /\ InFlight(r)' = {}
          /\ io[r].irpCount = 0
          /\ io[r].pc \in {"end", "return"}
  <2>1. ASSUME irp[r].irpCount = 1
        PROVE  io[r].irpCount = 0 /\ Cardinality(InFlight(r)) = 1
    BY <1>7, <1>8, <2>1
  <2>2. io[r].irpCount = 0 => io[r].pc \notin Looping
    BY <1>2, <1>8 DEF RequestInv, CountKeepsMaster, Locals
  <2>3. io[r].pc \in {"end", "return"} \/ io[r].pc \in Looping
    BY <1>2 DEF Locals, Places, Looping
  <2> QED
    BY <1>7, <1>9, <2>1, <2>2, <2>3
<1>12. /\ CountKeepsMaster(r)' /\ MasterAlone(r)' /\ IdleIsNew(r)'
       /\ ReserveMarked(r)' /\ RunAtHand(r)' /\ RunsBehind(r)'
  BY <1>1, <1>2, <1>3, <1>5, <1>9
  DEF RequestInv, CountKeepsMaster, MasterAlone, IdleIsNew, ReserveMarked,
      RunAtHand, RunsBehind
<1>13. RequestOK(r)'
  BY <1>1, <1>2, <1>3, <1>5, <1>9, <1>10, <1>11, <1>12 DEF RequestOK, RequestInv
<1>14. OneReserve'
  BY <1>1 DEF OneReserve, HoldsReserve, IInv
<1> QED
  BY <1>1, <1>13, <1>14, OneRequest DEF IInv, TypeOK

\* What holds when an IRP whose master was sent comes back from the disk.
LEMMA MasterOutFacts ==
    ASSUME IInv, NEW r \in Requests, master[r] = "disk"
    PROVE  /\ RequestOK(r) /\ RequestInv(r)
           /\ io[r] \in Locals /\ irp[r] \in MasterIrps
           /\ io[r].pc \in {"piece", "return"}
           /\ irp[r].completed = 0 /\ InFlight(r) = {}
           /\ irp[r].status = "ok"
           /\ io[r].run \in Runs(r) /\ io[r].run \in Nat \ {0}
           /\ io[r].left \in Nat /\ io[r].next \in Nat
           /\ Runs(r) = 1..LastRun(r) /\ LastRun(r) \in Nat
           /\ \A k \in Runs(r) : io[r].shape[k] \in Nat /\ moved[r][k] \in Nat
           /\ moved[r][io[r].run] + io[r].left = io[r].shape[io[r].run]
           /\ io[r].pc = "piece" => io[r].next <= io[r].left
           /\ io[r].pc = "return" => LastRun(r) = 1 /\ ~ io[r].mdlIsReserve
           /\ moved[r] \in [Runs(r) -> Nat]
<1>1. RequestOK(r) /\ RequestInv(r)
  BY RequestsOK DEF RequestOK
<1>2. io[r] \in Locals /\ irp[r] \in MasterIrps /\ moved[r] \in [Runs(r) -> Nat]
  BY <1>1 DEF RequestOK
<1>3. /\ Runs(r) = 1..LastRun(r) /\ LastRun(r) \in Nat
      /\ \A k \in Runs(r) : io[r].shape[k] \in Nat
  BY <1>2, RunsFacts
<1>4. /\ \/ io[r].pc = "piece"
         \/ io[r].pc = "return" /\ LastRun(r) = 1 /\ io[r].run = 1
      /\ irp[r].completed = 0 /\ InFlight(r) = {}
      /\ irp[r].status = "ok"
  BY <1>1 DEF RequestInv, MasterAlone
<1>5. io[r].run \in Nat \ {0} /\ io[r].left \in Nat /\ io[r].next \in Nat
  BY <1>2 DEF Locals
<1>6. io[r].run \in Runs(r)
  <2>1. io[r].pc = "piece" => io[r].run <= LastRun(r)
    BY <1>1 DEF RequestInv, CountKeepsMaster, Looping
  <2> QED
    BY <1>3, <1>4, <1>5, <2>1
<1>7. /\ moved[r][io[r].run] + io[r].left = io[r].shape[io[r].run]
      /\ io[r].pc = "piece" => io[r].next <= io[r].left
  BY <1>1, <1>4 DEF RequestInv, RunAtHand, Looping
<1>8. io[r].pc = "return" => ~ io[r].mdlIsReserve
  BY <1>1 DEF RequestInv, ReserveMarked
<1> QED
  BY <1>1, <1>2, <1>3, <1>4, <1>5, <1>6, <1>7, <1>8

\* FatPagingFileCompletionRoutineCatch gives back the reserve MDL if its
\* request holds it, and only then.
LEMMA CaughtReserve ==
    ASSUME IInv, NEW r \in Requests, master[r] = "disk",
           io' = io, master' = [master EXCEPT ![r] = "back"], Caught(r)
    PROVE  OneReserve' /\ reserve' \in BOOLEAN
<1>1. master'[r] = "back" /\ \A q \in Requests \ {r} : master'[q] = master[q]
  BY DEF IInv, TypeOK
<1>2. ~ HoldsReserve(r)'
  BY <1>1 DEF HoldsReserve
<1>3. \A q \in Requests \ {r} : HoldsReserve(q)' <=> HoldsReserve(q)
  BY <1>1 DEF HoldsReserve
<1>4. io[r].mdlIsReserve => HoldsReserve(r)
  BY MasterOutFacts DEF HoldsReserve
<1>5. reserve' = (reserve \/ io[r].mdlIsReserve) /\ reserve' \in BOOLEAN
  BY DEF Caught
<1>6. reserve' => \A q \in Requests \ {r} : ~ HoldsReserve(q)
  BY <1>4, <1>5 DEF IInv, OneReserve
<1> QED
  BY <1>2, <1>3, <1>5, <1>6 DEF IInv, OneReserve

LEMMA MasterDoneStep ==
    ASSUME IInv, NEW r \in Requests, MasterDone(r)
    PROVE  IInv'
<1> DEFINE pages == IF io[r].pc = "piece" THEN io[r].next ELSE io[r].left
           run == io[r].run
<1>1. /\ master[r] = "disk"
      /\ io' = io /\ assoc' = assoc
      /\ master' = [master EXCEPT ![r] = "back"] /\ master'[r] = "back"
      /\ moved' = [moved EXCEPT ![r][run] = moved[r][run] + pages]
      /\ irp' = [irp EXCEPT ![r] = irp'[r]]
      /\ irp'[r] = [irp[r] EXCEPT !.status = "ok", !.information = pages]
      /\ Caught(r)
  BY DEF MasterDone, IInv, TypeOK
<1>2. /\ RequestOK(r) /\ RequestInv(r)
      /\ io[r] \in Locals /\ irp[r] \in MasterIrps
      /\ io[r].pc \in {"piece", "return"}
      /\ irp[r].completed = 0 /\ InFlight(r) = {}
      /\ irp[r].status = "ok"
      /\ run \in Runs(r) /\ run \in Nat \ {0}
      /\ io[r].left \in Nat /\ io[r].next \in Nat
      /\ Runs(r) = 1..LastRun(r) /\ LastRun(r) \in Nat
      /\ \A k \in Runs(r) : io[r].shape[k] \in Nat /\ moved[r][k] \in Nat
      /\ moved[r][run] + io[r].left = io[r].shape[run]
      /\ io[r].pc = "piece" => io[r].next <= io[r].left
      /\ io[r].pc = "return" => LastRun(r) = 1 /\ ~ io[r].mdlIsReserve
      /\ moved[r] \in [Runs(r) -> Nat]
  BY <1>1, MasterOutFacts
<1>3. InFlight(r)' = InFlight(r) /\ Runs(r)' = Runs(r) /\ LastRun(r)' = LastRun(r)
  BY <1>1 DEF InFlight, Runs, LastRun
<1>4. pages \in Nat /\ pages <= io[r].left
  BY <1>2
<1>5. moved'[r] = [moved[r] EXCEPT ![run] = moved[r][run] + pages]
  BY <1>1 DEF IInv, TypeOK
<1>6. /\ moved'[r] \in [Runs(r) -> Nat]
      /\ moved'[r][run] = moved[r][run] + pages
      /\ \A k \in Runs(r) : k # run => moved'[r][k] = moved[r][k]
  <2> HIDE DEF pages, run
  <2>1. moved[r][run] + pages \in Nat
    BY <1>2, <1>4
  <2> QED
    BY <1>2, <1>5, <2>1
<1>7. /\ irp'[r] \in MasterIrps
      /\ irp'[r].status = "ok" /\ irp'[r].completed = 0
      /\ irp'[r].irpCount = irp[r].irpCount
  <2> HIDE DEF pages
  <2>1. /\ irp[r] \in MasterIrps /\ "ok" \in {"ok", "error"} /\ pages \in Nat
        /\ irp'[r] = Noted(irp[r], "ok", pages)
    BY <1>1, <1>2, <1>4 DEF Noted
  <2>2. /\ irp'[r] \in MasterIrps
        /\ irp'[r].status = "ok" /\ irp'[r].completed = irp[r].completed
        /\ irp'[r].irpCount = irp[r].irpCount
    BY <2>1, NotedFacts
  <2> QED
    BY <1>2, <2>2
<1>8. /\ CountKeepsMaster(r)' /\ MasterAlone(r)' /\ IdleIsNew(r)' /\ ReserveMarked(r)'
  BY <1>1, <1>2, <1>3, <1>7
  DEF RequestInv, CountKeepsMaster, MasterAlone, IdleIsNew, ReserveMarked
<1>9. RunAtHand(r)'
  <2>1. CASE io[r].pc = "piece"
    <3>1. moved'[r][run] + io[r].left = io[r].shape[run] + io[r].next
      <4>1. pages = io[r].next
        BY <2>1
      <4>2. /\ moved'[r][run] = moved[r][run] + pages
            /\ moved[r][run] \in Nat /\ io[r].shape[run] \in Nat
        BY <1>2, <1>6
      <4> HIDE DEF pages, run
      <4> QED
        BY <1>2, <4>1, <4>2
    <3>2. \A k \in Runs(r) : k > run => moved'[r][k] = 0
      <4>1. \A k \in Runs(r) : k > run => moved[r][k] = 0
        BY <1>2, <2>1 DEF RequestInv, RunAtHand, Looping
      <4>2. \A k \in Runs(r) : k > run => k # run
        BY <1>2
      <4> HIDE DEF pages, run
      <4> QED
        BY <1>6, <4>1, <4>2
    <3>3. /\ io' = io /\ master'[r] = "back" /\ irp'[r].status = "ok"
          /\ io[r].next <= io[r].left
      BY <1>1, <1>2, <1>7, <2>1
    <3>4. run = io[r].run
      OBVIOUS
    <3> HIDE DEF pages, run
    <3> QED
      BY <1>3, <2>1, <3>1, <3>2, <3>3, <3>4 DEF RunAtHand
  <2>2. CASE io[r].pc = "return"
    BY <1>1, <2>2 DEF RunAtHand, Looping
  <2> QED
    BY <1>2, <2>1, <2>2
<1>10. RunsBehind(r)'
  <2>1. \A k \in Runs(r) : moved'[r][k] <= io[r].shape[k]
    <3>1. moved'[r][run] <= io[r].shape[run]
      BY <1>2, <1>4, <1>6
    <3> QED
      BY <1>2, <1>6, <3>1 DEF RequestInv, RunsBehind
  <2>2. CASE io[r].pc = "piece"
    <3>1. \A k \in Runs(r) : k < run => k # run /\ (assoc[r][k] = "disk" \/ moved[r][k] = io[r].shape[k])
      BY <1>2, <2>2 DEF RequestInv, RunsBehind
    <3> QED
      BY <1>1, <1>3, <1>6, <2>1, <2>2, <3>1 DEF RunsBehind
  <2>3. CASE io[r].pc = "return"
    <3>1. \A k \in Runs(r) : k = run
      BY <1>2, <2>3
    <3>2. moved'[r][run] = io[r].shape[run]
      BY <1>2, <1>6, <2>3
    <3> QED
      BY <1>1, <1>3, <2>1, <3>1, <3>2 DEF RunsBehind
  <2> QED
    BY <1>2, <2>2, <2>3
<1>11. RequestOK(r)'
  BY <1>1, <1>2, <1>3, <1>6, <1>7, <1>8, <1>9, <1>10
  DEF RequestOK, RequestInv, IrpPlaces
<1>12. OneReserve' /\ reserve' \in BOOLEAN
  BY <1>1, CaughtReserve
<1>13. DOMAIN moved' = Requests /\ \A q \in Requests \ {r} : moved'[q] = moved[q]
  BY <1>1 DEF IInv, TypeOK
<1> QED
  BY <1>1, <1>11, <1>12, <1>13, OneRequest DEF IInv, TypeOK

LEMMA MasterFailsStep ==
    ASSUME IInv, NEW r \in Requests, MasterFails(r)
    PROVE  IInv'
<1>1. /\ master[r] = "disk"
      /\ io' = io /\ assoc' = assoc /\ moved' = moved
      /\ master' = [master EXCEPT ![r] = "back"] /\ master'[r] = "back"
      /\ irp' = [irp EXCEPT ![r] = irp'[r]]
      /\ irp'[r] = [irp[r] EXCEPT !.status = "error", !.information = 0]
      /\ Caught(r)
  BY DEF MasterFails, IInv, TypeOK
<1>2. /\ RequestOK(r) /\ RequestInv(r) /\ irp[r] \in MasterIrps
      /\ irp[r].completed = 0 /\ InFlight(r) = {}
      /\ irp[r].status = "ok"
  BY <1>1, MasterOutFacts
<1>3. InFlight(r)' = InFlight(r) /\ Runs(r)' = Runs(r) /\ LastRun(r)' = LastRun(r)
  BY <1>1 DEF InFlight, Runs, LastRun
<1>4. /\ irp'[r] \in MasterIrps
      /\ irp'[r].status = "error" /\ irp'[r].completed = 0
      /\ irp'[r].irpCount = irp[r].irpCount
  <2>1. /\ irp[r] \in MasterIrps /\ "error" \in {"ok", "error"} /\ 0 \in Nat
        /\ irp'[r] = Noted(irp[r], "error", 0)
    BY <1>1, <1>2 DEF Noted
  <2>2. /\ irp'[r] \in MasterIrps
        /\ irp'[r].status = "error" /\ irp'[r].completed = irp[r].completed
        /\ irp'[r].irpCount = irp[r].irpCount
    BY <2>1, NotedFacts
  <2> QED
    BY <1>2, <2>2
<1>5. /\ CountKeepsMaster(r)' /\ MasterAlone(r)' /\ IdleIsNew(r)' /\ ReserveMarked(r)'
  BY <1>1, <1>2, <1>3, <1>4
  DEF RequestInv, CountKeepsMaster, MasterAlone, IdleIsNew, ReserveMarked
<1>6. RunAtHand(r)' /\ RunsBehind(r)'
  BY <1>1, <1>2, <1>3, <1>4 DEF RequestInv, RunAtHand, RunsBehind
<1>7. RequestOK(r)'
  BY <1>1, <1>2, <1>3, <1>4, <1>5, <1>6 DEF RequestOK, RequestInv, IrpPlaces
<1>8. OneReserve' /\ reserve' \in BOOLEAN
  BY <1>1, CaughtReserve
<1> QED
  BY <1>1, <1>7, <1>8, OneRequest DEF IInv, TypeOK

LEMMA SingleReturnsStep ==
    ASSUME IInv, NEW r \in Requests, SingleReturns(r)
    PROVE  IInv'
<1>1. /\ io[r].pc = "return" /\ master[r] = "back"
      /\ io' = io /\ assoc' = assoc /\ moved' = moved /\ reserve' = reserve
      /\ master' = [master EXCEPT ![r] = "none"] /\ master'[r] = "none"
      /\ irp' = [irp EXCEPT ![r] = irp'[r]]
      /\ irp'[r] = [irp[r] EXCEPT !.completed = irp[r].completed + 1]
  BY DEF SingleReturns, IInv, TypeOK
<1>2. /\ RequestOK(r) /\ RequestInv(r) /\ irp[r] \in MasterIrps
      /\ irp[r].completed = 0 /\ InFlight(r) = {}
  BY <1>1, RequestsOK DEF RequestOK, RequestInv, MasterAlone
<1>3. InFlight(r)' = InFlight(r) /\ Runs(r)' = Runs(r) /\ LastRun(r)' = LastRun(r)
  BY <1>1 DEF InFlight, Runs, LastRun
<1>4. /\ irp'[r] \in MasterIrps
      /\ irp'[r].status = irp[r].status /\ irp'[r].completed = 1
      /\ irp'[r].irpCount = irp[r].irpCount
  BY <1>1, <1>2 DEF MasterIrps
<1>5. /\ CountKeepsMaster(r)' /\ MasterAlone(r)' /\ IdleIsNew(r)'
      /\ ReserveMarked(r)' /\ RunAtHand(r)' /\ RunsBehind(r)'
  BY <1>1, <1>2, <1>3, <1>4
  DEF RequestInv, CountKeepsMaster, MasterAlone, IdleIsNew, ReserveMarked,
      RunAtHand, RunsBehind, Looping
<1>6. RequestOK(r)'
  BY <1>1, <1>2, <1>3, <1>4, <1>5 DEF RequestOK, RequestInv, IrpPlaces
<1>7. OneReserve'
  BY <1>1 DEF OneReserve, HoldsReserve, IInv, TypeOK
<1> QED
  BY <1>1, <1>6, <1>7, OneRequest DEF IInv, TypeOK

LEMMA BeginStep ==
    ASSUME IInv, NEW r \in Requests, NEW shape \in Shapes, Begin(r, shape)
    PROVE  IInv'
<1> DEFINE single == Len(shape) = 1
           count == IF single THEN 0 ELSE Len(shape)
<1>1. /\ io[r].pc \in {"idle", "return"}
      /\ reserve' = reserve
      /\ io' = [io EXCEPT ![r] = io'[r]]
      /\ irp' = [irp EXCEPT ![r] = irp'[r]]
      /\ master' = [master EXCEPT ![r] = master'[r]]
      /\ io'[r] = [NoIo EXCEPT !.pc = IF single THEN "return" ELSE "loop",
                      !.shape = shape, !.left = shape[1], !.irpCount = count]
      /\ irp'[r] = [NoIrp EXCEPT !.irpCount = count, !.information = Pages(shape)]
      /\ master'[r] = IF single THEN "disk" ELSE "none"
      /\ assoc' = [assoc EXCEPT ![r] = [k \in DOMAIN shape |-> "none"]]
      /\ moved' = [moved EXCEPT ![r] = [k \in DOMAIN shape |-> 0]]
  BY DEF Begin, IInv, TypeOK
<1>2. /\ Len(shape) \in Nat \ {0} /\ DOMAIN shape = 1..Len(shape)
      /\ \A k \in DOMAIN shape : shape[k] \in Nat \ {0}
      /\ shape # <<>>
  BY ShapeFacts, ShapeAssumption
<1>3. count \in Nat /\ shape[1] \in Nat
  BY <1>2
<1>4. /\ io'[r].pc = (IF single THEN "return" ELSE "loop")
      /\ io'[r].shape = shape /\ io'[r].run = 1 /\ io'[r].left = shape[1]
      /\ io'[r].next = 0 /\ io'[r].irpCount = count
      /\ io'[r].mdlIsReserve = FALSE
      /\ io'[r] \in Locals
  <2> DEFINE p == IF single THEN "return" ELSE "loop"
  <2>1. p \in Places
    BY DEF Places
  <2>2. io'[r] = [pc |-> p, shape |-> shape, run |-> 1, left |-> shape[1],
                  next |-> 0, irpCount |-> count, mdlIsReserve |-> FALSE]
    <3> HIDE DEF p, count
    <3>1. io'[r] = [NoIo EXCEPT !.pc = p, !.shape = shape,
                                !.left = shape[1], !.irpCount = count]
      BY <1>1 DEF p
    <3> QED
      BY <3>1 DEF NoIo
  <2> HIDE DEF p, count
  <2>3. io'[r] \in Locals
    BY <1>3, <2>1, <2>2 DEF Locals
  <2>4. io'[r].pc = p
    BY <2>2
  <2> QED
    BY <2>2, <2>3, <2>4 DEF p
<1>5. /\ irp'[r].irpCount = count /\ irp'[r].status = "ok"
      /\ irp'[r].completed = 0
      /\ irp'[r] \in MasterIrps
  <2> DEFINE infos == Nat \cup {Pages(s) : s \in Shapes}
             info == Pages(shape)
  <2> HIDE DEF count
  <2>1. MasterIrps = [irpCount : Nat, status : {"ok", "error"},
                      completed : {0, 1}, information : infos]
    BY DEF MasterIrps
  <2>2. info \in infos
    OBVIOUS
  <2>3. irp'[r] = [NoIrp EXCEPT !.irpCount = count, !.information = info]
    BY <1>1
  <2> HIDE DEF infos, info
  <2>4. irp'[r] = [irpCount |-> count, status |-> "ok",
                   information |-> info, completed |-> 0]
    BY <2>3 DEF NoIrp
  <2> QED
    BY <1>3, <2>1, <2>2, <2>4
<1>6. /\ Runs(r)' = DOMAIN shape /\ LastRun(r)' = Len(shape)
  BY <1>4 DEF Runs, LastRun
<1>7. /\ assoc'[r] = [k \in DOMAIN shape |-> "none"]
      /\ moved'[r] = [k \in DOMAIN shape |-> 0]
  BY <1>1 DEF IInv, TypeOK
<1>8. InFlight(r)' = {} /\ Cardinality(InFlight(r)') = 0
  BY <1>6, <1>7, FS_EmptySet DEF InFlight
<1>9. CountKeepsMaster(r)'
  BY <1>2, <1>4, <1>6, <1>7 DEF CountKeepsMaster, Looping
<1>10. MasterAlone(r)' /\ IdleIsNew(r)' /\ ReserveMarked(r)'
  BY <1>1, <1>2, <1>4, <1>5, <1>6, <1>8 DEF MasterAlone, IdleIsNew, ReserveMarked
<1>11. RunAtHand(r)'
  <2>1. moved'[r][1] = 0 /\ 1 \in DOMAIN shape
    BY <1>2, <1>7
  <2> QED
    BY <1>1, <1>2, <1>3, <1>4, <1>6, <1>7, <2>1 DEF RunAtHand, Looping
<1>12. RunsBehind(r)'
  BY <1>1, <1>2, <1>4, <1>6, <1>7 DEF RunsBehind
<1>13. RequestOK(r)'
  BY <1>1, <1>3, <1>4, <1>5, <1>6, <1>7, <1>8, <1>9, <1>10, <1>11, <1>12
  DEF RequestOK, RequestInv, IrpPlaces
<1>14. \A q \in Requests \ {r} : HoldsReserve(q)' <=> HoldsReserve(q)
  BY <1>1 DEF HoldsReserve, IInv, TypeOK
<1>15. ~ HoldsReserve(r)'
  BY <1>4 DEF HoldsReserve
<1>16. OneReserve'
  BY <1>1, <1>14, <1>15 DEF OneReserve, IInv
<1> QED
  BY <1>1, <1>13, <1>16, OneRequest DEF IInv, TypeOK

-----------------------------------------------------------------------------

LEMMA InitIInv == Init => IInv
<1> SUFFICES ASSUME Init PROVE IInv
  OBVIOUS
<1> USE DEF Init
<1>1. ASSUME NEW r \in Requests
      PROVE  /\ io[r] = NoIo /\ irp[r] = NoIrp /\ assoc[r] = <<>> /\ moved[r] = <<>>
             /\ master[r] = "none" /\ Runs(r) = {} /\ InFlight(r) = {}
  BY DEF Runs, InFlight, NoIo
<1>2. NoIo \in Locals
  BY DEF NoIo, Locals, Places
<1>3. NoIrp \in MasterIrps
  <2> DEFINE infos == Nat \cup {Pages(shape) : shape \in Shapes}
  <2>1. 0 \in infos
    OBVIOUS
  <2>2. MasterIrps = [irpCount : Nat, status : {"ok", "error"},
                      completed : {0, 1}, information : infos]
    BY DEF MasterIrps
  <2> HIDE DEF infos
  <2>3. QED
    BY <2>1, <2>2 DEF NoIrp
<1>4. TypeOK
  BY <1>1, <1>2, <1>3 DEF TypeOK, IrpPlaces
<1>5. CompletedIsOver /\ CountIsPieces
  BY <1>1 DEF CompletedIsOver, CountIsPieces, NoIo, NoIrp
<1>6. OneReserve
  BY <1>1 DEF OneReserve, HoldsReserve, NoIo
<1>7. ASSUME NEW r \in Requests PROVE RequestInv(r)
  BY <1>1 DEF RequestInv, CountKeepsMaster, MasterAlone, IdleIsNew, ReserveMarked,
              RunAtHand, RunsBehind, NoIo, NoIrp, Looping
<1>8. QED
  BY <1>4, <1>5, <1>6, <1>7 DEF IInv

LEMMA StutterStep ==
    ASSUME IInv, UNCHANGED vars
    PROVE  IInv'
<1> USE DEF vars
<1>1. ASSUME NEW q \in Requests PROVE RequestOK(q)'
  BY RequestsOK, Frame
<1>2. TypeOK'
  BY DEF IInv, TypeOK, Runs
<1>3. OneReserve'
  BY DEF IInv, OneReserve, HoldsReserve
<1>4. QED
  BY <1>1, <1>2, <1>3 DEF IInv, RequestOK, CompletedIsOver, CountIsPieces

LEMMA StepIInv == IInv /\ [Next]_vars => IInv'
<1> SUFFICES ASSUME IInv, [Next]_vars PROVE IInv'
  OBVIOUS
<1>1. CASE UNCHANGED vars
  BY <1>1, StutterStep
<1>2. ASSUME NEW r \in Requests, NEW shape \in Shapes, Begin(r, shape) PROVE IInv'
  BY <1>2, BeginStep
<1>3. ASSUME NEW r \in Requests, Thread(r) PROVE IInv'
  BY <1>3, SendAssociatedStep, ReuseMasterStep, NeedReserveStep, TakeReserveStep,
     SendMasterStep, PieceReturnsStep, FinishStep DEF Thread
<1>4. ASSUME NEW r \in Requests, Disk(r) PROVE IInv'
  BY <1>4, AssociatedDoneStep, AssociatedFailsStep, AssociatedReturnsStep,
     MasterDoneStep, MasterFailsStep, SingleReturnsStep DEF Disk
<1>5. QED
  BY <1>1, <1>2, <1>3, <1>4 DEF Next

\* The invariant of FatPagingFileIo: the count of the master against the IRPs
\* that are out, the master out alone, and the pages behind the loop.
THEOREM Invariant == Spec => []IInv
BY InitIInv, StepIInv, PTL DEF Spec

\* Every variable keeps its type; the counts of an IRP never fall below 0.
THEOREM TypeCorrect == Spec => []TypeOK
<1>1. IInv => TypeOK
  BY DEF IInv
<1>2. QED
  BY <1>1, Invariant, PTL

\* A request is completed once, when no piece of it is out and its thread will
\* not look at it again, for any number of requests, runs and pages and however
\* memory and the disk fail.
THEOREM CompletedOnce == Spec => []CompletedIsOver
<1>1. IInv => CompletedIsOver
  BY DEF IInv
<1>2. QED
  BY <1>1, Invariant, PTL

\* The IrpCount of the master is what is out and what is still to be sent.
THEOREM CountHolds == Spec => []CountIsPieces
<1>1. IInv => CountIsPieces
  BY DEF IInv
<1>2. QED
  BY <1>1, Invariant, PTL

\* The reserve MDL of the driver never describes two requests at a time.
THEOREM ReserveExclusive == Spec => []OneReserve
<1>1. IInv => OneReserve
  BY DEF IInv
<1>2. QED
  BY <1>1, Invariant, PTL

-----------------------------------------------------------------------------
(* FatPagingFileIo implements PagedTransfer *)

phases == [r \in Requests |-> Phase(r)]
shapes == [r \in Requests |-> io[r].shape]

\* The phases of a request, as the invariant leaves them.
LEMMA PhaseFacts ==
    ASSUME IInv, NEW r \in Requests
    PROVE  /\ io[r].pc = "idle" => Phase(r) = "free"
           /\ io[r].pc # "idle" /\ irp[r].completed = 0 => Phase(r) = "busy"
           /\ io[r].pc # "idle" /\ irp[r].completed = 1 => Phase(r) = irp[r].status
           /\ irp[r].completed \in {0, 1} /\ irp[r].status \in {"ok", "error"}
           /\ irp[r].completed = 1 => io[r].pc # "idle"
<1>1. irp[r] \in MasterIrps
  BY DEF IInv, TypeOK
<1>2. irp[r].completed \in {0, 1} /\ irp[r].status \in {"ok", "error"}
  BY <1>1 DEF MasterIrps
<1>3. irp[r].completed = 1 => io[r].pc # "idle"
  BY DEF IInv, RequestInv, IdleIsNew
<1>4. io[r].pc = "idle" => Phase(r) = "free"
  BY DEF Phase
<1>5. io[r].pc # "idle" /\ irp[r].completed = 0 => Phase(r) = "busy"
  BY DEF Phase
<1>6. ASSUME io[r].pc # "idle", irp[r].completed = 1 PROVE Phase(r) = irp[r].status
  BY <1>6 DEF Phase
<1> QED
  BY <1>2, <1>3, <1>4, <1>5, <1>6

\* A step of r leaves what the memory manager sees of the other requests.
LEMMA OthersSee ==
    ASSUME NEW r \in Requests, \A q \in Requests \ {r} : io'[q] = io[q] /\ irp'[q] = irp[q]
    PROVE  /\ phases' = [phases EXCEPT ![r] = Phase(r)']
           /\ shapes' = [shapes EXCEPT ![r] = io'[r].shape]
<1>1. \A q \in Requests \ {r} : Phase(q)' = Phase(q)
  BY DEF Phase
<1> QED
  BY <1>1 DEF phases, shapes

LEMMA QuietStep ==
    ASSUME IInv, IInv', NEW r \in Requests,
           \A q \in Requests \ {r} : io'[q] = io[q] /\ irp'[q] = irp[q],
           io'[r].shape = io[r].shape,
           irp'[r].completed = irp[r].completed,
           irp'[r].completed = 1 => irp'[r].status = irp[r].status,
           moved' = moved
    PROVE  UNCHANGED <<phases, shapes, moved>>
<1>1. io'[r].pc = "idle" <=> io[r].pc = "idle"
  BY DEF IInv, RequestInv, IdleIsNew
<1>2. Phase(r)' = Phase(r)
  BY <1>1 DEF Phase
<1> QED
  BY <1>2, OthersSee DEF phases, shapes

\* Where a request succeeds, all its pages are transferred.
LEMMA CompleteStep ==
    ASSUME IInv, IInv', NEW r \in Requests,
           \A q \in Requests \ {r} : io'[q] = io[q] /\ irp'[q] = irp[q],
           io[r].pc # "idle", io'[r].shape = io[r].shape,
           irp[r].completed = 0, irp'[r].completed = 1,
           moved' = moved
    PROVE  Transfer!Complete(r)
<1>1. io'[r].pc # "idle"
  BY DEF IInv, RequestInv, IdleIsNew
<1>2. phases[r] = "busy"
  BY PhaseFacts DEF phases
<1>3. Phase(r)' = irp'[r].status /\ irp'[r].status \in {"ok", "error"}
  <2>1. irp'[r] \in MasterIrps
    BY DEF IInv, TypeOK
  <2>2. irp'[r].status \in {"ok", "error"}
    BY <2>1 DEF MasterIrps
  <2>3. QED
    BY <1>1, <2>2 DEF Phase
<1>4. phases' = [phases EXCEPT ![r] = irp'[r].status] /\ shapes' = shapes
  BY <1>3, OthersSee DEF shapes
<1>5. irp'[r].status = "ok" => moved[r] = shapes[r]
  <2> SUFFICES ASSUME irp'[r].status = "ok" PROVE moved[r] = io[r].shape
    BY DEF shapes
  <2>1. /\ InFlight(r)' = {} /\ master'[r] = "none" /\ io'[r].pc \in {"end", "return"}
        /\ RunsBehind(r)'
        /\ moved'[r] \in [Runs(r)' -> Nat] /\ io'[r] \in Locals
    BY DEF IInv, CompletedIsOver, TypeOK, RequestInv
  <2>2. \A k \in Runs(r)' : moved'[r][k] = io'[r].shape[k]
    BY <2>1 DEF RunsBehind, InFlight
  <2>3. moved[r] \in [DOMAIN io[r].shape -> Nat]
    BY <2>1 DEF Runs
  <2>4. \A k \in DOMAIN io[r].shape : moved[r][k] = io[r].shape[k]
    BY <2>2 DEF Runs
  <2>5. io[r].shape = [k \in DOMAIN io[r].shape |-> io[r].shape[k]]
    <3>1. CASE io[r].shape = <<>>
      BY <3>1
    <3>2. CASE io[r].shape \in Seq(Nat \ {0})
      BY <3>2
    <3>3. QED
      BY <3>1, <3>2, ShapeAssumption DEF IInv, TypeOK, Locals
  <2>6. QED
    BY <2>3, <2>4, <2>5
<1> QED
  BY <1>2, <1>3, <1>4, <1>5 DEF Transfer!Complete, phases, shapes

LEMMA MoveStep ==
    ASSUME IInv, IInv', NEW r \in Requests, NEW k \in Runs(r), NEW p,
           \A q \in Requests \ {r} : io'[q] = io[q] /\ irp'[q] = irp[q],
           io[r].pc # "idle", io'[r].shape = io[r].shape,
           irp[r].completed = 0, irp'[r].completed = 0,
           moved' = [moved EXCEPT ![r][k] = p], moved[r][k] <= p
    PROVE  Transfer!Move(r, k)
<1>1. io'[r].pc # "idle"
  BY DEF IInv, RequestInv, IdleIsNew
<1>2. phases[r] = "busy"
  BY PhaseFacts DEF phases
<1>3. Phase(r)' = "busy"
  BY <1>1 DEF Phase
<1>4. phases' = phases /\ shapes' = shapes
  <2>1. phases = [phases EXCEPT ![r] = "busy"] /\ shapes = [shapes EXCEPT ![r] = io[r].shape]
    BY <1>2 DEF phases, shapes
  <2>2. QED
    BY <1>3, <2>1, OthersSee
<1>5. p \in moved[r][k]..shapes[r][k]
  <2>1. moved'[r][k] = p
    BY DEF IInv, TypeOK
  <2>2. /\ moved[r] \in [Runs(r) -> Nat] /\ moved'[r] \in [Runs(r)' -> Nat]
        /\ Runs(r)' = Runs(r)
    BY DEF IInv, TypeOK, Runs
  <2>3. p \in Nat /\ moved[r][k] \in Nat
    BY <2>1, <2>2
  <2>4. p <= io[r].shape[k]
    BY <2>1, <2>2 DEF IInv, RequestInv, RunsBehind
  <2>5. io[r].shape[k] \in Nat
    BY RunsFacts DEF IInv, TypeOK
  <2>6. QED
    BY <2>3, <2>4, <2>5 DEF shapes
<1> QED
  BY <1>2, <1>4, <1>5 DEF Transfer!Move, phases, shapes

LEMMA BeginRefines ==
    ASSUME IInv, NEW r \in Requests, NEW shape \in Shapes, Begin(r, shape)
    PROVE  Transfer!Begin(r)
<1>1. phases[r] # "busy"
  BY PhaseFacts DEF Begin, phases
<1>2. /\ io' = [io EXCEPT ![r] = io'[r]] /\ irp' = [irp EXCEPT ![r] = irp'[r]]
      /\ io'[r].pc # "idle" /\ io'[r].shape = shape /\ irp'[r].completed = 0
  BY DEF Begin, IInv, TypeOK, NoIo, NoIrp
<1>3. \A q \in Requests \ {r} : io'[q] = io[q] /\ irp'[q] = irp[q]
  BY <1>2 DEF IInv, TypeOK
<1>4. /\ phases' = [phases EXCEPT ![r] = "busy"]
      /\ shapes' = [shapes EXCEPT ![r] = shape]
  BY <1>2, <1>3, OthersSee DEF Phase
<1> QED
  BY <1>1, <1>4 DEF Begin, Transfer!Begin, Transfer!Nothing, phases, shapes

\* A request keeps its runs until it is begun anew.
LEMMA ShapeKept ==
    ASSUME IInv, NEW r \in Requests,
           \/ SendAssociated(r) \/ ReuseMaster(r) \/ NeedReserve(r)
           \/ TakeReserve(r) \/ SendMaster(r) \/ PieceReturns(r)
    PROVE  io'[r].shape = io[r].shape
<1>1. io[r] \in Locals /\ RequestInv(r)
  BY DEF IInv, TypeOK
<1>2. \A o \in Locals : Advance(o).shape = o.shape
  BY DEF Advance, Locals
<1>3. CASE SendAssociated(r)
  <2> DEFINE o == [io[r] EXCEPT !.next = io[r].left, !.irpCount = io[r].irpCount - 1]
  <2>1. io'[r] = Advance(o)
    BY <1>3 DEF SendAssociated, IInv, TypeOK
  <2>2. o.shape = io[r].shape
    BY <1>1 DEF Locals
  <2>3. Advance(o).shape = o.shape
    BY <1>1 DEF Advance, Locals
  <2>4. QED
    BY <2>1, <2>2, <2>3
<1>4. CASE PieceReturns(r)
  BY <1>1, <1>2, <1>4 DEF PieceReturns, IInv, TypeOK, Locals
<1>5. CASE ReuseMaster(r) \/ NeedReserve(r) \/ TakeReserve(r) \/ SendMaster(r)
  BY <1>1, <1>5 DEF ReuseMaster, NeedReserve, TakeReserve, SendMaster, IInv, TypeOK,
                    Locals
<1> QED
  BY <1>3, <1>4, <1>5

\* Every step of FatPagingFileIo, the disk and the completion routines is one
\* of the memory manager's view, or none.
LEMMA StepMaps ==
    ASSUME IInv, IInv', [Next]_vars
    PROVE  [Transfer!Step]_<<phases, shapes, moved>>
<1>1. CASE UNCHANGED vars
  BY <1>1 DEF vars, phases, shapes, Phase
<1>2. ASSUME NEW r \in Requests, NEW shape \in Shapes, Begin(r, shape)
      PROVE  Transfer!Step
  BY <1>2, BeginRefines DEF Transfer!Step
<1>3. ASSUME NEW r \in Requests,
             \/ SendAssociated(r) \/ ReuseMaster(r) \/ NeedReserve(r)
             \/ TakeReserve(r) \/ SendMaster(r) \/ PieceReturns(r)
      PROVE  UNCHANGED <<phases, shapes, moved>>
  <2>1. /\ io' = [io EXCEPT ![r] = io'[r]] /\ irp' = irp /\ moved' = moved
    BY <1>3 DEF SendAssociated, ReuseMaster, NeedReserve, TakeReserve, SendMaster,
                PieceReturns, IInv, TypeOK
  <2>2. io'[r].shape = io[r].shape
    BY <1>3, ShapeKept
  <2>3. \A q \in Requests \ {r} : io'[q] = io[q]
    BY <2>1 DEF IInv, TypeOK
  <2>4. QED
    BY <2>1, <2>2, <2>3, QuietStep
<1>4. ASSUME NEW r \in Requests, Finish(r)
      PROVE  Transfer!Step \/ UNCHANGED <<phases, shapes, moved>>
  <2>1. /\ io' = [io EXCEPT ![r].pc = "return"] /\ moved' = moved
        /\ io[r].pc = "end"
        /\ \/ irp' = irp
           \/ /\ io[r].irpCount # 0
              /\ irp' = [irp EXCEPT ![r].completed = @ + 1]
    BY <1>4 DEF Finish
  <2>2. /\ io'[r].shape = io[r].shape
        /\ \A q \in Requests \ {r} : io'[q] = io[q] /\ irp'[q] = irp[q]
    BY <2>1 DEF IInv, TypeOK
  <2>3. CASE irp' = irp
    BY <2>1, <2>2, <2>3, QuietStep
  <2>4. CASE io[r].irpCount # 0 /\ irp' = [irp EXCEPT ![r].completed = @ + 1]
    <3>1. irp[r].completed = 0
      <4>1. irp[r].completed \in {0, 1}
        BY PhaseFacts
      <4>2. QED
        BY <2>1, <2>4, <4>1 DEF IInv, CompletedIsOver
    <3>2. irp'[r].completed = 1
      BY <2>4, <3>1 DEF IInv, TypeOK, MasterIrps
    <3>3. QED
      BY <2>1, <2>2, <3>1, <3>2, CompleteStep DEF Transfer!Step
  <2>5. QED
    BY <2>1, <2>3, <2>4
<1>5. ASSUME NEW r \in Requests, NEW k \in Runs(r), AssociatedDone(r, k)
      PROVE  Transfer!Step
  <2>1. /\ io' = io /\ irp' = irp /\ assoc[r][k] = "disk"
        /\ moved' = [moved EXCEPT ![r][k] = io[r].shape[k]]
    BY <1>5 DEF AssociatedDone
  <2>2. irp[r].completed = 0 /\ io[r].pc # "idle"
    BY <2>1, OutFacts
  <2>3. moved[r][k] <= io[r].shape[k]
    BY DEF IInv, RequestInv, RunsBehind
  <2>4. Transfer!Move(r, k)
    BY <2>1, <2>2, <2>3, MoveStep
  <2>5. QED
    BY <2>4 DEF Transfer!Step, Runs
<1>6. ASSUME NEW r \in Requests, NEW k \in Runs(r), AssociatedFails(r, k)
      PROVE  UNCHANGED <<phases, shapes, moved>>
  <2>1. /\ io' = io /\ moved' = moved /\ assoc[r][k] = "disk"
        /\ irp' = [irp EXCEPT ![r].status = "error", ![r].information = 0]
    BY <1>6 DEF AssociatedFails
  <2>2. irp[r].completed = 0
    BY <2>1, OutFacts
  <2>3. irp[r] \in MasterIrps
    BY DEF IInv, TypeOK
  <2>4. irp'[r].completed = 0
    BY <2>1, <2>2, <2>3 DEF IInv, TypeOK, MasterIrps
  <2>5. \A q \in Requests \ {r} : io'[q] = io[q] /\ irp'[q] = irp[q]
    BY <2>1 DEF IInv, TypeOK
  <2>6. /\ io'[r].shape = io[r].shape /\ moved' = moved
        /\ irp'[r].completed = irp[r].completed
        /\ irp'[r].completed = 1 => irp'[r].status = irp[r].status
    BY <2>1, <2>2, <2>4
  <2>7. QED
    BY <2>5, <2>6, QuietStep
<1>7. ASSUME NEW r \in Requests, NEW k \in Runs(r), AssociatedReturns(r, k)
      PROVE  Transfer!Step \/ UNCHANGED <<phases, shapes, moved>>
  <2>1. /\ io' = io /\ moved' = moved /\ assoc[r][k] = "back"
        /\ irp' = [irp EXCEPT ![r].irpCount = @ - 1,
                     ![r].completed = IF irp[r].irpCount = 1 THEN @ + 1 ELSE @]
    BY <1>7 DEF AssociatedReturns
  <2>2. irp[r].completed = 0 /\ io[r].pc # "idle"
    BY <2>1, OutFacts
  <2>3. /\ irp'[r].completed = IF irp[r].irpCount = 1 THEN 1 ELSE 0
        /\ irp'[r].status = irp[r].status
        /\ \A q \in Requests \ {r} : irp'[q] = irp[q]
    BY <2>1, <2>2 DEF IInv, TypeOK, MasterIrps
  <2>4. CASE irp[r].irpCount = 1
    BY <2>1, <2>2, <2>3, <2>4, CompleteStep DEF Transfer!Step
  <2>5. CASE irp[r].irpCount # 1
    BY <2>1, <2>2, <2>3, <2>5, QuietStep
  <2>6. QED
    BY <2>4, <2>5
<1>8. ASSUME NEW r \in Requests, MasterDone(r)
      PROVE  Transfer!Step
  <2> DEFINE pages == IF io[r].pc = "piece" THEN io[r].next ELSE io[r].left
             run == io[r].run
  <2>1. /\ io' = io /\ master[r] = "disk"
        /\ moved' = [moved EXCEPT ![r][run] = moved[r][run] + pages]
        /\ irp' = [irp EXCEPT ![r].status = "ok", ![r].information = pages]
    BY <1>8 DEF MasterDone
  <2>2. /\ irp[r].completed = 0 /\ io[r].pc # "idle" /\ run \in Runs(r)
        /\ pages \in Nat /\ moved[r][run] \in Nat
    BY <2>1, MasterOutFacts
  <2>3. /\ irp'[r].completed = 0
        /\ \A q \in Requests \ {r} : irp'[q] = irp[q]
    <3> HIDE DEF pages
    <3> QED
      BY <2>1, <2>2 DEF IInv, TypeOK, MasterIrps
  <2>4. Transfer!Move(r, run)
    <3>1. /\ \A q \in Requests \ {r} : io'[q] = io[q] /\ irp'[q] = irp[q]
          /\ io'[r].shape = io[r].shape
          /\ moved' = [moved EXCEPT ![r][run] = moved[r][run] + pages]
      BY <2>1, <2>3
    <3>2. moved[r][run] <= moved[r][run] + pages
      <4> HIDE DEF pages, run
      <4> QED
        BY <2>2
    <3> HIDE DEF pages, run
    <3> QED
      BY <2>2, <2>3, <3>1, <3>2, MoveStep
  <2>5. QED
    BY <2>2, <2>4 DEF Transfer!Step, Runs
<1>9. ASSUME NEW r \in Requests, MasterFails(r)
      PROVE  UNCHANGED <<phases, shapes, moved>>
  <2>1. /\ io' = io /\ moved' = moved /\ master[r] = "disk"
        /\ irp' = [irp EXCEPT ![r].status = "error", ![r].information = 0]
    BY <1>9 DEF MasterFails
  <2>2. irp[r].completed = 0
    BY <2>1, MasterOutFacts
  <2>3. irp[r] \in MasterIrps
    BY DEF IInv, TypeOK
  <2>4. irp'[r].completed = 0
    BY <2>1, <2>2, <2>3 DEF IInv, TypeOK, MasterIrps
  <2>5. \A q \in Requests \ {r} : io'[q] = io[q] /\ irp'[q] = irp[q]
    BY <2>1 DEF IInv, TypeOK
  <2>6. /\ io'[r].shape = io[r].shape /\ moved' = moved
        /\ irp'[r].completed = irp[r].completed
        /\ irp'[r].completed = 1 => irp'[r].status = irp[r].status
    BY <2>1, <2>2, <2>4
  <2>7. QED
    BY <2>5, <2>6, QuietStep
<1>10. ASSUME NEW r \in Requests, SingleReturns(r)
       PROVE  Transfer!Step
  <2>1. /\ io' = io /\ moved' = moved /\ master[r] = "back" /\ io[r].pc = "return"
        /\ irp' = [irp EXCEPT ![r].completed = @ + 1]
    BY <1>10 DEF SingleReturns
  <2>2. irp[r].completed = 0
    BY <2>1 DEF IInv, RequestInv, MasterAlone
  <2>3. /\ irp'[r].completed = 1
        /\ \A q \in Requests \ {r} : irp'[q] = irp[q]
    BY <2>1, <2>2 DEF IInv, TypeOK, MasterIrps
  <2>4. QED
    BY <2>1, <2>2, <2>3, CompleteStep DEF Transfer!Step
<1>11. QED
  BY <1>1, <1>2, <1>3, <1>4, <1>5, <1>6, <1>7, <1>8, <1>9, <1>10
  DEF Next, Thread, Disk

\* FatPagingFileIo implements PagedTransfer: whatever memory, the disk and the
\* other requests do, a request is completed once, and successfully only with
\* every page of every run transferred.
THEOREM PromiseKept == Spec => Promise
<1>1. Init => Transfer!Start
  BY DEF Init, Transfer!Start, Phase, NoIo
<1>2. IInv /\ IInv' /\ [Next]_vars =>
         [Transfer!Step]_<<[r \in Requests |-> Phase(r)],
                           [r \in Requests |-> io[r].shape], moved>>
  BY StepMaps DEF phases, shapes
<1>3. QED
  BY <1>1, <1>2, Invariant, PTL DEF Spec, Promise, Transfer!Spec
=============================================================================
