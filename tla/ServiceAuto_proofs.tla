------------------------- MODULE ServiceAuto_proofs -------------------------
(***************************************************************************)
(* The safety of ServiceAuto, proved for every number of block kinds, every *)
(* set of values, names and requests, and every bound.                     *)
(***************************************************************************)
EXTENDS ServiceAutoInv, TLAPS

---------------------------------------------------------------------------
(* Types.                                                                  *)

\* What a handler holds, without the remote side and the bookkeeping.
LocalTypeOK ==
    /\ config \in Requests
    /\ state \in State
    /\ pc \in Steps
    /\ op \in {"none", "create", "update", "delete"}
    /\ plan \in Request
    /\ sid \in 0 .. MaxServices
    /\ source \in 0 .. MaxVersions
    /\ target \in 0 .. MaxVersions
    /\ step \in 1 .. NumBlocks + 1
    /\ seen \in [version: 0 .. MaxVersions, active: BOOLEAN, name: Names]

BookTypeOK ==
    /\ faults \in 0 .. MaxFaults
    /\ edits \in 0 .. MaxEdits
    /\ rescues \in 0 .. MaxRescues
    /\ foreign \in 0 .. MaxForeign
    /\ requested \in SUBSET Config
    /\ theirs \in [Services -> SUBSET Versions]
    /\ adrift \in SUBSET Services
    /\ clones \in Nat

\* The values that stand for nothing are values of their types.
LEMMA Defaults ==
    /\ AnyName \in Names
    /\ EmptyConfig \in Config
    /\ EmptyConfig \in Content
    /\ NoState \in State
    /\ NoDetails \in [version: 0 .. MaxVersions, active: BOOLEAN, name: Names]
<1>1. AnyName \in Names
  BY FastlyAssumption DEF AnyName
<1>2. EmptyConfig \in Config
  BY FastlyAssumption DEF EmptyConfig, Config
<1>3. EmptyConfig \in Content
  BY FastlyAssumption DEF EmptyConfig, Content
<1>4. NoState \in State
  BY <1>1, <1>3, FastlyAssumption DEF NoState, State
<1>5. NoDetails \in [version: 0 .. MaxVersions, active: BOOLEAN, name: Names]
  BY <1>1, FastlyAssumption DEF NoDetails
<1>. QED  BY <1>1, <1>2, <1>3, <1>4, <1>5

\* Every configuration is the content of some version.
LEMMA ConfigIsContent == Config \subseteq Content
  BY DEF Config, Content

\* Every call leaves the remote side well typed.
LEMMA CallsTyped ==
    ASSUME RemoteTypeOK, NEW s \in Services
    PROVE  /\ \A name \in Names : /\ CreateServiceCall(s, name) => RemoteTypeOK'
                                  /\ UpdateServiceCall(s, name) => RemoteTypeOK'
           /\ \A c \in Content, n \in Nat :
                  latest[s] + n <= MaxVersions /\ AppendDrafts(s, c, n) => RemoteTypeOK'
           /\ \A v \in Versions, b \in Blocks, x \in Values \cup {Partial} :
                  WriteBlockCall(s, v, b, x) => RemoteTypeOK'
           /\ \A v \in Versions : ActivateVersionCall(s, v) => RemoteTypeOK'
           /\ DeactivateVersionCall(s) => RemoteTypeOK'
           /\ DeleteServiceCall(s) => RemoteTypeOK'
<1>. USE FastlyAssumption DEF RemoteTypeOK
<1>1. ASSUME NEW name \in Names PROVE CreateServiceCall(s, name) => RemoteTypeOK'
  BY DEF CreateServiceCall
<1>2. ASSUME NEW name \in Names PROVE UpdateServiceCall(s, name) => RemoteTypeOK'
  BY DEF UpdateServiceCall
<1>3. ASSUME NEW c \in Content, NEW n \in Nat, latest[s] + n <= MaxVersions,
             AppendDrafts(s, c, n)
      PROVE  RemoteTypeOK'
  <2>1. latest' \in [Services -> 0 .. MaxVersions]
    BY <1>3 DEF AppendDrafts
  <2>2. content' \in [Services -> [Versions -> Content]]
    BY <1>3 DEF AppendDrafts
  <2>. QED  BY <1>3, <2>1, <2>2 DEF AppendDrafts
<1>4. ASSUME NEW v \in Versions, NEW b \in Blocks, NEW x \in Values \cup {Partial}
      PROVE  WriteBlockCall(s, v, b, x) => RemoteTypeOK'
  BY DEF WriteBlockCall, Content
<1>5. ASSUME NEW v \in Versions PROVE ActivateVersionCall(s, v) => RemoteTypeOK'
  BY DEF ActivateVersionCall, Versions
<1>6. DeactivateVersionCall(s) => RemoteTypeOK'
  BY DEF DeactivateVersionCall
<1>7. DeleteServiceCall(s) => RemoteTypeOK'
  BY DEF DeleteServiceCall
<1>. QED  BY <1>1, <1>2, <1>3, <1>4, <1>5, <1>6, <1>7

\* However a handler ends or goes on, what it holds stays well typed.
LEMMA EndingsTyped ==
    ASSUME LocalTypeOK
    PROVE  /\ \A st \in State : Finish(st) => LocalTypeOK'
           /\ Fail => LocalTypeOK'
           /\ Forgotten => LocalTypeOK'
           /\ \A next \in Steps : Goto(next) => LocalTypeOK'
           /\ \A next \in Steps, handler \in {"update", "delete"} :
                  Enter(handler, next) => LocalTypeOK'
<1>. USE FastlyAssumption, AutoAssumption, Defaults DEF LocalTypeOK
<1>1. ASSUME NEW t \in State, Finish(t) PROVE LocalTypeOK'
  BY <1>1 DEF Finish, Steps
<1>2. Fail => LocalTypeOK'
  <2>1. PartialCreateState \in State
    BY DEF PartialCreateState, State, Request
  <2>. QED  BY <1>1, <2>1 DEF Fail
<1>3. Forgotten => LocalTypeOK'
  BY <1>1 DEF Forgotten, Steps
<1>4. ASSUME NEW next \in Steps, Goto(next) PROVE LocalTypeOK'
  BY <1>4 DEF Goto
<1>5. ASSUME NEW next \in Steps, NEW handler \in {"update", "delete"},
             Enter(handler, next)
      PROVE  LocalTypeOK'
  BY <1>5 DEF Enter
<1>. QED  BY <1>1, <1>2, <1>3, <1>4, <1>5

\* The successful handlers store the plan with the versions they arrived at.
LEMMA FullStateTyped ==
    ASSUME LocalTypeOK, NEW id \in 0 .. MaxServices,
           NEW v \in 0 .. MaxVersions, NEW w \in 0 .. MaxVersions
    PROVE  FullState(id, v, w) \in State
BY ConfigIsContent DEF LocalTypeOK, FullState, State, Request

\* TypeOK is the types of the services, of the handler and of the bookkeeping.
LEMMA TypeParts == TypeOK <=> RemoteTypeOK /\ LocalTypeOK /\ BookTypeOK
BY DEF TypeOK, LocalTypeOK, BookTypeOK

\* Terraform starts with well typed values and no resource.
LEMMA TypeInit == Init => TypeOK
<1>. SUFFICES ASSUME Init PROVE TypeOK
  OBVIOUS
<1>. USE FastlyAssumption, AutoAssumption, Defaults DEF Init
<1>1. RemoteTypeOK
  BY DEF RemoteTypeOK, RemoteInit, Content
<1>2. LocalTypeOK
  BY DEF LocalTypeOK, Steps
<1>3. BookTypeOK
  BY DEF BookTypeOK
<1>. QED  BY <1>1, <1>2, <1>3, TypeParts

\* One step of the apply, the user or the operator keeps the bookkeeping typed.
LEMMA BookTypeStep == IInv /\ [Next]_vars => BookTypeOK'
<1>. SUFFICES ASSUME TypeOK, Control, [Next]_vars PROVE BookTypeOK'
  BY DEF IInv
<1>. USE FastlyAssumption, AutoAssumption, TypeParts DEF BookTypeOK, LocalTypeOK
<1>1. CASE UNCHANGED vars
  BY <1>1 DEF vars, counters, history
<1>2. CASE Apply
  BY <1>2 DEF Apply, BeginApply, ReadDetails, ReadBlocks, MakePlan,
     CreateService, CreateServiceRejected, UpdateMetadata, UpdateMetadataFails,
     SelectSource, CloneVersion, CloneVersionFails, ReconcileBlock,
     ReconcileBlockFails, ValidateVersion, ActivateVersion, ActivateVersionFails,
     DeleteDetails, ReleaseInactive, Deactivate, DeactivateFails, DeleteService,
     DeleteServiceFails, FailRead, Quiet, Fault, NoFault, history, counters,
     Request, Control, Deleting, Updating, Refreshing
<1>3. CASE User
  <2>1. CASE EditConfig \/ Untaint
    BY <2>1 DEF EditConfig, Untaint, history
  <2>2. CASE ImportState
    BY <2>2 DEF ImportState, Request
  <2>3. CASE Crash
    BY <2>3 DEF Crash, Fault, Control, Tracked
  <2>. QED  BY <1>3, <2>1, <2>2, <2>3 DEF User
<1>4. CASE Operator
  <2>1. CASE ForeignDraft
    <3>1. PICK s \in Services : latest[s] < MaxVersions
                 /\ theirs' = [theirs EXCEPT ![s] = @ \cup {latest[s] + 1}]
      BY <2>1 DEF ForeignDraft
    <3>2. latest[s] + 1 \in Versions
      <4>1. latest[s] \in 0 .. MaxVersions
        BY DEF RemoteTypeOK
      <4>. QED  BY <3>1, <4>1 DEF Versions
    <3>3. theirs \in [Services -> SUBSET Versions]
      OBVIOUS
    <3>4. theirs[s] \cup {latest[s] + 1} \in SUBSET Versions
      BY <3>2, <3>3
    <3>5. theirs' \in [Services -> SUBSET Versions]
      BY ONLY <3>1, <3>3, <3>4
    <3>. QED  BY <2>1, <3>5 DEF ForeignDraft, ForeignStep
  <2>2. CASE ForeignActivate \/ ForeignDeactivate \/ ForeignDelete \/ ForeignRename
    BY <2>2 DEF ForeignStep, ForeignActivate, ForeignDeactivate, ForeignDelete,
       ForeignRename
  <2>. QED  BY <1>4, <2>1, <2>2 DEF Operator
<1>. QED  BY <1>1, <1>2, <1>3, <1>4 DEF Next

\* ... and what the handler holds.
LEMMA LocalTypeStep == IInv /\ [Next]_vars => LocalTypeOK'
<1>. SUFFICES ASSUME TypeOK, Control, HeldVersions, Progress, [Next]_vars
              PROVE  LocalTypeOK'
  BY DEF IInv
<1>0. RemoteTypeOK /\ LocalTypeOK
  BY TypeParts
<1>. USE FastlyAssumption, AutoAssumption, Defaults, EndingsTyped, <1>0
<1>1. state \in State /\ plan \in Request /\ NoState \in State
  BY DEF LocalTypeOK
<1>2. CASE UNCHANGED vars
  BY <1>2 DEF vars, local, LocalTypeOK
<1>3. CASE BeginApply
  BY <1>3 DEF BeginApply, LocalTypeOK, State, Steps
<1>4. CASE ReadDetails
  <2>1. ASSUME Live(sid), seen' = [version |-> SelectReadVersion(sid),
                     active |-> active[sid] # 0, name |-> meta[sid]],
               pc = "refresh"
        PROVE  seen' \in [version: 0 .. MaxVersions, active: BOOLEAN, name: Names]
    BY <2>1 DEF Control, SelectReadVersion, RemoteTypeOK, Refreshing
  <2>2. QED
    BY <1>1, <1>4, <2>1 DEF ReadDetails, FailRead, LocalTypeOK, Steps
<1>5. CASE ReadBlocks
  <2>1. CASE FailRead
    BY <1>1, <2>1 DEF FailRead
  <2>2. CASE ~FailRead
    <3>1. sid \in Services /\ seen.version \in Versions
      <4>1. pc = "readBlocks" /\ latest[sid] \in 0 .. MaxVersions
        BY <1>5 DEF ReadBlocks, Control, RemoteTypeOK
      <4>. QED  BY <4>1 DEF HeldVersions, Control, RemoteTypeOK, Versions
    <3>2. content[sid][seen.version] \in Content
      BY <3>1 DEF RemoteTypeOK
    <3>3. state' = [state EXCEPT
              !.name = seen.name, !.cfg = content[sid][seen.version],
              !.managed = seen.version,
              !.active = IF seen.active THEN seen.version ELSE 0]
      BY <1>5, <2>2 DEF ReadBlocks
    <3>4. seen.version \in 0 .. MaxVersions /\ seen.name \in Names
      BY DEF LocalTypeOK
    <3>5. (IF seen.active THEN seen.version ELSE 0) \in 0 .. MaxVersions
      BY <3>4
    <3>6. state' \in State
      BY ONLY <1>1, <3>2, <3>3, <3>4, <3>5 DEF State
    <3>. QED  BY <1>5, <2>2, <3>6 DEF ReadBlocks, LocalTypeOK, Steps
  <2>. QED  BY <2>1, <2>2
<1>6. CASE MakePlan
  BY <1>1, <1>6 DEF MakePlan, Steps
<1>7. CASE CreateService \/ CreateServiceRejected
  BY <1>1, <1>7 DEF CreateService, CreateServiceRejected, LocalTypeOK, Steps, Services
<1>8. CASE UpdateMetadata
  <2>1. FullState(sid, state.managed, state.active) \in State
    BY <1>1, FullStateTyped DEF LocalTypeOK, State
  <2>. QED  BY <1>8, <2>1 DEF UpdateMetadata, Steps
<1>9. CASE UpdateMetadataFails \/ CloneVersionFails \/ ReconcileBlockFails
           \/ ActivateVersionFails \/ DeactivateFails \/ DeleteServiceFails
  BY <1>9 DEF UpdateMetadataFails, CloneVersionFails, ReconcileBlockFails,
     ActivateVersionFails, DeactivateFails, DeleteServiceFails, Steps
<1>10. CASE SelectSource
  BY <1>10 DEF SelectSource, SelectWorkingVersion, RemoteTypeOK, LocalTypeOK, Steps,
     Control, Updating
<1>11. CASE CloneVersion
  BY <1>11 DEF CloneVersion, RemoteTypeOK, LocalTypeOK, Steps, Control, Updating
<1>12. CASE ReconcileBlock
  BY <1>12 DEF ReconcileBlock, LocalTypeOK, Steps, Progress, Blocks
<1>13. CASE ValidateVersion
  BY <1>13 DEF ValidateVersion, Steps
<1>14. CASE ActivateVersion
  <2>1. FullState(sid, target, target) \in State
    BY FullStateTyped DEF LocalTypeOK
  <2>. QED  BY <1>14, <2>1 DEF ActivateVersion
<1>15. CASE DeleteDetails
  BY <1>15 DEF DeleteDetails, RemoteTypeOK, LocalTypeOK, Steps, Control, Deleting
<1>16. CASE ReleaseInactive \/ Deactivate \/ DeleteService
  BY <1>16 DEF ReleaseInactive, Deactivate, DeleteService, Steps
<1>17. CASE EditConfig
  BY <1>17 DEF EditConfig, LocalTypeOK
<1>18. CASE ImportState
  BY <1>18 DEF ImportState, LocalTypeOK, State, Steps, RemoteTypeOK, Services
<1>19. CASE Untaint
  BY <1>1, <1>19 DEF Untaint, LocalTypeOK, State
<1>20. CASE Crash
  BY <1>1, <1>20 DEF Crash
<1>21. CASE Operator
  BY <1>21 DEF Operator, ForeignDraft, ForeignActivate, ForeignDeactivate,
     ForeignDelete, ForeignRename, ForeignStep, local, LocalTypeOK
<1>. QED
  BY <1>2, <1>3, <1>4, <1>5, <1>6, <1>7, <1>8, <1>9, <1>10, <1>11, <1>12, <1>13,
     <1>14, <1>15, <1>16, <1>17, <1>18, <1>19, <1>20, <1>21 DEF Next, Apply, User

---------------------------------------------------------------------------
(* What one step does to the services, whoever takes it.                   *)

\* A call of the handler or of the operator, with what is known of its
\* arguments; the operator's drafts are nobody else's.
RemoteStep ==
    \/ UNCHANGED <<remote, theirs>>
    \/ \E s \in Services :
        /\ UNCHANGED theirs
        /\ \/ \E n \in Names : Fresh(s) /\ CreateServiceCall(s, n)
           \/ \E n \in Names : UpdateServiceCall(s, n)
           \/ \E v \in 1 .. latest[s], n \in 1 .. 2 :
                /\ latest[s] + n <= MaxVersions
                /\ CloneVersionCall(s, v, n)
           \/ \E v \in (1 .. latest[s]) \ theirs[s], b \in Blocks,
                 x \in Values \cup {Partial} : WriteBlockCall(s, v, b, x)
           \/ \E v \in 1 .. latest[s] : Live(s) /\ ActivateVersionCall(s, v)
           \/ DeactivateVersionCall(s)
           \/ DeleteServiceCall(s)
    \/ \E s \in Services, c \in Foreign :
        /\ latest[s] + 1 <= MaxVersions
        /\ Live(s)
        /\ AppendDrafts(s, c, 1)
        /\ theirs' = [theirs EXCEPT ![s] = @ \cup {latest[s] + 1}]

\* Seen from the API, a step is one call or leaves the services alone.
LEMMA RemoteSteps == IInv /\ [Next]_vars => RemoteStep
<1>. SUFFICES ASSUME TypeOK, RemoteShape, Control, HeldVersions, Progress,
                     WorksOnItsOwnDraft, [Next]_vars
              PROVE  RemoteStep
  BY DEF IInv
<1>0. RemoteTypeOK /\ LocalTypeOK
  BY TypeParts
<1>. USE FastlyAssumption, AutoAssumption, <1>0
<1>1. plan \in Request /\ plan.name \in Names /\ plan.cfg \in [Blocks -> Values]
  BY DEF LocalTypeOK, Request, Config
<1>2. CASE UNCHANGED <<remote, theirs>>
  BY <1>2 DEF RemoteStep
<1>3. CASE CreateService
  BY <1>1, <1>3 DEF CreateService, RemoteStep, history
<1>4. CASE UpdateMetadata \/ UpdateMetadataFails
  <2>1. sid \in Services /\ UNCHANGED theirs
    BY <1>4 DEF UpdateMetadata, UpdateMetadataFails, Control, Updating, Quiet, history
  <2>2. UNCHANGED remote \/ UpdateServiceCall(sid, plan.name)
    BY <1>4 DEF UpdateMetadata, UpdateMetadataFails
  <2>. QED  BY <1>1, <2>1, <2>2 DEF RemoteStep
<1>5. CASE CloneVersion \/ CloneVersionFails
  <2>1. sid \in Services /\ UNCHANGED theirs /\ source \in 1 .. latest[sid]
    BY <1>5 DEF CloneVersion, CloneVersionFails, Control, Updating, HeldVersions
  <2>2. \/ UNCHANGED remote
        \/ \E n \in 1 .. 2 : latest[sid] + n <= MaxVersions
                              /\ CloneVersionCall(sid, source, n)
    <3>1. latest[sid] \in 0 .. MaxVersions
      BY <2>1 DEF RemoteTypeOK
    <3>2. latest[sid] < MaxVersions => latest[sid] + 1 <= MaxVersions
      BY <3>1
    <3>. QED  BY <1>5, <3>1, <3>2 DEF CloneVersion, CloneVersionFails
  <2>. QED  BY <2>1, <2>2 DEF RemoteStep
<1>6. CASE ReconcileBlock \/ ReconcileBlockFails
  <2>1. /\ sid \in Services /\ UNCHANGED theirs /\ step \in Blocks
        /\ target \in (1 .. latest[sid]) \ theirs[sid]
    BY <1>6 DEF ReconcileBlock, ReconcileBlockFails, Control, Writing, Progress,
       WorksOnItsOwnDraft, Quiet, history
  <2>2. \/ UNCHANGED remote
        \/ \E x \in Values \cup {Partial} : WriteBlockCall(sid, target, step, x)
    BY <1>1, <1>6, <2>1 DEF ReconcileBlock, ReconcileBlockFails
  <2>. QED  BY <2>1, <2>2 DEF RemoteStep
<1>7. CASE ActivateVersion \/ ActivateVersionFails
  <2>1. /\ sid \in Services /\ UNCHANGED theirs
        /\ target \in 1 .. latest[sid]
    BY <1>7 DEF ActivateVersion, ActivateVersionFails, Control, Writing,
       WorksOnItsOwnDraft, Quiet, history
  <2>2. UNCHANGED remote \/ (Live(sid) /\ ActivateVersionCall(sid, target))
    BY <1>7 DEF ActivateVersion, ActivateVersionFails
  <2>. QED  BY <2>1, <2>2 DEF RemoteStep
<1>8. CASE Deactivate \/ DeactivateFails
  <2>1. sid \in Services /\ UNCHANGED theirs
    BY <1>8 DEF Deactivate, DeactivateFails, Control, Deleting, Quiet, history
  <2>2. UNCHANGED remote \/ DeactivateVersionCall(sid)
    BY <1>8 DEF Deactivate, DeactivateFails
  <2>. QED  BY <2>1, <2>2 DEF RemoteStep
<1>9. CASE DeleteService \/ DeleteServiceFails
  <2>1. sid \in Services /\ UNCHANGED theirs
    BY <1>9 DEF DeleteService, DeleteServiceFails, Control, Deleting, Quiet, history
  <2>2. UNCHANGED remote \/ DeleteServiceCall(sid)
    BY <1>9 DEF DeleteService, DeleteServiceFails
  <2>. QED  BY <2>1, <2>2 DEF RemoteStep
<1>10. CASE ForeignDraft
  <2>1. PICK s \in Services, c \in Foreign :
            /\ Live(s)
            /\ latest[s] < MaxVersions
            /\ AppendDrafts(s, c, 1)
            /\ theirs' = [theirs EXCEPT ![s] = @ \cup {latest[s] + 1}]
    BY <1>10 DEF ForeignDraft
  <2>2. latest[s] \in 0 .. MaxVersions
    BY DEF RemoteTypeOK
  <2>3. latest[s] + 1 <= MaxVersions
    BY <2>1, <2>2
  <2>. QED  BY <2>1, <2>3 DEF RemoteStep
<1>11. CASE ForeignActivate
  <2>1. PICK s \in Services : \E v \in theirs[s] \cup locked[s] :
            Live(s) /\ ActivateVersionCall(s, v)
    BY <1>11 DEF ForeignActivate
  <2>2. theirs[s] \cup locked[s] \subseteq 1 .. latest[s]
    BY DEF RemoteShape
  <2>. QED  BY <1>11, <2>1, <2>2 DEF ForeignActivate, RemoteStep
<1>12. CASE ForeignDeactivate \/ ForeignDelete \/ ForeignRename
  BY <1>12 DEF ForeignDeactivate, ForeignDelete, ForeignRename, RemoteStep
<1>13. CASE \/ UNCHANGED vars \/ BeginApply \/ ReadDetails \/ ReadBlocks \/ MakePlan
            \/ CreateServiceRejected \/ SelectSource \/ ValidateVersion
            \/ DeleteDetails \/ ReleaseInactive
            \/ EditConfig \/ ImportState \/ Untaint \/ Crash
  <2>1. UNCHANGED <<remote, theirs>>
    BY <1>13 DEF vars, history, BeginApply, ReadDetails, ReadBlocks, MakePlan,
       CreateServiceRejected, SelectSource, ValidateVersion, DeleteDetails,
       ReleaseInactive, EditConfig, ImportState, Untaint, Crash, FailRead, Quiet
  <2>. QED  BY <1>2, <2>1
<1>. QED
  BY <1>3, <1>4, <1>5, <1>6, <1>7, <1>8, <1>9, <1>10, <1>11, <1>12, <1>13
     DEF Next, Apply, User, Operator

\* What is live, or an operator's, is never written to again.
Frozen ==
    \A s \in Services :
        /\ latest[s] <= latest'[s]
        /\ locked[s] \subseteq locked'[s]
        /\ theirs[s] \subseteq theirs'[s]
        /\ \A v \in locked[s] \cup theirs[s] : content'[s][v] = content[s][v]

\* RemoteShape of one service.
ServiceShape(s) ==
    /\ locked[s] \subseteq 1 .. latest[s]
    /\ theirs[s] \subseteq 1 .. latest[s]
    /\ active[s] # 0 => active[s] \in locked[s]
    /\ Fresh(s) => latest[s] = 0 /\ active[s] = 0
    /\ Live(s) => latest[s] >= 1

\* RemoteShape, one service at a time.
LEMMA ShapePerService == RemoteShape <=> \A s \in Services : ServiceShape(s)
BY DEF RemoteShape, ServiceShape

\* Every remote step keeps the services in shape and freezes what it must.
LEMMA RemoteStepSafe ==
    ASSUME RemoteTypeOK, BookTypeOK, RemoteShape, TheirsAreWhole, RemoteStep
    PROVE  RemoteTypeOK' /\ RemoteShape' /\ TheirsAreWhole' /\ Frozen
<1>. USE FastlyAssumption
<1>1. /\ \A s \in Services : /\ latest[s] \in 0 .. MaxVersions
                             /\ active[s] \in 0 .. MaxVersions
                             /\ locked[s] \subseteq Versions
                             /\ theirs[s] \subseteq Versions
      /\ \A s \in Services : ServiceShape(s)
  BY ShapePerService DEF RemoteTypeOK, BookTypeOK
<1>2. CASE UNCHANGED <<remote, theirs>>
  BY <1>1, <1>2 DEF remote, RemoteTypeOK, RemoteShape, TheirsAreWhole, Frozen, Live, Fresh
<1>3. ASSUME NEW s \in Services, NEW n \in Names, UNCHANGED theirs,
             (Fresh(s) /\ CreateServiceCall(s, n)) \/ UpdateServiceCall(s, n)
      PROVE  RemoteTypeOK' /\ RemoteShape' /\ TheirsAreWhole' /\ Frozen
  <2>1. RemoteTypeOK'
    <3>1. CASE CreateServiceCall(s, n)
      BY <3>1, CallsTyped
    <3>2. CASE UpdateServiceCall(s, n)
      BY <3>2, CallsTyped
    <3>. QED  BY <1>3, <3>1, <3>2
  <2>2. ASSUME NEW t \in Services PROVE ServiceShape(t)'
    <3>1. CASE t = s
      BY <1>1, <1>3, <3>1 DEF ServiceShape, CreateServiceCall, UpdateServiceCall,
         RemoteTypeOK, Live, Fresh
    <3>2. CASE t # s
      BY <1>1, <1>3, <3>2 DEF ServiceShape, CreateServiceCall, UpdateServiceCall,
         RemoteTypeOK, Live, Fresh
    <3>. QED  BY <3>1, <3>2
  <2>3. TheirsAreWhole' /\ Frozen
    BY <1>1, <1>3 DEF CreateServiceCall, UpdateServiceCall, RemoteTypeOK,
       TheirsAreWhole, Frozen, ServiceShape, Fresh
  <2>. QED  BY <2>1, <2>2, <2>3 DEF RemoteShape, ServiceShape
<1>4. ASSUME NEW s \in Services, NEW c \in Content, NEW n \in 1 .. 2,
             latest[s] >= 1, latest[s] + n <= MaxVersions, AppendDrafts(s, c, n),
             \/ UNCHANGED theirs
             \/ /\ theirs' = [theirs EXCEPT ![s] = @ \cup {latest[s] + 1}]
                /\ c \in Foreign /\ Live(s)
      PROVE  RemoteTypeOK' /\ RemoteShape' /\ TheirsAreWhole' /\ Frozen
  <2>1. RemoteTypeOK'
    BY <1>4, CallsTyped
  <2>2. /\ latest' = [latest EXCEPT ![s] = @ + n]
        /\ UNCHANGED <<status, active, locked>>
        /\ \A t \in Services, v \in Versions :
             content'[t][v] = IF t = s /\ v \in latest[s] + 1 .. latest[s] + n
                              THEN c ELSE content[t][v]
    BY <1>4 DEF AppendDrafts, RemoteTypeOK
  <2>3. \A t \in Services :
           /\ theirs[t] \subseteq theirs'[t]
           /\ theirs'[t] \subseteq IF t = s /\ theirs' # theirs
                                   THEN theirs[t] \cup {latest[s] + 1} ELSE theirs[t]
    BY <1>4 DEF BookTypeOK
  <2>4. ASSUME NEW t \in Services PROVE ServiceShape(t)'
    <3>1. /\ latest'[t] = IF t = s THEN latest[t] + n ELSE latest[t]
          /\ latest[s] + 1 \in Nat
      BY <1>1, <2>2 DEF RemoteTypeOK
    <3>2. \A v \in 1 .. latest[t] : v \in 1 .. latest'[t]
      BY <1>1, <1>4, <3>1
    <3>3. theirs'[t] \subseteq 1 .. latest'[t]
      BY <1>1, <1>4, <2>3, <3>1, <3>2 DEF ServiceShape
    <3>4. Fresh(t)' => latest'[t] = 0
      BY <1>1, <1>4, <2>2, <3>1 DEF ServiceShape, Live, Fresh
    <3>. QED  BY <1>1, <1>4, <2>2, <3>1, <3>2, <3>3, <3>4 DEF ServiceShape, Live, Fresh
  <2>5. Frozen
    BY <1>1, <2>2, <2>3 DEF Frozen, RemoteTypeOK, ServiceShape
  <2>6. TheirsAreWhole'
    BY <1>1, <1>4, <2>2, <2>3, <2>4 DEF TheirsAreWhole, ServiceShape, Versions
  <2>. QED  BY <2>1, <2>4, <2>5, <2>6 DEF RemoteShape, ServiceShape
<1>5. ASSUME NEW s \in Services, NEW v \in (1 .. latest[s]) \ theirs[s], NEW b \in Blocks,
             NEW x \in Values \cup {Partial}, WriteBlockCall(s, v, b, x), UNCHANGED theirs
      PROVE  RemoteTypeOK' /\ RemoteShape' /\ TheirsAreWhole' /\ Frozen
  <2>1. RemoteTypeOK'
    <3>1. v \in Versions
      BY <1>1 DEF Versions
    <3>. QED  BY <1>5, <3>1, CallsTyped
  <2>2. RemoteShape'
    BY <1>1, <1>5 DEF WriteBlockCall, RemoteShape, ServiceShape, Live, Fresh
  <2>3. \A t \in Services, w \in Versions :
           t # s \/ w # v => content'[t][w] = content[t][w]
    BY <1>5 DEF WriteBlockCall, RemoteTypeOK
  <2>4. v \notin locked[s] /\ UNCHANGED <<latest, locked>>
    BY <1>5 DEF WriteBlockCall
  <2>5. TheirsAreWhole' /\ Frozen
    BY <1>1, <1>5, <2>3, <2>4 DEF TheirsAreWhole, Frozen, RemoteTypeOK
  <2>. QED  BY <2>1, <2>2, <2>5
<1>6. ASSUME NEW s \in Services, UNCHANGED theirs,
             \/ \E v \in 1 .. latest[s] : Live(s) /\ ActivateVersionCall(s, v)
             \/ DeactivateVersionCall(s)
             \/ DeleteServiceCall(s)
      PROVE  RemoteTypeOK' /\ RemoteShape' /\ TheirsAreWhole' /\ Frozen
  <2>1. RemoteTypeOK'
    <3>1. 1 .. latest[s] \subseteq Versions
      BY <1>1 DEF Versions
    <3>. QED  BY <1>6, <3>1, CallsTyped
  <2>2. ASSUME NEW t \in Services PROVE ServiceShape(t)'
    BY <1>1, <1>6 DEF ServiceShape, ActivateVersionCall, DeactivateVersionCall,
       DeleteServiceCall, RemoteTypeOK, Live, Fresh
  <2>3. TheirsAreWhole' /\ Frozen
    BY <1>1, <1>6 DEF ActivateVersionCall, DeactivateVersionCall, DeleteServiceCall,
       RemoteTypeOK, TheirsAreWhole, Frozen
  <2>. QED  BY <2>1, <2>2, <2>3 DEF RemoteShape, ServiceShape
<1>7. ASSUME NEW s \in Services, NEW v \in 1 .. latest[s], NEW n \in 1 .. 2,
             latest[s] + n <= MaxVersions, CloneVersionCall(s, v, n), UNCHANGED theirs
      PROVE  RemoteTypeOK' /\ RemoteShape' /\ TheirsAreWhole' /\ Frozen
  <2>1. content[s][v] \in Content
    BY <1>1 DEF RemoteTypeOK, Versions
  <2>2. latest[s] >= 1
    BY <1>1
  <2>. QED  BY <1>4, <1>7, <2>1, <2>2 DEF CloneVersionCall
<1>8. ASSUME NEW s \in Services, NEW c \in Foreign,
             latest[s] + 1 <= MaxVersions, Live(s), AppendDrafts(s, c, 1),
             theirs' = [theirs EXCEPT ![s] = @ \cup {latest[s] + 1}]
      PROVE  RemoteTypeOK' /\ RemoteShape' /\ TheirsAreWhole' /\ Frozen
  <2>1. c \in Content /\ latest[s] >= 1 /\ 1 \in 1 .. 2
    BY <1>1, <1>8, ConfigIsContent, AutoAssumption DEF ServiceShape
  <2>. QED  BY <1>4, <1>8, <2>1
<1>. QED  BY <1>2, <1>3, <1>5, <1>6, <1>7, <1>8 DEF RemoteStep

---------------------------------------------------------------------------
(* Which handler runs at which step.                                       *)

\* The history of requests only grows.
LEMMA RequestsKept == [Next]_vars => requested \subseteq requested'
<1>. SUFFICES ASSUME [Next]_vars PROVE requested \subseteq requested'
  OBVIOUS
<1>1. CASE UNCHANGED vars
  BY <1>1 DEF vars, history
<1>2. CASE Apply
  BY <1>2 DEF Apply, BeginApply, ReadDetails, ReadBlocks, MakePlan,
     CreateService, CreateServiceRejected, UpdateMetadata, UpdateMetadataFails,
     SelectSource, CloneVersion, CloneVersionFails, ReconcileBlock,
     ReconcileBlockFails, ValidateVersion, ActivateVersion, ActivateVersionFails,
     DeleteDetails, ReleaseInactive, Deactivate, DeactivateFails, DeleteService,
     DeleteServiceFails, FailRead, Quiet, history
<1>3. CASE User
  BY <1>3 DEF User, EditConfig, ImportState, Untaint, Crash, history
<1>4. CASE Operator
  BY <1>4 DEF Operator, ForeignStep, ForeignDraft, ForeignActivate,
     ForeignDeactivate, ForeignDelete, ForeignRename
<1>. QED  BY <1>1, <1>2, <1>3, <1>4 DEF Next

\* A handler that ends leaves nothing behind that a later step could trip on.
LEMMA EndingsControlled ==
    ASSUME Control, pc # "idle", requested \subseteq requested'
    PROVE  /\ \A st : Finish(st) => Control' /\ pc' = "idle"
           /\ Fail => Control' /\ pc' = "idle"
           /\ Forgotten => /\ Control' /\ pc' \in {"idle", "create"}
                          /\ op' = "none" /\ state' = NoState
<1>1. ASSUME NEW st, Finish(st) PROVE Control' /\ pc' = "idle"
  BY <1>1 DEF Finish, Control, Refreshing, Updating, Writing, Deleting
<1>2. Fail => Control' /\ pc' = "idle"
  BY <1>1 DEF Fail
<1>3. Forgotten => /\ Control' /\ pc' \in {"idle", "create"}
                   /\ op' = "none" /\ state' = NoState
  <2>1. CASE plan.present
    BY <2>1 DEF Forgotten, Control, Tracked, NoState, Refreshing, Updating,
       Writing, Deleting
  <2>2. CASE ~plan.present
    BY <1>1, <2>2 DEF Forgotten, Finish
  <2>. QED  BY <2>1, <2>2
<1>. QED  BY <1>1, <1>2, <1>3

\* Every step leaves the handler where its operation may be.
LEMMA ControlStep == IInv /\ [Next]_vars => Control'
<1>. SUFFICES ASSUME TypeOK, Control, RecordShape, [Next]_vars PROVE Control'
  BY DEF IInv
<1>. USE RequestsKept, EndingsControlled DEF Refreshing, Updating, Writing, Deleting
<1>1. LocalTypeOK
  BY TypeParts
<1>2. CASE UNCHANGED vars
  BY <1>2 DEF vars, local, history, Control, Tracked
<1>3. CASE BeginApply
  BY <1>1, <1>3 DEF BeginApply, Control, Tracked, LocalTypeOK, State, Services
<1>4. CASE ReadDetails
  BY <1>4 DEF ReadDetails, FailRead, Quiet, history, Control, Tracked
<1>5. CASE ReadBlocks
  <2>1. CASE FailRead
    BY <1>5, <2>1 DEF ReadBlocks, FailRead
  <2>2. CASE ~FailRead
    BY <1>1, <1>5, <2>2 DEF ReadBlocks, Quiet, history, Control, Tracked,
       LocalTypeOK, State
  <2>. QED  BY <2>1, <2>2
<1>6. CASE MakePlan
  BY <1>6 DEF MakePlan, Enter, history, Control, Tracked
<1>7. CASE CreateService \/ CreateServiceRejected
  BY <1>7 DEF CreateService, CreateServiceRejected, history, Control, Tracked
<1>8. CASE UpdateMetadata
  BY <1>8 DEF UpdateMetadata, Goto, Quiet, history, Control, Tracked
<1>9. CASE UpdateMetadataFails \/ CloneVersionFails \/ ReconcileBlockFails
           \/ ActivateVersionFails \/ DeleteServiceFails
  BY <1>9 DEF UpdateMetadataFails, CloneVersionFails, ReconcileBlockFails,
     ActivateVersionFails, DeleteServiceFails
<1>10. CASE SelectSource
  BY <1>10 DEF SelectSource, Quiet, history, Control, Tracked
<1>11. CASE CloneVersion
  BY <1>11 DEF CloneVersion, Control, Tracked
<1>12. CASE ReconcileBlock
  BY <1>12 DEF ReconcileBlock, Quiet, history, Control, Tracked
<1>13. CASE ValidateVersion
  BY <1>13 DEF ValidateVersion, Goto, Quiet, history, Control, Tracked
<1>14. CASE ActivateVersion
  BY <1>14 DEF ActivateVersion
<1>15. CASE DeleteDetails
  BY <1>15 DEF DeleteDetails, Goto, Quiet, history, Control, Tracked
<1>16. CASE ReleaseInactive \/ Deactivate \/ DeactivateFails \/ DeleteService
  BY <1>16 DEF ReleaseInactive, Deactivate, DeactivateFails, DeleteService, Goto,
     Quiet, history, Control, Tracked
<1>17. CASE EditConfig
  BY <1>17 DEF EditConfig, history, Control, Tracked
<1>18. CASE ImportState
  BY <1>18 DEF ImportState, Control, Tracked
<1>19. CASE Untaint
  BY <1>1, <1>19 DEF Untaint, history, Control, Tracked, LocalTypeOK, State
<1>20. CASE Crash
  BY <1>20 DEF Crash
<1>21. CASE Operator
  BY <1>21 DEF Operator, ForeignDraft, ForeignActivate, ForeignDeactivate,
     ForeignDelete, ForeignRename, ForeignStep, local, Control, Tracked
<1>. QED
  BY <1>2, <1>3, <1>4, <1>5, <1>6, <1>7, <1>8, <1>9, <1>10, <1>11, <1>12, <1>13,
     <1>14, <1>15, <1>16, <1>17, <1>18, <1>19, <1>20, <1>21 DEF Next, Apply, User

---------------------------------------------------------------------------
(* What a running handler holds.                                           *)

\* Steps at which the handler holds no version number and no draft.
Calm == {"idle", "create", "refresh", "plan", "metadata", "select",
         "details", "deactivate", "remove"}

\* How a handler can come to hold one.
LEMMA RunningSteps ==
    ASSUME IInv, [Next]_vars
    PROVE  \/ pc' \in Calm
           \/ UNCHANGED vars
           \/ Operator
           \/ ReadDetails /\ pc' = "readBlocks"
           \/ SelectSource /\ pc' = "clone"
           \/ CreateService /\ pc' = "blocks"
           \/ CloneVersion
           \/ ReconcileBlock
           \/ ValidateVersion /\ pc' = "activate"
<1>. USE DEF Calm
<1>1. ASSUME NEW st, Finish(st) PROVE pc' = "idle"
  BY <1>1 DEF Finish
<1>2. (Fail => pc' = "idle") /\ (Forgotten => pc' \in {"idle", "create"})
  BY <1>1 DEF Fail, Forgotten
<1>3. ASSUME NEW next, Goto(next) PROVE pc' = next
  BY <1>3 DEF Goto
<1>4. CASE BeginApply \/ ReadBlocks \/ MakePlan \/ UpdateMetadata \/ Crash
           \/ CreateServiceRejected \/ EditConfig \/ ImportState \/ Untaint
  BY <1>1, <1>2, <1>3, <1>4 DEF BeginApply, ReadBlocks, FailRead, MakePlan, Enter,
     UpdateMetadata, Crash, CreateServiceRejected, EditConfig, ImportState, Untaint
<1>5. CASE ReadDetails \/ SelectSource \/ CreateService \/ ValidateVersion
  BY <1>1, <1>2, <1>3, <1>5 DEF ReadDetails, FailRead, SelectSource, CreateService,
     ValidateVersion
<1>6. CASE UpdateMetadataFails \/ CloneVersionFails \/ ReconcileBlockFails
           \/ ActivateVersion \/ ActivateVersionFails \/ DeleteServiceFails
  BY <1>1, <1>2, <1>6 DEF UpdateMetadataFails, CloneVersionFails, ReconcileBlockFails,
     ActivateVersion, ActivateVersionFails, DeleteServiceFails
<1>7. CASE DeleteDetails \/ ReleaseInactive \/ Deactivate \/ DeactivateFails
           \/ DeleteService
  BY <1>1, <1>2, <1>3, <1>7 DEF DeleteDetails, ReleaseInactive, Deactivate,
     DeactivateFails, DeleteService
<1>. QED  BY <1>4, <1>5, <1>6, <1>7 DEF Next, Apply, User

\* The operator neither changes an existing draft nor takes it over.
LEMMA OperatorLeavesDrafts ==
    ASSUME TypeOK, RemoteShape, Operator, NEW s \in Services, NEW v \in 1 .. latest[s]
    PROVE  /\ content'[s][v] = content[s][v]
           /\ v \in locked'[s] \cup theirs'[s] => v \in locked[s] \cup theirs[s]
<1>1. /\ latest[s] \in 0 .. MaxVersions /\ v \in Versions
      /\ content \in [Services -> [Versions -> Content]]
      /\ locked \in [Services -> SUBSET Versions]
      /\ theirs \in [Services -> SUBSET Versions]
  <2>1. RemoteTypeOK /\ BookTypeOK
    BY TypeParts
  <2>. QED  BY <2>1, FastlyAssumption DEF RemoteTypeOK, BookTypeOK, Versions
<1>2. CASE ForeignDraft
  <2>1. PICK t \in Services, c \in Foreign :
          /\ AppendDrafts(t, c, 1)
          /\ theirs' = [theirs EXCEPT ![t] = @ \cup {latest[t] + 1}]
    BY <1>2 DEF ForeignDraft
  <2>. QED  BY <1>1, <2>1 DEF AppendDrafts
<1>3. CASE ForeignActivate
  <2>1. PICK t \in Services : \E w \in theirs[t] \cup locked[t] : ActivateVersionCall(t, w)
    BY <1>3 DEF ForeignActivate
  <2>. QED  BY <1>1, <1>3, <2>1 DEF ForeignActivate, ActivateVersionCall
<1>4. CASE ForeignDeactivate \/ ForeignDelete \/ ForeignRename
  BY <1>1, <1>4 DEF ForeignDeactivate, ForeignDelete, ForeignRename,
     DeactivateVersionCall, DeleteServiceCall, UpdateServiceCall
<1>. QED  BY <1>2, <1>3, <1>4 DEF Operator

\* The version Read describes, and the one Update clones, exists.
LEMMA SelectedVersion ==
    ASSUME TypeOK, RemoteShape, NEW s \in Services, Live(s)
    PROVE  /\ SelectReadVersion(s) \in 1 .. latest[s]
           /\ SelectWorkingVersion(s) \in 1 .. latest[s]
           /\ active[s] # 0 => SelectReadVersion(s) \in locked[s]
<1>1. latest[s] \in 0 .. MaxVersions /\ ServiceShape(s)
  BY TypeParts, ShapePerService DEF RemoteTypeOK
<1>. QED  BY <1>1, FastlyAssumption DEF ServiceShape, SelectReadVersion, SelectWorkingVersion

\* The version numbers a handler holds stay numbers of existing versions.
LEMMA HeldVersionsStep == IInv /\ [Next]_vars => HeldVersions'
<1>. SUFFICES ASSUME IInv, [Next]_vars PROVE HeldVersions'
  OBVIOUS
<1>0. /\ TypeOK /\ RemoteShape /\ Control /\ HeldVersions
      /\ RemoteTypeOK /\ LocalTypeOK /\ BookTypeOK /\ Control'
  BY TypeParts, ControlStep DEF IInv
<1>1. Frozen /\ RemoteTypeOK'
  BY <1>0, RemoteSteps, RemoteStepSafe DEF IInv
<1>2. \A s \in Services : latest[s] \in Nat /\ latest'[s] \in Nat
  BY <1>0, <1>1 DEF RemoteTypeOK
<1>3. CASE pc' \in Calm
  BY <1>0, <1>3 DEF Calm, HeldVersions, Control, Refreshing, Updating, Deleting
<1>4. CASE UNCHANGED vars \/ Operator
  <2>1. UNCHANGED <<pc, op, sid, source, target, seen>>
    BY <1>4 DEF vars, local, Operator, ForeignDraft, ForeignActivate, ForeignDeactivate,
       ForeignDelete, ForeignRename, ForeignStep
  <2>. QED
    BY <1>0, <1>1, <1>2, <2>1 DEF HeldVersions, Control, Frozen, Refreshing, Updating
<1>5. CASE ReadDetails /\ pc' = "readBlocks"
  <2>1. /\ sid \in Services /\ Live(sid) /\ sid' = sid
        /\ seen'.version = SelectReadVersion(sid) /\ seen'.active = (active[sid] # 0)
        /\ UNCHANGED remote /\ op' = "none"
    BY <1>0, <1>5 DEF ReadDetails, FailRead, Finish, Forgotten, Control, Refreshing
  <2>. QED  BY <1>0, <1>5, <2>1, SelectedVersion DEF HeldVersions, remote
<1>6. CASE SelectSource /\ pc' = "clone"
  <2>1. /\ sid \in Services /\ Live(sid) /\ sid' = sid
        /\ source' = SelectWorkingVersion(sid)
        /\ UNCHANGED remote /\ op' = "update"
    BY <1>0, <1>6 DEF SelectSource, Fail, Finish, Control, Updating
  <2>. QED  BY <1>0, <1>6, <2>1, SelectedVersion DEF HeldVersions, remote
<1>7. CASE CreateService /\ pc' = "blocks"
  BY <1>7 DEF CreateService, Finish, HeldVersions
<1>8. CASE CloneVersion
  BY <1>0, <1>8 DEF CloneVersion, HeldVersions, Control, Updating
<1>9. CASE ReconcileBlock
  BY <1>0, <1>9 DEF ReconcileBlock, HeldVersions
<1>10. CASE ValidateVersion /\ pc' = "activate"
  BY <1>0, <1>10 DEF ValidateVersion, Goto, Fail, Finish, HeldVersions
<1>. QED
  BY RunningSteps, <1>3, <1>4, <1>5, <1>6, <1>7, <1>8, <1>9, <1>10

\* The draft is the handler's own from the clone on, and everything before
\* the next step has been written to it.
LEMMA DraftStep == IInv /\ [Next]_vars => WorksOnItsOwnDraft' /\ Progress'
<1>. SUFFICES ASSUME IInv, [Next]_vars PROVE WorksOnItsOwnDraft' /\ Progress'
  OBVIOUS
<1>0. /\ TypeOK /\ RemoteShape /\ Control /\ HeldVersions /\ Progress
      /\ WorksOnItsOwnDraft /\ RemoteTypeOK /\ LocalTypeOK /\ BookTypeOK /\ Control'
  BY TypeParts, ControlStep DEF IInv
<1>1. /\ Frozen /\ RemoteTypeOK' /\ LocalTypeOK'
      /\ \A s \in Services : ServiceShape(s)
  BY <1>0, RemoteSteps, RemoteStepSafe, LocalTypeStep, ShapePerService DEF IInv
<1>2. \A s \in Services : /\ latest[s] \in 0 .. MaxVersions
                         /\ latest'[s] \in 0 .. MaxVersions
                         /\ content[s] \in [Versions -> Content]
                         /\ content'[s] \in [Versions -> Content]
  BY <1>0, <1>1 DEF RemoteTypeOK
<1>3. CASE pc' \in Calm \/ pc' \in {"readBlocks", "clone"}
  BY <1>3 DEF Calm, WorksOnItsOwnDraft, Progress
<1>4. CASE UNCHANGED vars
  BY <1>0, <1>4 DEF vars, remote, local, history, WorksOnItsOwnDraft, Progress
<1>5. CASE Operator
  <2>1. UNCHANGED <<pc, op, plan, sid, target, step>>
    BY <1>5 DEF local, Operator, ForeignDraft, ForeignActivate, ForeignDeactivate,
       ForeignDelete, ForeignRename, ForeignStep
  <2>2. CASE pc \in {"blocks", "validate", "activate"}
    <3>1. sid \in Services /\ target \in 1 .. latest[sid]
          /\ target \notin locked[sid] \cup theirs[sid]
      BY <1>0, <2>2 DEF WorksOnItsOwnDraft
    <3>2. /\ content'[sid][target] = content[sid][target]
          /\ target \notin locked'[sid] \cup theirs'[sid]
          /\ target \in 1 .. latest'[sid]
      <4>1. /\ content'[sid][target] = content[sid][target]
            /\ target \in locked'[sid] \cup theirs'[sid]
                 => target \in locked[sid] \cup theirs[sid]
        BY <1>0, <1>5, <3>1, OperatorLeavesDrafts
      <4>2. latest[sid] <= latest'[sid]
        BY <1>1, <3>1 DEF Frozen
      <4>. QED  BY <1>2, <3>1, <4>1, <4>2
    <3>. QED  BY <1>0, <2>1, <3>1, <3>2 DEF WorksOnItsOwnDraft, Progress
  <2>. QED  BY <2>1, <2>2 DEF WorksOnItsOwnDraft, Progress
<1>6. CASE CreateService /\ pc' = "blocks"
  <2>1. PICK s \in Services : /\ Fresh(s) /\ CreateServiceCall(s, plan.name)
                            /\ sid' = s /\ target' = 1 /\ step' = 1
                            /\ UNCHANGED <<plan, history>>
    BY <1>6 DEF CreateService, Finish
  <2>2. latest[s] = 0 /\ latest'[s] = 1
    BY <1>0, <1>1, <2>1 DEF CreateServiceCall, ServiceShape, RemoteTypeOK
  <2>3. 1 \notin locked'[s] \cup theirs'[s]
    BY <1>1, <2>1, <2>2 DEF CreateServiceCall, ServiceShape, history
  <2>. QED
    BY <1>6, <2>1, <2>2, <2>3, FastlyAssumption DEF WorksOnItsOwnDraft, Progress, Blocks
<1>7. CASE CloneVersion
  <2>1. PICK n \in 1 .. 2 : /\ latest[sid] + n <= MaxVersions
                          /\ CloneVersionCall(sid, source, n)
                          /\ target' = latest[sid] + n
    BY <1>7 DEF CloneVersion
  <2>2. /\ sid \in Services /\ step' = 1 /\ pc' = "blocks"
        /\ UNCHANGED <<sid, plan, theirs>>
    BY <1>0, <1>7 DEF CloneVersion, Control, Updating
  <2>3. latest'[sid] = latest[sid] + n /\ UNCHANGED locked
    BY <1>0, <2>1, <2>2 DEF CloneVersionCall, AppendDrafts, RemoteTypeOK
  <2>4. target' \notin locked[sid] \cup theirs[sid]
    BY <1>1, <1>2, <2>1, <2>2 DEF ServiceShape
  <2>5. target' \in 1 .. latest'[sid]
    BY <1>2, <2>1, <2>2, <2>3
  <2>. QED
    BY <2>2, <2>3, <2>4, <2>5, FastlyAssumption DEF WorksOnItsOwnDraft, Progress, Blocks
<1>8. CASE ReconcileBlock
  <2>1. /\ pc = "blocks" /\ WriteBlockCall(sid, target, step, plan.cfg[step])
        /\ step' = step + 1
        /\ pc' = IF step = NumBlocks THEN "validate" ELSE "blocks"
        /\ UNCHANGED <<plan, sid, target, theirs>>
    BY <1>8 DEF ReconcileBlock, Quiet, history
  <2>2. /\ sid \in Services /\ target \in 1 .. latest[sid] /\ target \in Versions
        /\ target \notin locked[sid] \cup theirs[sid] /\ step \in Blocks
        /\ \A b \in Blocks : b < step => content[sid][target][b] = plan.cfg[b]
    <3>1. sid \in Services /\ target \in 1 .. latest[sid]
      BY <1>0, <2>1 DEF WorksOnItsOwnDraft
    <3>2. target \in Versions
      BY <1>2, <3>1, FastlyAssumption DEF Versions
    <3>. QED  BY <1>0, <2>1, <3>1, <3>2 DEF WorksOnItsOwnDraft, Progress
  <2>3. UNCHANGED <<latest, locked>>
    BY <2>1 DEF WriteBlockCall
  <2>4. WorksOnItsOwnDraft'
    BY <2>1, <2>2, <2>3 DEF WorksOnItsOwnDraft
  <2>5. content'[sid][target] = [content[sid][target] EXCEPT ![step] = plan.cfg[step]]
    BY <1>0, <2>1, <2>2 DEF WriteBlockCall, RemoteTypeOK
  <2>6. content[sid][target] \in Content
    BY <1>2, <2>2
  <2>7. \A b \in Blocks : b < step + 1 => content'[sid][target][b] = plan.cfg[b]
    <3>1. SUFFICES ASSUME NEW b \in Blocks, b < step + 1
                   PROVE  content'[sid][target][b] = plan.cfg[b]
      OBVIOUS
    <3>2. b = step \/ b < step
      BY <2>2, <3>1, FastlyAssumption DEF Blocks
    <3>3. content'[sid][target][b] =
              IF b = step THEN plan.cfg[step] ELSE content[sid][target][b]
      BY <2>5, <2>6 DEF Content
    <3>. QED  BY <2>2, <3>2, <3>3
  <2>8. ASSUME step # NumBlocks PROVE Progress'
    BY <2>1, <2>2, <2>7, <2>8, FastlyAssumption DEF Progress, Blocks
  <2>9. ASSUME step = NumBlocks PROVE Progress'
    <3>1. \A b \in Blocks : content'[sid][target][b] = plan.cfg[b]
      BY <2>7, <2>9, FastlyAssumption DEF Blocks
    <3>2. content'[sid][target] \in [Blocks -> Values \cup {Partial}]
      BY <1>2, <2>2 DEF Content
    <3>3. plan.cfg \in [Blocks -> Values]
      BY <1>0 DEF LocalTypeOK, Request, Config
    <3>4. content'[sid][target] = plan.cfg
      BY <3>1, <3>2, <3>3
    <3>. QED  BY <2>1, <2>9, <3>4 DEF Progress
  <2>. QED  BY <2>4, <2>8, <2>9
<1>9. CASE ValidateVersion /\ pc' = "activate"
  BY <1>0, <1>9 DEF ValidateVersion, Goto, Fail, Finish, Quiet, history, remote,
     WorksOnItsOwnDraft, Progress
<1>. QED
  BY RunningSteps, <1>3, <1>4, <1>5, <1>6, <1>7, <1>8, <1>9

---------------------------------------------------------------------------
(* What goes live.                                                         *)

\* A version goes live because it is the operator's, because it was live
\* before, or because the handler activates its draft.
LEMMA GoesLiveSteps ==
    ASSUME IInv, [Next]_vars, NEW s \in Services, NEW v \in locked'[s]
    PROVE  \/ v \in locked[s] \cup theirs[s]
           \/ pc = "activate" /\ s = sid /\ v = target /\ UNCHANGED <<content, theirs>>
<1>0. RemoteTypeOK
  BY TypeParts DEF IInv
<1>1. locked \in [Services -> SUBSET Versions]
  BY <1>0 DEF RemoteTypeOK
<1>2. CASE ActivateVersion \/ ActivateVersionFails
  <2>1. /\ pc = "activate" /\ UNCHANGED theirs
        /\ UNCHANGED remote \/ ActivateVersionCall(sid, target)
    BY <1>2 DEF ActivateVersion, ActivateVersionFails, Quiet, history
  <2>. QED  BY <1>1, <2>1 DEF ActivateVersionCall, remote
<1>3. CASE ForeignActivate
  <2>1. PICK t \in Services : \E w \in theirs[t] \cup locked[t] : ActivateVersionCall(t, w)
    BY <1>3 DEF ForeignActivate
  <2>. QED  BY <1>1, <2>1 DEF ActivateVersionCall
<1>4. CASE UNCHANGED locked
  BY <1>4
<1>5. CASE CreateService \/ UpdateMetadata \/ UpdateMetadataFails \/ CloneVersion
           \/ CloneVersionFails \/ ReconcileBlock \/ ReconcileBlockFails
  BY <1>4, <1>5 DEF CreateService, UpdateMetadata, UpdateMetadataFails, CloneVersion,
     CloneVersionFails, ReconcileBlock, ReconcileBlockFails, CreateServiceCall,
     UpdateServiceCall, CloneVersionCall, AppendDrafts, WriteBlockCall, remote
<1>6. CASE Deactivate \/ DeactivateFails \/ DeleteService \/ DeleteServiceFails
           \/ ForeignDraft \/ ForeignDeactivate \/ ForeignDelete \/ ForeignRename
  BY <1>4, <1>6 DEF Deactivate, DeactivateFails, DeleteService, DeleteServiceFails,
     ForeignDraft, ForeignDeactivate, ForeignDelete, ForeignRename, AppendDrafts,
     DeactivateVersionCall, DeleteServiceCall, UpdateServiceCall, remote
<1>7. CASE \/ UNCHANGED vars \/ BeginApply \/ ReadDetails \/ ReadBlocks \/ MakePlan
           \/ CreateServiceRejected \/ SelectSource \/ ValidateVersion
           \/ DeleteDetails \/ ReleaseInactive
           \/ EditConfig \/ ImportState \/ Untaint \/ Crash
  BY <1>4, <1>7 DEF vars, remote, BeginApply, ReadDetails, ReadBlocks, MakePlan,
     CreateServiceRejected, SelectSource, ValidateVersion, DeleteDetails,
     ReleaseInactive, EditConfig, ImportState, Untaint, Crash, FailRead
<1>. QED
  BY <1>2, <1>3, <1>4, <1>5, <1>6, <1>7 DEF Next, Apply, User, Operator

\* What goes live for the first time is whole and asked for.
LEMMA NothingTornStep == IInv /\ [Next]_vars => NothingTornGoesLive'
<1>. SUFFICES ASSUME IInv, [Next]_vars, NEW s \in Services,
                     NEW v \in locked'[s] \ theirs'[s]
              PROVE  content'[s][v] \in requested' \ Invalid
  BY DEF NothingTornGoesLive
<1>1. Frozen /\ requested \subseteq requested'
  BY RequestsKept, RemoteSteps, RemoteStepSafe, TypeParts DEF IInv
<1>2. theirs[s] \subseteq theirs'[s]
  BY <1>1 DEF Frozen
<1>3. CASE v \in locked[s]
  BY <1>1, <1>2, <1>3 DEF Frozen, IInv, NothingTornGoesLive
<1>4. CASE pc = "activate" /\ s = sid /\ v = target /\ UNCHANGED <<content, theirs>>
  <2>1. content[sid][target] = plan.cfg /\ plan.cfg \notin Invalid
    BY <1>4 DEF IInv, Progress
  <2>2. plan.cfg \in requested
    BY <1>4 DEF IInv, Control, Writing
  <2>. QED  BY <1>1, <1>4, <2>1, <2>2
<1>. QED  BY <1>2, <1>3, <1>4, GoesLiveSteps

---------------------------------------------------------------------------
(* What the state says.                                                    *)

\* The ways the record changes.
LEMMA StateSteps ==
    ASSUME IInv, [Next]_vars
    PROVE  \/ state' = state
           \/ state' = NoState
           \/ op = "create" /\ state' = PartialCreateState
           \/ ImportState
           \/ Untaint
           \/ ReadBlocks /\ UNCHANGED remote /\ state' = [state EXCEPT
                !.name = seen.name,
                !.cfg = content[sid][seen.version],
                !.managed = seen.version,
                !.active = IF seen.active THEN seen.version ELSE 0]
           \/ /\ pc = "metadata" /\ plan.cfg = state.cfg
              /\ state' = FullState(sid, state.managed, state.active)
           \/ ActivateVersion /\ state' = FullState(sid, target, target)
<1>1. /\ \A st : Finish(st) => state' = st
      /\ Fail => state' = state \/ (op = "create" /\ state' = PartialCreateState)
      /\ Forgotten => state' = NoState
      /\ FailRead => state' = state \/ state' = NoState
      /\ \A next : Goto(next) => state' = state
  BY DEF Finish, Fail, Forgotten, FailRead, Goto
<1>2. CASE UNCHANGED vars \/ Operator
  BY <1>2 DEF vars, local, Operator, ForeignDraft, ForeignActivate, ForeignDeactivate,
     ForeignDelete, ForeignRename, ForeignStep
<1>3. CASE \/ BeginApply \/ ReadDetails \/ ReadBlocks \/ MakePlan \/ Crash
           \/ CreateService \/ CreateServiceRejected \/ UpdateMetadata
           \/ EditConfig \/ ImportState \/ Untaint
  BY <1>1, <1>3 DEF BeginApply, ReadDetails, ReadBlocks, MakePlan, Enter, Crash,
     CreateService, CreateServiceRejected, UpdateMetadata, EditConfig
<1>4. CASE \/ UpdateMetadataFails \/ SelectSource \/ CloneVersion \/ CloneVersionFails
           \/ ReconcileBlock \/ ReconcileBlockFails \/ ValidateVersion
           \/ ActivateVersion \/ ActivateVersionFails
  BY <1>1, <1>4 DEF UpdateMetadataFails, SelectSource, CloneVersion, CloneVersionFails,
     ReconcileBlock, ReconcileBlockFails, ValidateVersion, ActivateVersion,
     ActivateVersionFails
<1>5. CASE \/ DeleteDetails \/ ReleaseInactive \/ Deactivate \/ DeactivateFails
           \/ DeleteService \/ DeleteServiceFails
  BY <1>1, <1>5 DEF DeleteDetails, ReleaseInactive, Deactivate, DeactivateFails,
     DeleteService, DeleteServiceFails
<1>. QED  BY <1>2, <1>3, <1>4, <1>5 DEF Next, Apply, User

\* The record and the version it calls active change together.
LEMMA StateDescribesStep == IInv /\ [Next]_vars => StateDescribesActiveVersion'
<1>. SUFFICES ASSUME IInv, [Next]_vars, Tracked', state'.active # 0
              PROVE  /\ state'.active \in locked'[state'.id]
                     /\ state'.managed = state'.active
                     /\ content'[state'.id][state'.active] = state'.cfg
  BY DEF StateDescribesActiveVersion
<1>0. /\ RemoteTypeOK /\ LocalTypeOK /\ BookTypeOK /\ Control /\ HeldVersions /\ Progress
      /\ StateDescribesActiveVersion /\ RemoteShape /\ WorksOnItsOwnDraft
  BY TypeParts DEF IInv
<1>1. Frozen
  BY RemoteSteps, RemoteStepSafe, TypeParts DEF IInv
<1>2. state \in State /\ plan \in Request
  BY <1>0 DEF LocalTypeOK
<1>3. CASE /\ state'.id = state.id /\ state'.active = state.active
           /\ state'.managed = state.managed /\ state'.cfg = state.cfg
  <2>1. state.id \in Services
    BY <1>2, <1>3, FastlyAssumption DEF Tracked, State, Services
  <2>. QED
    BY <1>0, <1>1, <1>3, <2>1 DEF StateDescribesActiveVersion, Frozen, Tracked
<1>4. CASE state' = state
  BY <1>3, <1>4
<1>5. CASE state' = NoState
  BY <1>5 DEF NoState, Tracked
<1>6. CASE op = "create" /\ state' = PartialCreateState
  BY <1>6 DEF PartialCreateState
<1>7. CASE ImportState
  BY <1>7 DEF ImportState
<1>8. CASE Untaint
  BY <1>2, <1>3, <1>8 DEF Untaint, State
<1>9. CASE ReadBlocks /\ UNCHANGED remote /\ state' = [state EXCEPT
                !.name = seen.name,
                !.cfg = content[sid][seen.version],
                !.managed = seen.version,
                !.active = IF seen.active THEN seen.version ELSE 0]
  <2>1. /\ state'.active = seen.version /\ state'.managed = seen.version /\ seen.active
        /\ state'.id = state.id /\ state'.cfg = content[sid][seen.version]
    BY <1>2, <1>9 DEF State
  <2>2. sid = state.id /\ seen.version \in locked[sid]
    BY <1>0, <1>9, <2>1 DEF ReadBlocks, Control, HeldVersions, Refreshing
  <2>. QED  BY <1>9, <2>1, <2>2 DEF remote
<1>10. CASE /\ pc = "metadata" /\ plan.cfg = state.cfg
            /\ state' = FullState(sid, state.managed, state.active)
  <2>1. sid = state.id
    BY <1>0, <1>10 DEF Control, Updating
  <2>. QED  BY <1>3, <1>10, <2>1 DEF FullState
<1>11. CASE ActivateVersion /\ state' = FullState(sid, target, target)
  <2>1. /\ state'.id = sid /\ state'.active = target /\ state'.managed = target
        /\ state'.cfg = plan.cfg
    BY <1>11 DEF FullState
  <2>2. pc = "activate" /\ sid \in Services /\ ActivateVersionCall(sid, target)
    BY <1>0, <1>11 DEF ActivateVersion, WorksOnItsOwnDraft
  <2>3. content'[sid][target] = plan.cfg
    BY <1>0, <2>2 DEF Progress, ActivateVersionCall
  <2>4. target \in locked'[sid]
    BY <1>0, <2>2 DEF ActivateVersionCall, RemoteTypeOK
  <2>. QED  BY <2>1, <2>3, <2>4
<1>. QED  BY StateSteps, <1>4, <1>5, <1>6, <1>7, <1>8, <1>9, <1>10, <1>11

\* Only Read's first visit after an import finds a record without a version.
LEMMA RecordShapeStep == IInv /\ [Next]_vars => RecordShape'
<1>. SUFFICES ASSUME IInv, [Next]_vars PROVE RecordShape'
  OBVIOUS
<1>0. /\ LocalTypeOK /\ LocalTypeOK' /\ Control /\ HeldVersions /\ RecordShape
      /\ WorksOnItsOwnDraft /\ RemoteTypeOK
  BY TypeParts, LocalTypeStep DEF IInv
<1>1. state \in State /\ plan \in Request
  BY <1>0 DEF LocalTypeOK
<1>2. CASE state' = NoState
  BY <1>2 DEF RecordShape, NoState, Tracked
<1>3. CASE op = "create" /\ state' = PartialCreateState
  <2>1. sid # 0 /\ target # 0
    BY <1>0, <1>3 DEF Control, HeldVersions, Refreshing, Services
  <2>. QED  BY <1>3, <2>1 DEF PartialCreateState, RecordShape, Tracked
<1>4. CASE ImportState
  BY <1>4 DEF ImportState, RecordShape, Tracked, Services
<1>5. CASE Untaint
  BY <1>0, <1>1, <1>5 DEF Untaint, RecordShape, Tracked, State
<1>6. CASE ReadBlocks /\ UNCHANGED remote /\ state' = [state EXCEPT
                !.name = seen.name,
                !.cfg = content[sid][seen.version],
                !.managed = seen.version,
                !.active = IF seen.active THEN seen.version ELSE 0]
  <2>1. seen.version # 0 /\ sid = state.id /\ sid # 0
    BY <1>0, <1>6, FastlyAssumption
       DEF ReadBlocks, HeldVersions, Control, Refreshing, Services, RemoteTypeOK
  <2>. QED  BY <1>1, <1>6, <2>1 DEF RecordShape, Tracked, State
<1>7. CASE /\ pc = "metadata" /\ plan.cfg = state.cfg
           /\ state' = FullState(sid, state.managed, state.active)
  <2>1. sid = state.id /\ sid # 0
    BY <1>0, <1>7 DEF Control, Updating, Services
  <2>. QED  BY <1>0, <1>7, <2>1 DEF FullState, RecordShape, Tracked
<1>8. CASE ActivateVersion /\ state' = FullState(sid, target, target)
  <2>1. sid # 0 /\ target # 0
    BY <1>0, <1>8, FastlyAssumption
       DEF ActivateVersion, WorksOnItsOwnDraft, Services, RemoteTypeOK
  <2>. QED  BY <1>8, <2>1 DEF FullState, RecordShape, Tracked
<1>9. CASE state' = state
  <2>1. CASE Tracked /\ state.managed = 0
    <3>1. pc \in {"refresh", "readBlocks"} /\ state.active = 0
      BY <1>0, <2>1 DEF RecordShape
    <3>. SUFFICES pc' \in {"refresh", "readBlocks"}
      BY <1>9, <2>1, <3>1 DEF RecordShape, Tracked
    <3>2. state # NoState
      BY <2>1 DEF Tracked, NoState
    <3>3. FailRead \/ Forgotten \/ Crash => state' = NoState
      BY <1>9, <2>1 DEF FailRead, Forgotten, Crash, Finish
    <3>4. CASE ReadDetails
      BY <1>9, <3>2, <3>3, <3>4 DEF ReadDetails
    <3>7. CASE UNCHANGED vars \/ Operator
      BY <3>1, <3>7 DEF vars, local, Operator, ForeignDraft,
         ForeignActivate, ForeignDeactivate, ForeignDelete, ForeignRename, ForeignStep
    <3>5. CASE ReadBlocks
      <4>1. seen.version # 0 /\ state' = [state EXCEPT
                !.name = seen.name,
                !.cfg = content[sid][seen.version],
                !.managed = seen.version,
                !.active = IF seen.active THEN seen.version ELSE 0]
        BY <1>0, <1>9, <3>2, <3>3, <3>5, FastlyAssumption
           DEF ReadBlocks, HeldVersions, Control, Refreshing, RemoteTypeOK
      <4>2. state'.managed = seen.version
        BY <1>1, <4>1 DEF State
      <4>. QED  BY <1>9, <2>1, <4>1, <4>2
    <3>6. CASE ~(ReadDetails \/ ReadBlocks \/ UNCHANGED vars \/ Operator)
      BY <1>9, <3>1, <3>2, <3>3, <3>6
         DEF Next, Apply, User, BeginApply, MakePlan, CreateService, CreateServiceRejected,
             UpdateMetadata, UpdateMetadataFails, SelectSource, CloneVersion,
             CloneVersionFails, ReconcileBlock, ReconcileBlockFails, ValidateVersion,
             ActivateVersion, ActivateVersionFails, DeleteDetails, ReleaseInactive,
             Deactivate, DeactivateFails, DeleteService, DeleteServiceFails, EditConfig,
             ImportState, Untaint, Crash
    <3>. QED  BY <3>4, <3>5, <3>6, <3>7
  <2>2. CASE ~(Tracked /\ state.managed = 0)
    BY <1>0, <1>9, <2>2 DEF RecordShape, Tracked
  <2>. QED  BY <2>1, <2>2
<1>. QED  BY StateSteps, <1>2, <1>3, <1>4, <1>5, <1>6, <1>7, <1>8, <1>9

\* A service that is live was live before, or is the one Create has just made.
LEMMA LiveSteps ==
    ASSUME IInv, [Next]_vars, NEW s \in Services, Live(s)'
    PROVE  \/ Live(s)
           \/ /\ CreateService
              /\ s \in adrift' \/ (op' = "create" /\ sid' = s)
<1>1. status \in [Services -> {"unused", "live", "deleted"}]
  BY TypeParts DEF IInv, RemoteTypeOK
<1>2. CASE CreateService
  BY <1>1, <1>2 DEF CreateService, CreateServiceCall, Live
<1>3. CASE UNCHANGED status
  BY <1>3 DEF Live
<1>4. CASE DeleteService \/ DeleteServiceFails \/ ForeignDelete
  BY <1>1, <1>4 DEF DeleteService, DeleteServiceFails, ForeignDelete, DeleteServiceCall,
     Live, remote
<1>5. CASE UpdateMetadata \/ UpdateMetadataFails \/ CloneVersion
           \/ CloneVersionFails \/ ReconcileBlock \/ ReconcileBlockFails
           \/ ActivateVersion \/ ActivateVersionFails \/ Deactivate \/ DeactivateFails
  BY <1>3, <1>5 DEF UpdateMetadata, UpdateMetadataFails, CloneVersion,
     CloneVersionFails, ReconcileBlock, ReconcileBlockFails, ActivateVersion,
     ActivateVersionFails, Deactivate, DeactivateFails, UpdateServiceCall,
     CloneVersionCall, AppendDrafts, WriteBlockCall, ActivateVersionCall,
     DeactivateVersionCall, remote
<1>6. CASE ForeignDraft \/ ForeignActivate \/ ForeignDeactivate \/ ForeignRename
  BY <1>3, <1>6 DEF ForeignDraft, ForeignActivate, ForeignDeactivate, ForeignRename,
     AppendDrafts, ActivateVersionCall, DeactivateVersionCall, UpdateServiceCall
<1>7. CASE \/ UNCHANGED vars \/ BeginApply \/ ReadDetails \/ ReadBlocks \/ MakePlan
           \/ CreateServiceRejected \/ SelectSource \/ ValidateVersion
           \/ DeleteDetails \/ ReleaseInactive
           \/ EditConfig \/ ImportState \/ Untaint \/ Crash
  BY <1>3, <1>7 DEF vars, remote, BeginApply, ReadDetails, ReadBlocks, MakePlan,
     CreateServiceRejected, SelectSource, ValidateVersion, DeleteDetails,
     ReleaseInactive, EditConfig, ImportState, Untaint, Crash, FailRead
<1>. QED
  BY <1>2, <1>3, <1>4, <1>5, <1>6, <1>7 DEF Next, Apply, User, Operator

\* NoServiceIsLost, of one service.
Known(s) == s = state.id \/ s \in adrift \/ (op = "create" /\ s = sid)

\* A service leaves the record only by being deleted or set adrift.
LEMMA NoServiceIsLostStep == IInv /\ [Next]_vars => NoServiceIsLost'
<1>. SUFFICES ASSUME IInv, [Next]_vars, NEW s \in Services, Live(s)'
              PROVE  Known(s)'
  BY DEF NoServiceIsLost, Known
<1>0. /\ RemoteTypeOK /\ LocalTypeOK /\ Control /\ RecordShape /\ HeldVersions
      /\ state \in State /\ s # 0
  BY TypeParts DEF IInv, LocalTypeOK, Services
<1>1. CASE CreateService
  <2>1. ~Tracked /\ op = "none" /\ state' = state /\ adrift \subseteq adrift'
    BY <1>0, <1>1 DEF CreateService, Control, Finish, history
  <2>2. Live(s) => s \in adrift
    BY <1>0, <2>1 DEF IInv, NoServiceIsLost, Tracked
  <2>. QED  BY <2>1, <2>2, LiveSteps DEF Known
<1>. SUFFICES ASSUME Live(s), Known(s) PROVE Known(s)'
  BY <1>1, LiveSteps DEF IInv, NoServiceIsLost, Known
<1>2. ASSUME NEW st, Finish(st) PROVE state' = st /\ op' = "none"
  BY <1>2 DEF Finish
<1>3. ASSUME Fail, adrift \subseteq adrift' PROVE Known(s)'
  <2>1. CASE op = "create"
    <3>1. state' = PartialCreateState /\ ~Tracked
      BY <1>0, <1>2, <1>3, <2>1 DEF Fail, Control
    <3>2. s = sid \/ s \in adrift
      BY <1>0, <3>1 DEF Known, Tracked
    <3>. QED  BY <1>3, <3>1, <3>2 DEF Known, PartialCreateState
  <2>2. CASE op # "create"
    <3>1. state' = state
      BY <1>2, <1>3, <2>2 DEF Fail
    <3>. QED  BY <1>3, <2>2, <3>1 DEF Known
  <2>. QED  BY <2>1, <2>2
<1>4. ASSUME op # "create" \/ (op' = "create" /\ sid' = sid),
             state'.id = state.id, adrift \subseteq adrift'
      PROVE  Known(s)'
  BY <1>4 DEF Known
<1>5. CASE Crash
  <2>1. state' = (IF state.managed = 0 THEN NoState ELSE state)
    BY <1>2, <1>5 DEF Crash
  <2>2. Tracked /\ state.managed = 0 => sid = state.id
    BY <1>0 DEF RecordShape, Control, Refreshing
  <2>. QED  BY <1>0, <1>5, <2>1, <2>2 DEF Crash, Known, Tracked
<1>6. CASE FailRead /\ pc \in Refreshing
  <2>1. state' = (IF state.managed = 0 THEN NoState ELSE state)
    BY <1>2, <1>6 DEF FailRead
  <2>2. sid = state.id /\ op = "none"
    BY <1>0, <1>6 DEF Control
  <2>. QED  BY <1>6, <2>1, <2>2 DEF FailRead, Known
<1>7. ASSUME op # "create", sid = state.id, s # sid, adrift \subseteq adrift'
      PROVE  Known(s)'
  BY <1>7 DEF Known
<1>8. CASE \/ UpdateMetadataFails \/ CloneVersionFails \/ ReconcileBlockFails
           \/ ActivateVersionFails \/ DeleteServiceFails
  BY <1>3, <1>8 DEF UpdateMetadataFails, CloneVersionFails, ReconcileBlockFails,
     ActivateVersionFails, DeleteServiceFails, Quiet, history
<1>9. CASE ReadDetails
  <2>1. pc = "refresh" /\ sid = state.id /\ op = "none"
    BY <1>0, <1>9 DEF ReadDetails, Control, Refreshing
  <2>. QED
    BY <1>4, <1>6, <1>7, <1>9, <2>1 DEF ReadDetails, Quiet, history, Refreshing
<1>10. CASE ReadBlocks
  <2>1. pc = "readBlocks" /\ sid = state.id /\ op = "none"
    BY <1>0, <1>10 DEF ReadBlocks, Control, Refreshing
  <2>2. CASE FailRead
    BY <1>6, <2>1, <2>2 DEF Refreshing
  <2>3. CASE ~FailRead
    <3>1. state'.id = state.id /\ UNCHANGED adrift
      BY <1>0, <1>10, <2>3 DEF ReadBlocks, State, Quiet, history
    <3>. QED  BY <1>4, <2>1, <3>1
  <2>. QED  BY <2>2, <2>3
<1>11. CASE UpdateMetadata
  <2>1. op = "update" /\ sid = state.id /\ UNCHANGED adrift
    BY <1>0, <1>11 DEF UpdateMetadata, Control, Updating, Quiet, history
  <2>2. state'.id = state.id
    BY <1>11, <2>1 DEF UpdateMetadata, Goto, Finish, FullState
  <2>. QED  BY <1>4, <2>1, <2>2
<1>12. CASE ActivateVersion
  <2>1. /\ state'.id = sid /\ UNCHANGED adrift
        /\ op = "create" => ~Tracked
        /\ op # "create" => sid = state.id
    BY <1>0, <1>12 DEF ActivateVersion, Control, Writing, Quiet, history, Finish, FullState
  <2>. QED  BY <1>0, <2>1 DEF Known, Tracked
<1>13. CASE SelectSource
  <2>1. op = "update" /\ UNCHANGED adrift
    BY <1>0, <1>13 DEF SelectSource, Control, Updating, Quiet, history
  <2>2. Fail \/ UNCHANGED state
    BY <1>13 DEF SelectSource
  <2>. QED  BY <1>3, <1>4, <2>1, <2>2
<1>14. CASE ValidateVersion
  <2>1. UNCHANGED adrift
    BY <1>14 DEF ValidateVersion, Quiet, history
  <2>2. Fail \/ UNCHANGED <<state, op, sid>>
    BY <1>14 DEF ValidateVersion, Goto
  <2>. QED  BY <1>3, <2>1, <2>2 DEF Known
<1>15. CASE MakePlan
  <2>1. op = "none" /\ UNCHANGED <<state, adrift>>
    BY <1>0, <1>15 DEF MakePlan, Control, Refreshing, Enter, Finish, history
  <2>. QED  BY <1>4, <2>1
<1>16. CASE CloneVersion \/ ReconcileBlock
  BY <1>16 DEF CloneVersion, ReconcileBlock, Quiet, history, Known
<1>17. CASE BeginApply \/ CreateServiceRejected
  <2>1. op = "none" /\ UNCHANGED <<state, adrift>>
    BY <1>0, <1>17 DEF BeginApply, CreateServiceRejected, Control, Finish, Quiet, history
  <2>. QED  BY <1>4, <2>1
<1>18. CASE DeleteDetails \/ ReleaseInactive \/ Deactivate \/ DeactivateFails
            \/ DeleteService
  <2>1. op = "delete" /\ sid = state.id /\ adrift \subseteq adrift'
    BY <1>0, <1>18 DEF DeleteDetails, ReleaseInactive, Deactivate, DeactivateFails,
       DeleteService, Control, Deleting, Quiet, history
  <2>2. CASE s = sid
    <3>1. CASE Forgotten /\ s \notin adrift'
      <4>2. state' = NoState /\ state # NoState
        BY <1>0, <2>1, <2>2, <3>1 DEF Forgotten, Finish, NoState
      <4>3. ~Fail /\ \A next : ~Goto(next)
        BY <1>2, <2>1, <4>2 DEF Fail, Goto
      <4>4. CASE DeleteDetails \/ DeactivateFails
        BY <2>2, <4>2, <4>3, <4>4 DEF DeleteDetails, DeactivateFails, Live, remote
      <4>5. CASE ReleaseInactive \/ Deactivate
        BY <2>2, <3>1, <4>3, <4>5 DEF ReleaseInactive, Deactivate
      <4>6. CASE DeleteService
        BY <1>0, <2>2, <4>6 DEF DeleteService, DeleteServiceCall, Live, RemoteTypeOK, remote
      <4>. QED  BY <1>18, <4>4, <4>5, <4>6
    <3>2. CASE s \in adrift'
      BY <3>2 DEF Known
    <3>3. CASE ~Forgotten
      <4>1. Fail \/ UNCHANGED state
        BY <1>18, <3>3 DEF DeleteDetails, ReleaseInactive, Deactivate, DeactivateFails,
           DeleteService, Goto
      <4>. QED  BY <1>3, <1>4, <2>1, <4>1
    <3>. QED  BY <3>1, <3>2, <3>3
  <2>. QED  BY <1>7, <2>1, <2>2
<1>19. CASE EditConfig \/ Operator \/ UNCHANGED vars
  BY <1>19 DEF EditConfig, Operator, ForeignDraft, ForeignActivate, ForeignDeactivate,
     ForeignDelete, ForeignRename, ForeignStep, vars, local, history, Known
<1>20. CASE ImportState
  <2>1. PICK t \in Services : state'.id = t /\ adrift' = adrift \ {t}
    BY <1>20 DEF ImportState
  <2>2. s \in adrift
    BY <1>0, <1>20 DEF ImportState, Known, Control, Tracked
  <2>. QED  BY <2>1, <2>2 DEF Known
<1>21. CASE Untaint
  BY <1>0, <1>21 DEF Untaint, history, Known, State
<1>. QED
  BY <1>1, <1>5, <1>8, <1>9, <1>10, <1>11, <1>12, <1>13, <1>14, <1>15, <1>16, <1>17,
     <1>18, <1>19, <1>20, <1>21 DEF Next, Apply, User

---------------------------------------------------------------------------
(* What Delete has looked at.                                              *)

\* Delete goes past its look at the service only as the policy allows.
LEMMA DeletePolicyStep == IInv /\ [Next]_vars => DeletePolicy'
<1>. SUFFICES ASSUME IInv, [Next]_vars PROVE DeletePolicy'
  OBVIOUS
<1>0. DeletePolicy /\ Control /\ LocalTypeOK /\ state \in State /\ Control'
  BY TypeParts, ControlStep DEF IInv, LocalTypeOK
<1>1. ASSUME op' # "delete" PROVE DeletePolicy'
  BY <1>0, <1>1 DEF DeletePolicy, Control, Deleting
<1>2. /\ \A st : Finish(st) => op' = "none"
      /\ Fail => op' = "none"
      /\ Forgotten => op' = "none"
      /\ FailRead => op' = "none"
  BY DEF Finish, Fail, Forgotten, FailRead
<1>3. CASE DeleteDetails \/ Deactivate \/ DeactivateFails
  BY <1>0, <1>1, <1>2, <1>3 DEF DeleteDetails, Deactivate, DeactivateFails, Goto,
     DeletePolicy
<1>4. CASE MakePlan
  BY <1>0, <1>1, <1>2, <1>4 DEF MakePlan, Enter, DeletePolicy
<1>5. CASE UNCHANGED vars \/ Operator
  BY <1>0, <1>5 DEF vars, local, Operator, ForeignDraft, ForeignActivate,
     ForeignDeactivate, ForeignDelete, ForeignRename, ForeignStep, DeletePolicy
<1>6. CASE \/ BeginApply \/ ReadDetails \/ ReadBlocks \/ Crash \/ CreateServiceRejected
           \/ EditConfig \/ ImportState \/ Untaint
  BY <1>0, <1>1, <1>2, <1>6 DEF BeginApply, ReadDetails, ReadBlocks, Crash,
     CreateServiceRejected, EditConfig, ImportState, Untaint, Control, Refreshing, Tracked
<1>7. CASE \/ CreateService \/ UpdateMetadata \/ UpdateMetadataFails \/ SelectSource
           \/ CloneVersion \/ CloneVersionFails \/ ReconcileBlock
           \/ ReconcileBlockFails \/ ValidateVersion \/ ActivateVersion
           \/ ActivateVersionFails
  BY <1>0, <1>1, <1>2, <1>7 DEF CreateService, UpdateMetadata, UpdateMetadataFails,
     SelectSource, CloneVersion, CloneVersionFails, ReconcileBlock, ReconcileBlockFails,
     ValidateVersion, ActivateVersion, ActivateVersionFails, Goto, Control, Updating, Writing
<1>8. CASE ReleaseInactive \/ DeleteService \/ DeleteServiceFails
  BY <1>1, <1>2, <1>8 DEF ReleaseInactive, DeleteService, DeleteServiceFails
<1>. QED
  BY <1>3, <1>4, <1>5, <1>6, <1>7, <1>8 DEF Next, Apply, User

---------------------------------------------------------------------------
(* The invariant.                                                          *)

\* With no service and no record there is nothing to be wrong.
LEMMA IInvInit == Init => IInv
<1>. SUFFICES ASSUME Init PROVE IInv
  OBVIOUS
<1>1. TypeOK
  BY TypeInit
<1>2. Control /\ RemoteShape /\ TheirsAreWhole
  BY FastlyAssumption DEF Init, RemoteInit, Control, Refreshing, Updating, Writing,
     Deleting, Tracked, NoState, RemoteShape, TheirsAreWhole, Live, Fresh
<1>3. HeldVersions /\ Progress /\ RecordShape /\ DeletePolicy /\ WorksOnItsOwnDraft
  BY DEF Init, HeldVersions, Progress, RecordShape, DeletePolicy, WorksOnItsOwnDraft,
     Tracked, NoState
<1>4. NothingTornGoesLive /\ StateDescribesActiveVersion /\ NoServiceIsLost
  BY DEF Init, RemoteInit, NothingTornGoesLive, StateDescribesActiveVersion,
     NoServiceIsLost, Tracked, NoState, Live
<1>. QED  BY <1>1, <1>2, <1>3, <1>4 DEF IInv

\* Every step of Terraform, its user or an operator keeps the invariant.
LEMMA IInvStep == IInv /\ [Next]_vars => IInv'
<1>. SUFFICES ASSUME IInv, [Next]_vars PROVE IInv'
  OBVIOUS
<1>1. RemoteTypeOK' /\ RemoteShape' /\ TheirsAreWhole'
  BY TypeParts, RemoteSteps, RemoteStepSafe DEF IInv
<1>2. TypeOK'
  BY <1>1, LocalTypeStep, BookTypeStep DEF TypeOK, LocalTypeOK, BookTypeOK
<1>. QED
  BY <1>1, <1>2, ControlStep, HeldVersionsStep, DraftStep, RecordShapeStep,
     DeletePolicyStep, NothingTornStep, StateDescribesStep, NoServiceIsLostStep DEF IInv

\* Every reachable state satisfies the inductive invariant.
THEOREM Invariance == Spec => []IInv
BY IInvInit, IInvStep, PTL DEF Spec

\* Every variable keeps its type, whatever fails and whoever interferes.
THEOREM TypeCorrect == Spec => []TypeOK
<1>1. IInv => TypeOK
  BY DEF IInv
<1>. QED  BY <1>1, Invariance, PTL

\* A version the provider made live is one whole valid configuration that an
\* apply asked for.
THEOREM NothingTornEverGoesLive == Spec => []NothingTornGoesLive
<1>1. IInv => NothingTornGoesLive
  BY DEF IInv
<1>. QED  BY <1>1, Invariance, PTL

\* A handler reconciles, validates and activates a draft of its own.
THEOREM HandlersWorkOnTheirDraft == Spec => []WorksOnItsOwnDraft
<1>1. IInv => WorksOnItsOwnDraft
  BY DEF IInv
<1>. QED  BY <1>1, Invariance, PTL

\* The blocks in the state are those of the version the state calls active.
THEOREM StateTellsTheTruth == Spec => []StateDescribesActiveVersion
<1>1. IInv => StateDescribesActiveVersion
  BY DEF IInv
<1>. QED  BY <1>1, Invariance, PTL

\* A service that exists is recorded, being recorded, or beyond the
\* provider's reach.
THEOREM ServicesAreNotLost == Spec => []NoServiceIsLost
<1>1. IInv => NoServiceIsLost
  BY DEF IInv
<1>. QED  BY <1>1, Invariance, PTL

---------------------------------------------------------------------------
(* What a step may never do.                                               *)

\* A step of Terraform that takes a service off the air or deletes it is a
\* step of Delete.
LEMMA DestroyStep ==
    ASSUME IInv, [Next]_vars, foreign' = foreign, NEW s \in Services
    PROVE  /\ active[s] # 0 /\ active'[s] = 0 =>
                s = state.id /\ (state.force \/ state.reuse)
           /\ Live(s) /\ ~Live(s)' =>
                s = state.id /\ ~state.reuse /\ (~plan.present \/ state.tainted)
<1>0. /\ RemoteTypeOK /\ LocalTypeOK /\ BookTypeOK /\ Control /\ DeletePolicy
      /\ WorksOnItsOwnDraft
  BY TypeParts DEF IInv
<1>1. /\ status \in [Services -> {"unused", "live", "deleted"}]
      /\ active \in [Services -> 0 .. MaxVersions]
  BY <1>0 DEF RemoteTypeOK
<1>2. ASSUME active[s] # 0 => active'[s] # 0, Live(s) => Live(s)'
      PROVE  /\ ~(active[s] # 0 /\ active'[s] = 0)
             /\ ~(Live(s) /\ ~Live(s)')
  BY <1>2
<1>3. CASE Deactivate \/ DeactivateFails
  <2>1. pc = "deactivate" /\ sid = state.id /\ UNCHANGED status
    BY <1>0, <1>3 DEF Deactivate, DeactivateFails, Control, Deleting,
       DeactivateVersionCall, remote
  <2>2. UNCHANGED active \/ active' = [active EXCEPT ![sid] = 0]
    BY <1>3 DEF Deactivate, DeactivateFails, DeactivateVersionCall, remote
  <2>. QED  BY <1>0, <1>1, <2>1, <2>2 DEF DeletePolicy, Live
<1>4. CASE DeleteService \/ DeleteServiceFails
  <2>1. pc = "remove" /\ op = "delete" /\ sid = state.id /\ UNCHANGED active
    BY <1>0, <1>4 DEF DeleteService, DeleteServiceFails, Control, Deleting,
       DeleteServiceCall, remote
  <2>2. UNCHANGED status \/ status' = [status EXCEPT ![sid] = "deleted"]
    BY <1>4 DEF DeleteService, DeleteServiceFails, DeleteServiceCall, remote
  <2>. QED  BY <1>0, <1>1, <2>1, <2>2 DEF DeletePolicy, Live
<1>5. CASE ActivateVersion \/ ActivateVersionFails
  <2>1. sid \in Services /\ target # 0 /\ UNCHANGED status
    BY <1>0, <1>5, FastlyAssumption DEF ActivateVersion, ActivateVersionFails,
       WorksOnItsOwnDraft, ActivateVersionCall, remote, RemoteTypeOK
  <2>2. UNCHANGED active \/ active' = [active EXCEPT ![sid] = target]
    BY <1>5 DEF ActivateVersion, ActivateVersionFails, ActivateVersionCall, remote
  <2>3. pc = "activate" /\ (op = "create" => ~Tracked) /\ (op # "create" => sid = state.id)
    BY <1>0, <1>5 DEF ActivateVersion, ActivateVersionFails, Control, Writing
  <2>. QED  BY <1>1, <2>1, <2>2 DEF Live
<1>6. CASE \/ CreateService \/ UpdateMetadata \/ UpdateMetadataFails \/ CloneVersion
           \/ CloneVersionFails \/ ReconcileBlock \/ ReconcileBlockFails
  <2>1. UNCHANGED active
    BY <1>6 DEF CreateService, UpdateMetadata, UpdateMetadataFails, CloneVersion,
       CloneVersionFails, ReconcileBlock, ReconcileBlockFails, CreateServiceCall,
       UpdateServiceCall, CloneVersionCall, AppendDrafts, WriteBlockCall, remote
  <2>2. Live(s) => Live(s)'
    BY <1>1, <1>6 DEF CreateService, UpdateMetadata, UpdateMetadataFails, CloneVersion,
       CloneVersionFails, ReconcileBlock, ReconcileBlockFails, CreateServiceCall,
       UpdateServiceCall, CloneVersionCall, AppendDrafts, WriteBlockCall, remote, Live
  <2>. QED  BY <2>1, <2>2
<1>7. CASE \/ UNCHANGED vars \/ BeginApply \/ ReadDetails \/ ReadBlocks \/ MakePlan
           \/ CreateServiceRejected \/ SelectSource \/ ValidateVersion
           \/ DeleteDetails \/ ReleaseInactive
           \/ EditConfig \/ ImportState \/ Untaint \/ Crash
  BY <1>7 DEF vars, remote, BeginApply, ReadDetails, ReadBlocks, MakePlan,
     CreateServiceRejected, SelectSource, ValidateVersion, DeleteDetails,
     ReleaseInactive, EditConfig, ImportState, Untaint, Crash, FailRead, Live
<1>8. ~Operator
  <2>1. foreign \in Nat
    BY <1>0, AutoAssumption DEF BookTypeOK
  <2>. QED
    BY <2>1 DEF Operator, ForeignDraft, ForeignActivate, ForeignDeactivate,
       ForeignDelete, ForeignRename, ForeignStep
<1>. QED
  BY <1>3, <1>4, <1>5, <1>6, <1>7, <1>8 DEF Next, Apply, User

\* Terraform takes services off the air, and deletes them, only as
\* force_destroy and reuse allow, and only the one it manages.
THEOREM DestroysAsAllowed == Spec => DestroyHonoursPolicy
<1>1. IInv /\ [Next]_vars =>
        (foreign' = foreign =>
            \A s \in Services :
                /\ active[s] # 0 /\ active'[s] = 0 =>
                        s = state.id /\ (state.force \/ state.reuse)
                /\ Live(s) /\ ~Live(s)' =>
                        s = state.id /\ ~state.reuse /\ (~plan.present \/ state.tainted))
  BY DestroyStep
<1>. QED  BY <1>1, Invariance, PTL DEF Spec, DestroyHonoursPolicy

---------------------------------------------------------------------------
(* ServiceAuto implements Publication.                                     *)

\* As long as the active version is the same, so is what is served.
LEMMA ServedFrozen ==
    ASSUME IInv, [Next]_vars, active' = active
    PROVE  Served' = Served
<1>1. Frozen /\ RemoteShape
  BY RemoteSteps, RemoteStepSafe, TypeParts DEF IInv
<1>2. \A s \in Services : active[s] # 0 => content'[s][active[s]] = content[s][active[s]]
  BY <1>1 DEF Frozen, RemoteShape
<1>. QED  BY <1>2 DEF Served

\* What one service serves when its active version becomes v.
LEMMA ServedAfterSwitch ==
    ASSUME IInv, NEW s \in Services, NEW v \in Versions \cup {0}, UNCHANGED content,
           active' = [active EXCEPT ![s] = v]
    PROVE  Served' = [Served EXCEPT ![s] = IF v = 0 THEN <<>> ELSE content[s][v]]
<1>1. active \in [Services -> 0 .. MaxVersions]
  BY TypeParts DEF IInv, RemoteTypeOK
<1>. QED  BY <1>1 DEF Served

\* Nothing is asked for and nothing is served at the start.
LEMMA AbstractInit == Init => Abstract!Init
BY DEF Init, RemoteInit, Abstract!Init, Served

\* Every step asks, publishes a whole configuration, withdraws one, or is
\* invisible to who looks at the traffic.
LEMMA AbstractStep ==
    ASSUME IInv, [Next]_vars
    PROVE  [Abstract!Next]_<<requested, Served>>
<1>0. /\ RemoteTypeOK /\ LocalTypeOK /\ BookTypeOK /\ Control /\ Progress
      /\ WorksOnItsOwnDraft /\ RemoteShape /\ TheirsAreWhole /\ NothingTornGoesLive
  BY TypeParts DEF IInv
<1>1. CASE BeginApply \/ ImportState
  <2>1. config.cfg \in Config
    BY <1>0, AutoAssumption DEF LocalTypeOK, Request
  <2>2. UNCHANGED active /\ (requested' = requested \cup {config.cfg} \/ requested' = requested)
    BY <1>1 DEF BeginApply, ImportState, remote
  <2>. QED  BY <2>1, <2>2, ServedFrozen DEF Abstract!Next, Abstract!Ask
<1>2. ASSUME requested' = requested, NEW s \in Services, NEW v \in Versions,
             content[s][v] \in requested \cup Foreign, ActivateVersionCall(s, v)
      PROVE  [Abstract!Next]_<<requested, Served>>
  <2>a. v # 0 /\ v \in Versions \cup {0}
    BY <1>2, FastlyAssumption DEF Versions
  <2>b. UNCHANGED content /\ active' = [active EXCEPT ![s] = v]
    BY <1>2 DEF ActivateVersionCall
  <2>c. Served' = [Served EXCEPT ![s] = IF v = 0 THEN <<>> ELSE content[s][v]]
    BY <2>a, <2>b, <1>0, ServedAfterSwitch
  <2>1. Served' = [Served EXCEPT ![s] = content[s][v]]
    BY <2>a, <2>c
  <2>2. content[s][v] \in Config
    BY <1>0, <1>2, AutoAssumption DEF BookTypeOK
  <2>. QED  BY <1>2, <2>1, <2>2 DEF Abstract!Next, Abstract!Publish
<1>3. ASSUME requested' = requested, NEW s \in Services, DeactivateVersionCall(s)
      PROVE  [Abstract!Next]_<<requested, Served>>
  <2>1. Served' = [Served EXCEPT ![s] = <<>>]
    BY <1>3, ServedAfterSwitch DEF DeactivateVersionCall
  <2>. QED  BY <1>3, <2>1 DEF Abstract!Next, Abstract!Withdraw
<1>4. ASSUME requested' = requested, UNCHANGED active
      PROVE  [Abstract!Next]_<<requested, Served>>
  BY <1>4, ServedFrozen
<1>5. CASE ActivateVersion \/ ActivateVersionFails
  <2>1. /\ pc = "activate" /\ requested' = requested
        /\ UNCHANGED active \/ ActivateVersionCall(sid, target)
    BY <1>5 DEF ActivateVersion, ActivateVersionFails, Quiet, history, remote
  <2>2. sid \in Services /\ target \in Versions
    BY <1>0, <2>1, FastlyAssumption DEF WorksOnItsOwnDraft, RemoteTypeOK, LocalTypeOK, Versions
  <2>3. content[sid][target] \in requested
    BY <1>0, <2>1 DEF Progress, Control, Writing
  <2>. QED  BY <1>2, <1>4, <2>1, <2>2, <2>3
<1>6. CASE ForeignActivate
  <2>1. PICK s \in Services : \E v \in theirs[s] \cup locked[s] : ActivateVersionCall(s, v)
    BY <1>6 DEF ForeignActivate
  <2>2. PICK v \in theirs[s] \cup locked[s] : ActivateVersionCall(s, v)
    BY <2>1
  <2>3. v \in Versions /\ content[s][v] \in requested \cup Foreign
    BY <1>0 DEF RemoteTypeOK, BookTypeOK, TheirsAreWhole, NothingTornGoesLive
  <2>4. requested' = requested
    BY <1>6 DEF ForeignActivate, ForeignStep
  <2>. QED  BY <1>2, <2>2, <2>3, <2>4
<1>7. CASE Deactivate \/ DeactivateFails \/ ForeignDeactivate
  <2>1. requested' = requested
    BY <1>7 DEF Deactivate, DeactivateFails, ForeignDeactivate, ForeignStep, Quiet, history
  <2>2. UNCHANGED active \/ \E s \in Services : DeactivateVersionCall(s)
    BY <1>0, <1>7 DEF Deactivate, DeactivateFails, ForeignDeactivate, remote, Control, Deleting
  <2>. QED  BY <1>3, <1>4, <2>1, <2>2
<1>8. CASE \/ CreateService \/ UpdateMetadata \/ UpdateMetadataFails \/ CloneVersion
           \/ CloneVersionFails \/ ReconcileBlock \/ ReconcileBlockFails
           \/ DeleteService \/ DeleteServiceFails
           \/ ForeignDraft \/ ForeignDelete \/ ForeignRename
  <2>1. UNCHANGED active
    BY <1>8 DEF CreateService, UpdateMetadata, UpdateMetadataFails, CloneVersion,
       CloneVersionFails, ReconcileBlock, ReconcileBlockFails, CreateServiceCall,
       UpdateServiceCall, CloneVersionCall, AppendDrafts, WriteBlockCall,
       DeleteService, DeleteServiceFails, DeleteServiceCall, ForeignDraft,
       ForeignDelete, ForeignRename, remote
  <2>2. requested' = requested
    BY <1>8 DEF CreateService, UpdateMetadata, UpdateMetadataFails, CloneVersion,
       CloneVersionFails, ReconcileBlock, ReconcileBlockFails, DeleteService,
       DeleteServiceFails, ForeignDraft, ForeignDelete, ForeignRename, ForeignStep,
       Quiet, history
  <2>. QED  BY <1>4, <2>1, <2>2
<1>9. CASE \/ UNCHANGED vars \/ ReadDetails \/ ReadBlocks \/ MakePlan
           \/ CreateServiceRejected \/ SelectSource \/ ValidateVersion
           \/ DeleteDetails \/ ReleaseInactive \/ EditConfig \/ Untaint \/ Crash
  BY <1>4, <1>9 DEF vars, remote, history, ReadDetails, ReadBlocks, MakePlan,
     CreateServiceRejected, SelectSource, ValidateVersion, DeleteDetails,
     ReleaseInactive, EditConfig, Untaint, Crash, FailRead, Quiet
<1>. QED
  BY <1>1, <1>5, <1>6, <1>7, <1>8, <1>9 DEF Next, Apply, User, Operator

\* What the services serve is always nothing or one whole configuration that
\* was asked for, or published by hand.
THEOREM ImplementsPublication == Spec => AbstractSpec
BY AbstractInit, AbstractStep, Invariance, PTL DEF Spec, AbstractSpec, Abstract!Spec
=============================================================================
