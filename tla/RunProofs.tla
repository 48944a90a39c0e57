------------------------------- MODULE RunProofs -------------------------------
(***************************************************************************)
(* Theorems about the requests that change a run: RunSessions, for any     *)
(* number of requests and of steps, and AuditLog, for any number of        *)
(* appenders, runs and events.                                             *)
(*                                                                         *)
(* A request decides on its own copy of the row and writes at commit, so   *)
(* the properties of the row follow from what is known of a session that   *)
(* has decided and not yet committed: PendingInv says that its writes,     *)
(* merged into the row as it is now, still make an acceptable step.  It is *)
(* kept because nobody else commits while the session holds the lock       *)
(* (LockInv).                                                              *)
(***************************************************************************)
EXTENDS RunSessions, AuditLog, TLAPS

LockInv == \A s \in Sessions : pc[s] = "pending" <=> lock = s

PhaseInv == \A s \in Sessions :
                /\ pc[s] = "loaded" => op[s] \in ReadingOps
                /\ pc[s] = "begun" => op[s] \in Ops

\* The writes cols of the object new, merged into the row, with answer res.
Sound(s, new, cols, res) ==
    LET after == Merged(row, new, cols)
    IN  /\ after.status = "queued" => row.status = "queued"
        /\ res = "claimed" => row.status = "queued" /\ after.status # "queued"
        /\ after.cursor = IF res = "stepped" THEN row.cursor + 1 ELSE row.cursor
        /\ res = "stepped" => /\ row.cursor < MaxCursor
                              /\ row.cursor = IF op[s] = "step_ok" THEN arg[s]
                                              ELSE new.cursor - 1

PendingInv == \A s \in Sessions :
                  pc[s] = "pending" => Sound(s, view[s], dirty[s], result[s])

ClaimInv == OneClaim /\ (row.status = "queued" => claims = 0)

IInv == TypeOK /\ LockInv /\ PhaseInv /\ PendingInv /\ ClaimInv /\ ExactlyOnceSteps

--------------------------------------------------------------------------------

LEMMA InitInv == Init => IInv
  BY SessionsAssumption, NStepsAssumption
  DEF Init, InitSessions, IInv, TypeOK, LockInv, PhaseInv, PendingInv, ClaimInv, OneClaim,
      ExactlyOnceSteps, Row, NewRow, Reasons, Results, Columns, MaxCursor,
      LockingOps, ReadingOps, SM!RunStatus

\* What a session that takes the lock must show for the invariant to be kept.
LEMMA FlushInv ==
    ASSUME IInv, NEW s \in Sessions, NEW new \in Row, NEW cols \in SUBSET Columns,
           NEW res \in Results, Flush(s, new, cols, res), Sound(s, new, cols, res)
    PROVE  IInv'
  <1> USE DEF Flush, IInv
  <1>1. TypeOK'
    BY DEF TypeOK
  <1>2. LockInv'
    BY SessionsAssumption DEF TypeOK, LockInv
  <1>3. PhaseInv'
    BY DEF TypeOK, PhaseInv
  <1>4. PendingInv'
    <2> SUFFICES ASSUME NEW t \in Sessions, pc'[t] = "pending"
                 PROVE  Sound(t, view[t], dirty[t], result[t])'
      BY DEF PendingInv
    <2>1. t = s
      BY SessionsAssumption DEF LockInv, TypeOK
    <2>2. QED
      BY <2>1 DEF Sound, Merged, TypeOK
  <1>5. ClaimInv' /\ ExactlyOnceSteps'
    BY DEF ClaimInv, OneClaim, ExactlyOnceSteps
  <1>6. QED
    BY <1>1, <1>2, <1>3, <1>4, <1>5

\* The decision of a session, seen from outside.
Decides(s) == \E new \in Row, cols \in SUBSET Columns, res \in Results :
                  Flush(s, new, cols, res) /\ Sound(s, new, cols, res)

LEMMA SeenType ==
    ASSUME TypeOK, NEW s \in Sessions
    PROVE  Seen(s) \in Row
  BY DEF Seen, TypeOK

\* Writing the changed columns of an object whose status is not set back to
\* queued, and whose cursor has not moved, is sound whatever the row holds by
\* now: this is all that an operation deciding on an old view guarantees.
LEMMA StaleSound ==
    ASSUME TypeOK, NEW s \in Sessions, NEW old \in Row, NEW new \in Row,
           NEW res \in Results, res \notin {"claimed", "stepped"},
           new.status = old.status \/ new.status # "queued",
           new.cursor = old.cursor
    PROVE  /\ Changed(old, new) \in SUBSET Columns
           /\ Sound(s, new, Changed(old, new), res)
  BY DEF Changed, Sound, Merged, Row, TypeOK, Columns

\* Writing the changed columns of an object that was the row when the lock was
\* taken makes that object the row.
LEMMA MergedFresh ==
    ASSUME NEW new \in Row, row \in Row
    PROVE  /\ Changed(row, new) \in SUBSET Columns
           /\ Merged(row, new, Changed(row, new)) = new
  BY DEF Changed, Merged, Row, Columns

LEMMA MoveType ==
    ASSUME NEW r \in Row, NEW target \in SM!RunStatus
    PROVE  /\ Move(r, target) \in Row
           /\ Move(r, target).status = target
           /\ Move(r, target).cursor = r.cursor
           /\ Move(r, target).reason = r.reason
           /\ Move(r, target).ended = (r.ended \/ target \in SM!Terminal)
           /\ Move(r, target).error = r.error
  BY DEF Move, Row

\* A transition that is refused, or that changes neither the cursor nor asks
\* for queued, is sound on any view.
LEMMA TransitionDecides ==
    ASSUME TypeOK, NEW s \in Sessions, NEW new \in Row, NEW kept \in Row,
           NEW target \in SM!RunStatus \ {"queued"},
           NEW res \in Results \ {"stepped"},
           TransitionOr(s, target, new, res, kept),
           new.status = target, new.cursor = Seen(s).cursor,
           kept.status = Seen(s).status, kept.cursor = Seen(s).cursor,
           res = "claimed" => Seen(s) = row /\ row.status = "queued"
    PROVE  Decides(s)
  <1>1. Seen(s) \in Row
    BY SeenType
  <1>2. CASE SM!CanTransition(Seen(s).status, target) /\ res # "claimed"
    <2>1. /\ Changed(Seen(s), new) \in SUBSET Columns
          /\ Sound(s, new, Changed(Seen(s), new), res)
      BY <1>1, <1>2, StaleSound
    <2>2. Flush(s, new, Changed(Seen(s), new), res)
      BY <1>2 DEF TransitionOr
    <2>3. QED
      BY <2>1, <2>2 DEF Decides
  <1>3. CASE SM!CanTransition(Seen(s).status, target) /\ res = "claimed"
    <2>1. Flush(s, new, Changed(row, new), res)
      BY <1>3 DEF TransitionOr
    <2>2. Changed(row, new) \in SUBSET Columns /\ Merged(row, new, Changed(row, new)) = new
      BY MergedFresh DEF TypeOK
    <2>3. Sound(s, new, Changed(row, new), res)
      BY <1>3, <2>2 DEF Sound
    <2>4. QED
      BY <2>1, <2>2, <2>3 DEF Decides
  <1>4. CASE ~SM!CanTransition(Seen(s).status, target)
    <2>1. /\ Changed(Seen(s), kept) \in SUBSET Columns
          /\ Sound(s, kept, Changed(Seen(s), kept), "rejected")
      BY <1>1, StaleSound DEF Results
    <2>2. Flush(s, kept, Changed(Seen(s), kept), "rejected")
      BY <1>4 DEF TransitionOr
    <2>3. QED
      BY <2>1, <2>2 DEF Decides, Results
  <1>5. QED
    BY <1>2, <1>3, <1>4

\* A request refused before it assigned anything.
LEMMA RefusalDecides ==
    ASSUME TypeOK, NEW s \in Sessions, Flush(s, Seen(s), {}, "rejected")
    PROVE  Decides(s)
  <1>1. Seen(s) \in Row
    BY SeenType
  <1>2. Sound(s, Seen(s), {}, "rejected")
    BY DEF Sound, Merged
  <1>3. QED
    BY <1>1, <1>2 DEF Decides, Results

\* An operation that locks first decides on the row itself.
LEMMA LockingSees ==
    ASSUME NEW s \in Sessions, NEW o \in LockingOps, AtLock(s, o)
    PROVE  Seen(s) = row /\ op[s] = o
  BY DEF AtLock, Seen, ReadsFirst, LockingOps, ReadingOps

\* The row after a step was accepted.
LEMMA AdvancedType ==
    ASSUME NEW r \in Row, r.cursor < MaxCursor
    PROVE  /\ Advanced(r) \in Row
           /\ Advanced(r).cursor = r.cursor + 1
           /\ Advanced(r).status \in {r.status, "completed"}
  <1> DEFINE next == [r EXCEPT !.cursor = @ + 1]
  <1>1. next \in Row /\ next.cursor = r.cursor + 1 /\ next.status = r.status
    BY NStepsAssumption DEF Row, MaxCursor
  <1>2. "completed" \in SM!RunStatus
    BY DEF SM!RunStatus
  <1>3. Advanced(r) = IF next.cursor >= NSteps THEN Move(next, "completed") ELSE next
    BY DEF Advanced
  <1> HIDE DEF next
  <1>4. QED
    BY <1>1, <1>2, <1>3, MoveType

LEMMA StepDecides ==
    ASSUME TypeOK, NEW s \in Sessions, NEW r \in Row,
           r.cursor = row.cursor, r.status = row.status, row.cursor < MaxCursor,
           op[s] = "step_ok" => arg[s] = row.cursor,
           row.status = "running",
           Flush(s, Advanced(r), Changed(row, Advanced(r)), "stepped")
    PROVE  Decides(s)
  <1>1. /\ Advanced(r) \in Row
        /\ Advanced(r).cursor = row.cursor + 1
        /\ Advanced(r).status # "queued"
    BY AdvancedType
  <1>2. /\ Changed(row, Advanced(r)) \in SUBSET Columns
        /\ Merged(row, Advanced(r), Changed(row, Advanced(r))) = Advanced(r)
    BY <1>1, MergedFresh DEF TypeOK
  <1>3. Sound(s, Advanced(r), Changed(row, Advanced(r)), "stepped")
    <2>1. row.cursor \in Nat
      BY NStepsAssumption DEF TypeOK, Row, MaxCursor
    <2>2. QED
      BY <1>1, <1>2, <2>1 DEF Sound
  <1>4. QED
    BY <1>1, <1>2, <1>3 DEF Decides, Results

\* Every endpoint, once it holds the lock, takes a sound decision.
LEMMA EndpointsDecide ==
    ASSUME IInv, NEW s \in Sessions, LockAndDecide(s)
    PROVE  Decides(s)
  <1> USE DEF IInv
  <1> DEFINE seen == Seen(s)
  <1>0. seen \in Row /\ row \in Row /\ row.cursor \in Nat
    BY SeenType, NStepsAssumption DEF TypeOK, Row, MaxCursor
  <1>t. \A t \in {"running", "waiting_for_user", "canceled", "completed", "failed"} :
            t \in SM!RunStatus \ {"queued"}
    BY DEF SM!RunStatus
  <1>r. {"ok", "claimed", "rejected"} \subseteq Results \ {"stepped"}
    BY DEF Results
  <1>v. \A reason \in Reasons, r \in Row :
            /\ [r EXCEPT !.reason = reason] \in Row
            /\ [r EXCEPT !.reason = reason].status = r.status
            /\ [r EXCEPT !.reason = reason].cursor = r.cursor
    BY DEF Row
  <1>e. \A error \in BOOLEAN, r \in Row :
            /\ [r EXCEPT !.error = error] \in Row
            /\ [r EXCEPT !.error = error].status = r.status
            /\ [r EXCEPT !.error = error].cursor = r.cursor
    BY DEF Row
  <1>m. \A t \in {"running", "waiting_for_user", "canceled", "completed", "failed"} :
            Move(seen, t) \in Row /\ Move(seen, t).status = t
                /\ Move(seen, t).cursor = seen.cursor
    BY <1>0, <1>t, MoveType
  <1>n. {"user", "tab_closed", "error"} \subseteq Reasons
    BY DEF Reasons
  <1>1. CASE Start(s)
    <2> DEFINE res == IF seen.status = "queued" THEN "claimed" ELSE "ok"
    <2>1. seen = row
      BY <1>1, LockingSees DEF Start, LockingOps
    <2>2. TransitionOr(s, "running", Move(seen, "running"), res, seen)
      BY <1>1 DEF Start
    <2>3. res \in Results \ {"stepped"} /\ (res = "claimed" => row.status = "queued")
      BY <1>r, <2>1
    <2> HIDE DEF res
    <2>4. QED
      BY <1>0, <1>t, <1>m, <2>1, <2>2, <2>3, TransitionDecides
  <1>2. CASE Pause(s)
    <2> DEFINE moved == Move(seen, "waiting_for_user")
               new == [moved EXCEPT !.reason = "user"]
    <2>1. moved \in Row /\ moved.status = "waiting_for_user" /\ moved.cursor = seen.cursor
      BY <1>m
    <2>2. TransitionOr(s, "waiting_for_user", new, "ok", seen)
      BY <1>2 DEF Pause
    <2> HIDE DEF moved
    <2>3. new \in Row /\ new.status = "waiting_for_user" /\ new.cursor = seen.cursor
      BY <1>v, <1>n, <2>1
    <2> HIDE DEF new
    <2>4. QED
      BY <1>0, <1>t, <1>r, <2>2, <2>3, TransitionDecides
  <1>3. CASE Resume(s)
    BY <1>0, <1>t, <1>r, <1>m, <1>3, TransitionDecides, RefusalDecides DEF Resume
  <1>4. CASE Cancel(s)
    BY <1>0, <1>t, <1>r, <1>m, <1>4, TransitionDecides DEF Cancel
  <1>5. CASE Complete(s)
    BY <1>0, <1>t, <1>r, <1>m, <1>5, TransitionDecides DEF Complete
  <1>6. CASE AdvanceStep(s)
    BY <1>0, <1>6, LockingSees, StepDecides, RefusalDecides DEF AdvanceStep, LockingOps
  <1>7. CASE StepSucceeded(s)
    <2> DEFINE cleared == [seen EXCEPT !.error = FALSE]
    <2>1. seen = row /\ op[s] = "step_ok"
      BY <1>7, LockingSees DEF StepSucceeded, LockingOps
    <2>2. cleared \in Row /\ cleared.status = row.status /\ cleared.cursor = row.cursor
      BY <1>0, <1>e, <2>1
    <2>3. CASE ReportApplies(s) /\ row.status = "running"
      <3>1. row.cursor < MaxCursor
        BY <1>0, <2>1, <2>3, NStepsAssumption DEF ReportApplies, TypeOK, MaxCursor
      <3>2. Flush(s, Advanced(cleared), Changed(row, Advanced(cleared)), "stepped")
        BY <1>7, <2>1, <2>3 DEF StepSucceeded
      <3> HIDE DEF cleared
      <3>3. QED
        BY <2>1, <2>2, <2>3, <3>1, <3>2, StepDecides DEF ReportApplies
    <2>4. CASE ReportApplies(s) /\ row.status = "recovering"
      <3>1. Flush(s, cleared, Changed(row, cleared), "rejected")
        BY <1>7, <2>1, <2>4 DEF StepSucceeded
      <3> HIDE DEF cleared
      <3>2. QED
        BY <1>0, <1>r, <2>2, <3>1, StaleSound DEF Decides
    <2>5. CASE ~ReportApplies(s)
      BY <1>7, <2>5, RefusalDecides DEF StepSucceeded
    <2>6. QED
      BY <2>1, <2>3, <2>4, <2>5 DEF ReportApplies
  <1>8. CASE StepFailed(s)
    <2>1. Failed(seen) \in Row /\ Failed(seen).status = "failed"
          /\ Failed(seen).cursor = seen.cursor
      BY <1>0, <1>e, <1>m DEF Failed
    <2>2. CASE Flush(s, Failed(seen), Changed(seen, Failed(seen)), "ok")
      BY <1>0, <1>r, <2>1, <2>2, StaleSound DEF Decides
    <2>3. QED
      BY <1>8, <2>2, RefusalDecides DEF StepFailed
  <1>9. CASE Fail(s)
    <2>1. Failed(seen) \in Row /\ Failed(seen).status = "failed"
          /\ Failed(seen).cursor = seen.cursor
      BY <1>0, <1>e, <1>m DEF Failed
    <2>2. QED
      BY <1>0, <1>t, <1>r, <1>e, <1>9, <2>1, TransitionDecides DEF Fail
  <1>10. CASE TabClosed(s)
    <2> DEFINE stamped == [seen EXCEPT !.reason = "tab_closed"]
    <2>1. stamped \in Row /\ stamped.status = seen.status /\ stamped.cursor = seen.cursor
      BY <1>0, <1>v, <1>n
    <2>2. Flush(s, stamped, Changed(seen, stamped), "ok")
          \/ TransitionOr(s, "waiting_for_user", Move(stamped, "waiting_for_user"), "ok", seen)
      BY <1>10 DEF TabClosed
    <2> HIDE DEF stamped
    <2>3. CASE Flush(s, stamped, Changed(seen, stamped), "ok")
      BY <1>0, <1>r, <2>1, <2>3, StaleSound DEF Decides
    <2>4. CASE TransitionOr(s, "waiting_for_user", Move(stamped, "waiting_for_user"), "ok", seen)
      <3>1. /\ Move(stamped, "waiting_for_user") \in Row
            /\ Move(stamped, "waiting_for_user").status = "waiting_for_user"
            /\ Move(stamped, "waiting_for_user").cursor = seen.cursor
        BY <1>t, <2>1, MoveType
      <3>2. QED
        BY <1>0, <1>t, <1>r, <2>4, <3>1, TransitionDecides
    <2>5. QED
      BY <2>2, <2>3, <2>4
  <1>11. CASE Recover(s)
    <2>1. \A new \in Row : new.status # "queued" /\ new.cursor = seen.cursor =>
              /\ {"status"} \cup Changed(seen, new) \in SUBSET Columns
              /\ Sound(s, new, {"status"} \cup Changed(seen, new), "ok")
      BY <1>0 DEF Changed, Sound, Merged, Row, TypeOK, Columns
    <2>2. \A new \in {Healed(seen), NotHealed(seen)} :
              new \in Row /\ new.status # "queued" /\ new.cursor = seen.cursor
      <3> DEFINE back == Move(seen, "running")
                 moved == Move(seen, "waiting_for_user")
                 stamped == [moved EXCEPT !.reason = "error"]
      <3>1. back \in Row /\ back.status = "running" /\ back.cursor = seen.cursor
        BY <1>m
      <3>2. moved \in Row /\ moved.status = "waiting_for_user" /\ moved.cursor = seen.cursor
        BY <1>m
      <3>3. Healed(seen) = back /\ NotHealed(seen) = stamped
        BY DEF Healed, NotHealed
      <3> HIDE DEF back, moved
      <3>4. "error" \in Reasons
        BY DEF Reasons
      <3>5. /\ stamped \in Row /\ stamped.status = "waiting_for_user"
            /\ stamped.cursor = seen.cursor
        BY <1>v, <3>2, <3>4
      <3> HIDE DEF stamped
      <3>6. QED
        BY <3>1, <3>3, <3>5
    <2>3. CASE \E new \in {Healed(seen), NotHealed(seen)} :
                 Flush(s, new, {"status"} \cup Changed(seen, new), "ok")
      <3>1. PICK new \in {Healed(seen), NotHealed(seen)} :
              Flush(s, new, {"status"} \cup Changed(seen, new), "ok")
        BY <2>3
      <3>2. "ok" \in Results
        BY DEF Results
      <3>3. QED
        BY <2>1, <2>2, <3>1, <3>2 DEF Decides
    <2>4. CASE Flush(s, seen, {}, "rejected")
      BY <1>r, <2>4, RefusalDecides
    <2>5. QED
      BY <1>11, <2>3, <2>4 DEF Recover
  <1>12. CASE HealSucceeded(s)
    BY <1>0, <1>t, <1>r, <1>m, <1>12, TransitionDecides DEF HealSucceeded, Healed
  <1>13. CASE HealFailed(s)
    <2>1. NotHealed(seen) \in Row /\ NotHealed(seen).status = "waiting_for_user"
          /\ NotHealed(seen).cursor = seen.cursor
      BY <1>v, <1>m, <1>n DEF NotHealed
    <2>2. QED
      BY <1>0, <1>t, <1>r, <1>13, <2>1, TransitionDecides DEF HealFailed
  <1>14. QED
    BY <1>1, <1>2, <1>3, <1>4, <1>5, <1>6, <1>7, <1>8, <1>9, <1>10, <1>11, <1>12, <1>13
    DEF LockAndDecide

LEMMA BeginInv ==
    ASSUME IInv, NEW s \in Sessions, Begin(s)
    PROVE  IInv'
  <1> USE DEF IInv, Begin
  <1>1. TypeOK'
    BY OpsAssumption DEF TypeOK
  <1>2. LockInv' /\ PhaseInv'
    BY DEF TypeOK, LockInv, PhaseInv
  <1>3. PendingInv'
    BY DEF TypeOK, PendingInv, Sound, Merged
  <1>4. ClaimInv' /\ ExactlyOnceSteps'
    BY DEF ClaimInv, OneClaim, ExactlyOnceSteps
  <1>5. QED
    BY <1>1, <1>2, <1>3, <1>4

\* NewRow and the values Reset gives back.
LEMMA ResetType ==
    ASSUME TypeOK, NEW s \in Sessions, Reset(s)
    PROVE  /\ pc' \in [Sessions -> {"idle", "begun", "loaded", "pending"}]
           /\ op' \in [Sessions -> LockingOps \cup ReadingOps]
           /\ arg' \in [Sessions -> 0..NSteps]
           /\ view' \in [Sessions -> Row]
           /\ dirty' \in [Sessions -> SUBSET Columns]
           /\ result' \in [Sessions -> Results]
  BY NStepsAssumption
  DEF TypeOK, Reset, Row, NewRow, Reasons, Results, MaxCursor, LockingOps, SM!RunStatus

LEMMA ReadRunInv ==
    ASSUME IInv, NEW s \in Sessions, ReadRun(s)
    PROVE  IInv'
  <1> USE DEF IInv
  <1>1. UNCHANGED <<row, lock, claims, accepted>>
    BY DEF ReadRun
  <1>2. /\ pc'[s] \in {"idle", "loaded"}
        /\ op'[s] \in ReadingOps \/ pc'[s] = "idle"
        /\ \A t \in Sessions \ {s} : /\ pc'[t] = pc[t] /\ op'[t] = op[t] /\ arg'[t] = arg[t]
                                     /\ view'[t] = view[t] /\ dirty'[t] = dirty[t]
                                     /\ result'[t] = result[t]
    BY DEF ReadRun, Reset, TypeOK, ReadsFirst
  <1>3. TypeOK'
    <2>1. CASE Reset(s)
      BY <1>1, <2>1, ResetType DEF TypeOK
    <2>2. CASE ~Reset(s)
      BY <1>1, <2>2 DEF TypeOK, ReadRun
    <2>3. QED
      BY <2>1, <2>2
  <1>4. LockInv' /\ PhaseInv'
    <2>1. pc[s] = "begun"
      BY DEF ReadRun
    <2>2. QED
      BY <1>1, <1>2, <2>1 DEF LockInv, PhaseInv
  <1>5. PendingInv'
    BY <1>1, <1>2 DEF PendingInv, Sound, Merged
  <1>6. ClaimInv' /\ ExactlyOnceSteps'
    BY <1>1 DEF ClaimInv, OneClaim, ExactlyOnceSteps
  <1>7. QED
    BY <1>3, <1>4, <1>5, <1>6

LEMMA CrashInv ==
    ASSUME IInv, NEW s \in Sessions, Crash(s)
    PROVE  IInv'
  <1> USE DEF IInv
  <1>1. /\ UNCHANGED <<row, claims, accepted>>
        /\ lock' = IF lock = s THEN NoSession ELSE lock
        /\ Reset(s)
    BY DEF Crash, ReleaseLock
  <1>2. /\ pc'[s] = "idle"
        /\ \A t \in Sessions \ {s} : /\ pc'[t] = pc[t] /\ op'[t] = op[t] /\ arg'[t] = arg[t]
                                     /\ view'[t] = view[t] /\ dirty'[t] = dirty[t]
                                     /\ result'[t] = result[t]
    BY <1>1 DEF Reset, TypeOK
  <1>3. TypeOK'
    BY <1>1, ResetType DEF TypeOK
  <1>4. LockInv' /\ PhaseInv'
    BY <1>1, <1>2, SessionsAssumption DEF LockInv, PhaseInv
  <1>5. PendingInv'
    BY <1>1, <1>2 DEF PendingInv, Sound, Merged
  <1>6. ClaimInv' /\ ExactlyOnceSteps'
    BY <1>1 DEF ClaimInv, OneClaim, ExactlyOnceSteps
  <1>7. QED
    BY <1>3, <1>4, <1>5, <1>6

LEMMA MergedType ==
    ASSUME NEW r \in Row, NEW v \in Row, NEW d \in SUBSET Columns
    PROVE  Merged(r, v, d) \in Row
  BY DEF Merged, Row

\* The commit of s: the lock made sure that its decision is still sound.
LEMMA CommitInv ==
    ASSUME IInv, NEW s \in Sessions, Commit(s)
    PROVE  IInv'
  <1> USE DEF IInv
  <1>1. /\ pc[s] = "pending"
        /\ row' = Merged(row, view[s], dirty[s])
        /\ lock' = IF lock = s THEN NoSession ELSE lock
        /\ Reset(s)
    BY DEF Commit, ReleaseLock
  <1>2. /\ pc'[s] = "idle"
        /\ \A t \in Sessions \ {s} : pc'[t] = pc[t] /\ op'[t] = op[t]
    BY <1>1 DEF Reset, TypeOK
  <1>3. lock = s /\ \A t \in Sessions : pc'[t] # "pending"
    BY <1>1, <1>2 DEF LockInv
  <1>4. Sound(s, view[s], dirty[s], result[s])
    BY <1>1 DEF PendingInv
  <1>5. row' \in Row /\ row.cursor \in 0..MaxCursor /\ row'.cursor \in 0..MaxCursor
    BY <1>1, MergedType DEF TypeOK, Row
  <1>6. result[s] = "stepped" => StepDone(s) = row.cursor
    BY <1>4 DEF StepDone, Sound
  <1>7. accepted' \in [0..MaxCursor -> Nat] /\ claims' \in Nat
    <2>1. claims' \in Nat
      BY DEF Commit, TypeOK
    <2>2. accepted' = IF result[s] = "stepped"
                      THEN [accepted EXCEPT ![row.cursor] = @ + 1] ELSE accepted
      BY <1>6 DEF Commit
    <2>3. accepted \in [0..MaxCursor -> Nat]
      BY DEF TypeOK
    <2>4. accepted[row.cursor] + 1 \in Nat
      BY <1>5, <2>3
    <2>5. QED
      BY <2>1, <2>2, <2>3, <2>4
  <1>8. TypeOK'
    BY <1>1, <1>5, <1>7, ResetType, SessionsAssumption DEF TypeOK
  <1>9. LockInv' /\ PhaseInv' /\ PendingInv'
    BY <1>1, <1>2, <1>3, SessionsAssumption DEF LockInv, PhaseInv, PendingInv
  <1>10. ClaimInv'
    BY <1>1, <1>4 DEF ClaimInv, OneClaim, Commit, Sound, TypeOK
  <1>11. ExactlyOnceSteps'
    <2>1. row'.cursor = IF result[s] = "stepped" THEN row.cursor + 1 ELSE row.cursor
      BY <1>1, <1>4 DEF Sound
    <2>2. accepted' = IF result[s] = "stepped"
                      THEN [accepted EXCEPT ![row.cursor] = @ + 1] ELSE accepted
      BY <1>6 DEF Commit
    <2>3. QED
      BY <2>1, <2>2, <1>5, NStepsAssumption, SMTT(20) DEF ExactlyOnceSteps, TypeOK, MaxCursor
  <1>12. QED
    BY <1>8, <1>9, <1>10, <1>11

LEMMA StutterInv == IInv /\ UNCHANGED vars => IInv'
  BY DEF vars, IInv, TypeOK, LockInv, PhaseInv, PendingInv, Sound, Merged, ClaimInv, OneClaim,
         ExactlyOnceSteps

\* IInv is inductive.
LEMMA NextInv == IInv /\ [Next]_vars => IInv'
  <1> SUFFICES ASSUME IInv, [Next]_vars
               PROVE  IInv'
    OBVIOUS
  <1>1. ASSUME NEW s \in Sessions, LockAndDecide(s)
        PROVE  IInv'
    <2>1. PICK new \in Row, cols \in SUBSET Columns, res \in Results :
              Flush(s, new, cols, res) /\ Sound(s, new, cols, res)
      BY <1>1, EndpointsDecide DEF Decides
    <2>2. QED
      BY <2>1, FlushInv
  <1>2. QED
    BY <1>1, BeginInv, ReadRunInv, CommitInv, CrashInv, StutterInv DEF Next

LEMMA Invariance == Spec => []IInv
  BY InitInv, NextInv, PTL DEF Spec

--------------------------------------------------------------------------------

\* Type correctness, with any number of concurrent requests to any endpoints of
\* api/v1/runs.py on one run.
THEOREM TypeCorrect == Spec => []TypeOK
  <1>1. IInv => TypeOK
    BY DEF IInv
  <1>2. QED
    BY Invariance, <1>1, PTL

\* A queued run is claimed at most once, by however many competing drivers, and
\* also when other endpoints act on views that are out of date.
THEOREM ClaimedOnce == Spec => []OneClaim
  <1>1. IInv => OneClaim
    BY DEF IInv, ClaimInv
  <1>2. QED
    BY Invariance, <1>1, PTL

\* A step is accepted exactly once before the cursor passes it, for every
\* number of steps and of concurrent reports, lost responses and repetitions.
THEOREM StepsAcceptedOnce == Spec => []ExactlyOnceSteps
  <1>1. IInv => ExactlyOnceSteps
    BY DEF IInv
  <1>2. QED
    BY Invariance, <1>1, PTL
--------------------------------------------------------------------------------
(* Runs that have ended.                                                   *)

\* Nothing leads out of a terminal status.
LEMMA TerminalStuck ==
    ASSUME NEW st \in SM!Terminal, NEW target
    PROVE  ~SM!CanTransition(st, target)
  BY DEF SM!CanTransition, SM!Transitions, SM!Terminal

\* The columns a session has flushed.
LEMMA FlushDirty ==
    ASSUME TypeOK, NEW s \in Sessions, NEW new, NEW cols, NEW res, Flush(s, new, cols, res)
    PROVE  dirty'[s] = cols
  BY DEF Flush, TypeOK

\* The status column is written only when the status has changed.
LEMMA StatusChanged ==
    ASSUME NEW old, NEW new, new.status = old.status
    PROVE  "status" \notin Changed(old, new)
  BY DEF Changed

\* A transition that is refused writes no status.
LEMMA RefusedWritesNoStatus ==
    ASSUME TypeOK, NEW s \in Sessions, Seen(s).status \in SM!Terminal,
           NEW target, NEW new, NEW res, NEW kept, kept.status = Seen(s).status,
           TransitionOr(s, target, new, res, kept)
    PROVE  "status" \notin dirty'[s]
  <1>1. Flush(s, kept, Changed(Seen(s), kept), "rejected")
    BY TerminalStuck DEF TransitionOr
  <1> QED
    BY <1>1, FlushDirty, StatusChanged

\* A session that sees an ended run writes no status.
LEMMA EndedViewKept ==
    ASSUME TypeOK, NEW s \in Sessions, LockAndDecide(s), Seen(s).status \in SM!Terminal
    PROVE  "status" \notin dirty'[s]
  <1> DEFINE old == Seen(s)
             cleared == [old EXCEPT !.error = FALSE]
             marked == [old EXCEPT !.error = TRUE]
             stamped == [old EXCEPT !.reason = "tab_closed"]
  <1>1. old \in Row
    BY SeenType
  <1>2. /\ cleared.status = old.status
        /\ marked.status = old.status
        /\ stamped.status = old.status
    BY <1>1 DEF Row
  <1>3. old.status \notin {"queued", "running", "recovering", "waiting_for_user"}
    BY DEF SM!Terminal
  <1>4. CASE Start(s) \/ Pause(s) \/ Cancel(s) \/ Complete(s) \/ HealSucceeded(s) \/ HealFailed(s)
    BY <1>4, RefusedWritesNoStatus
    DEF Start, Pause, Cancel, Complete, HealSucceeded, HealFailed
  <1>5. CASE Resume(s)
    BY <1>5, RefusedWritesNoStatus, FlushDirty DEF Resume
  <1>6. CASE AdvanceStep(s)
    BY <1>3, <1>6, FlushDirty DEF AdvanceStep
  <1>7. CASE StepSucceeded(s) \/ StepFailed(s)
    BY <1>3, <1>7, FlushDirty DEF StepSucceeded, StepFailed, ReportApplies
  <1>8. CASE Fail(s)
    BY <1>2, <1>8, RefusedWritesNoStatus DEF Fail
  <1>9. CASE TabClosed(s)
    BY <1>3, <1>9, RefusedWritesNoStatus DEF TabClosed
  <1>10. CASE Recover(s)
    BY <1>10, TerminalStuck, FlushDirty DEF Recover
  <1> QED
    BY <1>4, <1>5, <1>6, <1>7, <1>8, <1>9, <1>10 DEF LockAndDecide

\* Only a view taken before a run ended can move the run after it has ended.
THEOREM EndedRunsReopenOnlyByOldViews == Spec => OnlyOldViewsReopen
  <1> DEFINE Moves(s) == /\ pc[s] # "pending" /\ pc'[s] = "pending"
                         /\ row.status \in SM!Terminal /\ "status" \in dirty'[s]
             Old(s)   == pc[s] = "loaded" /\ view[s].status \notin SM!Terminal
  <1>1. ASSUME TypeOK, [Next]_vars
        PROVE  [\A s \in Sessions : Moves(s) => Old(s)]_vars
    <2> SUFFICES ASSUME NEW s \in Sessions, Moves(s), Next
                 PROVE  Old(s)
      BY <1>1
    <2>1. PICK t \in Sessions : \/ Begin(t) \/ ReadRun(t) \/ LockAndDecide(t)
                                \/ Commit(t) \/ Crash(t)
      BY DEF Next
    <2>2. ~(Begin(t) \/ ReadRun(t) \/ Commit(t) \/ Crash(t))
      BY <1>1 DEF Begin, ReadRun, Commit, Crash, Reset, TypeOK
    <2>3. LockAndDecide(t) /\ s = t
      <3>1. LockAndDecide(t)
        BY <2>1, <2>2
      <3>2. \A u \in Sessions : u # t => pc'[u] = pc[u]
        BY <1>1, <3>1
        DEF LockAndDecide, Start, Pause, Resume, Cancel, Complete, AdvanceStep,
            StepSucceeded, StepFailed, Fail, TabClosed, Recover, HealSucceeded,
            HealFailed, TransitionOr, Flush, TypeOK
      <3> QED
        BY <3>1, <3>2
    <2>4. Seen(s).status \notin SM!Terminal
      BY <1>1, <2>3, EndedViewKept
    <2> QED
      BY <2>4 DEF Seen
  <1> QED
    BY <1>1, TypeCorrect, PTL DEF Spec, OnlyOldViewsReopen

--------------------------------------------------------------------------------
(***************************************************************************)
(* As long as the clients call only endpoints that lock the row before     *)
(* they read it, the row moves as core/state_machine.py says.  The         *)
(* endpoints that read first do not preserve this: one that has loaded the *)
(* run before it ended can reopen it.  So the theorems below assume their  *)
(* absence.                                                                *)
(***************************************************************************)

LockingOnly == Ops \subseteq LockingOps

\* The row may become new: its status moves along the table, ended_at tells
\* whether it is terminal, and the last step has completed it.
Good(new) ==
    /\ new.status = row.status \/ SM!CanTransition(row.status, new.status)
    /\ new.ended <=> new.status \in SM!Terminal
    /\ new.cursor >= NSteps => new.status = "completed"

GoodPending == \A s \in Sessions :
                  pc[s] = "pending" => Good(Merged(row, view[s], dirty[s]))

NoneLoaded == \A s \in Sessions : pc[s] # "loaded"

LInv == IInv /\ NoneLoaded /\ EndedIsTerminal /\ LastStepCompletes /\ GoodPending

LEMMA InitLInv == Init => LInv
  <1> SUFFICES ASSUME Init PROVE LInv
    OBVIOUS
  <1>1. IInv
    BY InitInv
  <1>2. row.status = "queued" /\ row.ended = FALSE /\ row.cursor = 0
    BY DEF Init, NewRow
  <1>3. \A s \in Sessions : pc[s] = "idle"
    BY DEF Init, InitSessions
  <1>4. QED
    BY <1>1, <1>2, <1>3, NStepsAssumption
    DEF LInv, NoneLoaded, EndedIsTerminal, LastStepCompletes, GoodPending, SM!Terminal

\* The session takes the lock, read the row itself, and makes it new.
FreshFlush(s) == \E new \in Row, res \in Results :
                    Flush(s, new, Changed(row, new), res) /\ Good(new)

\* A run that has steps left to do.
LEMMA StaysGood ==
    ASSUME LInv
    PROVE  /\ Good(row)
           /\ row \in Row /\ row.cursor \in Nat /\ row.ended \in BOOLEAN
           /\ row.status # "completed" => row.cursor < NSteps
  BY NStepsAssumption
  DEF LInv, IInv, TypeOK, Row, MaxCursor, Good, EndedIsTerminal, LastStepCompletes

\* Moving along the table keeps the row good, terminal statuses having no
\* successor.
LEMMA MoveGood ==
    ASSUME LInv, NEW r \in Row, NEW target \in SM!RunStatus,
           r.status = row.status, r.ended = row.ended, r.cursor = row.cursor,
           SM!CanTransition(row.status, target)
    PROVE  Move(r, target) \in Row /\ Good(Move(r, target))
  <1>1. /\ Move(r, target) \in Row
        /\ Move(r, target).status = target
        /\ Move(r, target).cursor = row.cursor
        /\ Move(r, target).ended = (row.ended \/ target \in SM!Terminal)
    BY MoveType
  <1>2. row.status \notin SM!Terminal
    BY DEF SM!CanTransition, SM!Transitions, SM!Terminal
  <1>3. row.ended = FALSE /\ row.cursor < NSteps /\ row.cursor \in Nat
    BY <1>2, StaysGood DEF LInv, EndedIsTerminal, SM!Terminal
  <1>4. Move(r, target).ended <=> Move(r, target).status \in SM!Terminal
    BY <1>1, <1>3, Zenon
  <1>5. ~(Move(r, target).cursor >= NSteps)
    BY <1>1, <1>3, NStepsAssumption
  <1>6. QED
    BY <1>1, <1>4, <1>5 DEF Good

\* Assigning pause_reason or error_summary besides does no harm.
LEMMA StampGood ==
    ASSUME NEW r \in Row, Good(r), NEW reason \in Reasons, NEW error \in BOOLEAN
    PROVE  /\ [r EXCEPT !.reason = reason] \in Row /\ Good([r EXCEPT !.reason = reason])
           /\ [r EXCEPT !.error = error] \in Row /\ Good([r EXCEPT !.error = error])
  BY DEF Good, Row

\* Accepting the step at the cursor of a running run.
LEMMA AdvancedGood ==
    ASSUME LInv, NEW r \in Row, row.status = "running",
           r.status = row.status, r.ended = row.ended, r.cursor = row.cursor
    PROVE  Advanced(r) \in Row /\ Good(Advanced(r))
  <1> DEFINE next == [r EXCEPT !.cursor = @ + 1]
  <1>1. row.cursor \in Nat /\ row.cursor < NSteps /\ row.ended = FALSE
    BY StaysGood DEF LInv, EndedIsTerminal, SM!Terminal
  <1>2. /\ next \in Row /\ next.cursor = row.cursor + 1
        /\ next.status = "running" /\ next.ended = FALSE
    BY <1>1, NStepsAssumption DEF Row, MaxCursor
  <1>3. "completed" \in SM!RunStatus /\ "completed" \in SM!Terminal
        /\ "running" \notin SM!Terminal /\ SM!CanTransition("running", "completed")
    BY DEF SM!RunStatus, SM!Terminal, SM!CanTransition, SM!Transitions
  <1>4. Advanced(r) = IF next.cursor >= NSteps THEN Move(next, "completed") ELSE next
    BY DEF Advanced
  <1> HIDE DEF next
  <1>5. CASE next.cursor >= NSteps
    <2>1. /\ Move(next, "completed") \in Row /\ Move(next, "completed").status = "completed"
          /\ Move(next, "completed").ended = (next.ended \/ "completed" \in SM!Terminal)
      BY <1>2, <1>3, MoveType
    <2>2. QED
      BY <1>3, <1>4, <1>5, <2>1 DEF Good
  <1>6. CASE ~(next.cursor >= NSteps)
    BY <1>2, <1>3, <1>4, <1>6 DEF Good
  <1>7. QED
    BY <1>5, <1>6

LEMMA TransitionFresh ==
    ASSUME LInv, NEW s \in Sessions, NEW new, NEW target, NEW res \in Results,
           Seen(s) = row, TransitionOr(s, target, new, res, row),
           SM!CanTransition(row.status, target) => new \in Row /\ Good(new)
    PROVE  FreshFlush(s)
  BY StaysGood DEF TransitionOr, FreshFlush, Results

LEMMA RefusalFresh ==
    ASSUME LInv, NEW s \in Sessions, Seen(s) = row, Flush(s, row, {}, "rejected")
    PROVE  FreshFlush(s)
  <1>1. Changed(row, row) = {}
    BY DEF Changed
  <1>2. QED
    BY <1>1, StaysGood DEF FreshFlush, Results

LEMMA LockingEndpointsFlush ==
    ASSUME LockingOnly, LInv, NEW s \in Sessions, LockAndDecide(s)
    PROVE  FreshFlush(s)
  <1>0. \A o : AtLock(s, o) => Seen(s) = row /\ op[s] = o /\ o \in LockingOps
    BY DEF LInv, IInv, PhaseInv, NoneLoaded, LockingOnly, AtLock, Seen
  <1>s. {"ok", "claimed", "stepped", "rejected"} \subseteq Results
    BY DEF Results
  <1>r. row \in Row /\ Good(row)
    BY StaysGood
  <1>t. {"running", "waiting_for_user", "canceled", "completed", "failed"} \subseteq SM!RunStatus
    BY DEF SM!RunStatus
  <1>m. \A t \in {"running", "waiting_for_user", "canceled", "completed", "failed"} :
            SM!CanTransition(row.status, t) => Move(row, t) \in Row /\ Good(Move(row, t))
    BY <1>r, <1>t, MoveGood
  <1>1. CASE Start(s)
    BY <1>0, <1>s, <1>m, <1>1, TransitionFresh DEF Start
  <1>2. CASE Pause(s)
    <2> DEFINE moved == Move(row, "waiting_for_user")
    <2>1. Seen(s) = row
          /\ TransitionOr(s, "waiting_for_user", [moved EXCEPT !.reason = "user"], "ok", row)
      BY <1>0, <1>2 DEF Pause
    <2>2. SM!CanTransition(row.status, "waiting_for_user") => moved \in Row /\ Good(moved)
      BY <1>m
    <2> HIDE DEF moved
    <2>3. QED
      BY <1>s, <2>1, <2>2, StampGood, TransitionFresh DEF Reasons
  <1>3. CASE Resume(s)
    BY <1>0, <1>s, <1>m, <1>3, TransitionFresh, RefusalFresh DEF Resume
  <1>4. CASE Cancel(s)
    BY <1>0, <1>s, <1>m, <1>4, TransitionFresh DEF Cancel
  <1>5. CASE Complete(s)
    BY <1>0, <1>s, <1>m, <1>5, TransitionFresh DEF Complete
  <1>6. CASE AdvanceStep(s)
    BY <1>0, <1>s, <1>r, <1>6, AdvancedGood, RefusalFresh DEF AdvanceStep, FreshFlush
  <1>7. CASE StepSucceeded(s)
    <2> DEFINE cleared == [row EXCEPT !.error = FALSE]
    <2>1. Seen(s) = row
      BY <1>0, <1>7 DEF StepSucceeded
    <2>2. cleared \in Row /\ Good(cleared) /\ cleared.status = row.status
          /\ cleared.ended = row.ended /\ cleared.cursor = row.cursor
      BY <1>r, StampGood DEF Row
    <2>3. \/ /\ row.status = "running"
             /\ Flush(s, Advanced(cleared), Changed(row, Advanced(cleared)), "stepped")
          \/ Flush(s, cleared, Changed(row, cleared), "rejected")
          \/ Flush(s, row, {}, "rejected")
      BY <1>7, <2>1 DEF StepSucceeded
    <2> HIDE DEF cleared
    <2>4. QED
      BY <1>s, <2>1, <2>2, <2>3, AdvancedGood, RefusalFresh DEF FreshFlush
  <1>8. CASE StepFailed(s)
    <2>1. Seen(s) = row
      BY <1>0, <1>8 DEF StepFailed
    <2>2. ReportApplies(s) => SM!CanTransition(row.status, "failed")
      BY <2>1 DEF ReportApplies, SM!CanTransition, SM!Transitions
    <2>3. ReportApplies(s) => Failed(row) \in Row /\ Good(Failed(row))
      <3> DEFINE moved == Move(row, "failed")
      <3>1. ReportApplies(s) => moved \in Row /\ Good(moved)
        BY <1>m, <2>2
      <3>2. Failed(row) = [moved EXCEPT !.error = TRUE]
        BY DEF Failed
      <3> HIDE DEF moved
      <3>3. ReportApplies(s) => [moved EXCEPT !.error = TRUE] \in Row
                                 /\ Good([moved EXCEPT !.error = TRUE])
        BY <3>1, StampGood DEF Reasons
      <3>4. QED
        BY <3>2, <3>3
    <2>4. QED
      BY <1>8, <1>s, <2>1, <2>3, RefusalFresh DEF StepFailed, FreshFlush
  <1>9. QED
    BY <1>0, <1>1, <1>2, <1>3, <1>4, <1>5, <1>6, <1>7, <1>8
    DEF LockAndDecide, Fail, TabClosed, Recover, HealSucceeded, HealFailed, LockingOps

LEMMA LockingNext == LockingOnly /\ LInv /\ [Next]_vars => LInv'
  <1> SUFFICES ASSUME LockingOnly, LInv, [Next]_vars
               PROVE  LInv'
    OBVIOUS
  <1>i. IInv /\ IInv'
    BY NextInv DEF LInv
  <1>1. ASSUME NEW s \in Sessions, LockAndDecide(s)
        PROVE  LInv'
    <2>1. PICK new \in Row, res \in Results :
              Flush(s, new, Changed(row, new), res) /\ Good(new)
      BY <1>1, LockingEndpointsFlush DEF FreshFlush
    <2>2. Merged(row, new, Changed(row, new)) = new
      BY MergedFresh, StaysGood
    <2>3. /\ row' = row
          /\ pc' = [pc EXCEPT ![s] = "pending"]
          /\ view' = [view EXCEPT ![s] = new]
          /\ dirty' = [dirty EXCEPT ![s] = Changed(row, new)]
          /\ \A t \in Sessions : pc[t] # "pending"
      BY <2>1, SessionsAssumption DEF Flush, LInv, IInv, LockInv
    <2>4. NoneLoaded' /\ EndedIsTerminal' /\ LastStepCompletes'
      BY <2>3 DEF LInv, IInv, TypeOK, NoneLoaded, EndedIsTerminal, LastStepCompletes
    <2>5. GoodPending'
      BY <2>1, <2>2, <2>3 DEF LInv, IInv, TypeOK, GoodPending, Good, Merged
    <2>6. QED
      BY <1>i, <2>4, <2>5 DEF LInv
  <1>2. ASSUME NEW s \in Sessions, Begin(s) \/ ReadRun(s) \/ Crash(s)
        PROVE  LInv'
    <2>1. ~ReadRun(s)
      <3>1. ReadRun(s) => op[s] \in Ops /\ op[s] \in ReadingOps
        BY DEF ReadRun, ReadsFirst, LInv, IInv, PhaseInv
      <3>2. LockingOps \cap ReadingOps = {}
        BY DEF LockingOps, ReadingOps
      <3>3. QED
        BY <3>1, <3>2 DEF LockingOnly
    <2>2. /\ row' = row
          /\ pc'[s] \in {"idle", "begun"}
          /\ \A t \in Sessions \ {s} : pc'[t] = pc[t] /\ view'[t] = view[t] /\ dirty'[t] = dirty[t]
      BY <1>2, <2>1 DEF Begin, Crash, Reset, LInv, IInv, TypeOK
    <2>3. QED
      BY <1>i, <2>2
      DEF LInv, NoneLoaded, EndedIsTerminal, LastStepCompletes, GoodPending, Good, Merged
  <1>3. ASSUME NEW s \in Sessions, Commit(s)
        PROVE  LInv'
    <2>1. /\ row' = Merged(row, view[s], dirty[s]) /\ Good(row')
          /\ pc' = [pc EXCEPT ![s] = "idle"]
      BY <1>3 DEF Commit, Reset, LInv, GoodPending
    <2>2. \A t \in Sessions : pc'[t] # "pending" /\ pc'[t] # "loaded"
      BY <1>3, <2>1, SessionsAssumption
      DEF Commit, LInv, IInv, TypeOK, LockInv, NoneLoaded
    <2>3. QED
      BY <1>i, <2>1, <2>2
      DEF LInv, NoneLoaded, EndedIsTerminal, LastStepCompletes, GoodPending, Good
  <1>4. CASE UNCHANGED vars
    BY <1>i, <1>4
    DEF vars, LInv, NoneLoaded, EndedIsTerminal, LastStepCompletes, GoodPending, Good, Merged
  <1>5. QED
    BY <1>1, <1>2, <1>3, <1>4 DEF Next

LEMMA LockingInvariance == ASSUME LockingOnly PROVE Spec => []LInv
  BY LockingNext, InitLInv, PTL DEF Spec

--------------------------------------------------------------------------------

\* ended_at is set exactly on runs that have ended, in every interleaving of
\* requests to the endpoints of ExecutionService that lock first.
THEOREM EndedExactlyWhenTerminal ==
    ASSUME LockingOnly
    PROVE  Spec => []EndedIsTerminal
  <1>1. LInv => EndedIsTerminal
    BY DEF LInv
  <1>2. QED
    BY LockingInvariance, <1>1, PTL

\* With those endpoints advance_step completes the run in the transaction that
\* accepts its last step, and no other does.
THEOREM CompletesWithLastStep ==
    ASSUME LockingOnly
    PROVE  Spec => []LastStepCompletes
  <1>1. LInv => LastStepCompletes
    BY DEF LInv
  <1>2. QED
    BY LockingInvariance, <1>1, PTL

\* The row moves by the steps of core/state_machine.py: the transactions
\* implement RunStateMachine, so a terminal status is final.
THEOREM RowImplementsStateMachine ==
    ASSUME LockingOnly
    PROVE  Spec => ImplementsStateMachine
  <1>1. Init => SM!Init
    BY DEF Init, NewRow, SM!Init
  <1>2. LInv /\ [Next]_vars => [SM!Next]_(row.status)
    <2> SUFFICES ASSUME LInv, [Next]_vars, row'.status # row.status
                 PROVE  SM!Next
      OBVIOUS
    <2>1. \A s \in Sessions : LockAndDecide(s) => row' = row
      BY EndpointsDecide DEF Decides, Flush, LInv
    <2>2. PICK s \in Sessions : Commit(s)
      BY <2>1 DEF Next, vars, Begin, ReadRun, Crash
    <2>3. Good(row') /\ row'.status \in SM!RunStatus
      BY <2>2, NextInv DEF Commit, LInv, GoodPending, IInv, TypeOK, Row
    <2>4. QED
      BY <2>3 DEF Good, SM!Next
  <1>3. QED
    BY LockingInvariance, <1>1, <1>2, PTL DEF ImplementsStateMachine, Spec, SM!Spec

--------------------------------------------------------------------------------
(***************************************************************************)
(* The audit log.  Only the holder of the row lock of a run has            *)
(* uncommitted events of it, so the events of a run, committed or not,     *)
(* grow one at a time at their end: the argument is an invariant of that   *)
(* set (GoodLog), carried over from the open transaction to the log at     *)
(* commit.                                                                 *)
(***************************************************************************)

Seqs(S) == {e.seq : e \in S}

Numbered(S) ==
    /\ \E n \in 0..MaxEvents : Seqs(S) = 1..n
    /\ \A e, f \in S : e.seq = f.seq => e = f

Ordered(S) == \A e, f \in S : e.seq < f.seq => e.stamp <= f.stamp
Linked(S) == \A e \in S : e.prev + 1 = e.seq

GoodLog(S) == Numbered(S) /\ (Ordered(S) => Linked(S))

HolderInv ==
    \A a \in Appenders :
        /\ \A e \in mine[a] : e.run = req[a].run /\ rowLock[e.run] = a
        /\ phase[a] = "idle" => mine[a] = {}

ChainInv == \A r \in Runs : GoodLog(EventsOf(r, log)) /\ GoodLog(EventsOf(r, AllEvents))

LogInv == LogTypeOK /\ HolderInv /\ ChainInv

--------------------------------------------------------------------------------

LEMMA EmptyGood == GoodLog({})
  <1>1. Seqs({}) = 1..0 /\ 0 \in 0..MaxEvents
    BY BoundsAssumption DEF Seqs
  <1>2. QED
    BY <1>1 DEF GoodLog, Numbered, Ordered, Linked

LEMMA MaxSeqOfNumbered ==
    ASSUME NEW S \in SUBSET Event, NEW n \in 0..MaxEvents, Seqs(S) = 1..n
    PROVE  MaxSeq(S) = n
  <1>1. CASE n = 0
    BY <1>1 DEF MaxSeq, Seqs
  <1>2. CASE n # 0
    <2>1. n \in Seqs(S) /\ S # {}
      BY <1>2, BoundsAssumption DEF Seqs
    <2>2. \A e \in S : e.seq \in 1..n
      BY DEF Seqs
    <2>3. \A m \in Seqs(S) : (\A e \in S : e.seq <= m) => m = n
      BY <2>1, <2>2, BoundsAssumption DEF Seqs
    <2>4. \A e \in S : e.seq <= n
      BY <2>2, BoundsAssumption
    <2>5. MaxSeq(S) = CHOOSE m \in Seqs(S) : \A e \in S : e.seq <= m
      BY <2>1 DEF MaxSeq, Seqs
    <2>6. QED
      BY <2>1, <2>3, <2>4, <2>5
  <1>3. QED
    BY <1>1, <1>2

\* In a numbered and ordered chain the newest event by created_at, ties broken
\* by sequence number, is the last one.
LEMMA NewestIsLast ==
    ASSUME NEW S \in SUBSET Event, NEW n \in 0..MaxEvents, Seqs(S) = 1..n,
           Numbered(S), Ordered(S)
    PROVE  PreviousHashes(S) = {n}
  <1>1. CASE n = 0
    <2>1. 1..0 = {}
      BY SMT
    <2>2. S = {}
      BY <1>1, <2>1 DEF Seqs
    <2>3. QED
      BY <1>1, <2>2 DEF PreviousHashes
  <1>2. CASE n # 0
    <2> DEFINE Later(e) == \A f \in S : f.stamp < e.stamp \/ (f.stamp = e.stamp /\ f.seq <= e.seq)
    <2>1. PICK last \in S : last.seq = n
      BY <1>2, BoundsAssumption DEF Seqs
    <2>2. \A e \in S : e.seq \in 1..n /\ e.stamp \in 0..MaxClock
      BY DEF Seqs, Event
    <2>3. Later(last)
      <3> SUFFICES ASSUME NEW f \in S
                   PROVE  f.stamp < last.stamp \/ (f.stamp = last.stamp /\ f.seq <= last.seq)
        OBVIOUS
      <3>1. CASE f.seq = n
        BY <2>1, <2>2, <3>1 DEF Numbered
      <3>2. CASE f.seq < n
        BY <2>1, <2>2, <3>2, BoundsAssumption DEF Ordered
      <3>3. QED
        BY <2>2, <3>1, <3>2, BoundsAssumption
    <2>4. \A e \in S : Later(e) => e.seq = n
      <3> SUFFICES ASSUME NEW e \in S, Later(e)
                   PROVE  e.seq = n
        OBVIOUS
      <3>1. last.stamp < e.stamp \/ (last.stamp = e.stamp /\ last.seq <= e.seq)
        OBVIOUS
      <3>2. e.stamp < last.stamp \/ (e.stamp = last.stamp /\ e.seq <= last.seq)
        BY <2>3
      <3>3. QED
        BY <2>1, <2>2, <3>1, <3>2, BoundsAssumption
    <2>5. PreviousHashes(S) = {e.seq : e \in {f \in S : Later(f)}}
      BY <2>1 DEF PreviousHashes, Newest
    <2> HIDE DEF Later
    <2>6. QED
      BY <2>1, <2>3, <2>4, <2>5
  <1>3. QED
    BY <1>1, <1>2

\* append keeps a chain good.
LEMMA AppendGood ==
    ASSUME NEW S \in SUBSET Event, GoodLog(S), NEW e \in Event,
           e.seq = MaxSeq(S) + 1, e.prev \in PreviousHashes(S)
    PROVE  GoodLog(S \cup {e})
  <1>1. PICK n \in 0..MaxEvents : Seqs(S) = 1..n
    BY DEF GoodLog, Numbered
  <1>2. e.seq = n + 1 /\ n + 1 \in 0..MaxEvents
    BY <1>1, MaxSeqOfNumbered, BoundsAssumption DEF Event
  <1>3. Seqs(S \cup {e}) = 1..(n + 1)
    <2>1. Seqs(S \cup {e}) = Seqs(S) \cup {e.seq}
      BY DEF Seqs
    <2>2. n \in Nat /\ 1..(n + 1) = (1..n) \cup {n + 1}
      BY BoundsAssumption
    <2>3. QED
      BY <2>1, <2>2, <1>1, <1>2
  <1>4. \A f \in S : f.seq # e.seq
    BY <1>1, <1>2, BoundsAssumption DEF Seqs
  <1>5. Numbered(S \cup {e})
    BY <1>2, <1>3, <1>4 DEF GoodLog, Numbered
  <1>6. ASSUME Ordered(S \cup {e}) PROVE Linked(S \cup {e})
    <2>1. Ordered(S) /\ Linked(S)
      BY <1>6 DEF Ordered, GoodLog
    <2>2. e.prev = n
      BY <2>1, <1>1, NewestIsLast DEF GoodLog
    <2>3. QED
      BY <2>1, <2>2, <1>2 DEF Linked
  <1>7. QED
    BY <1>5, <1>6 DEF GoodLog

LEMMA LogInvInit == LogInit => LogInv
  <1> SUFFICES ASSUME LogInit PROVE LogInv
    OBVIOUS
  <1>1. LogTypeOK
    <2>1. 0 \in 0..MaxClock
      BY BoundsAssumption
    <2>2. \A a \in Appenders : req[a] \in Request
      <3> SUFFICES ASSUME NEW a \in Appenders PROVE req[a] \in Request
        OBVIOUS
      <3>1. Runs # {}
        BY RunsAssumption
      <3>2. QED
        BY <3>1 DEF LogInit, NoRequest, Request, CallerKinds
    <2>3. QED
      BY <2>1, <2>2 DEF LogInit, LogTypeOK
  <1>2. HolderInv
    BY DEF LogInit, HolderInv
  <1>3. ChainInv
    <2>1. \A r \in Runs : EventsOf(r, log) = {} /\ EventsOf(r, AllEvents) = {}
      BY DEF LogInit, EventsOf, AllEvents
    <2>2. QED
      BY <2>1, EmptyGood DEF ChainInv
  <1>4. QED
    BY <1>1, <1>2, <1>3 DEF LogInv

\* Steps that neither insert an event nor end a transaction.
LEMMA QuietInv ==
    ASSUME LogInv, LogTypeOK', HolderInv', UNCHANGED <<log, mine>>
    PROVE  LogInv'
  BY DEF LogInv, ChainInv, EventsOf, AllEvents, GoodLog, Numbered, Ordered, Linked, Seqs

LEMMA CallInv ==
    ASSUME LogInv, NEW a \in Appenders, Call(a)
    PROVE  LogInv'
  <1> USE DEF LogInv
  <1>1. PICK r \in Runs, k \in Keys \cup {NoKey}, caller \in Callers :
            LET q == [run |-> r, key |-> k, caller |-> caller]
            IN  /\ req' = [req EXCEPT ![a] = q]
                /\ IF LocksFirst(q)
                   THEN MayLock(a, r) /\ rowLock' = [rowLock EXCEPT ![r] = a]
                   ELSE UNCHANGED rowLock
    BY DEF Call
  <1>2. LogTypeOK'
    BY <1>1, CallersAssumption DEF Call, LogTypeOK, Request
  <1>3. HolderInv'
    <2>1. mine[a] = {} /\ mine' = mine /\ phase' = [phase EXCEPT ![a] = "called"]
      BY DEF Call, HolderInv
    <2>2. \A b \in Appenders \ {a} : req'[b] = req[b] /\ phase'[b] = phase[b]
      BY <1>1, <2>1 DEF LogTypeOK
    <2>3. \A b \in Appenders \ {a} : \A e \in mine[b] : rowLock'[e.run] = rowLock[e.run]
      BY <1>1, AppendersAssumption DEF LogTypeOK, HolderInv, MayLock, Event
    <2>4. QED
      BY <2>1, <2>2, <2>3 DEF HolderInv
  <1>4. QED
    BY <1>2, <1>3, QuietInv DEF Call

LEMMA StampInv ==
    ASSUME LogInv, NEW a \in Appenders, Stamp(a) \/ AppendMore(a)
    PROVE  LogInv'
  <1>1. LogTypeOK' /\ HolderInv'
    BY DEF LogInv, Stamp, AppendMore, LogTypeOK, HolderInv
  <1>2. QED
    BY <1>1, QuietInv DEF Stamp, AppendMore

LEMMA TickInv ==
    ASSUME LogInv, Tick
    PROVE  LogInv'
  <1>1. LogTypeOK' /\ HolderInv'
    BY BoundsAssumption DEF LogInv, Tick, LogTypeOK, HolderInv
  <1>2. QED
    BY <1>1, QuietInv DEF Tick

\* While a holds the lock of r, or could take it, it sees every event of r.
LEMMA SeesAll ==
    ASSUME LogInv, NEW a \in Appenders, NEW r \in Runs, MayLock(a, r)
    PROVE  EventsOf(r, AllEvents) = Visible(a, r)
  BY AppendersAssumption
  DEF LogInv, HolderInv, MayLock, EventsOf, AllEvents, Visible

LEMMA InsertInv ==
    ASSUME LogInv, NEW a \in Appenders, Insert(a)
    PROVE  LogInv'
  <1> DEFINE r == req[a].run
             S == Visible(a, r)
  <1>0. PICK prev \in PreviousHashes(S) :
            mine' = [mine EXCEPT ![a] = @ \cup
                        {[run |-> r, seq |-> MaxSeq(S) + 1, stamp |-> stamp[a],
                          prev |-> prev, key |-> req[a].key, by |-> a]}]
    BY DEF Insert
  <1> DEFINE ev == [run |-> r, seq |-> MaxSeq(S) + 1, stamp |-> stamp[a],
                    prev |-> prev, key |-> req[a].key, by |-> a]
  <1>1. /\ phase[a] = "stamped" /\ MayLock(a, r) /\ MaxSeq(S) < MaxEvents
        /\ rowLock' = [rowLock EXCEPT ![r] = a]
        /\ mine' = [mine EXCEPT ![a] = @ \cup {ev}]
        /\ phase' = [phase EXCEPT ![a] = "inserted"]
        /\ UNCHANGED <<log, clock, req, stamp>>
    BY <1>0 DEF Insert
  <1>2. r \in Runs /\ req[a].key \in Keys \cup {NoKey} /\ stamp[a] \in 0..MaxClock
    BY DEF LogInv, LogTypeOK, Request
  <1>3. S \in SUBSET Event /\ EventsOf(r, AllEvents) = S /\ GoodLog(S)
    BY <1>1, <1>2, SeesAll DEF LogInv, LogTypeOK, Visible, EventsOf, ChainInv
  <1>4. MaxSeq(S) \in 0..MaxEvents
    BY <1>3, MaxSeqOfNumbered DEF GoodLog, Numbered
  <1>5. prev \in 0..MaxEvents
    BY <1>3, BoundsAssumption DEF PreviousHashes, Newest, Event
  <1>6. ev \in Event
    BY <1>1, <1>2, <1>4, <1>5, BoundsAssumption DEF Event
  <1>7. GoodLog(S \cup {ev})
    BY <1>3, <1>6, AppendGood
  <1>8. ev.run = r
    OBVIOUS
  <1> HIDE DEF ev, S, r
  <1>9. LogTypeOK'
    BY <1>1, <1>2, <1>6 DEF LogInv, LogTypeOK
  <1>10. HolderInv'
    <2> SUFFICES ASSUME NEW b \in Appenders
                 PROVE  /\ \A e \in mine'[b] : e.run = req[b].run /\ rowLock'[e.run] = b
                        /\ phase'[b] = "idle" => mine'[b] = {}
      BY <1>1 DEF HolderInv
    <2>1. CASE b = a
      <3>1. \A e \in mine'[a] : e.run = r
        BY <1>1, <1>8 DEF LogInv, LogTypeOK, HolderInv, r
      <3>2. rowLock'[r] = a /\ phase'[a] = "inserted"
        BY <1>1, <1>2 DEF LogInv, LogTypeOK
      <3>3. QED
        BY <2>1, <3>1, <3>2 DEF r
    <2>2. CASE b # a
      <3>1. mine'[b] = mine[b] /\ phase'[b] = phase[b]
        BY <1>1, <2>2 DEF LogInv, LogTypeOK
      <3>2. \A e \in mine[b] : e.run # r
        BY <1>1, <2>2, AppendersAssumption DEF LogInv, HolderInv, MayLock
      <3>3. \A e \in mine[b] : rowLock'[e.run] = rowLock[e.run]
        BY <1>1, <3>2 DEF LogInv, LogTypeOK, Event
      <3>4. QED
        BY <3>1, <3>3 DEF LogInv, HolderInv
    <2>3. QED
      BY <2>1, <2>2
  <1>11. AllEvents' = AllEvents \cup {ev}
    BY <1>1 DEF LogInv, LogTypeOK, AllEvents
  <1>12. ChainInv'
    <2> SUFFICES ASSUME NEW q \in Runs
                 PROVE  GoodLog(EventsOf(q, log))' /\ GoodLog(EventsOf(q, AllEvents))'
      BY DEF ChainInv
    <2>1. GoodLog(EventsOf(q, log)')
      BY <1>1 DEF LogInv, ChainInv, EventsOf
    <2>2. EventsOf(q, AllEvents)' = IF q = r THEN S \cup {ev} ELSE EventsOf(q, AllEvents)
      BY <1>3, <1>8, <1>11 DEF EventsOf
    <2>3. GoodLog(EventsOf(q, AllEvents)')
      BY <1>7, <2>2 DEF LogInv, ChainInv
    <2>4. QED
      BY <2>1, <2>3 DEF GoodLog, Numbered, Ordered, Linked, Seqs
  <1>13. QED
    BY <1>9, <1>10, <1>12 DEF LogInv

\* The end of a transaction: its events are all kept or all dropped.
LEMMA EndInv ==
    ASSUME LogInv, NEW a \in Appenders, CommitLog(a) \/ Rollback(a)
    PROVE  LogInv'
  <1>1. /\ mine' = [mine EXCEPT ![a] = {}]
        /\ rowLock' = [r \in Runs |-> IF rowLock[r] = a THEN Nobody ELSE rowLock[r]]
        /\ phase' = [phase EXCEPT ![a] = "idle"]
        /\ req' = [req EXCEPT ![a] = NoRequest]
        /\ stamp' = [stamp EXCEPT ![a] = 0]
        /\ UNCHANGED clock
        /\ log' = log \/ log' = log \cup mine[a]
    BY DEF CommitLog, Rollback, End
  <1>2. LogTypeOK'
    <2>1. NoRequest \in Request
      BY RunsAssumption DEF NoRequest, Request, CallerKinds
    <2>2. 0 \in 0..MaxClock
      BY BoundsAssumption
    <2>3. QED
      BY <1>1, <2>1, <2>2 DEF LogInv, LogTypeOK
  <1>3. HolderInv'
    BY <1>1 DEF LogInv, LogTypeOK, HolderInv, Event
  <1>4. ChainInv'
    <2> SUFFICES ASSUME NEW r \in Runs
                 PROVE  GoodLog(EventsOf(r, log))' /\ GoodLog(EventsOf(r, AllEvents))'
      BY DEF ChainInv
    <2>1. EventsOf(r, log)' \in {EventsOf(r, log), EventsOf(r, AllEvents)}
      <3>1. CASE EventsOf(r, mine[a]) = {}
        BY <1>1, <3>1 DEF EventsOf
      <3>2. CASE EventsOf(r, mine[a]) # {}
        <4>1. EventsOf(r, AllEvents) = EventsOf(r, log \cup mine[a])
          BY <3>2 DEF LogInv, HolderInv, EventsOf, AllEvents
        <4>2. QED
          BY <1>1, <4>1
      <3>3. QED
        BY <3>1, <3>2
    <2>2. EventsOf(r, AllEvents)' \in {EventsOf(r, log), EventsOf(r, AllEvents)}
      <3>1. CASE EventsOf(r, mine[a]) = {}
        <4>1. EventsOf(r, AllEvents)' = EventsOf(r, AllEvents)
          BY <1>1, <3>1 DEF LogInv, LogTypeOK, EventsOf, AllEvents
        <4>2. QED
          BY <4>1
      <3>2. CASE EventsOf(r, mine[a]) # {}
        <4>1. \A b \in Appenders \ {a} : EventsOf(r, mine[b]) = {}
          BY <3>2 DEF LogInv, HolderInv, EventsOf
        <4>2. EventsOf(r, AllEvents)' = EventsOf(r, log)'
          BY <1>1, <4>1 DEF LogInv, LogTypeOK, EventsOf, AllEvents
        <4>3. QED
          BY <2>1, <4>2
      <3>3. QED
        BY <3>1, <3>2
    <2>3. GoodLog(EventsOf(r, log)') /\ GoodLog(EventsOf(r, AllEvents)')
      BY <2>1, <2>2 DEF LogInv, ChainInv
    <2>4. QED
      BY <2>3 DEF GoodLog, Numbered, Ordered, Linked, Seqs
  <1>5. QED
    BY <1>2, <1>3, <1>4 DEF LogInv

LEMMA LogInvNext == LogInv /\ [LogNext]_logVars => LogInv'
  <1> SUFFICES ASSUME LogInv, [LogNext]_logVars
               PROVE  LogInv'
    OBVIOUS
  <1>1. CASE UNCHANGED logVars
    BY <1>1, QuietInv DEF logVars, LogInv, LogTypeOK, HolderInv
  <1>2. QED
    BY <1>1, CallInv, StampInv, InsertInv, EndInv, TickInv DEF LogNext

LEMMA LogInvariance == LogSpec => []LogInv
  BY LogInvInit, LogInvNext, PTL DEF LogSpec

--------------------------------------------------------------------------------

\* The sequence numbers of a run, as any reader finds them committed, are
\* 1, 2, 3 ...: appenders racing on one run, and rollbacks, leave no gap.
THEOREM NoGaps == LogSpec => []SequenceDense
  <1>1. LogInv => SequenceDense
    <2> SUFFICES ASSUME LogInv, NEW r \in Runs, NEW e \in EventsOf(r, log)
                 PROVE  /\ \A n \in 1..e.seq : \E f \in EventsOf(r, log) : f.seq = n
                        /\ \A f \in EventsOf(r, log) : f.seq = e.seq => f = e
      BY DEF SequenceDense
    <2> DEFINE S == EventsOf(r, log)
    <2>1. PICK m \in 0..MaxEvents : Seqs(S) = 1..m
      BY DEF LogInv, ChainInv, GoodLog, Numbered
    <2>2. e.seq \in 1..m
      BY <2>1 DEF Seqs
    <2>3. \A n \in 1..e.seq : n \in Seqs(S)
      BY <2>1, <2>2, BoundsAssumption
    <2>4. \A f \in S : f.seq = e.seq => f = e
      BY DEF LogInv, ChainInv, GoodLog, Numbered
    <2>5. QED
      BY <2>3, <2>4 DEF Seqs
  <1>2. QED
    BY LogInvariance, <1>1, PTL

\* No append is ever refused by the unique constraint on (run, sequence).
THEOREM NoCollision == LogSpec => []NeverCollides
  <1>1. LogInv => NeverCollides
    <2> SUFFICES ASSUME LogInv, NEW e \in AllEvents, NEW f \in AllEvents,
                        e.run = f.run, e.seq = f.seq
                 PROVE  e = f
      BY DEF NeverCollides
    <2>1. e.run \in Runs
      BY DEF LogInv, LogTypeOK, AllEvents, Event
    <2>2. e \in EventsOf(e.run, AllEvents) /\ f \in EventsOf(e.run, AllEvents)
      BY DEF EventsOf
    <2>3. QED
      BY <2>1, <2>2 DEF LogInv, ChainInv, GoodLog, Numbered
  <1>2. QED
    BY LogInvariance, <1>1, PTL

\* verify_chain reports a broken link only in a run whose events were stamped
\* in another order than they were numbered.
THEOREM OnlyInversionsBreakChains == LogSpec => []BreaksOnlyByInversion
  <1>1. LogInv => BreaksOnlyByInversion
    BY DEF LogInv, ChainInv, GoodLog, Ordered, Linked, BreaksOnlyByInversion, InOrder, ChainVerifies
  <1>2. QED
    BY LogInvariance, <1>1, PTL

--------------------------------------------------------------------------------
(* Handlers that lock the run before they append.                          *)

AllTransitions == Callers = {"transition"}

\* A handler past its call holds the lock, and stamps no event earlier than
\* those of the run.
OrderInv ==
    /\ \A r \in Runs : Ordered(EventsOf(r, AllEvents))
    /\ \A e \in AllEvents : e.stamp <= clock
    /\ \A a \in Appenders :
          /\ phase[a] # "idle" => rowLock[req[a].run] = a
          /\ phase[a] = "stamped" =>
                /\ stamp[a] <= clock
                /\ \A e \in EventsOf(req[a].run, AllEvents) : e.stamp <= stamp[a]

OInv == LogInv /\ OrderInv

LEMMA InitOInv == LogInit => OInv
  <1> SUFFICES ASSUME LogInit PROVE OInv
    OBVIOUS
  <1>1. AllEvents = {}
    BY DEF LogInit, AllEvents
  <1>2. OrderInv
    BY <1>1 DEF LogInit, OrderInv, Ordered, EventsOf
  <1>3. QED
    BY <1>2, LogInvInit DEF OInv

LEMMA NextOInv == AllTransitions /\ OInv /\ [LogNext]_logVars => OInv'
  <1> SUFFICES ASSUME AllTransitions, OInv, [LogNext]_logVars
               PROVE  OrderInv'
    BY LogInvNext DEF OInv
  <1> USE DEF OInv
  <1>1. ASSUME NEW a \in Appenders, Call(a)
        PROVE  OrderInv'
    <2>1. PICK r \in Runs, k \in Keys \cup {NoKey}, caller \in Callers :
              LET q == [run |-> r, key |-> k, caller |-> caller]
              IN  /\ req' = [req EXCEPT ![a] = q]
                  /\ IF LocksFirst(q)
                     THEN MayLock(a, r) /\ rowLock' = [rowLock EXCEPT ![r] = a]
                     ELSE UNCHANGED rowLock
      BY <1>1 DEF Call
    <2>2. /\ MayLock(a, r) /\ rowLock' = [rowLock EXCEPT ![r] = a]
          /\ req' = [req EXCEPT ![a] = [run |-> r, key |-> k, caller |-> caller]]
      BY <2>1 DEF AllTransitions, LocksFirst
    <2>3. /\ phase[a] = "idle" /\ phase' = [phase EXCEPT ![a] = "called"]
          /\ UNCHANGED <<clock, stamp, log, mine>> /\ AllEvents' = AllEvents
      BY <1>1 DEF Call, AllEvents
    <2>4. \A b \in Appenders : phase'[b] # "idle" => rowLock'[req'[b].run] = b
      BY <2>2, <2>3, AppendersAssumption DEF LogInv, LogTypeOK, OrderInv, MayLock, Request
    <2>5. \A b \in Appenders : phase'[b] = "stamped" =>
              b # a /\ phase[b] = "stamped" /\ req'[b] = req[b] /\ stamp'[b] = stamp[b]
      BY <2>2, <2>3 DEF LogInv, LogTypeOK
    <2>6. QED
      BY <2>3, <2>4, <2>5 DEF OrderInv, Ordered, EventsOf
  <1>2. ASSUME NEW a \in Appenders, Stamp(a)
        PROVE  OrderInv'
    <2>1. /\ stamp' = [stamp EXCEPT ![a] = clock] /\ phase' = [phase EXCEPT ![a] = "stamped"]
          /\ phase[a] = "called" /\ UNCHANGED <<clock, rowLock, req>> /\ AllEvents' = AllEvents
      BY <1>2 DEF Stamp, AllEvents
    <2>2. clock \in Nat
      BY BoundsAssumption DEF LogInv, LogTypeOK
    <2>3. \A b \in Appenders : phase'[b] = "stamped" =>
              \/ b = a /\ stamp'[b] = clock
              \/ phase[b] = "stamped" /\ stamp'[b] = stamp[b]
      BY <2>1 DEF LogInv, LogTypeOK
    <2>4. \A b \in Appenders : phase'[b] # "idle" => phase[b] # "idle"
      BY <2>1 DEF LogInv, LogTypeOK
    <2>5. QED
      BY <2>1, <2>2, <2>3, <2>4 DEF OrderInv, Ordered, EventsOf
  <1>3. ASSUME NEW a \in Appenders, Insert(a)
        PROVE  OrderInv'
    <2> DEFINE r == req[a].run
               S == Visible(a, r)
    <2>1. /\ phase[a] = "stamped" /\ phase' = [phase EXCEPT ![a] = "inserted"]
          /\ MayLock(a, r) /\ rowLock' = [rowLock EXCEPT ![r] = a]
          /\ UNCHANGED <<log, clock, req, stamp>>
      BY <1>3 DEF Insert
    <2>2. PICK ev : /\ mine' = [mine EXCEPT ![a] = @ \cup {ev}]
                    /\ ev.run = r /\ ev.seq = MaxSeq(S) + 1 /\ ev.stamp = stamp[a]
      <3>1. PICK prev \in PreviousHashes(S) :
                mine' = [mine EXCEPT ![a] = @ \cup
                            {[run |-> r, seq |-> MaxSeq(S) + 1, stamp |-> stamp[a],
                              prev |-> prev, key |-> req[a].key, by |-> a]}]
        BY <1>3 DEF Insert
      <3> DEFINE new == [run |-> r, seq |-> MaxSeq(S) + 1, stamp |-> stamp[a],
                         prev |-> prev, key |-> req[a].key, by |-> a]
      <3>2. new.run = r /\ new.seq = MaxSeq(S) + 1 /\ new.stamp = stamp[a]
        OBVIOUS
      <3>3. mine' = [mine EXCEPT ![a] = @ \cup {new}]
        BY <3>1
      <3> HIDE DEF new, r, S
      <3>4. QED
        BY <3>2, <3>3
    <2>3. r \in Runs /\ S \in SUBSET Event /\ S = EventsOf(r, AllEvents)
      BY <2>1, SeesAll DEF LogInv, LogTypeOK, Request, Visible, EventsOf
    <2>4. PICK n \in 0..MaxEvents : Seqs(S) = 1..n /\ MaxSeq(S) = n
      BY <2>3, MaxSeqOfNumbered DEF LogInv, ChainInv, GoodLog, Numbered
    <2>5. AllEvents' = AllEvents \cup {ev}
      BY <2>1, <2>2 DEF LogInv, LogTypeOK, AllEvents
    <2>6. \A e \in S : e.seq < ev.seq /\ e.stamp <= ev.stamp /\ e.seq \in Nat
      BY <2>1, <2>2, <2>3, <2>4, BoundsAssumption DEF OrderInv, Seqs
    <2>7. \A q \in Runs : EventsOf(q, AllEvents)' =
              IF q = r THEN S \cup {ev} ELSE EventsOf(q, AllEvents)
      BY <2>2, <2>3, <2>5 DEF EventsOf
    <2>8. Ordered(S \cup {ev})
      <3>1. ev.seq \in Nat /\ ~(ev.seq < ev.seq) /\ \A e \in S : ~(ev.seq < e.seq)
        BY <2>2, <2>4, <2>6, BoundsAssumption
      <3>2. Ordered(S)
        BY <2>3 DEF OrderInv
      <3>3. QED
        BY <2>6, <3>1, <3>2 DEF Ordered
    <2>9. \A q \in Runs : Ordered(EventsOf(q, AllEvents)')
      BY <2>7, <2>8 DEF OrderInv
    <2>10. \A e \in AllEvents' : e.stamp <= clock
      BY <2>1, <2>2, <2>5 DEF OrderInv
    <2>11. \A b \in Appenders : phase'[b] # "idle" => rowLock'[req[b].run] = b
      BY <2>1, AppendersAssumption DEF OrderInv, LogInv, LogTypeOK, MayLock
    <2>12. \A b \in Appenders : phase'[b] = "stamped" =>
              b # a /\ phase[b] = "stamped" /\ req[b].run # r /\ req[b].run \in Runs
      BY <2>1, AppendersAssumption DEF OrderInv, LogInv, LogTypeOK, MayLock, Request
    <2>13. \A b \in Appenders : phase'[b] = "stamped" =>
              EventsOf(req[b].run, AllEvents)' = EventsOf(req[b].run, AllEvents)
      BY <2>2, <2>5, <2>1, <2>12 DEF EventsOf
    <2>14. QED
      BY <2>1, <2>9, <2>10, <2>11, <2>12, <2>13 DEF OrderInv, Ordered
  <1>4. ASSUME NEW a \in Appenders, AppendMore(a)
        PROVE  OrderInv'
    BY <1>4 DEF AppendMore, LogInv, LogTypeOK, OrderInv, Ordered, EventsOf, AllEvents
  <1>5. ASSUME NEW a \in Appenders, CommitLog(a) \/ Rollback(a)
        PROVE  OrderInv'
    <2>1. /\ phase' = [phase EXCEPT ![a] = "idle"]
          /\ rowLock' = [r \in Runs |-> IF rowLock[r] = a THEN Nobody ELSE rowLock[r]]
          /\ req' = [req EXCEPT ![a] = NoRequest]
          /\ stamp' = [stamp EXCEPT ![a] = 0]
          /\ UNCHANGED clock
      BY <1>5 DEF CommitLog, Rollback, End
    <2>2. AllEvents' \subseteq AllEvents
      BY <1>5 DEF CommitLog, Rollback, End, AllEvents, LogInv, LogTypeOK
    <2>3. \A b \in Appenders : phase'[b] # "idle" =>
              /\ b # a /\ phase'[b] = phase[b] /\ req'[b] = req[b] /\ stamp'[b] = stamp[b]
              /\ req[b].run \in Runs /\ rowLock'[req[b].run] = b
      <3> SUFFICES ASSUME NEW b \in Appenders, phase'[b] # "idle"
                   PROVE  /\ b # a /\ phase'[b] = phase[b]
                         /\ req'[b] = req[b] /\ stamp'[b] = stamp[b]
                          /\ req[b].run \in Runs /\ rowLock'[req[b].run] = b
        OBVIOUS
      <3>1. b # a /\ phase'[b] = phase[b] /\ req'[b] = req[b] /\ stamp'[b] = stamp[b]
        BY <2>1 DEF LogInv, LogTypeOK
      <3>2. req[b].run \in Runs /\ rowLock[req[b].run] = b
        BY <3>1 DEF LogInv, LogTypeOK, Request, OrderInv
      <3>3. QED
        BY <2>1, <3>1, <3>2
    <2>4. QED
      BY <2>1, <2>2, <2>3 DEF OrderInv, Ordered, EventsOf
  <1>6. CASE Tick
    <2>1. clock' = clock + 1 /\ clock \in Nat /\ AllEvents' = AllEvents
      BY <1>6, BoundsAssumption DEF Tick, LogInv, LogTypeOK, AllEvents
    <2>2. \A e \in AllEvents : e.stamp \in Nat
      BY BoundsAssumption DEF LogInv, LogTypeOK, AllEvents, Event
    <2>3. \A a \in Appenders : stamp[a] \in Nat
      BY BoundsAssumption DEF LogInv, LogTypeOK
    <2>4. QED
      BY <1>6, <2>1, <2>2, <2>3 DEF Tick, OrderInv, Ordered, EventsOf
  <1>7. CASE UNCHANGED logVars
    BY <1>7 DEF logVars, OrderInv, Ordered, EventsOf, AllEvents
  <1>8. QED
    BY <1>1, <1>2, <1>3, <1>4, <1>5, <1>6, <1>7 DEF LogNext

\* Where every handler locks the run before it calls append, as transition
\* does, verify_chain never finds a broken link.
THEOREM LockedAppendsVerify ==
    ASSUME AllTransitions
    PROVE  LogSpec => []ChainsVerify
  <1>1. OInv => ChainsVerify
    <2> SUFFICES ASSUME OInv, NEW r \in Runs
                 PROVE  ChainVerifies(r)
      BY DEF ChainsVerify
    <2>1. Ordered(EventsOf(r, log))
      BY DEF OInv, OrderInv, Ordered, EventsOf, AllEvents
    <2>2. QED
      BY <2>1 DEF OInv, LogInv, ChainInv, GoodLog, Linked, ChainVerifies
  <1>2. QED
    BY InitOInv, NextOInv, <1>1, PTL DEF LogSpec
================================================================================
