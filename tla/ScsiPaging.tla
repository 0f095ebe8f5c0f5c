----------------------------- MODULE ScsiPaging -----------------------------
(***************************************************************************)
(* ScsiChkDispatchPnp (scsichk.c): the same notifications as in            *)
(* PnpDispatch, handled by nearly the same code.  It waits for its         *)
(* PagingPathCountEvent without a mutex around the wait, and the event is  *)
(* a notification event: a wait does not reset it, and nothing else does.  *)
(***************************************************************************)
EXTENDS PnpDispatch

\* ScsiChkAddDevice; nobody queries the size of the device.
ScsiInit == Init /\ pc[Attacher] = "done" /\ ~isCached

\* KeWaitForSingleObject on a notification event
ScsiWait(i) ==
  /\ kind[i] \in Notifications
  /\ event["paging"]
  /\ Goes(i, "mutex", "inside")
  /\ UNCHANGED <<kind, status, gateVars, pagingVars, sizeVars, removeVars>>

\* ScsiChkStartDevice after its forward: registers with WMI, and completes.
ScsiStarted(i) ==
  /\ kind[i] = "start"
  /\ Goes(i, "answered", "complete")
  /\ UNCHANGED <<kind, status, gateVars, pagingVars, sizeVars, removeVars>>

\* The flag, the forward, the count and KeSetEvent are those of qcache; so are
\* the other minor functions, and the removal with its lock.
ScsiStep(i) ==
  \/ Dispatch(i)
  \/ Refuse(i)
  \/ LowerAnswers(i)
  \/ /\ ~deleted
     /\ \/ ScsiWait(i) \/ ForwardNotification(i) \/ FinishNotification(i) \/ OpenGate(i)
        \/ ScsiStarted(i) \/ Complete(i) \/ ReleaseLock(i)
        \/ CloseLock(i) \/ DeleteDevice(i)

ScsiSpec == ScsiInit /\ [][\E i \in Irps : ScsiStep(i)]_vars

\* "must synchronize paging path notifications" (scsichk.c 112): with that, a file
\* that is in use keeps the device from becoming pagable.  They are not synchronized:
\* while one notification takes off what it saw as the last file, and has set the
\* flag, another puts a file on, finds itself the second, and leaves the flag set.
\* scsichk.c 519-520 and 650-757
ScsiInUseNotPagable == InUseNotPagable
=============================================================================
