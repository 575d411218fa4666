---------------------------- MODULE ExactRevert ----------------------------
(***************************************************************************)
(* Service.RevertFile of the app server's file tools: it puts a file back  *)
(* to the state it had before a change, provided that it still is in the   *)
(* state the change left.  The new file is prepared in a transaction       *)
(* directory named after the idempotency key, the current file is renamed  *)
(* into that directory (the quarantine), looked at there, and the new file *)
(* is linked into its place.  A later call with the same key repairs what  *)
(* a crash left behind.  One step is one operation of the file system;     *)
(* editors and other connections change the file between any two.          *)
(*                                                                         *)
(* Only one call is under way: the workspace reservation (AppServer) sees  *)
(* to that.  Contents and mode of a file are one value; symbolic links and *)
(* directories are left out.                                               *)
(***************************************************************************)
EXTENDS Naturals

CONSTANTS Key,          \* idempotency keys of revert requests
          Edit,         \* contents written by somebody else
          MaxEdits,     \* writes by somebody else
          MaxFaults     \* operations of the file system or store that fail

ASSUME RevertConstants ==
    /\ Edit \cap {"absent", "old", "new", "partial"} = {}
    /\ "none" \notin Key
    /\ MaxEdits \in Nat
    /\ MaxFaults \in Nat

VARIABLES change,   \* the recorded states: before and after the change
          target,   \* the file
          box,      \* box[k]: the transaction directory of key k
          op,       \* the call of RevertFile under way
          edits, faults,
          replaced  \* contents that somebody else has replaced or removed

revertVars == <<change, target, box, op, edits, faults, replaced>>

\* A change modified, created or deleted the file.
Change == {[before |-> "old", after |-> "new"],
           [before |-> "absent", after |-> "new"],
           [before |-> "old", after |-> "absent"]}

NoBox == [dir |-> FALSE, current |-> "absent", replacement |-> "absent"]

NoOp == [pc |-> "idle", key |-> "none"]

RevertInit ==
    /\ change \in Change
    /\ target = change.after
    /\ box = [k \in Key |-> NoBox]
    /\ op = NoOp
    /\ edits = 0
    /\ faults = 0
    /\ replaced = {}

-----------------------------------------------------------------------------
(* The transaction directory. *)

Box == box[op.key]

\* The next operation of the call is pc.
Then(pc) == op' = [op EXCEPT !.pc = pc]

Boxed(b) == box' = [box EXCEPT ![op.key] = b]

OnlyOp == UNCHANGED <<change, target, box, edits, faults, replaced>>
OnlyTarget == UNCHANGED <<change, box, edits, faults, replaced>>
OnlyBox == UNCHANGED <<change, target, edits, faults, replaced>>
Both == UNCHANGED <<change, edits, faults, replaced>>

-----------------------------------------------------------------------------
(* recoverPendingRevertRoot *)

\* The file must be in one of the two recorded states, unless an earlier call
\* with this key left its directory.  Then the approval is asked for.
Check ==
    /\ op.pc = "check"
    /\ \/ /\ Box.dir \/ target \in {change.before, change.after}
          /\ Then("recover")
       \/ Then("failed")
    /\ OnlyOp

\* A quarantined file that is the changed one is dropped when the file is in
\* a recorded state, and put back when the file is missing.
Recover ==
    /\ op.pc = "recover"
    /\ \/ /\ ~Box.dir
          /\ Then("verify")
          /\ OnlyOp
       \/ /\ Box.dir
          /\ Box.current = "absent"
          /\ Then("clear")
          /\ OnlyOp
       \/ /\ Box.current = change.after
          /\ Box.current # "absent"
          /\ target \in {change.before, change.after}
          /\ Boxed([Box EXCEPT !.current = "absent"])
          /\ Then("clear")
          /\ OnlyBox
       \/ /\ Box.current = change.after
          /\ Box.current # "absent"
          /\ target = "absent"
          /\ change.before # "absent"
          /\ target' = Box.current
          /\ Then("unquarantine")
          /\ OnlyTarget
       \/ /\ Box.current # "absent"
          /\ \/ Box.current # change.after
             \/ target \notin {change.before, change.after, "absent"}
          /\ Then("failed")
          /\ OnlyOp

Unquarantine ==
    /\ op.pc = "unquarantine"
    /\ Boxed([Box EXCEPT !.current = "absent"])
    /\ Then("clear")
    /\ OnlyBox

Clear ==
    /\ op.pc = "clear"
    /\ Boxed(NoBox)
    /\ Then("verify")
    /\ OnlyBox

\* The file may already be restored; if not, it must still be the changed one.
Verify ==
    /\ op.pc = "verify"
    /\ Then(CASE target = change.before -> "done"
              [] target # change.before /\ target = change.after -> "begin"
              [] OTHER -> "failed")
    /\ OnlyOp

-----------------------------------------------------------------------------
(* atomicWriteRootFile, when there was a file before the change, and       *)
(* removeExactRootFile, when there was none.                               *)

BeginExactRevertTransaction ==
    /\ op.pc = "begin"
    /\ IF change.before = "absent"
         THEN /\ Boxed([NoBox EXCEPT !.dir = TRUE])
              /\ Then("quarantine")
         ELSE /\ Boxed([dir |-> TRUE, current |-> "absent",
                        replacement |-> "partial"])
              /\ Then("write")
    /\ OnlyBox

WriteReplacement ==
    /\ op.pc = "write"
    /\ Boxed([Box EXCEPT !.replacement = change.before])
    /\ Then(IF change.after = "absent" THEN "install" ELSE "quarantine")
    /\ OnlyBox

\* The file is renamed first and looked at afterwards, where nobody else
\* changes it.
QuarantineExactRootFile ==
    /\ op.pc = "quarantine"
    /\ IF target = "absent"
         THEN Then("cleanup") /\ OnlyOp
         ELSE /\ Boxed([Box EXCEPT !.current = target])
              /\ target' = "absent"
              /\ Then(CASE target # change.after -> "restore"
                        [] target = change.after /\ change.before = "absent"
                             -> "discard"
                        [] OTHER -> "install")
              /\ Both

\* Variant: the replacement is renamed over whatever is there.
InstallOver ==
    /\ op.pc = "install"
    /\ target' = Box.replacement
    /\ Then(IF change.after = "absent" THEN "finish" ELSE "discard")
    /\ OnlyTarget

\* Linking fails when somebody has created the file in the meantime.
InstallRootReplacement ==
    /\ op.pc = "install"
    /\ IF target = "absent"
         THEN /\ target' = Box.replacement
              /\ Then(IF change.after = "absent" THEN "finish" ELSE "discard")
              /\ OnlyTarget
         ELSE /\ Then(IF change.after = "absent" THEN "cleanup" ELSE "restore")
              /\ OnlyOp

RemoveQuarantined ==
    /\ op.pc = "discard"
    /\ Boxed([Box EXCEPT !.current = "absent"])
    /\ Then("finish")
    /\ OnlyBox

\* The quarantine could not be removed: the installed file is taken away
\* again, whatever it now is.
Uninstall ==
    /\ op.pc = "uninstall"
    /\ target' = "absent"
    /\ Then(IF target = "absent" THEN "cleanup" ELSE "restore")
    /\ OnlyTarget

RestoreQuarantinedRootFile ==
    /\ op.pc = "restore"
    /\ IF target = "absent"
         THEN target' = Box.current /\ Then("unlink") /\ OnlyTarget
         ELSE Then("cleanup") /\ OnlyOp

Unlink ==
    /\ op.pc = "unlink"
    /\ Boxed([Box EXCEPT !.current = "absent"])
    /\ Then("cleanup")
    /\ OnlyBox

\* After an error the replacement is removed, and the directory unless the
\* quarantine is still in it.
CleanUp ==
    /\ op.pc = "cleanup"
    /\ Boxed(IF Box.current = "absent"
               THEN NoBox ELSE [Box EXCEPT !.replacement = "absent"])
    /\ Then("failed")
    /\ OnlyBox

Finish ==
    /\ op.pc = "finish"
    /\ Boxed(NoBox)
    /\ Then("confirm")
    /\ OnlyBox

Confirm ==
    /\ op.pc = "confirm"
    /\ Then(IF target = change.before THEN "done" ELSE "failed")
    /\ OnlyOp

\* What a call does when the operation it is at fails.
OnError ==
    CASE op.pc = "write" -> "cleanup"
      [] op.pc = "quarantine" -> "cleanup"
      [] op.pc = "install" ->
           IF change.after = "absent" THEN "cleanup" ELSE "restore"
      [] op.pc = "discard" ->
           IF change.before = "absent" THEN "restore" ELSE "uninstall"
      [] op.pc \in {"uninstall", "restore", "unlink"} -> "cleanup"
      [] op.pc = "finish" /\ change.before # "absent" -> "cleanup"
      [] OTHER -> "failed"

\* An operation fails.  A rename that succeeds but cannot be made durable
\* leaves the file in quarantine.
OperationFails ==
    /\ op.pc \notin {"idle", "check", "cleanup", "failed", "done"}
    /\ faults < MaxFaults
    /\ faults' = faults + 1
    /\ \/ Then(OnError) /\ UNCHANGED <<target, box>>
       \/ /\ op.pc = "quarantine"
          /\ target = change.after
          /\ target # "absent"
          /\ Boxed([Box EXCEPT !.current = target])
          /\ target' = "absent"
          /\ Then("cleanup")
    /\ UNCHANGED <<change, edits, replaced>>

RevertFileStep ==
    \/ Check \/ Recover \/ Unquarantine \/ Clear \/ Verify
    \/ BeginExactRevertTransaction \/ WriteReplacement
    \/ QuarantineExactRootFile \/ InstallRootReplacement
    \/ RemoveQuarantined \/ Uninstall \/ RestoreQuarantinedRootFile
    \/ Unlink \/ CleanUp \/ Finish \/ Confirm \/ OperationFails

\* An editor, a tool or another connection writes or removes the file.
EditFile ==
    /\ edits < MaxEdits
    /\ edits' = edits + 1
    /\ target' \in (Edit \cup {"absent"}) \ {target}
    /\ replaced' = (replaced \cup ({target} \cap Edit)) \ {target'}
    /\ UNCHANGED <<change, box, op, faults>>

-----------------------------------------------------------------------------

\* Somebody's contents e are in the file or in a quarantine.
Kept(e) == target = e \/ \E k \in Key : box[k].current = e

\* Contents that somebody else wrote, at whatever moment of a revert, vanish
\* only once somebody else has replaced them; until then they are in the file
\* or in a quarantine.  The one exception is the roll-back of an installation
\* whose quarantine could not be removed, which removes the file unseen.
EditsSurvive ==
    [][\A e \in Edit :
         Kept(e) /\ ~Kept(e)' => e \in replaced' \/ op.pc = "uninstall"]_revertVars
=============================================================================
