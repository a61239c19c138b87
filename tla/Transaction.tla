---------------------------- MODULE Transaction ----------------------------
(***************************************************************************)
(* Transaction, TransactionScope and TransactionManager                    *)
(* (src/transaction.cpp): a list of actions that commit() executes in      *)
(* order, and that rollback() undoes in reverse when one of them fails or  *)
(* when the scope ends without a commit.                                   *)
(*                                                                         *)
(* An action's execute() and rollback() succeed or fail.  Undoing a        *)
(* message, a closed connection or a deallocation is reported as done and  *)
(* changes nothing: such an action is in Final.                            *)
(***************************************************************************)
EXTENDS Integers, Sequences, SequencesExt, FiniteSets

CONSTANTS TxActions,    \* the actions that may be added, each once
          Final         \* those of them whose rollback() cannot take effect

VARIABLES txState,      \* state_: "ACTIVE", "COMMITTED", "ROLLED_BACK"
          txPending,    \* actions_
          txExecuted,   \* executed_actions_
          txDoing,      \* what the thread is in: "idle", "commit", "rollback"
          txNext,       \* the next index of the loop it is in
          txScope,      \* TransactionScope: "open", "committed", "closed"
          txEffect,     \* what each action has done: "none", "done", "undone"
          txUndone,     \* history: the actions rolled back, in order
          txCommitted   \* history: the actions of the commit that succeeded

txVars == <<txState, txPending, txExecuted, txDoing, txNext, txScope, txEffect, txUndone, txCommitted>>

TxInit ==
  /\ txState = "ACTIVE" /\ txPending = <<>> /\ txExecuted = <<>>
  /\ txDoing = "idle" /\ txNext = 0 /\ txScope = "open"
  /\ txEffect = [a \in TxActions |-> "none"] /\ txUndone = <<>> /\ txCommitted = <<>>

(* add_action(): refused once the transaction is over. *)
AddAction(a) ==
  /\ txDoing = "idle" /\ txScope # "closed"
  /\ txState = "ACTIVE"
  /\ a \notin Range(txPending)
  /\ txPending' = Append(txPending, a)
  /\ UNCHANGED <<txState, txExecuted, txDoing, txNext, txScope, txEffect, txUndone, txCommitted>>

BeginCommit ==
  /\ txDoing = "idle" /\ txScope # "closed" /\ txState = "ACTIVE"
  /\ txDoing' = "commit" /\ txNext' = 1
  /\ UNCHANGED <<txState, txPending, txExecuted, txScope, txEffect, txUndone, txCommitted>>

(* Mutant of StartRollback: only the actions after the first are undone. *)
StartRollbackShort(executed) == txDoing' = "rollback" /\ txNext' = Len(executed) - 1

(* rollback(): from the last executed action to the first. *)
StartRollback(executed) == txDoing' = "rollback" /\ txNext' = Len(executed)

(* One action of commit(); a failure starts the rollback of those before it. *)
ExecuteAction ==
  /\ txDoing = "commit" /\ txNext <= Len(txPending)
  /\ LET a == txPending[txNext]
     IN  \/ /\ txEffect' = [txEffect EXCEPT ![a] = "done"]
            /\ txExecuted' = Append(txExecuted, a)
            /\ txNext' = txNext + 1
            /\ UNCHANGED txDoing
         \/ StartRollback(txExecuted) /\ UNCHANGED <<txEffect, txExecuted>>
  /\ UNCHANGED <<txState, txPending, txScope, txUndone, txCommitted>>

FinishCommit ==
  /\ txDoing = "commit" /\ txNext > Len(txPending)
  /\ txCommitted' = txPending
  /\ txPending' = <<>> /\ txState' = "COMMITTED" /\ txScope' = "committed"
  /\ txDoing' = "idle"
  /\ UNCHANGED <<txExecuted, txNext, txEffect, txUndone>>

(* rollback() called by the owner, also after a commit, or by the end of an uncommitted scope. *)
BeginRollback ==
  /\ txDoing = "idle"
  /\ txState # "ROLLED_BACK" /\ txScope # "closed"
  /\ StartRollback(txExecuted)
  /\ UNCHANGED <<txState, txPending, txExecuted, txScope, txEffect, txUndone, txCommitted>>

(* One action undone; a failure is remembered and the loop goes on. *)
UndoAction ==
  /\ txDoing = "rollback" /\ txNext > 0
  /\ LET a == txExecuted[txNext]
     IN  \E ok \in BOOLEAN :
           txEffect' = [txEffect EXCEPT ![a] = IF ok /\ a \notin Final THEN "undone" ELSE "done"]
  /\ txUndone' = Append(txUndone, txExecuted[txNext])
  /\ txNext' = txNext - 1
  /\ UNCHANGED <<txState, txPending, txExecuted, txDoing, txScope, txCommitted>>

FinishRollback ==
  /\ txDoing = "rollback" /\ txNext <= 0
  /\ txExecuted' = <<>> /\ txPending' = <<>> /\ txState' = "ROLLED_BACK"
  /\ txDoing' = "idle"
  /\ UNCHANGED <<txNext, txScope, txEffect, txUndone, txCommitted>>

(* ~TransactionScope(): an uncommitted transaction has to be rolled back first. *)
EndScope ==
  /\ txDoing = "idle" /\ txScope # "closed"
  /\ txScope = "committed" \/ txState = "ROLLED_BACK"
  /\ txScope' = "closed"
  /\ UNCHANGED <<txState, txPending, txExecuted, txDoing, txNext, txEffect, txUndone, txCommitted>>

TxNext ==
  \/ \E a \in TxActions : AddAction(a)
  \/ BeginCommit \/ ExecuteAction \/ FinishCommit
  \/ BeginRollback \/ UndoAction \/ FinishRollback \/ EndScope

-----------------------------------------------------------------------------
(***************************************************************************)
(* commit() and rollback(): a committed transaction has all its actions in *)
(* effect; a rolled-back one has tried to undo exactly what it executed,   *)
(* each action once and in reverse order, whether the failure came in the  *)
(* middle of the commit or the owner rolled back afterwards.               *)
(***************************************************************************)
AllOrNothing ==
  /\ txState = "COMMITTED" /\ txDoing = "idle" =>
       \A i \in DOMAIN txCommitted : txEffect[txCommitted[i]] = "done"
  /\ txState = "ROLLED_BACK" =>
       /\ \A a \in TxActions : txEffect[a] # "none" <=> a \in Range(txUndone)
       /\ IsInjective(txUndone)
  /\ txExecuted # <<>> => IsPrefix(txUndone, Reverse(txExecuted))
=============================================================================
