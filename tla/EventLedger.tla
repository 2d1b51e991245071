---------------------------- MODULE EventLedger ----------------------------
(***************************************************************************)
(* What run() promises about events, without its goroutines and channels:  *)
(* an event waits in dbtail, is handed to libclick, and is answered once;  *)
(* a retried event goes back to waiting.  No event appears from nowhere    *)
(* and none disappears.                                                    *)
(***************************************************************************)
EXTENDS Integers

VARIABLES waiting,   (* events read from the logfiles that dbtail holds *)
          out,       (* events handed to libclick whose response is not handled *)
          answered,  (* events with a final response *)
          dropped    (* events sampled out, or refused by libclick *)

ledgerVars == <<waiting, out, answered, dropped>>

LedgerInit == waiting \in Nat /\ out = 0 /\ answered = 0 /\ dropped = 0

Send == /\ waiting > 0
        /\ waiting' = waiting - 1 /\ out' = out + 1
        /\ UNCHANGED <<answered, dropped>>

Drop == /\ waiting > 0
        /\ waiting' = waiting - 1 /\ dropped' = dropped + 1
        /\ UNCHANGED <<out, answered>>

Answer == /\ out > 0
          /\ out' = out - 1 /\ answered' = answered + 1
          /\ UNCHANGED <<waiting, dropped>>

Retry == /\ out > 0
         /\ out' = out - 1 /\ waiting' = waiting + 1
         /\ UNCHANGED <<answered, dropped>>

LedgerNext == Send \/ Drop \/ Answer \/ Retry

LedgerSpec == LedgerInit /\ [][LedgerNext]_ledgerVars
=============================================================================
